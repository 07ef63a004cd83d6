SPECIFICATION FairSpec
CONSTANTS
  ann = ann
  ben = ben
  hal = hal
  Nobody = Nobody
  Null = Null
  Free = Free
  Count = 1
  People <- MCPeople
  Employees <- MCEmployees
  Hr <- MCHr
  Executives <- MCNone
  Heads <- MCNone
  Managers <- MCNone
  DeptStaff <- MCEmployees
  BossOf <- MCBossOf
  Tasks <- MCTasks
  Creator <- MCByWorkflow
  Blocks = {b1}
  Sessions = {s1, s2}
  Deadlines <- MCDueLater
  MaxNow = 0
  Ops = {"create", "reassign", "scan", "staffing", "block", "unblock", "update", "cancel"}
PROPERTIES
  OrphansAreHandedOver
