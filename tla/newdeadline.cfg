SPECIFICATION Spec
CONSTANTS
  ann = ann
  ben = ben
  hal = hal
  Nobody = Nobody
  Null = Null
  Free = Free
  Count = 1
  People <- MCPeople
  Employees <- MCEmployees
  Hr <- MCHr
  Executives <- MCNone
  Heads <- MCNone
  Managers <- MCNone
  DeptStaff <- MCEmployees
  BossOf <- MCBossOf
  Tasks <- MCTasks
  Creator <- MCByPerson
  Blocks = {b1}
  Sessions = {s1, s2}
  Deadlines <- MCDueSoon
  MaxNow = 1
  Ops = {"create", "update", "scan"}
SYMMETRY Symmetry
INVARIANTS
  AlertIsForThisDeadline
