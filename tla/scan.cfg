SPECIFICATION DutiesSpec
CONSTANTS
  ann = ann
  ben = ben
  hal = hal
  Nobody = Nobody
  Null = Null
  Free = Free
  Count = 2
  People <- MCPeople
  Employees <- MCJustAnn
  Hr <- MCHr
  Executives <- MCNone
  Heads <- MCNone
  Managers <- MCNone
  DeptStaff <- MCJustAnn
  BossOf <- MCBossOf
  Tasks <- MCTasks
  Creator <- MCByPerson
  Blocks = {b1}
  Sessions = {s1, s2}
  Deadlines <- MCDueNow
  MaxNow = 1
  Ops = {"create", "scan", "staffing"}
  Clockers = {e1}
  Records = {r1, r2}
  Taps = {s1, s2}
  DayLength = 2
  LastTick = 4
  Empty = Empty
INVARIANTS
  OneOpenRecord
  SystemEndsAtMidnight
PROPERTIES
  EndedRecordsStand
  ForgottenRecordsEnd
  OverdueIsAnnounced
