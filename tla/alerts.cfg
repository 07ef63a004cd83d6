SPECIFICATION LatenessSpec
CONSTANTS
  ann = ann
  ben = ben
  hal = hal
  Nobody = Nobody
  Null = Null
  Free = Free
  Count = 1
  People <- MCPeople
  Employees <- MCEmployees
  Hr <- MCHr
  Executives <- MCNone
  Heads <- MCNone
  Managers <- MCNone
  DeptStaff <- MCEmployees
  BossOf <- MCBossOf
  Tasks <- MCTasks
  Creator <- MCByWorkflow
  Blocks = {b1}
  Sessions = {s1, s2}
  Deadlines <- MCDueOrNone
  MaxNow = 2
  Ops = {"create", "update", "cancel", "block", "unblock", "approve", "reject", "scan"}
  Starts <- MCStarts
  Turnarounds <- MCTurnarounds
  WorkdayStartHour = 9
  WorkdayEndHour = 17
  Jobs = {t1}
  Holders = {h1, h2}
  DueDates <- MCDueDates
  QuarterLength = 2
  LastHour = 4
  Nights = {s1, s2}
  MaxChanges = 2
  MaxRuns = 3
  NoRow = NoRow
  Rows = {r1, r2, r3}
  Moments = {1, 2, 3}
  PageLimit = 2
  Readers = {j1}
  Vacant = Vacant
SYMMETRY LatenessSymmetry
CONSTRAINT UntilFirstRace
INVARIANTS
  LateRunsAgree
  TasksCountOnce
  DeadlineCountsWorkingHours
  EveryItemOnce
PROPERTIES
  AlertOnlyWhenLate
  FrozenFiguresStand
