SPECIFICATION Spec
CONSTANTS
  own = own
  pat = pat
  hire1 = hire1
  hire2 = hire2
  Folk <- MCFolk
  Owner = own
  Hires <- MCHires
  WorkEmail <- MCWorkEmail
  Units = {d1}
  Invites = {i1, i2}
  Desks = {s1, s2}
  Nothing = Nothing
  hq = hq
  annex = annex
  headName = headName
  otherName = otherName
  Depts = {hq, annex}
  Names = {headName, otherName}
  Seats = {p1, p2, p3}
  Suggestions = {i1, i2}
  Workers = {w1}
  MaxHierarchyDepth = 3
  Clerks = {s1, s2}
  Void = Void
  MaxPendingMissing = 1
  LastQuarter = 1
  first = first
  second = second
  sales = sales
  plant = plant
  growth = growth
  result = result
  other = other
  kpi = kpi
  aim = aim
  Items <- MCItems
  BatchOf <- MCBatchOf
  Needs <- MCNeeds
  Likes <- MCLikes
  Sharers <- MCSharers
  Clashers <- MCClashers
  KindOrder <- MCKindOrder
  Reviewers = {s1, s2}
  Unborn = Unborn
  Labels = {s1, s2, x1}
  OldDepts = {"ED1", "ED2"}
  OldSeats = {"EP1"}
  PlaceOf <- MCPlaceOf
  RoomOf <- MCRoomOf
  Proposals = {0, 1, 31}
  Shapes <- MCShapes
  MaxGroup = 3
  MaxReportingDepth = 3
  Absent = Absent
SYMMETRY Symmetry
CONSTRAINTS
  WithinPart
  UntilFirstRace
CHECK_DEADLOCK FALSE
INVARIANTS
  StructureTypeOK
  LoginsAreExclusive
  LeaversAreLockedOut
  NoReportingLoops
  NothingDangles
  ReviewsTakeEffectOnce
  SuggestionsDoNotRepeat
  ItemsBecomeRealOnce
  CapitalStaysAllocated
  BatchHangsTogether
