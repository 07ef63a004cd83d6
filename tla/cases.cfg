SPECIFICATION RulesSpec
CONSTANTS
  draft = draft
  review = review
  Cases = {k1}
  Steps = {draft, review, extra}
  FirstSteps <- MCFirstSteps
  MaxTasks = 3
  Sessions = {s1, s2}
  Template = Template
  Free = Free
  Null = Null
  Ops = {"start", "end_task", "cancel_case", "add_step", "reorder_steps", "delete_step", "delete_template", "archive", "unarchive"}
  Kpi = {m1, m2}
  Grain = 2
  Weights <- MCWeights
  Repeats <- MCRepeats
  Whole = 2
  Figures = {i1, i2}
  Amounts = {a1}
  LastDay = 1
  Planners = {s1, s2}
  Unset = Unset
  Okrs = {o1, o2}
  KeyResults = {i1, i2}
  Measures = {m1, m2}
  Strategists = {s1, s2}
  Missing = Missing
  DnaFields = {"vision", "mission"}
  OrgFields = {"name"}
  Texts = {"a", "b"}
  Forms <- MCForms
  CoreValues = {c1}
  Editors = {s1, s2}
  Unwritten = Unwritten
  Removed = Removed
  d1 = d1
  d2 = d2
  g1 = g1
  g2 = g2
  g3 = g3
  Members = {1, 2}
  Teams = {d1, d2}
  Goals = {g1, g2, g3}
  TeamOf <- MCTeamOf
  Overseers = {0}
  TeamManagers = {2}
  FirstCounts <- MCFirstCounts
  Tallies <- MCTallies
  GoalWeights = {0, 60}
  Results = {9000}
  MinValidTasks = 2
  HowManyListed = 1
  MaxEdits = 2
  NoData = NoData
SYMMETRY RulesSymmetry
CONSTRAINT UntilFirstRace
INVARIANTS
  RulesTypeOK
  OneTaskWhileRunning
  StepsAreNumbered
  OpenTaskKeepsItsStep
  KpisMeasureSomething
  PagesAgree
PROPERTIES
  NoStepIsPassedOver
  CasesKeepTheirPromise
  WeightsFit
  PastFiguresStand
  AcceptedSavesShow
