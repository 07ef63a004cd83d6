SPECIFICATION Spec
CONSTANTS
  draft = draft
  review = review
  Cases = {k1}
  Steps = {draft, review, extra}
  FirstSteps <- MCFirstSteps
  MaxTasks = 3
  Sessions = {s1, s2}
  Template = Template
  Free = Free
  Null = Null
  Ops = {"start", "end_task", "delete_template"}
SYMMETRY Symmetry
INVARIANTS RunningCaseHasTemplate
