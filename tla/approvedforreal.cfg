SPECIFICATION BlueprintSpec
CONSTANTS
  first = first
  second = second
  sales = sales
  plant = plant
  growth = growth
  result = result
  other = other
  kpi = kpi
  aim = aim
  Items <- MCItems
  BatchOf <- MCBatchOf
  Needs <- MCNeeds
  Likes <- MCLikes
  Sharers <- MCSharers
  Clashers <- MCClashers
  KindOrder <- MCKindOrder
  Reviewers = {v1, v2}
  Unborn = Unborn
CHECK_DEADLOCK FALSE
INVARIANTS
  ApprovedItemsAreReal
