CONSTANTS
  Nobody = Nobody
  Rules = {r1, r2}
  Hooked = {r1}
  Batches = {b1, b2}
  MaxDay = 2
  Limit = 1
  ManualDays = {}
  MayForce = {}
  MaxFaults = 0
SPECIFICATION FairSpec
CHECK_DEADLOCK FALSE
PROPERTIES EveryRuleRuns
