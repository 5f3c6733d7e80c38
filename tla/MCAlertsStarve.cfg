CONSTANTS
  Nobody = Nobody
  Rules = {r1, r2}
  Hooked = {r1}
  Batches = {b1, b2}
  MaxDay = 1
  Limit = 2
  ManualDays = {}
  MayForce = {}
  MaxFaults = 1
SPECIFICATION FairSpec
CHECK_DEADLOCK FALSE
PROPERTIES EveryRuleRuns
