CONSTANTS
  Nobody = Nobody
  Rules = {r1, r2}
  Hooked = {r1}
  Batches = {b1, b2}
  MaxDay = 2
  Limit = 2
  ManualDays = {1, 2}
  MayForce = {TRUE, FALSE}
  MaxFaults = 1
SYMMETRY Interchangeable
SPECIFICATION Spec
INVARIANTS TypeOK DeliveredAtMostOnce DeliveryHasRun StatusIsBacked MarkedHasRun
