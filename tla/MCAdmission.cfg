CONSTANTS
  t1 = t1  t2 = t2  t3 = t3
  c1 = c1  local = local  w1 = w1  w2 = w2
  Workers = {w1, w2}
  Threads = {t1, t2, t3}
  WorkerOf <- ThreeThreads
  Clients = {c1, local}
  Loopback = {local}
  Families = {"prism", "research"}
  Pools = {"build", "chat", "bundle"}
  FamilyOf <- PoolFamily
  Cap <- Caps
  ClientCap = 1
  Exempting = {"bundle"}
  Validating = {"bundle"}
CHECK_DEADLOCK TRUE
SPECIFICATION FairSpec
INVARIANTS TypeOK ClientsCounted SlotsConserved ClientExclusive
PROPERTIES RefusalsAreHonest KeepsPromise Answered CapacityRecovers
