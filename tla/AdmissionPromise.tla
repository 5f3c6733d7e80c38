--------------------------- MODULE AdmissionPromise ---------------------------
(***************************************************************************)
(* What admission control promises its upstreams, without counters, locks  *)
(* or release code: a request starts running in a worker only if the pool  *)
(* has room there and, when its caller has a key, the caller has nothing   *)
(* else running in that family of routes.                                  *)
(***************************************************************************)
EXTENDS Integers, FiniteSets

CONSTANTS Workers, Threads, WorkerOf, Clients, Loopback, Pools, FamilyOf,
          Cap, ClientCap, Exempting

None == [client |-> "none", pool |-> "none"]

VARIABLE running   \* the request each thread is building for, or None

Init == running = [t \in Threads |-> None]

Busy(w) == {t \in Threads : WorkerOf[t] = w /\ running[t] # None}

Keyless(r) == r.pool \in Exempting /\ r.client \in Loopback

SamePool(t, r) == {u \in Busy(WorkerOf[t]) : running[u].pool = r.pool}

SameClient(t, r) ==
  {u \in Busy(WorkerOf[t]) : /\ ~Keyless(running[u])
                             /\ running[u].client = r.client
                             /\ FamilyOf[running[u].pool] = FamilyOf[r.pool]}

Start(t, r) ==
  /\ running[t] = None
  /\ Cardinality(SamePool(t, r)) < Cap[r.pool]
  /\ ~Keyless(r) => Cardinality(SameClient(t, r)) < ClientCap
  /\ running' = [running EXCEPT ![t] = r]

Stop(t) ==
  /\ running[t] # None
  /\ running' = [running EXCEPT ![t] = None]

Restart(w) ==
  running' = [t \in Threads |-> IF WorkerOf[t] = w THEN None ELSE running[t]]

Next ==
  \/ \E t \in Threads :
       \/ \E r \in [client : Clients, pool : Pools] : Start(t, r)
       \/ Stop(t)
  \/ \E w \in Workers : Restart(w)

Spec == Init /\ [][Next]_running
=============================================================================
