--------------------------- MODULE AdmissionProofs ---------------------------
(***************************************************************************)
(* Admission control is correct for any number of workers, threads,        *)
(* clients and pools.  The counters are shown to equal the cardinality of  *)
(* the sets of threads they stand for (IInv); the bounds, the honesty of   *)
(* refusals and the refinement of AdmissionPromise follow from that.       *)
(***************************************************************************)
EXTENDS Admission, FiniteSetTheorems, TLAPS

IInv == TypeOK /\ ClientsCounted /\ SlotsConserved

(* Sets of threads are finite, so that their cardinality counts.           *)
LEMMA ThreadSets ==
  ASSUME NEW S, S \subseteq Threads
  PROVE  IsFiniteSet(S) /\ Cardinality(S) \in Nat
PROOF BY AdmissionAssumption, FS_Subset, FS_CardinalityType

LEMMA AddThread ==
  ASSUME NEW S, S \subseteq Threads, NEW t \in Threads \ S
  PROVE  Cardinality(S \cup {t}) = Cardinality(S) + 1
PROOF BY ThreadSets, FS_AddElement

LEMMA RemoveThread ==
  ASSUME NEW S, S \subseteq Threads, NEW t \in S
  PROVE  /\ Cardinality(S \ {t}) = Cardinality(S) - 1
         /\ Cardinality(S) >= 1
<1>1. IsFiniteSet(S) /\ Cardinality(S) \in Nat
  BY ThreadSets
<1>2. Cardinality(S \ {t}) = Cardinality(S) - 1
  BY <1>1, FS_RemoveElement
<1>3. Cardinality(S) # 0
  BY <1>1, FS_EmptySet
<1> QED BY <1>1, <1>2, <1>3

(* The dict keys and semaphores an arrived request refers to exist.        *)
LEMMA KeysExist ==
  ASSUME TypeOK, NEW t \in Threads, pc[t] # "idle"
  PROVE  /\ ClientEntry(t) \in Workers \X Families \X Clients
         /\ Slot(t) \in Workers \X Pools
         /\ req[t] \in Requests
PROOF BY AdmissionAssumption DEF TypeOK, ClientEntry, Slot, Requests

LEMMA HolderSets ==
  /\ \A k : Holders(k) \subseteq Threads
  /\ \A s : Building(s) \subseteq Threads
PROOF BY DEF Holders, Building

-----------------------------------------------------------------------------
LEMMA InitIInv == Init => IInv
<1> SUFFICES ASSUME Init PROVE IInv
  OBVIOUS
<1>1. TypeOK
  BY AdmissionAssumption DEF Init, TypeOK
<1>2. \A k : Holders(k) = {}
  BY DEF Init, Holders, Holding
<1>3. \A s : Building(s) = {}
  BY DEF Init, Building
<1>4. ClientsCounted
  BY <1>2, FS_EmptySet DEF Init, ClientsCounted
<1>5. SlotsConserved
  <2> SUFFICES ASSUME NEW s \in Workers \X Pools
               PROVE  free[s] + Cardinality(Building(s)) = Cap[s[2]]
    BY DEF SlotsConserved
  <2>1. free[s] = Cap[s[2]] /\ Cap[s[2]] \in Nat
    BY AdmissionAssumption DEF Init
  <2>2. Cardinality(Building(s)) = 0
    BY <1>3, FS_EmptySet
  <2> QED BY <2>1, <2>2
<1> QED BY <1>1, <1>4, <1>5 DEF IInv

(* Steps that move no thread in or out of a client's entry.                *)
LEMMA ClientsUntouched ==
  ASSUME ClientsCounted, active' = active,
         \A k \in Workers \X Families \X Clients : Holders(k)' = Holders(k)
  PROVE  ClientsCounted'
PROOF BY DEF ClientsCounted

(* Steps that move no thread in or out of a slot.                          *)
LEMMA SlotsUntouched ==
  ASSUME SlotsConserved, free' = free,
         \A s \in Workers \X Pools : Building(s)' = Building(s)
  PROVE  SlotsConserved'
PROOF BY DEF SlotsConserved

(* Where a thread's step may leave the bookkeeping of the others alone.    *)
LEMMA OthersStay ==
  ASSUME NEW t \in Threads, NEW label,
         TypeOK, Goto(t, label),
         \A u \in Threads \ {t} : req'[u] = req[u]
  PROVE  /\ \A k : Holders(k)' \ {t} = Holders(k) \ {t}
         /\ \A s : Building(s)' \ {t} = Building(s) \ {t}
PROOF BY DEF TypeOK, Goto, Holders, Building, Keyed, ClientEntry, Slot

(* Steps of t by which it neither enters nor leaves a dict entry, and      *)
(* neither takes nor releases a slot.                                      *)
LEMMA SameHolders ==
  ASSUME NEW t \in Threads, NEW label, TypeOK, Goto(t, label),
         \A u \in Threads \ {t} : req'[u] = req[u],
         pc[t] \in Holding <=> label \in Holding,
         label \in Holding => req'[t] = req[t]
  PROVE  \A k : Holders(k)' = Holders(k)
PROOF BY DEF TypeOK, Goto, Holders, Keyed, ClientEntry

LEMMA SameBuilding ==
  ASSUME NEW t \in Threads, NEW label, TypeOK, Goto(t, label),
         \A u \in Threads \ {t} : req'[u] = req[u],
         pc[t] # "building", label # "building"
  PROVE  \A s : Building(s)' = Building(s)
PROOF BY DEF TypeOK, Goto, Building, Slot

LEMMA ArriveStep ==
  ASSUME IInv, NEW t \in Threads, NEW r \in Requests, Arrive(t, r)
  PROVE  IInv'
<1> USE DEF IInv
<1>1. TypeOK'
  BY DEF TypeOK, Arrive, Goto, Holding
<1>2. Goto(t, "arrived") /\ \A u \in Threads \ {t} : req'[u] = req[u]
  BY DEF Arrive, TypeOK
<1>3. ClientsCounted'
  BY <1>2, SameHolders, ClientsUntouched DEF Arrive, Holding
<1>4. SlotsConserved'
  BY <1>2, SameBuilding, SlotsUntouched DEF Arrive
<1> QED BY <1>1, <1>3, <1>4

LEMMA RefuseClientStep ==
  ASSUME IInv, NEW t \in Threads, RefuseClient(t)
  PROVE  IInv'
<1> USE DEF IInv
<1>1. TypeOK'
  BY DEF TypeOK, RefuseClient, Goto, Holding
<1>2. Goto(t, "idle") /\ \A u \in Threads \ {t} : req'[u] = req[u]
  BY DEF RefuseClient, TypeOK
<1>3. ClientsCounted'
  BY <1>2, SameHolders, ClientsUntouched DEF RefuseClient, Holding
<1>4. SlotsConserved'
  BY <1>2, SameBuilding, SlotsUntouched DEF RefuseClient
<1> QED BY <1>1, <1>3, <1>4

LEMMA AdmitClientStep ==
  ASSUME IInv, NEW t \in Threads, AdmitClient(t)
  PROVE  IInv'
<1> USE DEF IInv
<1>1. PICK e \in Workers \X Families \X Clients : e = ClientEntry(t)
  BY KeysExist DEF AdmitClient
<1>2. TypeOK'
  BY <1>1 DEF TypeOK, AdmitClient, Goto, Holding
<1>3. Goto(t, "admitted") /\ req' = req
  BY DEF AdmitClient
<1>4. SlotsConserved'
  BY <1>3, SameBuilding, SlotsUntouched DEF AdmitClient
<1>5. CASE ~Keyed(req[t])
  <2>1. \A k : Holders(k)' = Holders(k)
    BY <1>1, <1>3, <1>5 DEF TypeOK, AdmitClient, Goto, Holders, Holding, Keyed, ClientEntry
  <2> QED BY <1>2, <1>4, <1>5, <2>1, ClientsUntouched DEF AdmitClient
<1>6. CASE Keyed(req[t])
  <2>1. t \notin Holders(e)
    BY <1>1 DEF AdmitClient, Holders, Holding
  <2>2. Holders(e)' = Holders(e) \cup {t}
    BY <1>1, <1>3, <1>6 DEF TypeOK, Goto, Holders, Holding, Keyed, ClientEntry
  <2>3. \A k : k # e => Holders(k)' = Holders(k)
    BY <1>1, <1>3, <2>1 DEF TypeOK, AdmitClient, Goto, Holders, Holding, Keyed, ClientEntry
  <2>4. Cardinality(Holders(e)') = Cardinality(Holders(e)) + 1
    BY <2>1, <2>2, HolderSets, AddThread
  <2>5. active' = [active EXCEPT ![e] = @ + 1]
    BY <1>1, <1>6 DEF AdmitClient
  <2>6. SUFFICES ASSUME NEW k \in Workers \X Families \X Clients
                 PROVE  active'[k] = Cardinality(Holders(k)')
    BY <1>2, <1>4 DEF ClientsCounted
  <2>7. active[k] = Cardinality(Holders(k)) /\ active \in [Workers \X Families \X Clients -> Nat]
    BY DEF ClientsCounted, TypeOK
  <2>8. CASE k = e
    BY <2>4, <2>5, <2>7, <2>8
  <2>9. CASE k # e
    BY <2>3, <2>5, <2>7, <2>9
  <2> QED BY <2>8, <2>9
<1> QED BY <1>5, <1>6

LEMMA RejectTickerStep ==
  ASSUME IInv, NEW t \in Threads, RejectTicker(t)
  PROVE  IInv'
<1> USE DEF IInv
<1>1. TypeOK'
  BY DEF TypeOK, RejectTicker, Goto, Holding
<1>2. Goto(t, "leaving") /\ req' = req
  BY DEF RejectTicker
<1>3. ClientsCounted'
  BY <1>2, SameHolders, ClientsUntouched DEF RejectTicker, Holding
<1>4. SlotsConserved'
  BY <1>2, SameBuilding, SlotsUntouched DEF RejectTicker
<1> QED BY <1>1, <1>3, <1>4

LEMMA RefuseBusyStep ==
  ASSUME IInv, NEW t \in Threads, RefuseBusy(t)
  PROVE  IInv'
<1> USE DEF IInv
<1>1. TypeOK'
  BY DEF TypeOK, RefuseBusy, Goto, Holding
<1>2. Goto(t, "refused") /\ req' = req
  BY DEF RefuseBusy
<1>3. ClientsCounted'
  BY <1>2, SameHolders, ClientsUntouched DEF RefuseBusy, Holding
<1>4. SlotsConserved'
  BY <1>2, SameBuilding, SlotsUntouched DEF RefuseBusy
<1> QED BY <1>1, <1>3, <1>4

LEMMA TakeSlotStep ==
  ASSUME IInv, NEW t \in Threads, TakeSlot(t)
  PROVE  IInv'
<1> USE DEF IInv
<1>1. PICK e \in Workers \X Pools : e = Slot(t)
  BY KeysExist DEF TakeSlot
<1>2. TypeOK'
  BY <1>1 DEF TypeOK, TakeSlot, Goto, Holding
<1>3. Goto(t, "building") /\ req' = req /\ pc[t] = "admitted"
  BY DEF TakeSlot
<1>4. ClientsCounted'
  BY <1>3, SameHolders, ClientsUntouched DEF TakeSlot, Holding
<1>5. t \notin Building(e)
  BY <1>1, <1>3 DEF Building
<1>6. Building(e)' = Building(e) \cup {t}
  BY <1>1, <1>3 DEF TypeOK, Goto, Building, Slot
<1>7. \A s : s # e => Building(s)' = Building(s)
  BY <1>1, <1>3 DEF TypeOK, Goto, Building, Slot
<1>8. Cardinality(Building(e)') = Cardinality(Building(e)) + 1
  BY <1>5, <1>6, HolderSets, AddThread
<1>9. SlotsConserved'
  <2> SUFFICES ASSUME NEW s \in Workers \X Pools
               PROVE  free'[s] + Cardinality(Building(s)') = Cap[s[2]]
    BY DEF SlotsConserved
  <2>1. free[s] + Cardinality(Building(s)) = Cap[s[2]] /\ Cardinality(Building(s)) \in Nat
    BY HolderSets, ThreadSets DEF SlotsConserved
  <2>2. free' = [free EXCEPT ![e] = @ - 1] /\ free \in [Workers \X Pools -> Nat]
    BY <1>1 DEF TakeSlot, TypeOK
  <2>3. CASE s = e
    BY <1>8, <2>1, <2>2, <2>3
  <2>4. CASE s # e
    BY <1>7, <2>1, <2>2, <2>4
  <2> QED BY <2>3, <2>4
<1> QED BY <1>2, <1>4, <1>9

LEMMA FinishStep ==
  ASSUME IInv, NEW t \in Threads, Finish(t)
  PROVE  IInv'
<1> USE DEF IInv
<1>1. PICK e \in Workers \X Pools : e = Slot(t)
  BY KeysExist DEF Finish
<1>2. TypeOK'
  BY <1>1 DEF TypeOK, Finish, Goto, Holding
<1>3. Goto(t, "leaving") /\ req' = req /\ pc[t] = "building"
  BY DEF Finish
<1>4. ClientsCounted'
  BY <1>3, SameHolders, ClientsUntouched DEF Finish, Holding
<1>5. t \in Building(e)
  BY <1>1, <1>3 DEF Building
<1>6. Building(e)' = Building(e) \ {t}
  BY <1>1, <1>3 DEF TypeOK, Goto, Building, Slot
<1>7. \A s : s # e => Building(s)' = Building(s)
  BY <1>1, <1>3 DEF TypeOK, Goto, Building, Slot
<1>8. Cardinality(Building(e)') = Cardinality(Building(e)) - 1
  BY <1>5, <1>6, HolderSets, RemoveThread
<1>9. SlotsConserved'
  <2> SUFFICES ASSUME NEW s \in Workers \X Pools
               PROVE  free'[s] + Cardinality(Building(s)') = Cap[s[2]]
    BY DEF SlotsConserved
  <2>1. free[s] + Cardinality(Building(s)) = Cap[s[2]] /\ Cardinality(Building(s)) \in Nat
    BY HolderSets, ThreadSets DEF SlotsConserved
  <2>2. free' = [free EXCEPT ![e] = @ + 1] /\ free \in [Workers \X Pools -> Nat]
    BY <1>1 DEF Finish, TypeOK
  <2>3. CASE s = e
    BY <1>8, <2>1, <2>2, <2>3
  <2>4. CASE s # e
    BY <1>7, <2>1, <2>2, <2>4
  <2> QED BY <2>3, <2>4
<1> QED BY <1>2, <1>4, <1>9

LEMMA LeaveStep ==
  ASSUME IInv, NEW t \in Threads, Leave(t)
  PROVE  IInv'
<1> USE DEF IInv
<1>1. PICK e \in Workers \X Families \X Clients : e = ClientEntry(t)
  BY KeysExist DEF Leave
<1>2. TypeOK'
  BY <1>1 DEF TypeOK, Leave, Goto, Holding
<1>3. /\ Goto(t, "idle") /\ pc[t] \in {"refused", "leaving"}
      /\ \A u \in Threads \ {t} : req'[u] = req[u]
  BY DEF Leave, TypeOK
<1>4. SlotsConserved'
  BY <1>3, SameBuilding, SlotsUntouched DEF Leave
<1>5. CASE ~Keyed(req[t])
  <2>1. \A k : Holders(k)' = Holders(k)
    BY <1>1, <1>3, <1>5 DEF TypeOK, Goto, Holders, Holding, Keyed, ClientEntry
  <2> QED BY <1>2, <1>4, <1>5, <2>1, ClientsUntouched DEF Leave
<1>6. CASE Keyed(req[t])
  <2>1. t \in Holders(e)
    BY <1>1, <1>3, <1>6 DEF Holders, Holding
  <2>2. Holders(e)' = Holders(e) \ {t}
    BY <1>1, <1>3 DEF TypeOK, Goto, Holders, Holding, Keyed, ClientEntry
  <2>3. \A k : k # e => Holders(k)' = Holders(k)
    BY <1>1, <1>3 DEF TypeOK, Goto, Holders, Holding, Keyed, ClientEntry
  <2>4. /\ Cardinality(Holders(e)') = Cardinality(Holders(e)) - 1
        /\ Cardinality(Holders(e)) >= 1
    BY <2>1, <2>2, HolderSets, RemoveThread
  <2>5. active' = [active EXCEPT ![e] = IF @ <= 1 THEN 0 ELSE @ - 1]
    BY <1>1, <1>6 DEF Leave
  <2>6. SUFFICES ASSUME NEW k \in Workers \X Families \X Clients
                 PROVE  active'[k] = Cardinality(Holders(k)')
    BY <1>2, <1>4 DEF ClientsCounted
  <2>7. active[k] = Cardinality(Holders(k)) /\ active \in [Workers \X Families \X Clients -> Nat]
    BY DEF ClientsCounted, TypeOK
  <2>8. CASE k = e
    BY <2>4, <2>5, <2>7, <2>8
  <2>9. CASE k # e
    BY <2>3, <2>5, <2>7, <2>9
  <2> QED BY <2>8, <2>9
<1> QED BY <1>5, <1>6

LEMMA RestartPreserves ==
  ASSUME IInv, NEW w \in Workers, Restart(w)
  PROVE  IInv'
<1> USE DEF IInv
<1>1. TypeOK'
  BY AdmissionAssumption DEF TypeOK, Restart
<1>2. ClientsCounted'
  <2> SUFFICES ASSUME NEW k \in Workers \X Families \X Clients
               PROVE  active'[k] = Cardinality(Holders(k)')
    BY DEF ClientsCounted
  <2>1. CASE k[1] = w
    <3>1. Holders(k)' = {}
      BY <2>1 DEF Restart, Holders, Holding, ClientEntry
    <3> QED BY <2>1, <3>1, FS_EmptySet DEF Restart
  <2>2. CASE k[1] # w
    <3>1. Holders(k)' = Holders(k)
      BY <2>2 DEF Restart, Holders, Holding, ClientEntry, Keyed
    <3> QED BY <2>2, <3>1 DEF Restart, ClientsCounted
  <2> QED BY <2>1, <2>2
<1>3. SlotsConserved'
  <2> SUFFICES ASSUME NEW s \in Workers \X Pools
               PROVE  free'[s] + Cardinality(Building(s)') = Cap[s[2]]
    BY DEF SlotsConserved
  <2>1. CASE s[1] = w
    <3>1. Building(s)' = {}
      BY <2>1 DEF Restart, Building, Slot
    <3>2. Cardinality(Building(s)') = 0
      BY <3>1, FS_EmptySet
    <3>3. free'[s] = Cap[s[2]] /\ Cap[s[2]] \in Nat
      BY <2>1, AdmissionAssumption DEF Restart
    <3> QED BY <3>2, <3>3
  <2>2. CASE s[1] # w
    <3>1. Building(s)' = Building(s)
      BY <2>2 DEF Restart, Building, Slot
    <3> QED BY <2>2, <3>1 DEF Restart, SlotsConserved
  <2> QED BY <2>1, <2>2
<1> QED BY <1>1, <1>2, <1>3

THEOREM NextIInv == ASSUME IInv, [Next]_vars PROVE IInv'
<1>1. CASE UNCHANGED vars
  BY <1>1 DEF IInv, TypeOK, ClientsCounted, SlotsConserved, Holders, Building,
              Keyed, ClientEntry, Slot, vars
<1>2. ASSUME NEW t \in Threads, NEW r \in Requests, Arrive(t, r) PROVE IInv'
  BY <1>2, ArriveStep
<1>3. ASSUME NEW t \in Threads, Handle(t) PROVE IInv'
  BY <1>3, RefuseClientStep, AdmitClientStep, RejectTickerStep, RefuseBusyStep,
     TakeSlotStep, FinishStep, LeaveStep DEF Handle
<1>4. ASSUME NEW w \in Workers, Restart(w) PROVE IInv'
  BY <1>4, RestartPreserves
<1> QED BY <1>1, <1>2, <1>3, <1>4 DEF Next

(* Counters and the sets they count agree in every reachable state.        *)
THEOREM CountersCorrect == Spec => []IInv
<1>1. IInv /\ [Next]_vars => IInv'
  BY NextIInv
<1> QED BY InitIInv, <1>1, PTL DEF Spec

(* The state stays well typed: no counter leaves the naturals.             *)
THEOREM TypeCorrect == Spec => []TypeOK
<1>1. IInv => TypeOK
  BY DEF IInv
<1> QED BY CountersCorrect, <1>1, PTL

(* No exit path leaks or doubles a client's entry.                         *)
THEOREM ClientsAlwaysCounted == Spec => []ClientsCounted
<1>1. IInv => ClientsCounted
  BY DEF IInv
<1> QED BY CountersCorrect, <1>1, PTL

(* No slot is lost and no semaphore is released above its bound.           *)
THEOREM SlotsAlwaysConserved == Spec => []SlotsConserved
<1>1. IInv => SlotsConserved
  BY DEF IInv
<1> QED BY CountersCorrect, <1>1, PTL

-----------------------------------------------------------------------------
ActiveBounded ==
  \A k \in Workers \X Families \X Clients : active[k] <= ClientCap

LEMMA NextActiveBounded ==
  ASSUME TypeOK, ActiveBounded, [Next]_vars PROVE ActiveBounded'
<1> USE AdmissionAssumption
<1>1. CASE active' = active
  BY <1>1 DEF ActiveBounded
<1>2. ASSUME NEW t \in Threads, AdmitClient(t) PROVE ActiveBounded'
  <2>1. CASE Keyed(req[t])
    BY <1>2, <2>1, KeysExist DEF AdmitClient, ActiveBounded, TypeOK
  <2>2. CASE ~Keyed(req[t])
    BY <1>1, <1>2, <2>2 DEF AdmitClient
  <2> QED BY <2>1, <2>2
<1>3. ASSUME NEW t \in Threads, Leave(t) PROVE ActiveBounded'
  <2>1. CASE Keyed(req[t])
    BY <1>3, <2>1, KeysExist DEF Leave, ActiveBounded, TypeOK
  <2>2. CASE ~Keyed(req[t])
    BY <1>1, <1>3, <2>2 DEF Leave
  <2> QED BY <2>1, <2>2
<1>4. ASSUME NEW w \in Workers, Restart(w) PROVE ActiveBounded'
  BY <1>4 DEF Restart, ActiveBounded, TypeOK
<1> QED BY <1>1, <1>2, <1>3, <1>4
        DEF Next, Handle, vars, Arrive, RefuseClient, RejectTicker, RefuseBusy,
            TakeSlot, Finish

LEMMA ExclusiveStep == ASSUME IInv, ActiveBounded PROVE ClientExclusive
PROOF BY DEF IInv, ClientsCounted, ActiveBounded, ClientExclusive

LEMMA BoundedAlways == Spec => []ActiveBounded
<1>1. Init => ActiveBounded
  BY AdmissionAssumption DEF Init, ActiveBounded
<1>2. TypeOK /\ ActiveBounded /\ [Next]_vars => ActiveBounded'
  BY NextActiveBounded
<1> QED BY <1>1, <1>2, TypeCorrect, PTL DEF Spec

(* One client has at most one request past admission per worker and family *)
(* of routes, whatever mix of builds and chats it sends.                   *)
THEOREM ClientsExclusive == Spec => []ClientExclusive
<1>1. IInv /\ ActiveBounded => ClientExclusive
  BY ExclusiveStep
<1> QED BY CountersCorrect, BoundedAlways, <1>1, PTL

-----------------------------------------------------------------------------
(* The only steps that answer 429 or 503 are those of the thread itself.   *)
LEMMA WhoLimits ==
  ASSUME TypeOK, Next, NEW t \in Threads, Limited(t), ~RestartStep(WorkerOf[t])
  PROVE  RefuseClient(t)
<1>1. ASSUME NEW u \in Threads, NEW r \in Requests, Arrive(u, r) PROVE FALSE
  BY <1>1 DEF Arrive, Goto, Limited, TypeOK
<1>2. ASSUME NEW u \in Threads, Handle(u) PROVE u = t
  BY <1>2 DEF Handle, RefuseClient, AdmitClient, RejectTicker, RefuseBusy,
              TakeSlot, Finish, Leave, Goto, Limited, TypeOK
<1>3. Handle(t) => RefuseClient(t)
  BY DEF Handle, AdmitClient, RejectTicker, RefuseBusy, TakeSlot, Finish,
         Leave, Goto, Limited, TypeOK
<1>4. ASSUME NEW w \in Workers, Restart(w) PROVE FALSE
  BY <1>4 DEF Restart, RestartStep, Limited, TypeOK
<1> QED BY <1>1, <1>2, <1>3, <1>4 DEF Next

LEMMA WhoIsBusy ==
  ASSUME TypeOK, Next, NEW t \in Threads, pc[t] = "admitted", pc'[t] = "refused"
  PROVE  RefuseBusy(t)
<1>1. ASSUME NEW u \in Threads, NEW r \in Requests, Arrive(u, r) PROVE FALSE
  BY <1>1 DEF Arrive, Goto, TypeOK
<1>2. ASSUME NEW u \in Threads, Handle(u) PROVE u = t
  BY <1>2 DEF Handle, RefuseClient, AdmitClient, RejectTicker, RefuseBusy,
              TakeSlot, Finish, Leave, Goto, TypeOK
<1>3. Handle(t) => RefuseBusy(t)
  BY DEF Handle, RefuseClient, AdmitClient, RejectTicker, TakeSlot, Finish,
         Leave, Goto, TypeOK
<1>4. ASSUME NEW w \in Workers, Restart(w) PROVE FALSE
  BY <1>4 DEF Restart, TypeOK
<1> QED BY <1>1, <1>2, <1>3, <1>4 DEF Next

LEMMA HonestNext ==
  ASSUME IInv, ActiveBounded, [Next]_vars PROVE [HonestStep]_vars
<1> SUFFICES ASSUME Next PROVE HonestStep
  OBVIOUS
<1> USE AdmissionAssumption DEF IInv
<1>1. ASSUME NEW t \in Threads, Limited(t), ~RestartStep(WorkerOf[t])
      PROVE  Cardinality(Holders(ClientEntry(t))) = ClientCap
  <2>1. RefuseClient(t) /\ pc[t] = "arrived"
    BY <1>1, WhoLimits DEF Limited
  <2>2. PICK k \in Workers \X Families \X Clients : k = ClientEntry(t)
    BY <2>1, KeysExist
  <2>3. active[k] \in Nat /\ active[k] <= ClientCap
    BY DEF ActiveBounded, TypeOK
  <2>4. active[k] >= ClientCap
    BY <2>1, <2>2 DEF RefuseClient
  <2> QED BY <2>2, <2>3, <2>4 DEF ClientsCounted
<1>2. ASSUME NEW t \in Threads, pc[t] = "admitted", pc'[t] = "refused"
      PROVE  Cardinality(Building(Slot(t))) = Cap[req[t].pool]
  <2>1. RefuseBusy(t)
    BY <1>2, WhoIsBusy
  <2>2. Slot(t) \in Workers \X Pools /\ Slot(t)[2] = req[t].pool
    BY <1>2, KeysExist DEF Slot
  <2>3. Cardinality(Building(Slot(t))) \in Nat
    BY HolderSets, ThreadSets
  <2>4. free[Slot(t)] + Cardinality(Building(Slot(t))) = Cap[req[t].pool]
    BY <2>2 DEF SlotsConserved
  <2> QED BY <2>1, <2>3, <2>4 DEF RefuseBusy
<1> QED BY <1>1, <1>2 DEF HonestStep

(* A 429 or a 503 is given only when the limit it names is reached.        *)
THEOREM HonestRefusals == Spec => RefusalsAreHonest
<1>1. IInv /\ ActiveBounded /\ [Next]_vars => [HonestStep]_vars
  BY HonestNext
<1> QED BY CountersCorrect, BoundedAlways, <1>1, PTL DEF Spec, RefusalsAreHonest

-----------------------------------------------------------------------------
(* The refinement of AdmissionPromise.                                     *)
LEMMA SameCardinality == ASSUME NEW S PROVE Promise!Cardinality(S) = Cardinality(S)
PROOF BY DEF Promise!Cardinality, Cardinality

LEMMA StartAllowed ==
  ASSUME IInv, ActiveBounded, NEW t \in Threads, TakeSlot(t)
  PROVE  Promise!Start(t, req[t])
<1> USE AdmissionAssumption DEF IInv
<1>1. pc[t] = "admitted" /\ req[t] \in Requests
  BY KeysExist DEF TakeSlot
<1>2. \A u \in Threads : pc[u] = "building" => Running[u] = req[u] /\ req[u] # NoRequest
  BY DEF Running, TypeOK
<1>3. \A u \in Threads : pc[u] # "building" => Running[u] = NoRequest
  BY DEF Running
<1>4. Promise!Busy(WorkerOf[t]) = {u \in Threads : WorkerOf[u] = WorkerOf[t] /\ pc[u] = "building"}
  BY <1>2, <1>3 DEF Promise!Busy, Promise!None, NoRequest
<1>5. Cardinality(Promise!SamePool(t, req[t])) < Cap[req[t].pool]
  <2>1. Promise!SamePool(t, req[t]) = Building(Slot(t))
    BY <1>2, <1>4 DEF Promise!SamePool, Building, Slot
  <2>2. PICK s \in Workers \X Pools : s = Slot(t) /\ s[2] = req[t].pool
    BY <1>1, KeysExist DEF Slot
  <2>3. free[s] \in Nat /\ free[s] > 0
    BY <2>2 DEF TakeSlot, TypeOK
  <2>4. free[s] + Cardinality(Building(s)) = Cap[s[2]] /\ Cardinality(Building(s)) \in Nat
    BY HolderSets, ThreadSets DEF SlotsConserved
  <2> QED BY <2>1, <2>2, <2>3, <2>4
<1>6. ASSUME ~Promise!Keyless(req[t])
      PROVE  Cardinality(Promise!SameClient(t, req[t])) < ClientCap
  <2>1. PICK k \in Workers \X Families \X Clients : k = ClientEntry(t)
    BY <1>1, KeysExist
  <2>2. t \in Holders(k)
    BY <1>1, <1>6, <2>1 DEF Holders, Holding, Keyed, Promise!Keyless
  <2>3. Promise!SameClient(t, req[t]) \subseteq Holders(k) \ {t}
    BY <1>1, <1>2, <1>4, <2>1
       DEF Promise!SameClient, Promise!Keyless, Holders, Holding, Keyed, ClientEntry
  <2>4. /\ Cardinality(Holders(k) \ {t}) = Cardinality(Holders(k)) - 1
        /\ Cardinality(Holders(k)) >= 1
    BY <2>2, HolderSets, RemoveThread
  <2>5. /\ IsFiniteSet(Holders(k) \ {t}) /\ Cardinality(Holders(k)) \in Nat
        /\ Holders(k) \ {t} \subseteq Threads
    BY HolderSets, ThreadSets
  <2>6. /\ Cardinality(Promise!SameClient(t, req[t])) <= Cardinality(Holders(k) \ {t})
        /\ Cardinality(Promise!SameClient(t, req[t])) \in Nat
    BY <2>3, <2>5, FS_Subset, ThreadSets
  <2>7. Cardinality(Holders(k)) <= ClientCap
    BY ExclusiveStep DEF ClientExclusive
  <2> QED BY <2>4, <2>5, <2>6, <2>7
<1>7. Running' = [Running EXCEPT ![t] = req[t]]
  BY DEF Running, TakeSlot, Goto, TypeOK
<1>8. Running[t] = Promise!None
  BY <1>1, <1>3 DEF Promise!None, NoRequest
<1> QED BY <1>5, <1>6, <1>7, <1>8, SameCardinality DEF Promise!Start

LEMMA RefinesNext ==
  ASSUME IInv, ActiveBounded, [Next]_vars
  PROVE  [Promise!Next]_Running
<1> USE AdmissionAssumption DEF IInv
<1>1. CASE UNCHANGED vars
  BY <1>1 DEF vars, Running
<1>2. ASSUME NEW t \in Threads, NEW r \in Requests, Arrive(t, r) PROVE UNCHANGED Running
  BY <1>2 DEF Arrive, Goto, Running, TypeOK
<1>3. ASSUME NEW t \in Threads, TakeSlot(t) PROVE Promise!Next
  <2>1. req[t] \in [client : Clients, pool : Pools]
    BY <1>3, KeysExist DEF TakeSlot, Requests
  <2> QED BY <1>3, <2>1, StartAllowed DEF Promise!Next
<1>4. ASSUME NEW t \in Threads, Finish(t) PROVE Promise!Next
  <2>1. Running[t] # Promise!None
    BY <1>4 DEF Finish, Running, TypeOK, Promise!None, NoRequest
  <2>2. Running' = [Running EXCEPT ![t] = NoRequest]
    BY <1>4 DEF Finish, Goto, Running, TypeOK
  <2> QED BY <2>1, <2>2 DEF Promise!Next, Promise!Stop, Promise!None, NoRequest
<1>5. ASSUME NEW t \in Threads, Handle(t) PROVE [Promise!Next]_Running
  <2>1. CASE RefuseClient(t) \/ AdmitClient(t) \/ RejectTicker(t) \/ RefuseBusy(t) \/ Leave(t)
    BY <2>1 DEF RefuseClient, AdmitClient, RejectTicker, RefuseBusy, Leave, Goto,
                Running, TypeOK
  <2> QED BY <1>3, <1>4, <1>5, <2>1 DEF Handle
<1>6. ASSUME NEW w \in Workers, Restart(w) PROVE Promise!Next
  <2>1. Running' = [t \in Threads |-> IF WorkerOf[t] = w THEN NoRequest ELSE Running[t]]
    BY <1>6 DEF Restart, Running
  <2> QED BY <2>1 DEF Promise!Next, Promise!Restart, Promise!None, NoRequest
<1> QED BY <1>1, <1>2, <1>5, <1>6 DEF Next

(* Counters, lock and semaphores implement the abstract admission rule.    *)
THEOREM PromiseKept == Spec => KeepsPromise
<1>1. Init => Promise!Init
  BY DEF Init, Promise!Init, Promise!None, Running, NoRequest
<1>2. IInv /\ ActiveBounded /\ [Next]_vars => [Promise!Next]_Running
  BY RefinesNext
<1> QED BY <1>1, <1>2, CountersCorrect, BoundedAlways, PTL DEF Spec, KeepsPromise, Promise!Spec
-----------------------------------------------------------------------------
(* The instance TLC checks: a fleet of two workers, one of them with two    *)
(* threads, and capacities that three requests can exhaust in every pool.   *)
CONSTANTS t1, t2, t3, c1, local, w1, w2

PoolFamily == [build |-> "prism", chat |-> "prism", bundle |-> "research"]

(* The source's 2, 4 and 2 for three threads instead of twelve.             *)
Caps == [build |-> 1, chat |-> 2, bundle |-> 1]

ThreeThreads == [t \in {t1, t2, t3} |-> IF t \in {t1, t2} THEN w1 ELSE w2]
=============================================================================
