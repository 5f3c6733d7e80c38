------------------------------ MODULE Admission ------------------------------
(***************************************************************************)
(* Admission control of the expensive routes: POST /api/prism and          *)
(* /api/prism/chat, their twins under /api/situate, and                    *)
(* /api/data/ticker-research.  Each family of routes keeps, per gunicorn   *)
(* worker process, one dict "in-flight requests per client" under a lock,  *)
(* and one BoundedSemaphore per kind of work, taken without blocking.      *)
(*                                                                         *)
(* A request is a thread of a worker that walks through its handler; the   *)
(* body of a `with lock` block is one step, as is a semaphore operation,   *)
(* and the threads of a worker interleave between those steps.             *)
(***************************************************************************)
EXTENDS Integers, FiniteSets

CONSTANTS
  Workers,        \* gunicorn worker processes (Procfile: 3)
  Threads,        \* the handler threads of all workers (Procfile: 4 each)
  WorkerOf,       \* the worker a thread belongs to
  Clients,        \* what client_key() tells apart
  Loopback,       \* the clients whose address is loopback
  Families,       \* one client dict each: prism, situate, ticker research
  Pools,          \* one semaphore each: build and chat slots, bundle slots
  FamilyOf,       \* the family a pool's route belongs to
  Cap,            \* initial value of each pool's semaphore
  ClientCap,      \* BUILD_CONCURRENCY_PER_CLIENT
  Exempting,      \* pools whose route gives a loopback caller no key
  Validating      \* pools that validate the ticker after the client slot

NoRequest == [client |-> "none", pool |-> "none"]

Requests == [client : Clients, pool : Pools]

ASSUME AdmissionAssumption ==
  /\ IsFiniteSet(Threads)
  /\ WorkerOf \in [Threads -> Workers]
  /\ FamilyOf \in [Pools -> Families]
  /\ Cap \in [Pools -> Nat \ {0}]
  /\ ClientCap \in Nat \ {0}
  /\ NoRequest \notin Requests

VARIABLES
  pc,       \* where each thread is in its handler
  req,      \* the request it serves
  active,   \* _active_clients / _active_client_slots (absent key = 0)
  free      \* value of each BoundedSemaphore

vars == <<pc, req, active, free>>

Holding == {"admitted", "building", "refused", "leaving"}

TypeOK ==
  /\ pc \in [Threads -> {"idle", "arrived"} \cup Holding]
  /\ req \in [Threads -> Requests \cup {NoRequest}]
  /\ \A t \in Threads : pc[t] # "idle" => req[t] \in Requests
  /\ active \in [Workers \X Families \X Clients -> Nat]
  /\ free \in [Workers \X Pools -> Nat]

(* `if client_key and not try_acquire...`: a request without a key is      *)
(* admitted without entering the dict.                                     *)
Keyed(r) == ~(r.pool \in Exempting /\ r.client \in Loopback)

ClientEntry(t) == <<WorkerOf[t], FamilyOf[req[t].pool], req[t].client>>

Slot(t) == <<WorkerOf[t], req[t].pool>>

Goto(t, label) == pc' = [pc EXCEPT ![t] = label]

Init ==
  /\ pc = [t \in Threads |-> "idle"]
  /\ req = [t \in Threads |-> NoRequest]
  /\ active = [k \in Workers \X Families \X Clients |-> 0]
  /\ free = [s \in Workers \X Pools |-> Cap[s[2]]]

-----------------------------------------------------------------------------
(* Mutations of the handlers below: bugs the properties must catch.        *)

(* The semaphore is taken without looking whether acquire succeeded.       *)
TakeSlotUnchecked(t) ==
  /\ pc[t] = "admitted"
  /\ free' = [free EXCEPT ![Slot(t)] = @ - 1]
  /\ Goto(t, "building")
  /\ UNCHANGED <<req, active>>

(* The 503 path returns without release_client.                            *)
RefuseBusyLeaky(t) ==
  /\ pc[t] = "admitted"
  /\ free[Slot(t)] = 0
  /\ req' = [req EXCEPT ![t] = NoRequest]
  /\ Goto(t, "idle")
  /\ UNCHANGED <<active, free>>

(* The last slot is kept back.                                             *)
RefuseBusyEarly(t) ==
  /\ pc[t] = "admitted"
  /\ free[Slot(t)] <= 1
  /\ Goto(t, "refused")
  /\ UNCHANGED <<req, active, free>>

(* acquire() waits for a slot instead of refusing.                         *)
RefuseBusyNever(t) == FALSE

(* The build raises and no `finally` releases its slot.                    *)
FinishLeaky(t) ==
  /\ pc[t] = "building"
  /\ Goto(t, "leaving")
  /\ UNCHANGED <<req, active, free>>

(* `active > limit` in place of `active >= limit`.                         *)
AdmitClientOffByOne(t) ==
  /\ pc[t] = "arrived"
  /\ IF Keyed(req[t])
     THEN /\ active[ClientEntry(t)] <= ClientCap
          /\ active' = [active EXCEPT ![ClientEntry(t)] = @ + 1]
     ELSE UNCHANGED active
  /\ Goto(t, "admitted")
  /\ UNCHANGED <<req, free>>
-----------------------------------------------------------------------------
(* A request with a well-formed body reaches its handler's admission code. *)
Arrive(t, r) ==
  /\ pc[t] = "idle"
  /\ req' = [req EXCEPT ![t] = r]
  /\ Goto(t, "arrived")
  /\ UNCHANGED <<active, free>>

(* try_acquire_client returned False: 429.                                 *)
RefuseClient(t) ==
  /\ pc[t] = "arrived"
  /\ Keyed(req[t])
  /\ active[ClientEntry(t)] >= ClientCap
  /\ req' = [req EXCEPT ![t] = NoRequest]
  /\ Goto(t, "idle")
  /\ UNCHANGED <<active, free>>

(* try_acquire_client returned True, or the request has no key.            *)
AdmitClient(t) ==
  /\ pc[t] = "arrived"
  /\ IF Keyed(req[t])
     THEN /\ active[ClientEntry(t)] < ClientCap
          /\ active' = [active EXCEPT ![ClientEntry(t)] = @ + 1]
     ELSE UNCHANGED active
  /\ Goto(t, "admitted")
  /\ UNCHANGED <<req, free>>

(* clean_ticker raises inside the try block of the research route: 400.    *)
RejectTicker(t) ==
  /\ pc[t] = "admitted"
  /\ req[t].pool \in Validating
  /\ Goto(t, "leaving")
  /\ UNCHANGED <<req, active, free>>

(* slots.acquire(blocking=False) returned False: 503 after the client's    *)
(* entry is given back.                                                    *)
RefuseBusy(t) ==
  /\ pc[t] = "admitted"
  /\ free[Slot(t)] = 0
  /\ Goto(t, "refused")
  /\ UNCHANGED <<req, active, free>>

TakeSlot(t) ==
  /\ pc[t] = "admitted"
  /\ free[Slot(t)] > 0
  /\ free' = [free EXCEPT ![Slot(t)] = @ - 1]
  /\ Goto(t, "building")
  /\ UNCHANGED <<req, active>>

(* The build or chat turn returns or raises; either way `finally` first    *)
(* releases the slot.                                                      *)
Finish(t) ==
  /\ pc[t] = "building"
  /\ free' = [free EXCEPT ![Slot(t)] = @ + 1]
  /\ Goto(t, "leaving")
  /\ UNCHANGED <<req, active>>

(* release_client, then the answer is returned.                            *)
Leave(t) ==
  /\ pc[t] \in {"refused", "leaving"}
  /\ IF Keyed(req[t])
     THEN active' = [active EXCEPT ![ClientEntry(t)] = IF @ <= 1 THEN 0 ELSE @ - 1]
     ELSE UNCHANGED active
  /\ req' = [req EXCEPT ![t] = NoRequest]
  /\ Goto(t, "idle")
  /\ UNCHANGED free

(* A worker dies (timeout, out of memory) and gunicorn forks a new one:    *)
(* its requests are gone, its dict and semaphores are new.                 *)
Restart(w) ==
  /\ \E t \in Threads : WorkerOf[t] = w /\ pc[t] # "idle"
  /\ pc' = [t \in Threads |-> IF WorkerOf[t] = w THEN "idle" ELSE pc[t]]
  /\ req' = [t \in Threads |-> IF WorkerOf[t] = w THEN NoRequest ELSE req[t]]
  /\ active' = [k \in Workers \X Families \X Clients |->
                  IF k[1] = w THEN 0 ELSE active[k]]
  /\ free' = [s \in Workers \X Pools |-> IF s[1] = w THEN Cap[s[2]] ELSE free[s]]

(* What a thread does once a request is in its hands.                      *)
Handle(t) ==
  \/ RefuseClient(t) \/ AdmitClient(t)
  \/ RejectTicker(t) \/ RefuseBusy(t) \/ TakeSlot(t)
  \/ Finish(t) \/ Leave(t)

Next ==
  \/ \E t \in Threads : (\E r \in Requests : Arrive(t, r)) \/ Handle(t)
  \/ \E w \in Workers : Restart(w)

Spec == Init /\ [][Next]_vars

(* Every request makes progress: no step of a handler blocks (acquire is   *)
(* non-blocking) and a build ends because each upstream call it makes has  *)
(* a timeout and a bounded number of retries.                              *)
FairSpec == Spec /\ \A t \in Threads : WF_vars(Handle(t))

-----------------------------------------------------------------------------
Holders(k) ==
  {t \in Threads : /\ pc[t] \in Holding
                   /\ Keyed(req[t])
                   /\ ClientEntry(t) = k}

Building(s) == {t \in Threads : pc[t] = "building" /\ Slot(t) = s}

(* A client's dict entry counts exactly its requests between acquire and   *)
(* release: no exit path (400, 503, exception, restart) leaks or doubles   *)
(* an entry.                                                               *)
ClientsCounted ==
  \A k \in Workers \X Families \X Clients : active[k] = Cardinality(Holders(k))

(* A semaphore and its holders always add up to its capacity, so it is     *)
(* never released above its bound (BoundedSemaphore would raise from       *)
(* `finally`) and no slot is lost.                                         *)
SlotsConserved ==
  \A s \in Workers \X Pools : free[s] + Cardinality(Building(s)) = Cap[s[2]]

(* One client never has two requests past admission in one worker, not     *)
(* even a build and a chat (they share the dict).                          *)
ClientExclusive ==
  \A k \in Workers \X Families \X Clients : Cardinality(Holders(k)) <= ClientCap

Limited(t) == pc[t] = "arrived" /\ pc'[t] = "idle" /\ req'[t] = NoRequest

RestartStep(w) == \A t \in Threads : WorkerOf[t] = w => pc'[t] = "idle"

(* A 429 is only ever given while other requests of that client hold all   *)
(* of its entry; a 503 only while every slot of the pool is taken.  (A     *)
(* worker restart is not an answer.)                                       *)
HonestStep ==
  \A t \in Threads :
    /\ Limited(t) /\ ~RestartStep(WorkerOf[t]) =>
         Cardinality(Holders(ClientEntry(t))) = ClientCap
    /\ pc[t] = "admitted" /\ pc'[t] = "refused" =>
         Cardinality(Building(Slot(t))) = Cap[req[t].pool]

RefusalsAreHonest == [][HonestStep]_vars

(* Every request is answered.                                              *)
Answered == \A t \in Threads : pc[t] # "idle" ~> pc[t] = "idle"

(* A saturated pool drains, and a client's entry goes back to zero: after  *)
(* Retry-After a retry can succeed.                                        *)
CapacityRecovers ==
  /\ \A s \in Workers \X Pools : free[s] = 0 ~> free[s] > 0
  /\ \A k \in Workers \X Families \X Clients : active[k] > 0 ~> active[k] = 0

(* What the counters and semaphores implement: see AdmissionPromise.       *)
Running == [t \in Threads |-> IF pc[t] = "building" THEN req[t] ELSE NoRequest]

Promise == INSTANCE AdmissionPromise WITH running <- Running

(* The detailed handlers only start work the abstract rule allows.         *)
KeepsPromise == Promise!Spec
=============================================================================
