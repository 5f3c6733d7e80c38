------------------------------- MODULE SourcePack -------------------------------
(***************************************************************************)
(* The SEC client of one worker: get_source_pack for several threads, the  *)
(* requests it makes through the shared gate, their retries, and the       *)
(* Yahoo fallback.  A pack is built under one lock; inside it the company  *)
(* is looked up first, then a pool fetches three documents at once, and    *)
(* the lock is held until all three are done.                              *)
(*                                                                         *)
(* Times are relative: how long ago the gate was last passed and a pack    *)
(* was remembered, up to the limit each is compared with.                  *)
(***************************************************************************)
EXTENDS Integers, FiniteSets

CONSTANTS
  Threads, Symbols,
  Interval,        \* request_interval_seconds
  Retries,         \* max_retries
  Ttl,             \* source_pack_cache_seconds
  MaxCalls,        \* bound on calls
  None             \* no thread, no worker, no pack

Lookup == "lookup"                        \* cik_for_ticker and submissions
Parts == {"filing", "event", "facts"}     \* the three futures
Work == {Lookup} \cup Parts

SourceAssumption ==
  /\ Interval \in Nat \ {0} /\ {Retries, Ttl, MaxCalls} \subseteq Nat
  /\ None \notin Threads \cup Work

VARIABLES
  packs,      \* per symbol: the remembered pack, by whom and how old
  builder,    \* the thread that holds _source_pack_lock
  task,       \* what each thread is doing
  work,       \* each fetch of the build: how far it got, requests made
  responses,  \* fetches whose response is in _json_cache or _text_cache
  gate,       \* who holds the gate's lock
  nap,        \* what is left of its sleep
  since,      \* time since _last_request_at, up to Interval
  calls,
  crowded,    \* history: two requests passed the gate within the interval
  rebuilt     \* history: a pack was built while a remembered one was good

vars == <<packs, builder, task, work, responses, gate, nap, since, calls, crowded, rebuilt>>

Off == [at |-> "off", sent |-> 0]
Idle == [at |-> "idle", symbol |-> None, by |-> None]

TypeOK ==
  /\ packs \in [Symbols -> {None} \cup [by : {"edgar", "yahoo"}, age : 0..Ttl]]
  /\ builder \in Threads \cup {None}
  /\ \A t \in Threads :
       /\ task[t].at \in {"idle", "wait", "build", "yahoo", "answer", "failed"}
       /\ task[t].at = "idle" \/ task[t].symbol \in Symbols
       /\ task[t].at \in {"build", "yahoo"} <=> builder = t
  /\ work \in [Work -> [at : {"off", "ready", "gate", "send", "ok", "noted", "refused", "escaped"},
                        sent : 0..(Retries + 1)]]
  /\ responses \subseteq Symbols \X Work
  /\ gate \in Work \cup {None} /\ nap \in 0..Interval /\ since \in 0..Interval
  /\ gate # None => work[gate].at = "gate"
  /\ calls \in 0..MaxCalls

Init ==
  /\ packs = [s \in Symbols |-> None] /\ builder = None
  /\ task = [t \in Threads |-> Idle]
  /\ work = [w \in Work |-> Off] /\ responses = {}
  /\ gate = None /\ nap = 0 /\ since = Interval
  /\ calls = 0 /\ crowded = FALSE /\ rebuilt = FALSE

At(t, place) == task[t].at = place
Requests == <<work, responses, gate, nap, since, crowded>>

(* cached_value() forgets an entry only once it is older than its TTL.     *)
Good(s) == packs[s] # None
-----------------------------------------------------------------------------
Ask(t, s) ==
  /\ At(t, "idle")
  /\ calls < MaxCalls /\ calls' = calls + 1
  /\ task' = [task EXCEPT ![t] =
       IF Good(s) THEN [at |-> "answer", symbol |-> s, by |-> packs[s].by]
                  ELSE [at |-> "wait", symbol |-> s, by |-> None]]
  /\ UNCHANGED <<packs, builder, Requests, rebuilt>>

Begin(t) ==
  /\ builder' = t
  /\ task' = [task EXCEPT ![t].at = "build"]
  /\ work' = [work EXCEPT ![Lookup] = [at |-> "ready", sent |-> 0]]
  /\ rebuilt' = (rebuilt \/ Good(task[t].symbol))
  /\ UNCHANGED <<packs, responses, gate, nap, since, calls, crowded>>

(* Mutation: nothing is looked up again under the lock.                    *)
LockOnly(t) == At(t, "wait") /\ builder = None /\ Begin(t)

(* With the lock, another thread may have built the pack meanwhile.        *)
Lock(t) ==
  /\ At(t, "wait") /\ builder = None
  /\ IF Good(task[t].symbol)
     THEN /\ task' = [task EXCEPT ![t].at = "answer", ![t].by = packs[task[t].symbol].by]
          /\ UNCHANGED <<packs, builder, Requests, calls, rebuilt>>
     ELSE Begin(t)
-----------------------------------------------------------------------------
(* fetch_json and fetch_text: a remembered response needs no request; one  *)
(* that has expired does.                                                  *)
Remembered(w) ==
  /\ work[w].at = "ready" /\ <<task[builder].symbol, w>> \in responses
  /\ work' = [work EXCEPT ![w].at = "ok"]
  /\ UNCHANGED <<packs, builder, task, responses, gate, nap, since, calls, crowded, rebuilt>>

(* Mutation: the gate is not held while its owner sleeps.                  *)
EnterGateUnlocked(w) ==
  /\ work[w].at = "ready"
  /\ work' = [work EXCEPT ![w].at = "gate"]
  /\ gate' = w /\ nap' = Interval - since
  /\ UNCHANGED <<packs, builder, task, responses, since, calls, crowded, rebuilt>>

(* The gate's owner sleeps with its lock, for what is left of the interval.*)
EnterGate(w) ==
  /\ work[w].at = "ready" /\ gate = None
  /\ work' = [work EXCEPT ![w].at = "gate"]
  /\ gate' = w /\ nap' = Interval - since
  /\ UNCHANGED <<packs, builder, task, responses, since, calls, crowded, rebuilt>>

PassGate(w) ==
  /\ work[w].at = "gate" /\ nap = 0
  /\ work' = [work EXCEPT ![w] = [at |-> "send", sent |-> @.sent + 1]]
  /\ gate' = None /\ since' = 0
  /\ crowded' = (crowded \/ since < Interval)
  /\ UNCHANGED <<packs, builder, task, responses, nap, calls, rebuilt>>

(* What comes of a request: an answer; an error worth a retry while there  *)
(* are attempts left; a status that is not (SecDataError), which only the  *)
(* event document notes; no connection, which every document notes and the *)
(* lookup lets escape.                                                     *)
Outcome(w, at) ==
  /\ work' = [work EXCEPT ![w].at = at]
  /\ responses' = IF at = "ok" THEN responses \cup {<<task[builder].symbol, w>>} ELSE responses

Response(w) ==
  /\ work[w].at = "send"
  /\ \/ Outcome(w, "ok")
     \/ work[w].sent <= Retries /\ Outcome(w, "ready")
     \/ Outcome(w, IF w = "event" THEN "noted" ELSE "refused")
     \/ work[w].sent > Retries /\ Outcome(w, IF w = Lookup THEN "escaped" ELSE "noted")
  /\ UNCHANGED <<packs, builder, task, gate, nap, since, calls, crowded, rebuilt>>

(* The company is found: the filings it has decide which documents there   *)
(* are to fetch; company facts always are.                                 *)
StartParts ==
  /\ builder # None /\ At(builder, "build") /\ work[Lookup].at = "ok"
  /\ \E filed \in SUBSET {"filing", "event"} :
       work' = [w \in Work |->
                  IF w = Lookup THEN Off
                  ELSE [at |-> IF w \in filed \cup {"facts"} THEN "ready" ELSE "noted", sent |-> 0]]
  /\ UNCHANGED <<packs, builder, task, responses, gate, nap, since, calls, crowded, rebuilt>>
-----------------------------------------------------------------------------
Release(at, by) ==
  /\ builder' = None
  /\ task' = [task EXCEPT ![builder].at = at, ![builder].by = by]

Remember(by) ==
  packs' = IF Ttl = 0 THEN packs ELSE [packs EXCEPT ![task[builder].symbol] = [by |-> by, age |-> 0]]

Settled == {"ok", "noted", "refused"}

(* The three futures are done: the pack, or the fallback when the filing   *)
(* or the facts were refused.                                              *)
FinishParts ==
  /\ builder # None /\ At(builder, "build")
  /\ \A w \in Parts : work[w].at \in Settled
  /\ work' = [w \in Work |-> Off]
  /\ IF \E w \in Parts : work[w].at = "refused"
     THEN task' = [task EXCEPT ![builder].at = "yahoo"] /\ UNCHANGED <<packs, builder>>
     ELSE Remember("edgar") /\ Release("answer", "edgar")
  /\ UNCHANGED <<responses, gate, nap, since, calls, crowded, rebuilt>>

(* The lookup failed: a SecDataError falls back, any other exception       *)
(* leaves get_source_pack.                                                 *)
LookupFails ==
  /\ builder # None /\ work[Lookup].at \in {"refused", "escaped"}
  /\ work' = [work EXCEPT ![Lookup] = Off]
  /\ IF work[Lookup].at = "refused"
     THEN task' = [task EXCEPT ![builder].at = "yahoo"] /\ UNCHANGED builder
     ELSE Release("failed", None)
  /\ UNCHANGED <<packs, responses, gate, nap, since, calls, crowded, rebuilt>>

(* The fallback is remembered for as long as a pack of EDGAR; without one  *)
(* the error is raised again.                                              *)
Yahoo ==
  /\ builder # None /\ At(builder, "yahoo")
  /\ \/ Remember("yahoo") /\ Release("answer", "yahoo")
     \/ UNCHANGED packs /\ Release("failed", None)
  /\ UNCHANGED <<Requests, calls, rebuilt>>

Return(t) ==
  /\ task[t].at \in {"answer", "failed"}
  /\ task' = [task EXCEPT ![t] = Idle]
  /\ UNCHANGED <<packs, builder, Requests, calls, rebuilt>>

Tick ==
  /\ since' = IF since < Interval THEN since + 1 ELSE since
  /\ nap' = IF nap > 0 THEN nap - 1 ELSE 0
  /\ packs' = [s \in Symbols |->
                 IF Good(s) /\ packs[s].age < Ttl THEN [packs[s] EXCEPT !.age = @ + 1] ELSE None]
  /\ UNCHANGED <<builder, task, work, responses, gate, calls, crowded, rebuilt>>

Next ==
  \/ \E t \in Threads :
       \/ \E s \in Symbols : Ask(t, s)
       \/ Lock(t) \/ Return(t)
  \/ \E w \in Work : Remembered(w) \/ EnterGate(w) \/ PassGate(w) \/ Response(w)
  \/ StartParts \/ FinishParts \/ LookupFails \/ Yahoo
  \/ Tick

Spec == Init /\ [][Next]_vars
-----------------------------------------------------------------------------
(* However many threads ask at once, a pack is fetched only when no        *)
(* remembered one is good.                                                 *)
BuiltOnce == ~rebuilt

(* Requests leave at least the interval apart, whichever pool threads make *)
(* them and whatever is retried.                                           *)
RequestsSpaced == ~crowded

(* While no pack is being built no fetch is under way and the gate is      *)
(* free: a failure never leaves a fetch behind or the lock taken.          *)
NothingLeftBehind == builder = None => gate = None /\ \A w \in Work : work[w] = Off
=============================================================================
