------------------------------- MODULE Materiality -------------------------------
(***************************************************************************)
(* score_alert_materiality: scores are remembered for all threads of a     *)
(* worker, with an expiry counted from the start of the call that got      *)
(* them, and Jev is asked outside the lock.  A page is a set of alerts.    *)
(***************************************************************************)
EXTENDS Integers, FiniteSets

CONSTANTS
  Threads, Alerts,
  CacheTtl, FailureTtl,      \* CACHE_TTL_SECONDS, FAILURE_TTL_SECONDS, in ticks
  MaxClock,        \* bound on the clock
  MaxCalls,        \* bound on calls
  None             \* no entry

MaterialityAssumption ==
  /\ FailureTtl \in Nat /\ CacheTtl \in Nat /\ FailureTtl < CacheTtl
  /\ {MaxClock, MaxCalls} \subseteq Nat

VARIABLES
  cache,      \* per alert: the value and when it expires
  clock,
  task,       \* what each thread is doing
  calls,
  tried       \* history: per alert, the start of the newest call that asked Jev

vars == <<cache, clock, task, calls, tried>>

Values == {"scored", "unsure", "failed"}
Idle == [at |-> "idle", started |-> 0, page |-> {}, pending |-> {}, failed |-> {}]

TypeOK ==
  /\ cache \in [Alerts -> {None} \cup [value : Values, expires : Nat]]
  /\ clock \in 0..MaxClock
  /\ \A t \in Threads :
       /\ task[t].at \in {"idle", "ask", "done"} /\ task[t].started \in 0..MaxClock
       /\ task[t].failed \cup task[t].pending \subseteq task[t].page /\ task[t].page \subseteq Alerts
  /\ calls \in 0..MaxCalls /\ tried \in [Alerts -> -CacheTtl..MaxClock]

Init ==
  /\ cache = [a \in Alerts |-> None] /\ clock = 0
  /\ task = [t \in Threads |-> Idle] /\ calls = 0
  /\ tried = [a \in Alerts |-> -CacheTtl]

Hit(a, now) == cache[a] # None /\ cache[a].expires > now
NoScore(S) == {a \in S : cache[a].value = "failed"}

Page(t, page) ==
  /\ task[t].at = "idle"
  /\ calls < MaxCalls /\ calls' = calls + 1
  /\ LET hits == {a \in page : Hit(a, clock)} IN
       task' = [task EXCEPT ![t] =
         [at |-> IF hits = page THEN "done" ELSE "ask", started |-> clock, page |-> page,
          pending |-> page \ hits, failed |-> NoScore(hits)]]
  /\ UNCHANGED <<cache, clock, tried>>

(* Mutation: a failure is remembered as long as a score.                   *)
TtlOfAny(value) == CacheTtl

TtlOf(value) == IF value = "failed" THEN FailureTtl ELSE CacheTtl

(* A chunk is answered or fails as one, but an answer in it may not parse, *)
(* so any alert may fail alone.                                            *)
Scored(t) ==
  /\ task[t].at = "ask"
  /\ \E r \in [task[t].pending -> Values] :
       /\ cache' = [a \in Alerts |->
            IF a \in task[t].pending
            THEN [value |-> r[a], expires |-> task[t].started + TtlOf(r[a])] ELSE cache[a]]
       /\ task' = [task EXCEPT ![t].at = "done", ![t].pending = {}]
       /\ tried' = [a \in Alerts |->
            IF a \in task[t].pending /\ task[t].started > tried[a] THEN task[t].started ELSE tried[a]]
  /\ UNCHANGED <<clock, calls>>

Return(t) ==
  /\ task[t].at = "done"
  /\ task' = [task EXCEPT ![t] = Idle]
  /\ UNCHANGED <<cache, clock, calls, tried>>

Tick == clock < MaxClock /\ clock' = clock + 1 /\ UNCHANGED <<cache, task, calls, tried>>

Next ==
  \/ \E t \in Threads :
       \/ \E page \in SUBSET Alerts \ {{}} : Page(t, page)
       \/ Scored(t) \/ Return(t)
  \/ Tick

Spec == Init /\ [][Next]_vars
-----------------------------------------------------------------------------
(* A failure of Jev is served from the cache only shortly after a call     *)
(* that really asked: the feed recovers soon once Jev is back, whichever   *)
(* calls overlapped.                                                       *)
RecoversQuickly ==
  \A t \in Threads : \A a \in task[t].failed : task[t].started - tried[a] < FailureTtl
=============================================================================
