------------------------------- MODULE TickerBatch -------------------------------
(***************************************************************************)
(* The batches of one job per ticker: fetch_history_slots and collect_* of *)
(* main.py gather a response, stream_torque_scan_rows writes an event per  *)
(* ticker while its client reads.  Jobs end in any order; what is answered *)
(* keeps the order of the tickers, what is streamed names its ticker.      *)
(***************************************************************************)
EXTENDS WorkerPool

CONSTANT Size   \* number of tickers

BatchAssumption == PoolAssumption /\ Size \in Nat \ {0} /\ None \notin Nat

VARIABLES
  mode,     \* who called: slots, collect or stream
  at,       \* where the caller is
  ready,    \* jobs that ended and were not looked at yet, in that order
  slots,    \* the list with a place for each ticker
  errors,   \* tickers with an entry in errors
  events    \* what was streamed

vars == <<jobs, mode, at, ready, slots, errors, events>>

Tickers == 1..Size
Modes == {"slots", "collect", "stream"}
Ends == {"ok", "refused", "broken"}   \* a result, a ValueError or MarketDataError, another error
Places == {"reading", "leaving", "done", "failed", "closed"}

TypeOK ==
  /\ jobs \in [Tickers -> {"queued", "running"} \cup Ends]
  /\ mode \in Modes /\ at \in Places
  /\ ready \in Seq(Tickers) /\ errors \subseteq Tickers
  /\ slots \in [Tickers -> Tickers \cup {None}]
  /\ \A k \in DOMAIN events : events[k].type \in {"row", "error", "done"}

Init ==
  /\ mode \in Modes /\ at = "reading"
  /\ jobs = AllQueued(Tickers)
  /\ ready = <<>> /\ slots = [i \in Tickers |-> None] /\ errors = {} /\ events = <<>>

JobStarts(i) == Start(i, 1..(i - 1)) /\ UNCHANGED <<mode, at, ready, slots, errors, events>>

(* _safe_build_row lets no error through.                                  *)
JobEnds(i, outcome) ==
  /\ Finish(i, outcome)
  /\ ready' = Append(ready, i)
  /\ UNCHANGED <<mode, at, slots, errors, events>>

(* Mutation: a slot is given by the order in which the futures complete.   *)
PlaceByArrival(i) == 1 + Cardinality({k \in Tickers : slots[k] # None} \cup errors)

(* futures[future]: the index the job was submitted with.                  *)
Place(i) == i

(* fetch_history_slots keeps what a job was refused with in its slot.      *)
Kept(i) == jobs[i] = "ok" \/ (mode = "slots" /\ jobs[i] = "refused")

(* The next future of as_completed.                                        *)
Take(i) ==
  /\ at = "reading" /\ ready # <<>> /\ i = Head(ready)
  /\ ready' = Tail(ready)
  /\ IF mode = "stream"
     THEN /\ events' = Append(events, [type |-> IF jobs[i] = "ok" THEN "row" ELSE "error", index |-> i])
          /\ UNCHANGED <<at, slots, errors>>
     ELSE /\ at' = IF jobs[i] = "broken" THEN "leaving" ELSE at
          /\ slots' = IF Kept(i) THEN [slots EXCEPT ![Place(i)] = i] ELSE slots
          /\ errors' = IF mode = "collect" /\ jobs[i] = "refused" THEN errors \cup {i} ELSE errors
          /\ UNCHANGED events
  /\ UNCHANGED <<jobs, mode>>

Finished ==
  /\ at = "reading" /\ Idle /\ ready = <<>>
  /\ at' = "done"
  /\ events' = IF mode = "stream" THEN Append(events, [type |-> "done", index |-> None]) ELSE events
  /\ UNCHANGED <<jobs, mode, ready, slots, errors>>

(* The server closes the generator of a client that went away: it is left  *)
(* at its yield, inside the with block.                                    *)
ClientGone ==
  /\ mode = "stream" /\ at = "reading"
  /\ at' = "leaving"
  /\ UNCHANGED <<jobs, mode, ready, slots, errors, events>>

(* Mutation: the pool is shut down without waiting.                        *)
LeaveAtOnce ==
  /\ at = "leaving"
  /\ at' = IF mode = "stream" THEN "closed" ELSE "failed"
  /\ UNCHANGED <<jobs, mode, ready, slots, errors, events>>

(* Leaving the with block by an exception waits for what was submitted.    *)
Leave ==
  /\ at = "leaving" /\ Idle
  /\ at' = IF mode = "stream" THEN "closed" ELSE "failed"
  /\ UNCHANGED <<jobs, mode, ready, slots, errors, events>>

Next ==
  \/ \E i \in Tickers :
       \/ JobStarts(i) \/ Take(i)
       \/ \E outcome \in Ends : JobEnds(i, outcome)
  \/ Finished \/ ClientGone \/ Leave

Spec == Init /\ [][Next]_vars
-----------------------------------------------------------------------------
(* A batch that is answered accounts for every ticker once, in its own     *)
(* place: by a result or by an error, and by an event when it is streamed, *)
(* in whatever order the jobs ended; done comes after all of them.         *)
BatchIsWhole ==
  at = "done" =>
    IF mode = "stream"
    THEN /\ Len(events) = Size + 1 /\ events[Size + 1].type = "done"
         /\ \A i \in Tickers : \E k \in Tickers :
              events[k] = [type |-> IF jobs[i] = "ok" THEN "row" ELSE "error", index |-> i]
    ELSE \A i \in Tickers :
           /\ slots[i] = IF Kept(i) THEN i ELSE None
           /\ i \in errors <=> slots[i] = None

(* No job of a batch is under way once its request is over.                *)
NothingLeftRunning == at \in {"done", "failed", "closed"} => Idle
=============================================================================
