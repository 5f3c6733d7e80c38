------------------------------ MODULE PulseScreen ------------------------------
(***************************************************************************)
(* PulseScreen.tsx: one digest of the newest saved list, asked for once    *)
(* per visit (a focus epoch): from the cache if that is fresh, else live.  *)
(* Nothing but Refresh asks again during a visit, and Refresh is there     *)
(* once the visit's bootstrap is complete.                                 *)
(***************************************************************************)
EXTENDS Coordinator

CONSTANTS
  Watchlists,  \* the lists that can be the newest one
  Default      \* and the symbols shown while there is none

PulseAssumption == ScreenAssumption /\ Default \in Watchlists /\ None \notin Watchlists

VARIABLE world   \* focused, hydrated, the newest list, reachability

vars == <<shown, line, flights, world, calls>>

Statuses == {"waiting", "loading", "empty-offline", "fresh", "stale-refreshing",
             "offline-stale", "partial", "empty-online", "error"}
Networks == {"unknown", "online", "offline"}

TypeOK ==
  /\ shown.status \in Statuses /\ shown.complete \in BOOLEAN /\ shown.crossed \in BOOLEAN
  /\ {shown.label, shown.symbols} \subseteq Watchlists /\ shown.data \in Watchlists \cup {None}
  /\ shown.status \in {"fresh", "stale-refreshing", "offline-stale", "partial"} => shown.data # None
  /\ shown.status \in {"waiting", "loading", "empty-offline"} => shown.data = None
  /\ line \in Line /\ calls \in 0..MaxCalls
  /\ world.net \in Networks /\ world.list \in Watchlists
  /\ {world.focused, world.hydrated} \subseteq BOOLEAN
  /\ \A f \in flights : f.stage \in {"read", "live"}

Init ==
  /\ shown = [status |-> "waiting", data |-> None, label |-> Default, symbols |-> Default,
              complete |-> FALSE, crossed |-> FALSE]
  /\ \E n \in Networks :
       world = [focused |-> FALSE, hydrated |-> FALSE, list |-> Default, net |-> n]
  /\ line = NewLine /\ flights = {} /\ calls = 0
-----------------------------------------------------------------------------
(* The effect on [bootstrapComplete, reachability]: once both are so, what *)
(* was under way is dropped and the screen is offline.                     *)
GoesOffline(s, complete, n) == complete /\ n = "offline"
OfflineView(s) ==
  [s EXCEPT !.status = IF s.data = None THEN "empty-offline" ELSE "offline-stale"]

(* A new state of the screen and, after it, that effect.                   *)
Settle(s, complete, n, l) ==
  IF GoesOffline(s, complete, n)
  THEN line' = Cancelled(l) /\ shown' = [OfflineView(s) EXCEPT !.complete = complete]
  ELSE line' = l /\ shown' = [s EXCEPT !.complete = complete]

(* A visit begins: lists and reachability are what they are at that moment *)
(* and the cache is read.  If the network went in the very commit that     *)
(* begins the visit, the effect still sees the last visit's bootstrap as   *)
(* complete and drops the new one.                                         *)
Begin(next) ==
  LET l == NextRead(line)
      begun == [shown EXCEPT !.symbols = next.list, !.complete = FALSE, !.crossed = FALSE]
      crosses == next.net # world.net /\ GoesOffline(shown, shown.complete, next.net)
  IN  /\ world' = next
      /\ flights' = flights \cup
           {[stage |-> "read", generation |-> l.generation, run |-> 0, of |-> next.list,
             net |-> next.net, prior |-> None, bootstrap |-> TRUE]}
      /\ IF crosses THEN line' = Cancelled(l) /\ shown' = [OfflineView(begun) EXCEPT !.crossed = TRUE]
         ELSE line' = l /\ shown' = begun

Focus(n) ==
  /\ ~world.focused /\ Counted
  /\ IF world.hydrated THEN Begin([world EXCEPT !.focused = TRUE, !.net = n])
     ELSE /\ n = world.net
          /\ world' = [world EXCEPT !.focused = TRUE]
          /\ UNCHANGED <<shown, line, flights>>

ListsHydrated ==
  /\ ~world.hydrated
  /\ \E l \in Watchlists :
       LET ready == [world EXCEPT !.hydrated = TRUE, !.list = l] IN
       IF world.focused THEN Begin(ready)
       ELSE world' = ready /\ UNCHANGED <<shown, line, flights>>
  /\ UNCHANGED calls

Blur ==
  /\ world.focused /\ Counted
  /\ world' = [world EXCEPT !.focused = FALSE]
  /\ line' = Cancelled(line)
  /\ UNCHANGED <<shown, flights>>

ListSaved(l) ==
  /\ world.hydrated /\ l # world.list /\ Counted
  /\ world' = [world EXCEPT !.list = l]
  /\ UNCHANGED <<shown, line, flights>>

NetChanges(n) ==
  /\ n # world.net /\ Counted
  /\ world' = [world EXCEPT !.net = n]
  /\ Settle(shown, shown.complete, n, line)
  /\ UNCHANGED flights

(* bootstrap after the read of the cache: nothing, or a digest, which is   *)
(* fresh or not.                                                           *)
ReadLands(f, found, fresh) ==
  LET data == IF found THEN f.of ELSE None
      View(status) == [shown EXCEPT !.status = status, !.data = data, !.label = f.of]
  IN
  /\ IF ~Current(f, line) THEN Landed(f) /\ UNCHANGED <<shown, line>>
     ELSE \/ /\ f.net = "offline" /\ Landed(f)
             /\ Settle(View(IF found THEN "offline-stale" ELSE "empty-offline"), TRUE, world.net, line)
          \/ /\ f.net # "offline" /\ found /\ fresh /\ Landed(f)
             /\ Settle(View("fresh"), TRUE, world.net, line)
          \/ /\ f.net # "offline" /\ ~(found /\ fresh)
             /\ shown' = View(IF found THEN "stale-refreshing" ELSE "loading")
             /\ line' = NextRun(line)
             /\ flights' = (flights \ {f}) \cup
                  {[f EXCEPT !.stage = "live", !.run = line'.run, !.prior = data]}
  /\ UNCHANGED <<world, calls>>

(* Mutation: the finally is lost, an answer alone completes a bootstrap.   *)
EndsOnSuccess(f, s) ==
  Landed(f) /\ Settle(s, shown.complete \/ (f.bootstrap /\ s.status # "error"), world.net, line)

(* The end of requestLive; its finally completes a bootstrap.              *)
Ends(f, s) == Landed(f) /\ Settle(s, shown.complete \/ f.bootstrap, world.net, line)

Answers(f) ==
  /\ IF ~Accepted(f, line) THEN Landed(f) /\ UNCHANGED <<shown, line>>
     ELSE \E status \in {"fresh", "partial", "empty-online"} :
            Ends(f, [shown EXCEPT !.status = status, !.data = f.of])
  /\ UNCHANGED <<world, calls>>

Rejects(f) ==
  /\ IF ~Current(f, line) THEN Landed(f) /\ UNCHANGED <<shown, line>>
     ELSE Ends(f, [shown EXCEPT !.status = "error", !.data = f.prior])
  /\ UNCHANGED <<world, calls>>

(* REFRESH and Retry; the label stays, the symbols are the visit's.        *)
Refresh ==
  /\ world.focused /\ shown.complete /\ world.net # "offline"
  /\ Counted
  /\ line' = NextRun(NextRead(line))
  /\ shown' = [shown EXCEPT !.status = IF shown.data = None THEN "loading"
                                       ELSE "stale-refreshing"]
  /\ flights' = flights \cup
       {[stage |-> "live", generation |-> line'.generation, run |-> line'.run, of |-> shown.symbols,
         net |-> world.net, prior |-> shown.data, bootstrap |-> FALSE]}
  /\ UNCHANGED world

Next ==
  \/ \E n \in Networks : Focus(n) \/ NetChanges(n)
  \/ ListsHydrated \/ Blur \/ Refresh
  \/ \E l \in Watchlists : ListSaved(l)
  \/ \E f \in At("read"), found, fresh \in BOOLEAN : ReadLands(f, found, fresh)
  \/ \E f \in At("live") : Answers(f) \/ Rejects(f)

Spec == Init /\ [][Next]_vars
-----------------------------------------------------------------------------
Visiting == world.focused /\ world.hydrated

(* The rows are of the list the screen names, and once a visit's bootstrap *)
(* is complete that is the list that was newest when the visit began, not  *)
(* one of an earlier visit whose answer came late.                         *)
RowsAreOfTheList ==
  /\ shown.data # None => shown.data = shown.label
  /\ Visiting /\ shown.complete => shown.label = shown.symbols

(* During a visit the screen waits for something that will be heeded, or   *)
(* its bootstrap is complete and Refresh is there as soon as the network   *)
(* is; it is never left with neither, unless the network went in the       *)
(* commit that began the visit.                                            *)
VisitGoesOn ==
  Visiting /\ ~shown.crossed =>
    IF shown.complete /\ shown.status \notin {"waiting", "loading", "stale-refreshing"}
    THEN world.net = "offline" => shown.status \in {"empty-offline", "offline-stale"}
    ELSE Awaited(line)
=============================================================================
