------------------------------ MODULE OverviewPanel ------------------------------
(***************************************************************************)
(* LensOverview.tsx: the overview of one symbol, from the cache and live,  *)
(* mounted anew for every symbol.  The network as it was when it was       *)
(* mounted decides what the bootstrap does; losing it later drops what is  *)
(* under way, and only Refresh asks again.                                 *)
(***************************************************************************)
EXTENDS Coordinator

VARIABLE net   \* reachability

vars == <<shown, line, flights, net, calls>>

Networks == {"unknown", "online", "offline"}
Busy == {"loading", "stale-refreshing"}
Offline == {"offline-stale", "empty-offline"}

(* Of the data only whether there are any matters.                         *)
TypeOK ==
  /\ shown.status \in Busy \cup Offline \cup {"fresh", "partial", "error"}
  /\ {shown.complete, shown.data} \subseteq BOOLEAN
  /\ shown.status \in {"fresh", "partial", "stale-refreshing", "offline-stale"} => shown.data
  /\ shown.status \in {"loading", "empty-offline"} => ~shown.data
  /\ line \in Line /\ net \in Networks /\ calls \in 0..MaxCalls
  /\ \A f \in flights : f.stage \in {"read", "live"}

Init ==
  /\ net \in Networks
  /\ shown = [status |-> "loading", data |-> FALSE, complete |-> FALSE]
  /\ line = NextRead(NewLine)
  /\ flights = {[stage |-> "read", generation |-> line.generation, run |-> 0, net |-> net, prior |-> FALSE]}
  /\ calls = 0
-----------------------------------------------------------------------------
(* Mutation: the effect shows the panel as offline and cancels nothing.    *)
SettleKeepsRequest(s, n, l) ==
  /\ line' = l
  /\ shown' = IF s.complete /\ n = "offline"
              THEN [s EXCEPT !.status = IF s.data THEN "offline-stale" ELSE "empty-offline"]
              ELSE s

(* The effect on [bootstrapComplete, reachability].                        *)
Settle(s, n, l) ==
  IF s.complete /\ n = "offline"
  THEN /\ line' = Cancelled(l)
       /\ shown' = [s EXCEPT !.status = IF s.data THEN "offline-stale" ELSE "empty-offline"]
  ELSE line' = l /\ shown' = s

NetChanges(n) ==
  /\ n # net /\ Counted
  /\ net' = n
  /\ Settle(shown, n, line)
  /\ UNCHANGED flights

(* bootstrap after the read: what it begins may be dropped by the effect   *)
(* that its own completion sets off.                                       *)
ReadLands(f, found, fresh) ==
  LET View(status) == [status |-> status, data |-> found, complete |-> TRUE] IN
  /\ IF ~Current(f, line) THEN Landed(f) /\ UNCHANGED <<shown, line>>
     ELSE \/ /\ f.net = "offline" /\ Landed(f)
             /\ Settle(View(IF found THEN "offline-stale" ELSE "empty-offline"), net, line)
          \/ /\ f.net # "offline" /\ found /\ fresh /\ Landed(f)
             /\ Settle(View("fresh"), net, line)
          \/ /\ f.net # "offline" /\ ~(found /\ fresh)
             /\ LET l == NextRun(line) IN
                  /\ flights' = (flights \ {f}) \cup
                       {[f EXCEPT !.stage = "live", !.run = l.run, !.prior = found]}
                  /\ Settle(View(IF found THEN "stale-refreshing" ELSE "loading"), net, l)
  /\ UNCHANGED <<net, calls>>

(* An answer with the symbol, or without: then the saved data go as well.  *)
Answers(f) ==
  /\ shown' \in IF ~Accepted(f, line) THEN {shown}
                ELSE {[shown EXCEPT !.status = "fresh", !.data = TRUE],
                      [shown EXCEPT !.status = "partial", !.data = TRUE],
                      [shown EXCEPT !.status = "error", !.data = FALSE]}
  /\ Landed(f)
  /\ UNCHANGED <<line, net, calls>>

Rejects(f) ==
  /\ shown' = IF Current(f, line) THEN [shown EXCEPT !.status = "error", !.data = f.prior] ELSE shown
  /\ Landed(f)
  /\ UNCHANGED <<line, net, calls>>

(* REFRESH is on the screen unless the panel is loading.                   *)
Retry ==
  /\ shown.status # "loading" /\ net # "offline"
  /\ Counted
  /\ line' = NextRun(NextRead(line))
  /\ shown' = [shown EXCEPT !.status = IF shown.data THEN "stale-refreshing" ELSE "loading"]
  /\ flights' = flights \cup
       {[stage |-> "live", generation |-> line'.generation, run |-> line'.run, net |-> net,
         prior |-> shown.data]}
  /\ UNCHANGED net

Next ==
  \/ \E n \in Networks : NetChanges(n)
  \/ \E f \in At("read"), found, fresh \in BOOLEAN : ReadLands(f, found, fresh)
  \/ \E f \in At("live") : Answers(f) \/ Rejects(f)
  \/ Retry

Spec == Init /\ [][Next]_vars
-----------------------------------------------------------------------------
(* The panel that loads or refreshes waits for a request that will be      *)
(* heeded, and once the network is lost, in whichever step of the          *)
(* bootstrap, it says so and waits for nothing.                            *)
OverviewIsReal ==
  /\ shown.status \in Busy => Awaited(line)
  /\ shown.complete /\ net = "offline" => shown.status \in Offline /\ ~Awaited(line)

=============================================================================
