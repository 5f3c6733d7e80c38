------------------------------- MODULE ChartPanel -------------------------------
(***************************************************************************)
(* PriceValuePanel.tsx: one price chart of the chosen period and interval, *)
(* from the cache, then live.  Choosing either, and every change of the    *)
(* network, starts over; an answer may come long after.                    *)
(***************************************************************************)
EXTENDS Coordinator

CONSTANTS
  Ranges,     \* PERIODS: the periods the range rail offers
  Intervals,  \* values of CHART_INTERVAL_CHIPS
  Opening,    \* intervals the saved preferences may open on
  PeriodOf,   \* the period each chip brings
  Daily       \* the interval that keeps the period

Periods == Ranges \cup {PeriodOf[i] : i \in Intervals}
Choices == [period : Periods, interval : Intervals]

ChartAssumption ==
  /\ ScreenAssumption
  /\ Daily \in Intervals /\ Opening \subseteq Intervals /\ DOMAIN PeriodOf = Intervals
  /\ None \notin Choices

VARIABLE net   \* useNetworkReachability()

vars == <<shown, line, flights, net, calls>>

Chosen(s) == [period |-> s.period, interval |-> s.interval]
Nothing == [of |-> None, response |-> 0]
Busy == {"loading", "refreshing"}
Offline == {"offline", "empty-offline"}
Networks == {"unknown", "online", "offline"}

TypeOK ==
  /\ shown.period \in Periods /\ shown.interval \in Intervals
  /\ shown.status \in Busy \cup Offline \cup {"fresh", "error"}
  /\ shown.status \in {"fresh", "refreshing", "offline"} => shown.data # Nothing
  /\ shown.status \in {"loading", "empty-offline"} => shown.data = Nothing
  /\ line \in Line /\ calls \in 0..MaxCalls
  /\ net \in Networks
  /\ \A f \in flights : f.stage \in {"read", "live", "write"}

Read(s, l, n) ==
  [stage |-> "read", generation |-> l.generation, run |-> 0, net |-> n,
   of |-> Chosen(s), prior |-> Nothing]

Init ==
  /\ \E i \in Opening, n \in Networks :
       /\ net = n
       /\ shown = [period |-> PeriodOf[i], interval |-> i, status |-> "loading",
                   data |-> Nothing, warned |-> 0]
  /\ line = NextRead(NewLine)
  /\ flights = {Read(shown, line, net)}
  /\ calls = 0
-----------------------------------------------------------------------------
(* Mutation: the cleanup of the effect is missing and its body reuses the  *)
(* coordinator alone.                                                      *)
RestartKeepsGeneration(s, n) ==
  /\ Counted
  /\ shown' = [s EXCEPT !.status = "loading", !.data = Nothing, !.warned = 0]
  /\ flights' = flights \cup {Read(s, line, n)}
  /\ UNCHANGED line

(* The effect on [interval, period, reachability, symbol]: its cleanup     *)
(* cancels, its body reads the cache.                                      *)
Restart(s, n) ==
  /\ Counted
  /\ line' = Cancelled(line)
  /\ shown' = [s EXCEPT !.status = "loading", !.data = Nothing, !.warned = 0]
  /\ flights' = flights \cup {Read(s, line', n)}

ChoosePeriod(p) ==
  /\ shown.interval = Daily /\ p # shown.period
  /\ Restart([shown EXCEPT !.period = p], net)
  /\ UNCHANGED net

ChooseInterval(i) ==
  /\ i # shown.interval
  /\ Restart([shown EXCEPT !.interval = i, !.period = IF i = Daily THEN @ ELSE PeriodOf[i]], net)
  /\ UNCHANGED net

NetChanges(n) == n # net /\ net' = n /\ Restart(shown, n)

(* requestLive, up to its await.                                           *)
Request(f, l, prior) ==
  /\ line' = NextRun(l)
  /\ flights' = (flights \ {f}) \cup
       {[stage |-> "live", generation |-> line'.generation, run |-> line'.run, net |-> net,
         of |-> Chosen(shown), prior |-> prior]}

(* bootstrap after the read: nothing, or what the cache holds of this      *)
(* chart, fresh or expired.                                                *)
ReadLands(f, found, fresh) ==
  LET data == IF found THEN [of |-> f.of, response |-> 0] ELSE Nothing
      Show(status) == shown' = [shown EXCEPT !.status = status, !.data = data]
  IN
  /\ IF ~Current(f, line) THEN Landed(f) /\ UNCHANGED <<shown, line>>
     ELSE \/ /\ f.net = "offline" /\ Landed(f) /\ UNCHANGED line
             /\ Show(IF found THEN "offline" ELSE "empty-offline")
          \/ /\ f.net # "offline" /\ found /\ fresh /\ Landed(f) /\ UNCHANGED line
             /\ Show("fresh")
          \/ /\ f.net # "offline" /\ ~(found /\ fresh)
             /\ Show(IF found THEN "refreshing" ELSE "loading")
             /\ Request(f, line, data)
  /\ UNCHANGED <<net, calls>>

Failed(f) == [shown EXCEPT !.status = "error", !.data = f.prior, !.warned = 0]

(* An answer: accepted and shown, then written to the cache; or it has no  *)
(* chart of the symbol.                                                    *)
Answers(f) ==
  /\ IF ~Accepted(f, line) THEN Landed(f) /\ UNCHANGED shown
     ELSE \/ /\ shown' = [shown EXCEPT !.status = "fresh", !.warned = 0,
                            !.data = [of |-> f.of, response |-> f.run]]
             /\ flights' = (flights \ {f}) \cup {[f EXCEPT !.stage = "write"]}
          \/ shown' = Failed(f) /\ Landed(f)
  /\ UNCHANGED <<line, net, calls>>

(* Timed out, refused, broken or aborted.                                  *)
Rejects(f) ==
  /\ shown' = IF Current(f, line) THEN Failed(f) ELSE shown
  /\ Landed(f)
  /\ UNCHANGED <<line, net, calls>>

(* A write that fails warns under the chart it was of, if that is shown.   *)
WriteLands(f, ok) ==
  /\ shown' = IF ~ok /\ Current(f, line) /\ shown.data.response = f.run
              THEN [shown EXCEPT !.warned = f.run] ELSE shown
  /\ Landed(f)
  /\ UNCHANGED <<line, net, calls>>

Retry ==
  /\ shown.status = "error" /\ net # "offline"
  /\ Counted
  /\ Request(None, NextRead(line), shown.data)
  /\ shown' = [shown EXCEPT !.warned = 0,
                 !.status = IF shown.data = Nothing THEN "loading" ELSE "refreshing"]
  /\ UNCHANGED net

Next ==
  \/ \E p \in Ranges : ChoosePeriod(p)
  \/ \E i \in Intervals : ChooseInterval(i)
  \/ \E n \in Networks : NetChanges(n)
  \/ \E f \in At("read"), found, fresh \in BOOLEAN : ReadLands(f, found, fresh)
  \/ \E f \in At("live") : Answers(f) \/ Rejects(f)
  \/ \E f \in At("write"), ok \in BOOLEAN : WriteLands(f, ok)
  \/ Retry

Spec == Init /\ [][Next]_vars
-----------------------------------------------------------------------------
(* A chart that is drawn is of the period and interval chosen now, and a   *)
(* warning that it was not saved is about it, however late the answers of  *)
(* earlier choices and their writes come.                                  *)
ChartIsChosen ==
  /\ shown.data # Nothing => shown.data.of = Chosen(shown)
  /\ shown.warned # 0 => shown.warned = shown.data.response

(* A chart that loads is being loaded; one that does not says why as the   *)
(* network is now, so that Retry does something wherever it is offered.    *)
LoadingIsReal ==
  /\ shown.status \in Busy => Awaited(line)
  /\ shown.status = "error" => net # "offline"
  /\ shown.status \in Offline => net = "offline"
=============================================================================
