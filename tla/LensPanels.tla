------------------------------- MODULE LensPanels -------------------------------
(***************************************************************************)
(* LensScreen.tsx: the panels that a chosen depth opens.  Each loads on    *)
(* its own, with a generation and a coordinator of its own; those drawn    *)
(* over time follow the interval rail.  Choosing a depth loads nothing:    *)
(* opening it does.                                                        *)
(***************************************************************************)
EXTENDS Coordinator

CONSTANTS
  Timed,       \* panels that follow the interval (torque, auction)
  Forecast,    \* the panel that hides when there is no model (peer forecast)
  Deep,        \* panels of diagnose alone (moneyline, options)
  Intervals,   \* values of CHART_INTERVAL_CHIPS
  Opening      \* depths and intervals the saved preferences may open on

Panels == Timed \cup Deep \cup {Forecast}
Depths == {"glance", "diagnose", "deep-dive"}

PanelsAssumption ==
  /\ ScreenAssumption
  /\ Forecast \notin Timed \cup Deep /\ Opening \subseteq Depths \X Intervals
  /\ None \notin Intervals \cup Depths \cup {"always"}

Statuses == {"idle", "loading", "ready", "unavailable", "error", "hidden"}

vars == <<shown, line, flights, calls>>

TypeOK ==
  /\ shown.selected \in Depths /\ shown.opened \in Depths \cup {None}
  /\ shown.interval \in Intervals
  /\ \A p \in Panels :
       /\ shown.panel[p].status \in Statuses \ (IF p = Forecast THEN {} ELSE {"hidden"})
       /\ shown.panel[p].of # None <=> shown.panel[p].status = "ready"
       /\ line[p] \in Line
  /\ calls \in 0..MaxCalls
  /\ \A f \in flights : f.stage = "live" /\ f.panel \in Panels

Init ==
  /\ \E o \in Opening :
       shown = [selected |-> o[1], opened |-> None, interval |-> o[2],
                panel |-> [p \in Panels |-> [status |-> "idle", of |-> None]]]
  /\ line = [p \in Panels |-> NewLine]
  /\ flights = {}
  /\ calls = 0

(* The panels on the screen while a depth is open.                         *)
Visible(depth) ==
  IF depth \in {None, "deep-dive"} THEN {}
  ELSE {p \in Panels : /\ p \in Deep => depth = "diagnose"
                       /\ p = Forecast => shown.panel[p].status # "hidden"}
-----------------------------------------------------------------------------
(* load*: without force a panel that loads, or has what it needs, is left  *)
(* alone; every other one begins anew.                                     *)
Needs(p, force) ==
  force \/ shown.panel[p].status \notin {"loading", "ready"} \cup IF p = Forecast THEN {"hidden"} ELSE {}

Request(p, interval) ==
  [stage |-> "live", panel |-> p, of |-> IF p \in Timed THEN interval ELSE "always",
   generation |-> line[p].generation + 1, run |-> line[p].run + 1]

Load(begun, s) ==
  /\ shown' = [s EXCEPT !.panel = [p \in Panels |->
                 IF p \in begun THEN [status |-> "loading", of |-> None] ELSE @[p]]]
  /\ line' = [p \in Panels |-> IF p \in begun THEN Cancelled(line[p]) ELSE line[p]]
  /\ flights' = flights \cup {Request(p, s.interval) : p \in begun}

Select(depth) ==
  /\ depth # shown.selected
  /\ Counted
  /\ shown' = [shown EXCEPT !.selected = depth]
  /\ UNCHANGED <<line, flights>>

(* openSelectedDepth: opening what is open already loads it again.         *)
Open ==
  /\ Counted
  /\ LET depth == shown.selected
         force == shown.opened = depth
         opens == IF depth = "deep-dive" THEN {}
                  ELSE Timed \cup {Forecast} \cup IF depth = "diagnose" THEN Deep ELSE {}
     IN  Load({p \in opens : Needs(p, force)}, [shown EXCEPT !.opened = depth])

(* Mutation: torque's and the auction's loaders are not forced.            *)
ChooseIntervalUnforced(i) ==
  /\ shown.opened \notin {None, "deep-dive"} /\ i # shown.interval
  /\ Counted
  /\ Load({p \in Timed : Needs(p, FALSE)}, [shown EXCEPT !.interval = i])

(* The interval rail is on the screen with the panels.                     *)
ChooseInterval(i) ==
  /\ shown.opened \notin {None, "deep-dive"} /\ i # shown.interval
  /\ Counted
  /\ Load(Timed, [shown EXCEPT !.interval = i])

Retry(p) ==
  /\ p \in Visible(shown.opened) /\ shown.panel[p].status \in {"error", "unavailable"}
  /\ Counted
  /\ Load({p}, shown)

Becomes(p, status, of) == [shown EXCEPT !.panel[p] = [status |-> status, of |-> of]]

(* An answer, of the symbol or not.                                        *)
Answers(f, ours) ==
  /\ shown' = IF ~Accepted(f, line[f.panel]) THEN shown
              ELSE IF ours THEN Becomes(f.panel, "ready", f.of)
              ELSE Becomes(f.panel, "unavailable", None)
  /\ Landed(f)
  /\ UNCHANGED <<line, calls>>

(* A rejection; a 503 of the forecast hides its panel.                     *)
Rejects(f, hides) ==
  /\ hides => f.panel = Forecast
  /\ shown' = IF ~Current(f, line[f.panel]) THEN shown
              ELSE Becomes(f.panel, IF hides THEN "hidden" ELSE "error", None)
  /\ Landed(f)
  /\ UNCHANGED <<line, calls>>

Next ==
  \/ \E depth \in Depths : Select(depth)
  \/ Open
  \/ \E i \in Intervals : ChooseInterval(i)
  \/ \E p \in Panels : Retry(p)
  \/ \E f \in flights, b \in BOOLEAN : Answers(f, b) \/ Rejects(f, b)

Spec == Init /\ [][Next]_vars
-----------------------------------------------------------------------------
(* A panel with a time axis shows the interval the rail shows, whatever    *)
(* came late or failed meanwhile.                                          *)
PanelsFollowRail ==
  \A p \in Timed : shown.panel[p].status = "ready" => shown.panel[p].of = shown.interval

(* A panel on the screen that says it is loading (an idle one says so too) *)
(* has a request of its own under way that will be heeded, in whichever    *)
(* order depths were chosen and opened.                                    *)
PanelsLoad ==
  \A p \in Visible(shown.opened) :
    shown.panel[p].status \in {"idle", "loading"} =>
      \E f \in flights : f.panel = p /\ Accepted(f, line[p])
=============================================================================
