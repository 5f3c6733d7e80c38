------------------------------- MODULE SearchBox -------------------------------
(***************************************************************************)
(* SearchScreen.tsx: a search runs when typing has paused for the debounce *)
(* time or when it is submitted.  Every change of the text drops the timer *)
(* and the request before it.                                              *)
(***************************************************************************)
EXTENDS Coordinator

CONSTANTS
  Queries,   \* trimmed texts of the box, other than the empty one (None)
  Long       \* those of two characters and more, searched without a submit

SearchAssumption == ScreenAssumption /\ Long \subseteq Queries /\ None \notin Queries

VARIABLE timer   \* the text the debounce timer will search, or None

vars == <<shown, line, flights, timer, calls>>

Texts == Queries \cup {None}

TypeOK ==
  /\ shown.query \in Texts /\ shown.of \in Texts /\ shown.results \in Texts
  /\ shown.status \in {"idle", "loading", "results", "empty", "error"}
  /\ timer \in Long \cup {None}
  /\ line \in Line /\ calls \in 0..MaxCalls
  /\ \A f \in flights : f.stage = "live" /\ f.of \in Queries

Init ==
  /\ shown = [query |-> None, status |-> "idle", of |-> None, results |-> None]
  /\ line = NewLine /\ flights = {} /\ timer = None /\ calls = 0
-----------------------------------------------------------------------------
(* runSearch(q), on the numbers l.                                         *)
Run(q, l) ==
  /\ line' = NextRun(NextRead(l))
  /\ shown' = [shown EXCEPT !.status = "loading", !.of = q, !.results = None]
  /\ flights' = flights \cup
       {[stage |-> "live", of |-> q, generation |-> line'.generation, run |-> line'.run]}
  /\ timer' = None

(* Mutation: the new text restarts the timer and cancels no request.       *)
TypeKeepsRequest(q) ==
  /\ q # shown.query
  /\ Counted
  /\ shown' = IF q \in Long THEN [shown EXCEPT !.query = q]
              ELSE [query |-> q, status |-> "idle", of |-> None, results |-> None]
  /\ timer' = IF q \in Long THEN q ELSE None
  /\ UNCHANGED <<line, flights>>

(* The effect on [query]: cancelPending, then idle or a new timer.         *)
Type(q) ==
  /\ q # shown.query
  /\ Counted
  /\ line' = Cancelled(line)
  /\ shown' = IF q \in Long THEN [shown EXCEPT !.query = q]
              ELSE [query |-> q, status |-> "idle", of |-> None, results |-> None]
  /\ timer' = IF q \in Long THEN q ELSE None
  /\ UNCHANGED flights

Debounced == timer # None /\ Run(timer, line) /\ UNCHANGED calls

Submit == shown.query # None /\ Counted /\ Run(shown.query, Cancelled(line))

Answers(f) ==
  /\ shown' \in IF ~Accepted(f, line) THEN {shown}
                ELSE {[shown EXCEPT !.status = "results", !.of = f.of, !.results = f.of],
                      [shown EXCEPT !.status = "empty", !.of = f.of, !.results = None]}
  /\ Landed(f)
  /\ UNCHANGED <<line, timer, calls>>

Rejects(f) ==
  /\ shown' = IF Current(f, line) THEN [shown EXCEPT !.status = "error", !.of = f.of, !.results = None]
              ELSE shown
  /\ Landed(f)
  /\ UNCHANGED <<line, timer, calls>>

Next ==
  \/ \E q \in Texts : Type(q)
  \/ Debounced \/ Submit
  \/ \E f \in flights : Answers(f) \/ Rejects(f)

Spec == Init /\ [][Next]_vars
-----------------------------------------------------------------------------
(* Once no timer runs, what the screen says is about the text in the box,  *)
(* whatever order the answers to its earlier texts come in.                *)
ResultsAreOfTheText ==
  timer = None /\ shown.status # "idle" => shown.of = shown.query

(* A search that is said to run has a request that will be heeded or a     *)
(* timer that will start one; a text long enough is searched without more. *)
SearchIsReal ==
  /\ shown.status = "loading" => timer # None \/ Awaited(line)
  /\ shown.query \in Long => timer # None \/ shown.status # "idle"
=============================================================================
