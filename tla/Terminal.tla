------------------------------- MODULE Terminal -------------------------------
(***************************************************************************)
(* app.js and the research library of research.js: the browser's terminal. *)
(* One output panel serves every mode; a run is started by the form, by a  *)
(* saved watchlist or by a saved alert rule, and a newer run, a change of  *)
(* mode or the opening of a record abandons it.  Its request is aborted    *)
(* then; what still comes of it finds another run, or none, active.        *)
(* The run bar of small screens, which the page keeps hidden, is left out. *)
(***************************************************************************)
EXTENDS Integers, FiniteSets

CONSTANTS
  Plain,      \* modes that one request answers, cockpit and alerts apart
  Foreign,    \* a mode of another page whose records the library lists too
  None,
  MaxCalls    \* bound on what the visitor does

Modes == Plain \cup {"cockpit", "alerts", "torque-scan"}

TerminalAssumption ==
  /\ Plain # {} /\ Foreign \notin Modes /\ None \notin Nat
  /\ MaxCalls \in Nat

VARIABLES
  shown,     \* the page: mode, active run, output, buttons, and the rows of torqueScanState
  line,      \* how often the panel was given a new owner: runGeneration and records opened
  flights,   \* requests of runs
  user,      \* is the visitor signed in
  saves,     \* writes under way
  remote,    \* research_runs, alert_runs and the marks on alert_rules
  acked,     \* history: runs whose answer the page showed
  calls

vars == <<shown, line, flights, user, saves, remote, acked, calls>>

Owners == 1..MaxCalls

TypeOK ==
  /\ shown.mode \in Modes /\ shown.run \in 1..line \cup {None}
  /\ shown.loading \in BOOLEAN /\ shown.canSave \in BOOLEAN
  /\ shown.export # None => /\ shown.export.of \in Modes \cup {Foreign}
                            /\ shown.export.by \in 1..line
  /\ shown.error \in 1..line \cup {None} /\ shown.rows \subseteq 1..line
  /\ line \in 0..MaxCalls /\ calls \in 0..MaxCalls /\ user \in BOOLEAN
  /\ \A f \in flights : f.run \in 1..line /\ f.stage \in {"asked", "scanning", "scanned"}
  /\ \A r \in remote.records : r.mode \in Modes \cup {Foreign}
  /\ remote.runs \cup remote.marks \cup acked \subseteq 1..line

Init ==
  /\ shown = [mode |-> CHOOSE m \in Plain : TRUE, run |-> None, loading |-> FALSE, export |-> None,
              canSave |-> FALSE, error |-> None, rows |-> {}]
  /\ line = 0 /\ flights = {} /\ user \in BOOLEAN /\ saves = {}
  /\ remote = [records |-> {[mode |-> Foreign, of |-> Foreign]}, runs |-> {}, marks |-> {}]
  /\ acked = {} /\ calls = 0

Counted == calls < MaxCalls /\ calls' = calls + 1
-----------------------------------------------------------------------------
(* cancelActiveRun, clearOutput.                                           *)
Cancelled(page) ==
  IF page.run = None THEN page ELSE [page EXCEPT !.run = None, !.loading = FALSE]
Cleared(page) == [page EXCEPT !.export = None, !.canSave = FALSE, !.error = None]

(* Mutation: a change of mode leaves the run active.                       *)
InModeStill(m) == [shown EXCEPT !.mode = m]

(* setMode without the clearing.                                           *)
InMode(m) == [Cancelled(shown) EXCEPT !.mode = m]

SetMode(m) ==
  /\ Counted
  /\ shown' = Cleared(InMode(m))
  /\ UNCHANGED <<line, flights, user, saves, remote, acked>>

(* beginRun, clearOutput, setLoading(true), and the request; a scan empties *)
(* the rows that scans share.                                              *)
Begin(by, m) ==
  /\ Counted
  /\ line' = line + 1
  /\ shown' = [Cleared(InMode(m)) EXCEPT !.run = line', !.loading = TRUE,
                                         !.rows = IF m = "torque-scan" THEN {} ELSE @]
  /\ flights' = flights \cup {[run |-> line', by |-> by, mode |-> m, stage |-> "asked"]}
  /\ UNCHANGED <<user, saves, remote, acked>>

(* The form's button is disabled while a run is active; those of the saved *)
(* watchlists and alert rules are not.                                     *)
Submit == ~shown.loading /\ Begin("form", shown.mode)
RunSaved(m) == user /\ m \in {"cockpit", "alerts"} /\ Begin("watchlist", m)
RunRule == user /\ Begin("rule", "alerts")

(* openSavedResearch, openSavedAlertRun: a record of a mode that the       *)
(* terminal does not know is shown under the mode it is in.                *)
Open(of) ==
  /\ Counted
  /\ line' = line + 1
  /\ shown' = [Cleared(InMode(IF of \in Modes THEN of ELSE shown.mode))
                 EXCEPT !.export = [of |-> of, by |-> line'], !.canSave = TRUE]
  /\ UNCHANGED <<flights, user, saves, remote, acked>>

OpenSaved == \E r \in remote.records : Open(r.of)
OpenSavedRun == remote.runs # {} /\ Open("alerts")
-----------------------------------------------------------------------------
(* isRunActive; the guard of everything that comes of a request.           *)
Active(f) == shown.run = f.run

(* Mutation: the finally does not ask whether finishRun ended the run.     *)
FinishedAny(f, page) == [page EXCEPT !.run = IF Active(f) THEN None ELSE @, !.loading = FALSE]

(* The finally of a run: finishRun and setLoading(false).                  *)
Finished(f, page) ==
  IF Active(f) THEN [page EXCEPT !.run = None, !.loading = FALSE] ELSE page

Showing(f) == [shown EXCEPT !.export = [of |-> f.mode, by |-> f.run]]

(* An answer that is accepted; the one to a rule's run is then inserted,   *)
(* unless the visitor has signed out (the row names the user).  For a run  *)
(* that was superseded the rule gets null, and inserts nothing.            *)
Answer(f) ==
  /\ f.stage = "asked" /\ f.mode # "torque-scan"
  /\ flights' = flights \ {f}
  /\ shown' = Finished(f, IF Active(f) THEN [Showing(f) EXCEPT !.canSave = TRUE] ELSE shown)
  /\ IF Active(f) THEN acked' = acked \cup {f.run} ELSE UNCHANGED acked
  /\ saves' = IF Active(f) /\ f.by = "rule" /\ user
              THEN saves \cup {[kind |-> "run", run |-> f.run]} ELSE saves
  /\ UNCHANGED <<line, user, remote, calls>>

(* Mutation: the catch shows every rejection.                              *)
RejectUnchecked(f) ==
  /\ flights' = flights \ {f}
  /\ shown' = Finished(f, [shown EXCEPT !.error = f.run])
  /\ UNCHANGED <<line, user, saves, remote, acked, calls>>

(* A refusal, a broken connection, or the abort of a run cancelled before. *)
Reject(f) ==
  /\ flights' = flights \ {f}
  /\ shown' = Finished(f, IF Active(f) THEN [shown EXCEPT !.error = f.run] ELSE shown)
  /\ UNCHANGED <<line, user, saves, remote, acked, calls>>

(* fetchTorqueScan: rows as they come, then the event done with the whole  *)
(* export, then the end, which the server may also reach without it.       *)
Scan(f, stage, page) ==
  /\ f.mode = "torque-scan" /\ f.stage # "scanned"
  /\ IF Active(f)
     THEN /\ flights' = (flights \ {f}) \cup {[f EXCEPT !.stage = stage]}
          /\ shown' = page
     ELSE /\ flights' = flights \ {f}
          /\ UNCHANGED shown
  /\ UNCHANGED <<line, user, saves, remote, acked, calls>>

ScanRow(f) == Scan(f, "scanning", [shown EXCEPT !.rows = @ \cup {f.run}])
ScanDone(f) == Scan(f, "scanned", Showing(f))

ScanEnds(f) ==
  /\ f.mode = "torque-scan"
  /\ flights' = flights \ {f}
  /\ shown' = Finished(f, IF Active(f) THEN [shown EXCEPT !.canSave = TRUE] ELSE shown)
  /\ UNCHANGED <<line, user, saves, remote, acked, calls>>
-----------------------------------------------------------------------------
(* saveResearch with buildResearchRecord.                                  *)
Save ==
  /\ Counted
  /\ user /\ shown.canSave /\ shown.export # None
  /\ saves' = saves \cup {[kind |-> "record", mode |-> shown.mode, of |-> shown.export.of]}
  /\ UNCHANGED <<shown, line, flights, user, remote, acked>>

(* A write is applied, or fails; the row of a rule's run is followed by    *)
(* the rule's mark, whose failure nobody looks at.                         *)
Applied(s) ==
  CASE s.kind = "record" -> [remote EXCEPT !.records = @ \cup {[mode |-> s.mode, of |-> s.of]}]
    [] s.kind = "run" -> [remote EXCEPT !.runs = @ \cup {s.run}]
    [] s.kind = "mark" -> [remote EXCEPT !.marks = @ \cup {s.run}]

Then(s) == IF s.kind = "run" THEN {[kind |-> "mark", run |-> s.run]} ELSE {}

Lands(s) ==
  /\ remote' = Applied(s)
  /\ saves' = (saves \ {s}) \cup Then(s)
  /\ UNCHANGED <<shown, line, flights, user, acked, calls>>

Fails(s) ==
  /\ saves' = saves \ {s}
  /\ UNCHANGED <<shown, line, flights, user, remote, acked, calls>>

SignInOrOut ==
  /\ Counted
  /\ user' = ~user
  /\ UNCHANGED <<shown, line, flights, saves, remote, acked>>

Next ==
  \/ \E m \in Modes : SetMode(m) \/ RunSaved(m)
  \/ Submit \/ RunRule \/ OpenSaved \/ OpenSavedRun \/ Save \/ SignInOrOut
  \/ \E f \in flights : Answer(f) \/ Reject(f) \/ ScanRow(f) \/ ScanDone(f) \/ ScanEnds(f)
  \/ \E s \in saves : Lands(s) \/ Fails(s)

Spec == Init /\ [][Next]_vars
-----------------------------------------------------------------------------
(* The page says it is working exactly while a run is active, and the      *)
(* active run has a request that ends it, whatever ended runs do late.     *)
LoadingIsReal ==
  /\ shown.loading <=> shown.run # None
  /\ shown.run # None => \E f \in flights : f.run = shown.run

(* Output, error and the rows of a scan are those of the panel's newest    *)
(* owner and belong to the mode the page is in, the records of other pages *)
(* excepted.                                                               *)
PanelIsCurrent ==
  /\ shown.export # None => /\ shown.export.by = line
                            /\ shown.export.of \in {shown.mode, Foreign}
  /\ shown.error \in {None, line}
  /\ shown.run # None => shown.run = line
  /\ shown.run # None /\ shown.mode = "torque-scan" => shown.rows \subseteq {line}

(* What is kept of a run is what it was: a saved record is filed under the *)
(* mode that made it (records of other pages lose theirs), an alert run is *)
(* filed only when its digest was shown, a rule marked only after that.    *)
RecordsAreTrue ==
  /\ \A r \in remote.records : r.of \in {r.mode, Foreign}
  /\ remote.marks \subseteq remote.runs /\ remote.runs \subseteq acked
=============================================================================
