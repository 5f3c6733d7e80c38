----------------------------- MODULE ResearchRun -----------------------------
(***************************************************************************)
(* The mobile research run: ResearchRunScreen with the NDJSON client under *)
(* it, reading agent turns (AgentTurn, one per run) over a connection that *)
(* may stall, break or end early.  The screen is single-threaded, but a    *)
(* run outlives the state that started it: results, events, timers and the *)
(* server's own work may all come after a cancel, a retry or a close.      *)
(*                                                                         *)
(* External: fetch (when it delivers, ends or rejects), the model and the  *)
(* tools behind AgentTurn, and the outcome of library.save.                *)
(***************************************************************************)
EXTENDS Integers, Sequences, FiniteSets

CONSTANTS
  MaxRuns,    \* bound on the runs the user starts
  Names, Selected, Required, MaxRounds, MaxCalls, MaxUses, None

(* The app asks for the research bundle first, which is on its allowlist.  *)
ASSUME RunAssumption ==
  /\ MaxRuns \in Nat \ {0}
  /\ Selected \subseteq Names
  /\ Required \in Selected /\ Required # None
  /\ MaxRounds \in Nat \ {0} /\ MaxCalls \in Nat \ {0} /\ MaxUses \in Nat

Runs == 1..MaxRuns
Composer == None        \* compose_research_article is not selected
Exact == Runs

VARIABLES
  pc, round, budget, pending, called, owed, uses, answers, ran, sent,
  phase,       \* the screen: "preview", "streaming", "completed", "saving",
               \* "saved", "error", "cancelled" or "closed" (unmounted)
  started,     \* runs started; the newest is the one on the screen
  generation,  \* requestGeneration
  born,        \* the generation in which each run started
  leg,         \* "none", "request", "stream", "fallback" or "settled"
  signal,      \* the run's abort reason: "none", "idle" or "user"
  folds,       \* the run went to the folding route, /api/agent/chat
  stalled,     \* the open connection delivers nothing more, and does not say so
  read,        \* events parsed so far
  status,      \* AgentStreamState: "streaming", "completed", "error", "cancelled"
  refused,     \* the parser rejected an event
  shown,       \* events on the screen (text and trace), as <<run, position>>
  buffer,      \* pendingText: text events not on the screen yet
  timer        \* generation of the text timer, 0 when none is set

serverVars == <<pc, round, budget, pending, called, owed, uses, answers, ran, sent>>
screen == <<phase, started, generation, born, shown, buffer, timer>>
session == <<leg, signal, folds, stalled, read, status, refused>>
vars == <<serverVars, screen, session>>

Server == INSTANCE AgentTurn WITH Turns <- Runs

Mounted == phase # "closed"
Open == {"request", "stream", "fallback"}

Init ==
  /\ Server!Init
  /\ phase = "preview"
  /\ started = 0
  /\ generation = 0
  /\ born = [s \in Runs |-> 0]
  /\ leg = [s \in Runs |-> "none"]
  /\ signal = [s \in Runs |-> "none"]
  /\ folds = [s \in Runs |-> FALSE]
  /\ stalled = [s \in Runs |-> FALSE]
  /\ read = [s \in Runs |-> 0]
  /\ status = [s \in Runs |-> "streaming"]
  /\ refused = [s \in Runs |-> FALSE]
  /\ shown = {}
  /\ buffer = {}
  /\ timer = 0

(* Plausible mistakes, for checking the checks.                            *)
CurrentMounted(s) == Mounted /\ born[s] > 0      \* forgets the generation

CancelRunDropsText ==              \* pendingText is cleared, not flushed
  /\ phase = "streaming"
  /\ generation' = generation + 1
  /\ signal' = [signal EXCEPT ![started] = "user"]
  /\ status' = [status EXCEPT ![started] = IF @ = "streaming" THEN "cancelled" ELSE @]
  /\ buffer' = {} /\ timer' = 0
  /\ phase' = "cancelled"
  /\ UNCHANGED <<serverVars, started, born, leg, folds, stalled, read, refused, shown>>

UnmountKeepsSession ==             \* the cleanup does not cancel the session
  /\ Mounted
  /\ generation' = generation + 1
  /\ buffer' = {} /\ timer' = 0
  /\ phase' = "closed"
  /\ UNCHANGED <<serverVars, session, started, born, shown>>

StreamEarnedAnyhow(s) == read[s] > 0     \* a body that ends is a body that is done

IdleTimeoutStreamOnly(s) ==        \* clearIdle, and no timer for the fallback
  /\ leg[s] \in {"request", "stream"} /\ signal[s] = "none"
  /\ signal' = [signal EXCEPT ![s] = "idle"]
  /\ UNCHANGED <<serverVars, screen, leg, folds, stalled, read, status, refused>>

UnmountAgain ==                    \* the cleanup runs on an unmounted screen
  /\ generation' = generation + 1
  /\ buffer' = {} /\ timer' = 0
  /\ phase' = "closed"
  /\ UNCHANGED <<serverVars, session, started, born, shown>>

-----------------------------------------------------------------------------
(* The screen.                                                             *)

Current(s) == Mounted /\ born[s] = generation

StartRun ==
  /\ phase \in {"preview", "error", "cancelled"}
  /\ started < MaxRuns
  /\ started' = started + 1
  /\ generation' = generation + 1
  /\ born' = [born EXCEPT ![started + 1] = generation + 1]
  /\ leg' = [leg EXCEPT ![started + 1] = "request"]
  /\ phase' = "streaming"
  /\ shown' = {} /\ buffer' = {} /\ timer' = 0
  /\ UNCHANGED <<serverVars, signal, folds, stalled, read, status, refused>>

(* AgentStreamSession.cancel: no event is accepted from here on.           *)
Abandon(s) ==
  /\ signal' = [signal EXCEPT ![s] = IF @ = "none" THEN "user" ELSE @]
  /\ status' = [status EXCEPT ![s] = IF @ = "streaming" THEN "cancelled" ELSE @]

CancelRun ==
  /\ phase = "streaming"
  /\ generation' = generation + 1
  /\ Abandon(started)
  /\ shown' = shown \cup buffer
  /\ buffer' = {} /\ timer' = 0
  /\ phase' = "cancelled"
  /\ UNCHANGED <<serverVars, started, born, leg, folds, stalled, read, refused>>

(* The sheet is closed, or unmounts for any other reason.                  *)
Unmount ==
  /\ Mounted
  /\ generation' = generation + 1
  /\ IF phase = "streaming" THEN Abandon(started) ELSE UNCHANGED <<signal, status>>
  /\ buffer' = {} /\ timer' = 0
  /\ phase' = "closed"
  /\ UNCHANGED <<serverVars, started, born, leg, folds, stalled, read, refused, shown>>

SaveCompletion ==
  /\ phase = "completed"
  /\ phase' = "saving"
  /\ UNCHANGED <<serverVars, session, started, generation, born, shown, buffer, timer>>

SaveEnds ==
  /\ phase = "saving"
  /\ phase' \in {"saved", "completed"}
  /\ UNCHANGED <<serverVars, session, started, generation, born, shown, buffer, timer>>

(* The 40 ms text timer.                                                   *)
FlushText ==
  /\ timer # 0
  /\ shown' = IF Mounted /\ timer = generation THEN shown \cup buffer ELSE shown
  /\ buffer' = {} /\ timer' = 0
  /\ UNCHANGED <<serverVars, session, phase, started, generation, born>>

-----------------------------------------------------------------------------
(* The client's session.                                                   *)

Visible(s, upto) ==
  {<<s, i>> : i \in {k \in 1..upto : sent[s][k].type \in {"text", "tool_call", "tool_result"}}}

Folded(s) ==
  {<<s, i>> : i \in {k \in DOMAIN sent[s] : sent[s][k].type \in {"text", "tool_result"}}}

FirstOfType(s, upto, type) ==
  {i \in 1..upto : /\ sent[s][i].type = type
                   /\ \A k \in 1..(i - 1) : sent[s][k].type # type}

(* requireSuccessfulTickerResearchFirst, on the stream's calls and on the  *)
(* tool_calls of the folded answer.                                        *)
StreamEarned(s) ==
  /\ status[s] = "completed"
  /\ \E i \in FirstOfType(s, read[s], "tool_call") :
       /\ sent[s][i].call.name = Required
       /\ \E k \in 1..read[s] :
            /\ sent[s][k].type = "tool_result"
            /\ sent[s][k].call.id = sent[s][i].call.id
            /\ sent[s][k].ok

FoldEarned(s) ==
  \E i \in FirstOfType(s, Len(sent[s]), "tool_result") :
    sent[s][i].call.name = Required /\ sent[s][i].ok

(* session.result settles, and startRun goes on from its await.            *)
Settle(s, completed, content) ==
  /\ leg' = [leg EXCEPT ![s] = "settled"]
  /\ IF Current(s)
     THEN /\ phase' = IF completed THEN "completed" ELSE "error"
          /\ shown' = IF completed THEN content ELSE shown \cup buffer
          /\ buffer' = {} /\ timer' = 0
     ELSE UNCHANGED <<phase, shown, buffer, timer>>
  /\ stalled' = [stalled EXCEPT ![s] = FALSE]
  /\ UNCHANGED <<serverVars, started, generation, born, signal, folds, read>>

Fail(s) == Settle(s, FALSE, {}) /\ UNCHANGED status

(* The stream route is not there (404, 405, 501): the turn has not begun,  *)
(* and the request is made again on the folding route.                     *)
FallBack(s) ==
  /\ leg[s] = "request" /\ signal[s] = "none" /\ pc[s] = "idle"
  /\ leg' = [leg EXCEPT ![s] = "fallback"]
  /\ folds' = [folds EXCEPT ![s] = TRUE]
  /\ UNCHANGED <<serverVars, screen, signal, stalled, read, status, refused>>

Headers(s) ==
  /\ leg[s] = "request" /\ signal[s] = "none" /\ pc[s] # "idle"
  /\ leg' = [leg EXCEPT ![s] = "stream"]
  /\ UNCHANGED <<serverVars, screen, signal, folds, stalled, read, status, refused>>

(* fetch rejects, a status the client does not retry, or a reset body.     *)
Break(s) ==
  /\ leg[s] \in Open /\ signal[s] = "none"
  /\ Fail(s) /\ UNCHANGED refused

Stall(s) ==
  /\ leg[s] \in Open /\ ~stalled[s]
  /\ stalled' = [stalled EXCEPT ![s] = TRUE]
  /\ UNCHANGED <<serverVars, screen, leg, signal, folds, read, status, refused>>

(* What AgentStreamState.accept and normalizeEvent insist on.              *)
Acceptable(s, e) ==
  /\ status[s] = "streaming"
  /\ (read[s] = 0) = (e.type = "start")
  /\ e.type \in {"tool_call", "tool_result"} => e.call.name \in Selected

StatusAfter(s, e) ==
  CASE e.type = "done" -> "completed" [] e.type = "error" -> "error" [] OTHER -> status[s]

(* handleEvent: text is batched, tool events go to the trace at once.      *)
Display(s, e) ==
  LET place == <<s, read[s] + 1>> IN
  IF ~Current(s) THEN UNCHANGED <<shown, buffer, timer>>
  ELSE /\ shown' = IF e.type \in {"tool_call", "tool_result"} THEN shown \cup {place} ELSE shown
       /\ buffer' = IF e.type = "text" THEN buffer \cup {place} ELSE buffer
       /\ timer' = IF e.type = "text" /\ timer = 0 THEN generation ELSE timer

(* One record of the body.  A chunk handed over before an abort is parsed  *)
(* after it, unless the run was cancelled: its state ignores what comes.   *)
Receive(s) ==
  /\ leg[s] = "stream" /\ ~stalled[s]
  /\ status[s] # "cancelled"
  /\ read[s] < Len(sent[s])
  /\ LET e == sent[s][read[s] + 1] IN
     IF Acceptable(s, e)
     THEN /\ read' = [read EXCEPT ![s] = @ + 1]
          /\ status' = [status EXCEPT ![s] = StatusAfter(s, e)]
          /\ Display(s, e)
          /\ UNCHANGED <<serverVars, phase, started, generation, born>>
          /\ UNCHANGED <<leg, signal, folds, stalled, refused>>
     ELSE /\ refused' = [refused EXCEPT ![s] = TRUE]
          /\ Fail(s)

(* The body ends cleanly: after the turn's last event, or early because a  *)
(* proxy or a worker went away.  state.finish() asks for a terminal event. *)
EndOfBody(s) ==
  /\ leg[s] = "stream" /\ ~stalled[s] /\ signal[s] = "none"
  /\ Settle(s, StreamEarned(s), Visible(s, read[s]))
  /\ status' = [status EXCEPT ![s] = IF @ = "streaming" THEN "error" ELSE @]
  /\ UNCHANGED refused

(* The folded answer: {"error": ...} or the whole turn at once.            *)
Answered(s) ==
  /\ leg[s] = "fallback" /\ ~stalled[s] /\ signal[s] = "none"
  /\ pc[s] = "over"
  /\ Settle(s, sent[s][Len(sent[s])].type = "done" /\ FoldEarned(s), Folded(s))
  /\ UNCHANGED <<status, refused>>

(* The idle timer of the stream, restarted by every chunk, or the timer of *)
(* the fallback's request: 45 s without data.                              *)
IdleTimeout(s) ==
  /\ leg[s] \in Open /\ signal[s] = "none"
  /\ signal' = [signal EXCEPT ![s] = "idle"]
  /\ UNCHANGED <<serverVars, screen, leg, folds, stalled, read, status, refused>>

(* The pending fetch or read rejects because of the abort.                 *)
Rejects(s) ==
  /\ leg[s] \in Open /\ signal[s] # "none"
  /\ Settle(s, FALSE, {})
  /\ status' = [status EXCEPT ![s] =
       IF @ # "streaming" THEN @ ELSE IF signal[s] = "idle" THEN "error" ELSE "cancelled"]
  /\ UNCHANGED refused

-----------------------------------------------------------------------------
(* The server.  A request that was sent may be served after the client has *)
(* left; only a streaming turn is closed when its reader is gone.          *)

Serve(s) ==
  /\ leg[s] # "none"
  /\ Server!Begin(s)
  /\ UNCHANGED <<screen, session>>

ServerWorks(s) == Server!Work(s) /\ UNCHANGED <<screen, session>>

ReaderGone(s) ==
  /\ leg[s] = "settled" \/ stalled[s] \/ signal[s] # "none"
  /\ ~folds[s]
  /\ Server!Close(s)
  /\ UNCHANGED <<screen, session>>

Finished ==
  /\ ~Mounted
  /\ \A s \in Runs : leg[s] \in {"none", "settled"} /\ pc[s] \in {"idle", "over", "closed"}
  /\ UNCHANGED vars

Client(s) ==
  \/ FallBack(s) \/ Headers(s) \/ Receive(s) \/ EndOfBody(s) \/ Answered(s)
  \/ Break(s) \/ Stall(s) \/ IdleTimeout(s) \/ Rejects(s)

Next ==
  \/ StartRun \/ CancelRun \/ Unmount \/ SaveCompletion \/ SaveEnds \/ FlushText
  \/ \E s \in Runs : Client(s) \/ Serve(s) \/ ServerWorks(s) \/ ReaderGone(s)
  \/ Finished

Spec == Init /\ [][Next]_vars

(* The timers fire and an aborted request rejects; nothing is assumed of   *)
(* the server or the network.                                              *)
FairSpec == Spec /\ \A s \in Runs : WF_vars(IdleTimeout(s)) /\ WF_vars(Rejects(s))

-----------------------------------------------------------------------------
(* Types of the screen and of the session.                                 *)
Places == Runs \X Nat

TypeOK ==
  /\ phase \in {"preview", "streaming", "completed", "saving", "saved", "error",
                "cancelled", "closed"}
  /\ started \in 0..MaxRuns
  /\ generation \in 0..(2 * MaxRuns + 1)
  /\ born \in [Runs -> 0..generation]
  /\ leg \in [Runs -> {"none", "settled"} \cup Open]
  /\ signal \in [Runs -> {"none", "idle", "user"}]
  /\ folds \in [Runs -> BOOLEAN]
  /\ stalled \in [Runs -> BOOLEAN]
  /\ read \in [Runs -> Nat]
  /\ status \in [Runs -> {"streaming", "completed", "error", "cancelled"}]
  /\ refused \in [Runs -> BOOLEAN]
  /\ shown \subseteq Places /\ buffer \subseteq Places
  /\ timer \in 0..generation

(* What can be saved on the device is a whole run: the newest one, whose   *)
(* turn ended with done on the server after the required tool ran first    *)
(* and succeeded, with all its prose and tool results on the screen.       *)
CompletionEarned ==
  phase \in {"completed", "saving", "saved"} =>
    LET s == started IN
    /\ pc[s] = "over" /\ sent[s][Len(sent[s])].type = "done"
    /\ ran[s][1] = Required
    /\ \E i \in DOMAIN sent[s] :
         sent[s][i].type = "tool_result" /\ sent[s][i].call.name = Required /\ sent[s][i].ok
    /\ Folded(s) \subseteq shown
    /\ \A p \in shown : p[1] = s

(* A run that is streaming, failed or was cancelled shows exactly what it  *)
(* had parsed by then; "partial text stays on screen".                     *)
PartialKept ==
  phase \in {"streaming", "error", "cancelled"} =>
    /\ shown \cup buffer = Visible(started, read[started])
    /\ phase # "streaming" => buffer = {}

(* No request works for a screen that no longer waits for it.              *)
OneLiveRun ==
  \A s \in Runs :
    leg[s] \in Open /\ signal[s] = "none" => s = started /\ phase = "streaming"

(* The client never finds fault with a stream this server produced: start  *)
(* first, nothing after the terminal event, only tools of the allowlist.   *)
NeverRefused == \A s \in Runs : ~refused[s]

(* Once a run is over, whatever it still delivers changes nothing: only    *)
(* the user's own steps do.                                                *)
LateStaysOut ==
  [][phase # "streaming" /\ started' = started =>
       /\ shown' = shown
       /\ \/ phase' \in {phase, "closed"}
          \/ phase = "completed" /\ phase' = "saving"
          \/ phase = "saving" /\ phase' \in {"saved", "completed"}]_vars

(* A started run leaves the streaming phase, even when the server hangs or *)
(* the connection stalls, on the stream and on the fallback.               *)
RunSettles == phase = "streaming" ~> phase # "streaming"

(* Bound for TLC: a streaming server is at most one event ahead of what    *)
(* its client has parsed.                                                  *)
NearlyRead == \A s \in Runs : folds[s] \/ Len(sent[s]) <= read[s] + 1
=============================================================================
