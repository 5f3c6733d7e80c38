-------------------------- MODULE ResearchRunProofs --------------------------
(***************************************************************************)
(* The research run for any number of runs.  The first theorems hold for   *)
(* any server whose events only grow at the end.  The last ones join the   *)
(* two ends of the stream: the turns behind the runs are those of the      *)
(* agent loop, whose promises are carried over to the client that follows  *)
(* them.                                                                   *)
(*                                                                         *)
(* The screen tells a late run by its generation.  The inductive invariant *)
(* says what that relies on: generations only grow, a run whose request is *)
(* open and whose generation is the screen's is the newest one and         *)
(* streaming, and a timer that is set belongs to a streaming screen.       *)
(***************************************************************************)
EXTENDS ResearchRun, TLAPS

-----------------------------------------------------------------------------
(* The server's events.                                                    *)

Grows(s) == sent' = sent \/ \E e : sent' = [sent EXCEPT ![s] = Append(sent[s], e)]

LEMMA ServerGrows ==
  ASSUME NEW s \in Runs, Server!Begin(s) \/ Server!Work(s) \/ Server!Close(s)
  PROVE  Grows(s)
<1> USE DEF Grows, Server!Emit, Server!EndTurn
<1>1. CASE Server!Begin(s)
  BY <1>1 DEF Server!Begin
<1>2. CASE Server!Close(s)
  BY <1>2 DEF Server!Close
<1>3. CASE Server!ModelText(s) \/ Server!ModelFails(s)
  BY <1>3 DEF Server!ModelText, Server!ModelFails
<1>4. CASE Server!ModelStop(s)
  BY <1>4 DEF Server!ModelStop, Server!Stop, Server!RefuseFirst, Server!Accept
<1>5. CASE Server!RefuseOverBudget(s) \/ Server!RefuseUnselected(s) \/ Server!ReportRefusal(s)
  BY <1>5 DEF Server!RefuseOverBudget, Server!RefuseUnselected, Server!ReportRefusal
<1>6. CASE Server!CallTool(s) \/ Server!ToolReturns(s) \/ Server!ToolRaises(s)
  BY <1>6 DEF Server!CallTool, Server!ToolReturns, Server!ToolRaises
<1>7. CASE Server!FailRequired(s) \/ Server!PublishArticle(s) \/ Server!NextRound(s)
  BY <1>7 DEF Server!FailRequired, Server!PublishArticle, Server!NextRound
<1> QED BY <1>1, <1>2, <1>3, <1>4, <1>5, <1>6, <1>7 DEF Server!Work

(* Every turn's events are a sequence, of whatever events.                 *)
Streams ==
  /\ sent = [s \in Runs |-> sent[s]]
  /\ \A s \in Runs : \E S : sent[s] \in Seq(S)

LEMMA AppendKeeps ==
  ASSUME NEW S, NEW q \in Seq(S), NEW e
  PROVE  /\ Append(q, e) \in Seq(S \cup {e})
         /\ Len(q) \in Nat /\ Len(Append(q, e)) = Len(q) + 1
         /\ \A i \in 1..Len(q) : Append(q, e)[i] = q[i]
         /\ DOMAIN q = 1..Len(q)
<1>1. q \in Seq(S \cup {e})
  OBVIOUS
<1> QED BY <1>1

LEMMA StreamsGrow ==
  ASSUME Streams, NEW s \in Runs, Grows(s)
  PROVE  /\ Streams'
         /\ \A r \in Runs : /\ Len(sent[r]) \in Nat /\ Len(sent'[r]) \in Nat
                            /\ Len(sent[r]) <= Len(sent'[r])
                            /\ \A i \in 1..Len(sent[r]) : sent'[r][i] = sent[r][i]
<1>1. CASE sent' = sent
  BY <1>1 DEF Streams
<1>2. CASE \E e : sent' = [sent EXCEPT ![s] = Append(sent[s], e)]
  <2>1. PICK e : sent' = [sent EXCEPT ![s] = Append(sent[s], e)]
    BY <1>2
  <2>2. PICK S : sent[s] \in Seq(S)
    BY DEF Streams
  <2>3. sent'[s] = Append(sent[s], e) /\ \A r \in Runs \ {s} : sent'[r] = sent[r]
    BY <2>1 DEF Streams
  <2>4. sent' = [r \in Runs |-> sent'[r]]
    BY <2>1 DEF Streams
  <2>5. \A r \in Runs : \E T : sent'[r] \in Seq(T)
    <3>1. sent'[s] \in Seq(S \cup {e})
      BY <2>2, <2>3, AppendKeeps
    <3>2. \A r \in Runs \ {s} : \E T : sent'[r] \in Seq(T)
      BY <2>3 DEF Streams
    <3> QED BY <3>1, <3>2
  <2>6. /\ Len(sent[s]) \in Nat /\ Len(sent'[s]) = Len(sent[s]) + 1
        /\ \A i \in 1..Len(sent[s]) : sent'[s][i] = sent[s][i]
    BY <2>2, <2>3, AppendKeeps
  <2>7. \A r \in Runs \ {s} : Len(sent[r]) \in Nat /\ sent'[r] = sent[r]
    BY <2>3 DEF Streams
  <2> QED BY <2>4, <2>5, <2>6, <2>7 DEF Streams
<1> QED BY <1>1, <1>2 DEF Grows

LEMMA FoldedPlaces ==
  ASSUME Streams, NEW s \in Runs
  PROVE  Folded(s) \subseteq Places
BY DEF Streams, Folded, Places

-----------------------------------------------------------------------------
(* Types.                                                                  *)

(* Each started run costs two generations, one of them when it is          *)
(* cancelled, and closing the sheet one more.                              *)
Counted ==
  generation <= 2 * started + (IF phase = "closed" THEN 1 ELSE 0)
                 - (IF phase = "streaming" THEN 1 ELSE 0)

Begun == phase = "streaming" => started # 0

Typed == TypeOK /\ Counted /\ Begun

LEMMA TypeInit == Init => Typed
PROOF BY RunAssumption DEF Init, Typed, TypeOK, Counted, Begun, Runs, Places, Open

(* What the parts of a client's step do to the types.                      *)
LEMMA SettleTypes ==
  ASSUME Typed, NEW s \in Runs, NEW completed \in BOOLEAN, NEW content,
         content \subseteq Places, Settle(s, completed, content),
         status' \in [Runs -> {"streaming", "completed", "error", "cancelled"}],
         refused' \in [Runs -> BOOLEAN]
  PROVE  Typed'
<1>1. CASE Current(s)
  BY <1>1, RunAssumption DEF Typed, TypeOK, Counted, Begun, Settle, Open, Places, Runs, Current, Mounted
<1>2. CASE ~Current(s)
  BY <1>2, RunAssumption DEF Typed, TypeOK, Counted, Begun, Settle, Open, Places, Runs
<1> QED BY <1>1, <1>2

LEMMA FailTypes ==
  ASSUME Typed, NEW s \in Runs, Settle(s, FALSE, {}),
         status' \in [Runs -> {"streaming", "completed", "error", "cancelled"}],
         refused' \in [Runs -> BOOLEAN]
  PROVE  Typed'
<1>1. CASE Current(s)
  BY <1>1, RunAssumption DEF Typed, TypeOK, Counted, Begun, Settle, Open, Places, Runs, Current, Mounted
<1>2. CASE ~Current(s)
  BY <1>2, RunAssumption DEF Typed, TypeOK, Counted, Begun, Settle, Open, Places, Runs
<1> QED BY <1>1, <1>2

LEMMA DisplayTypes ==
  ASSUME Typed, NEW s \in Runs, NEW e, Display(s, e)
  PROVE  shown' \subseteq Places /\ buffer' \subseteq Places /\ timer' \in 0..generation
BY DEF Typed, TypeOK, Display, Places

LEMMA TypeStep ==
  ASSUME Typed, Streams, [Next]_vars
  PROVE  Typed'
<1>1. ASSUME StartRun PROVE Typed'
  <2>1. /\ generation' = generation + 1 /\ started' = started + 1 /\ phase' = "streaming"
        /\ phase \in {"preview", "error", "cancelled"} /\ started < MaxRuns
        /\ shown' = {} /\ buffer' = {} /\ timer' = 0
        /\ UNCHANGED <<signal, folds, stalled, read, status, refused>>
    BY <1>1 DEF StartRun
  <2>2. leg' \in [Runs -> {"none", "settled"} \cup Open]
    BY <1>1 DEF StartRun, Typed, TypeOK, Open
  <2>3. /\ generation' \in 0..(2 * MaxRuns + 1) /\ Counted' /\ Begun' /\ started' \in 0..MaxRuns
    BY <2>1, RunAssumption DEF Typed, TypeOK, Counted, Begun
  <2>4. born' \in [Runs -> 0..generation']
    <3>1. born \in [Runs -> 0..generation] /\ generation \in Nat
      BY DEF Typed, TypeOK
    <3>2. born' = [born EXCEPT ![started + 1] = generation + 1]
      BY <1>1 DEF StartRun
    <3>3. 0..generation \subseteq 0..generation' /\ generation + 1 \in 0..generation'
      BY <2>1, <3>1
    <3> QED BY <3>1, <3>2, <3>3
  <2>5. timer' \in 0..generation' /\ shown' \subseteq Places /\ buffer' \subseteq Places
    BY <2>1, <2>3
  <2> QED BY <2>1, <2>2, <2>3, <2>4, <2>5 DEF Typed, TypeOK
<1>2. ASSUME CancelRun PROVE Typed'
  <2>1. /\ generation' = generation + 1 /\ phase = "streaming" /\ phase' = "cancelled"
        /\ shown' = shown \cup buffer /\ buffer' = {} /\ timer' = 0
        /\ UNCHANGED <<started, born, leg, folds, stalled, read, refused>>
    BY <1>2 DEF CancelRun
  <2>2. /\ signal' \in [Runs -> {"none", "idle", "user"}]
        /\ status' \in [Runs -> {"streaming", "completed", "error", "cancelled"}]
    BY <1>2 DEF CancelRun, Abandon, Typed, TypeOK
  <2>3. generation' \in 0..(2 * MaxRuns + 1) /\ Counted' /\ Begun'
    BY <2>1, RunAssumption DEF Typed, TypeOK, Counted, Begun
  <2>4. born' \in [Runs -> 0..generation'] /\ timer' \in 0..generation'
    BY <2>1 DEF Typed, TypeOK
  <2>5. shown' \subseteq Places /\ buffer' \subseteq Places
    BY <2>1 DEF Typed, TypeOK
  <2> QED BY <2>1, <2>2, <2>3, <2>4, <2>5 DEF Typed, TypeOK
<1>3. ASSUME Unmount PROVE Typed'
  <2>1. /\ generation' = generation + 1 /\ phase # "closed" /\ phase' = "closed"
        /\ buffer' = {} /\ timer' = 0
        /\ UNCHANGED <<started, born, leg, folds, stalled, read, refused, shown>>
    BY <1>3 DEF Unmount, Mounted
  <2>2. /\ signal' \in [Runs -> {"none", "idle", "user"}]
        /\ status' \in [Runs -> {"streaming", "completed", "error", "cancelled"}]
    BY <1>3 DEF Unmount, Abandon, Typed, TypeOK
  <2>3. generation' \in 0..(2 * MaxRuns + 1) /\ Counted' /\ Begun'
    BY <2>1, RunAssumption DEF Typed, TypeOK, Counted, Begun
  <2>4. born' \in [Runs -> 0..generation'] /\ timer' \in 0..generation'
    BY <2>1 DEF Typed, TypeOK
  <2> QED BY <2>1, <2>2, <2>3, <2>4 DEF Typed, TypeOK
<1>4. ASSUME SaveCompletion \/ SaveEnds \/ FlushText PROVE Typed'
  BY <1>4 DEF Typed, TypeOK, Counted, Begun, SaveCompletion, SaveEnds, FlushText, session
<1>5. ASSUME NEW s \in Runs, FallBack(s) \/ Headers(s) \/ Stall(s) \/ IdleTimeout(s) PROVE Typed'
  BY <1>5 DEF Typed, TypeOK, Counted, Begun, FallBack, Headers, Stall, IdleTimeout, screen, Open
<1>6. ASSUME NEW s \in Runs, Break(s) PROVE Typed'
  <2>1. status' = status /\ refused' = refused /\ Settle(s, FALSE, {})
    BY <1>6 DEF Break, Fail
  <2> QED BY <2>1, FailTypes DEF Typed, TypeOK
<1>7. ASSUME NEW s \in Runs, EndOfBody(s) PROVE Typed'
  <2>1. status' \in [Runs -> {"streaming", "completed", "error", "cancelled"}] /\ refused' = refused
    BY <1>7 DEF EndOfBody, Typed, TypeOK
  <2>2. Visible(s, read[s]) \subseteq Places
    BY DEF Visible, Places, Typed, TypeOK
  <2>3. StreamEarned(s) \in BOOLEAN
    BY DEF StreamEarned
  <2>4. Settle(s, StreamEarned(s), Visible(s, read[s]))
    BY <1>7 DEF EndOfBody
  <2> QED BY <2>1, <2>2, <2>3, <2>4, SettleTypes DEF Typed, TypeOK
<1>8. ASSUME NEW s \in Runs, Answered(s) PROVE Typed'
  <2>1. PICK completed \in BOOLEAN : Settle(s, completed, Folded(s))
    BY <1>8 DEF Answered, FoldEarned
  <2>2. status' = status /\ refused' = refused
    BY <1>8 DEF Answered
  <2> QED BY <2>1, <2>2, SettleTypes, FoldedPlaces DEF Typed, TypeOK
<1>9. ASSUME NEW s \in Runs, Rejects(s) PROVE Typed'
  <2>1. status' \in [Runs -> {"streaming", "completed", "error", "cancelled"}] /\ refused' = refused
    BY <1>9 DEF Rejects, Typed, TypeOK
  <2>2. Settle(s, FALSE, {})
    BY <1>9 DEF Rejects
  <2> QED BY <2>1, <2>2, FailTypes DEF Typed, TypeOK
<1>10. ASSUME NEW s \in Runs, Receive(s) PROVE Typed'
  <2> DEFINE e == sent[s][read[s] + 1]
  <2>1. CASE Acceptable(s, e)
    <3>1. /\ read' = [read EXCEPT ![s] = @ + 1]
          /\ status' = [status EXCEPT ![s] = StatusAfter(s, e)]
          /\ Display(s, e)
          /\ UNCHANGED <<phase, started, generation, born, leg, signal, folds, stalled, refused>>
      BY <1>10, <2>1 DEF Receive
    <3>2. StatusAfter(s, e) \in {"streaming", "completed", "error", "cancelled"}
      BY DEF StatusAfter, Typed, TypeOK
    <3>3. read' \in [Runs -> Nat] /\ status' \in [Runs -> {"streaming", "completed", "error", "cancelled"}]
      BY <3>1, <3>2 DEF Typed, TypeOK
    <3>4. shown' \subseteq Places /\ buffer' \subseteq Places /\ timer' \in 0..generation
      BY <3>1, DisplayTypes
    <3> QED BY <3>1, <3>3, <3>4 DEF Typed, TypeOK, Counted, Begun
  <2>2. CASE ~Acceptable(s, e)
    <3>1. refused' = [refused EXCEPT ![s] = TRUE] /\ Settle(s, FALSE, {}) /\ status' = status
      BY <1>10, <2>2 DEF Receive, Fail
    <3>2. refused' \in [Runs -> BOOLEAN]
      BY <3>1 DEF Typed, TypeOK
    <3>3. status' \in [Runs -> {"streaming", "completed", "error", "cancelled"}]
      BY <3>1 DEF Typed, TypeOK
    <3> QED BY <3>1, <3>2, <3>3, FailTypes
  <2> QED BY <2>1, <2>2
<1>11. ASSUME NEW s \in Runs, Serve(s) \/ ServerWorks(s) \/ ReaderGone(s) PROVE Typed'
  BY <1>11 DEF Serve, ServerWorks, ReaderGone, screen, session, Typed, TypeOK, Counted, Begun
<1>12. ASSUME UNCHANGED vars PROVE Typed'
  BY <1>12 DEF vars, screen, session, Typed, TypeOK, Counted, Begun
<1> QED BY <1>1, <1>2, <1>3, <1>4, <1>5, <1>6, <1>7, <1>8, <1>9, <1>10, <1>11, <1>12
       DEF Next, Client, Finished

(* Every step leaves the events alone or lets one turn's grow.             *)
LEMMA ServerStep ==
  ASSUME [Next]_vars
  PROVE  sent' = sent \/ \E s \in Runs : Grows(s)
<1>1. ASSUME NEW s \in Runs, Client(s) PROVE sent' = sent
  BY <1>1 DEF Client, FallBack, Headers, Receive, EndOfBody, Answered, Break, Stall, IdleTimeout,
              Rejects, Settle, Fail, serverVars
<1>2. ASSUME NEW s \in Runs, Serve(s) \/ ServerWorks(s) \/ ReaderGone(s) PROVE Grows(s)
  BY <1>2, ServerGrows DEF Serve, ServerWorks, ReaderGone
<1>3. ASSUME StartRun \/ CancelRun \/ Unmount \/ SaveCompletion \/ SaveEnds \/ FlushText
      PROVE  sent' = sent
  BY <1>3 DEF StartRun, CancelRun, Unmount, SaveCompletion, SaveEnds, FlushText, serverVars
<1>4. ASSUME UNCHANGED vars PROVE sent' = sent
  BY <1>4 DEF vars, serverVars
<1> QED BY <1>1, <1>2, <1>3, <1>4 DEF Next, Finished

LEMMA StreamsInit == Init => Streams
<1>1. ASSUME Init PROVE sent = [s \in Runs |-> <<>>]
  BY <1>1 DEF Init, Server!Init
<1>2. <<>> \in Seq({})
  OBVIOUS
<1> QED BY <1>1, <1>2 DEF Streams

LEMMA StreamsStep ==
  ASSUME Streams, [Next]_vars
  PROVE  Streams'
BY ServerStep, StreamsGrow DEF Streams

(* The type invariant, for any number of runs and any server.              *)
THEOREM TypeCorrect == Spec => []TypeOK
<1>1. Init => Typed /\ Streams
  BY TypeInit, StreamsInit
<1>2. Typed /\ Streams /\ [Next]_vars => Typed' /\ Streams'
  BY TypeStep, StreamsStep
<1>3. Typed => TypeOK
  BY DEF Typed
<1> QED BY <1>1, <1>2, <1>3, PTL DEF Spec

-----------------------------------------------------------------------------
(* The newest run is the only one the screen listens to.                   *)

Newest(s) == s = started /\ phase = "streaming"

Alone ==
  /\ \A s \in Runs : leg[s] \in Open /\ signal[s] = "none" => Newest(s)
  /\ \A s \in Runs : leg[s] \in Open /\ Current(s) => Newest(s)
  /\ phase = "streaming" => born[started] = generation
  /\ timer # 0 /\ Mounted => phase = "streaming" /\ timer = generation

LEMMA AloneInit == Init => Alone
PROOF BY DEF Init, Alone, Open

(* A run that settles closes its request; only the newest one ends the     *)
(* streaming phase.                                                        *)
LEMMA AloneSettle ==
  ASSUME Typed, Alone, NEW s \in Runs, NEW completed, NEW content,
         leg[s] \in Open, Settle(s, completed, content)
  PROVE  Alone'
<1> USE DEF Typed, TypeOK, Settle, Newest, Open
<1>1. CASE Current(s)
  BY <1>1 DEF Alone, Current, Mounted
<1>2. CASE ~Current(s)
  BY <1>2 DEF Alone, Current, Mounted
<1> QED BY <1>1, <1>2

LEMMA AloneStep ==
  ASSUME Typed, Alone, [Next]_vars
  PROVE  Alone'
<1> USE DEF Newest
<1>1. ASSUME StartRun PROVE Alone'
  BY <1>1, RunAssumption DEF Typed, TypeOK, Alone, StartRun, Open, Current, Mounted, Runs
<1>2. ASSUME CancelRun PROVE Alone'
  BY <1>2 DEF Typed, TypeOK, Alone, CancelRun, Abandon, Open, Current, Mounted, Runs
<1>3. ASSUME Unmount PROVE Alone'
  <2>1. CASE phase = "streaming"
    BY <1>3, <2>1 DEF Typed, TypeOK, Alone, Unmount, Abandon, Mounted, Open, Current, Runs
  <2>2. CASE phase # "streaming"
    BY <1>3, <2>2 DEF Typed, TypeOK, Alone, Unmount, Mounted, Open, Current, Runs
  <2> QED BY <2>1, <2>2
<1>4. ASSUME SaveCompletion \/ SaveEnds \/ FlushText PROVE Alone'
  BY <1>4 DEF Typed, TypeOK, Alone, SaveCompletion, SaveEnds, FlushText, session, Open, Current, Mounted
<1>5. ASSUME NEW s \in Runs, FallBack(s) \/ Headers(s) \/ Stall(s) \/ IdleTimeout(s) PROVE Alone'
  BY <1>5 DEF Typed, TypeOK, Alone, FallBack, Headers, Stall, IdleTimeout, screen, Open, Current, Mounted
<1>6. ASSUME NEW s \in Runs, Break(s) \/ EndOfBody(s) \/ Answered(s) \/ Rejects(s) PROVE Alone'
  <2>1. leg[s] \in Open
    BY <1>6 DEF Break, EndOfBody, Answered, Rejects, Open
  <2>2. \E completed, content : Settle(s, completed, content)
    BY <1>6 DEF Break, EndOfBody, Answered, Rejects, Fail
  <2> QED BY <2>1, <2>2, AloneSettle
<1>7. ASSUME NEW s \in Runs, Receive(s) PROVE Alone'
  <2> DEFINE e == sent[s][read[s] + 1]
  <2>1. CASE Acceptable(s, e)
    <3>1. /\ Display(s, e)
          /\ UNCHANGED <<phase, started, generation, born, leg, signal>>
          /\ leg[s] \in Open
      BY <1>7, <2>1 DEF Receive, Open
    <3>2. timer' = timer \/ (Current(s) /\ timer = 0 /\ timer' = generation)
      BY <3>1 DEF Display
    <3> QED BY <3>1, <3>2 DEF Alone, Current, Mounted
  <2>2. CASE ~Acceptable(s, e)
    <3>1. leg[s] \in Open /\ Settle(s, FALSE, {})
      BY <1>7, <2>2 DEF Receive, Fail, Open
    <3> QED BY <3>1, AloneSettle
  <2> QED BY <2>1, <2>2
<1>8. ASSUME NEW s \in Runs, Serve(s) \/ ServerWorks(s) \/ ReaderGone(s) PROVE Alone'
  BY <1>8 DEF Serve, ServerWorks, ReaderGone, screen, session, Alone, Current, Mounted
<1>9. ASSUME UNCHANGED vars PROVE Alone'
  BY <1>9 DEF vars, screen, session, Alone, Current, Mounted
<1> QED BY <1>1, <1>2, <1>3, <1>4, <1>5, <1>6, <1>7, <1>8, <1>9 DEF Next, Client, Finished

LEMMA AloneAlways == Spec => [](Typed /\ Alone)
<1>1. Init => Typed /\ Streams /\ Alone
  BY TypeInit, StreamsInit, AloneInit
<1>2. Typed /\ Streams /\ Alone /\ [Next]_vars => Typed' /\ Streams' /\ Alone'
  BY TypeStep, StreamsStep, AloneStep
<1> QED BY <1>1, <1>2, PTL DEF Spec

(* No request works for a screen that no longer waits for it: an open one  *)
(* that was not aborted is the newest run's, and its screen is streaming.  *)
THEOREM OnlyNewestWorks == Spec => []OneLiveRun
<1>1. Alone => OneLiveRun
  BY DEF Alone, OneLiveRun, Newest
<1> QED BY <1>1, AloneAlways, PTL

(* A run that settles while no run is streaming is not current.            *)
LEMMA SettleLate ==
  ASSUME Alone, NEW s \in Runs, NEW completed, NEW content,
         leg[s] \in Open, phase # "streaming", Settle(s, completed, content)
  PROVE  shown' = shown /\ phase' = phase
BY DEF Alone, Settle, Newest

Keeps ==
  phase # "streaming" /\ started' = started =>
    /\ shown' = shown
    /\ \/ phase' \in {phase, "closed"}
       \/ phase = "completed" /\ phase' = "saving"
       \/ phase = "saving" /\ phase' \in {"saved", "completed"}

LEMMA KeepsStep ==
  ASSUME Typed, Alone, [Next]_vars
  PROVE  Keeps
<1> SUFFICES ASSUME phase # "streaming", started' = started
    PROVE /\ shown' = shown
          /\ \/ phase' \in {phase, "closed"}
             \/ phase = "completed" /\ phase' = "saving"
             \/ phase = "saving" /\ phase' \in {"saved", "completed"}
  BY DEF Keeps
<1> DEFINE Kept == shown' = shown /\ phase' = phase
<1>1. ~StartRun
  BY DEF StartRun, Typed, TypeOK
<1>2. ~CancelRun
  BY DEF CancelRun
<1>3. ASSUME Unmount PROVE shown' = shown /\ phase' = "closed"
  BY <1>3 DEF Unmount
<1>4. ASSUME SaveCompletion \/ SaveEnds
      PROVE  /\ shown' = shown
             /\ \/ phase = "completed" /\ phase' = "saving"
                \/ phase = "saving" /\ phase' \in {"saved", "completed"}
  BY <1>4 DEF SaveCompletion, SaveEnds
<1>5. ASSUME FlushText PROVE Kept
  BY <1>5 DEF FlushText, Alone
<1>6. ASSUME NEW s \in Runs, FallBack(s) \/ Headers(s) \/ Stall(s) \/ IdleTimeout(s) PROVE Kept
  BY <1>6 DEF FallBack, Headers, Stall, IdleTimeout, screen
<1>7. ASSUME NEW s \in Runs, Break(s) \/ EndOfBody(s) \/ Answered(s) \/ Rejects(s) PROVE Kept
  <2>1. leg[s] \in Open
    BY <1>7 DEF Break, EndOfBody, Answered, Rejects, Open
  <2>2. \E completed, content : Settle(s, completed, content)
    BY <1>7 DEF Break, EndOfBody, Answered, Rejects, Fail
  <2> QED BY <2>1, <2>2, SettleLate
<1>8. ASSUME NEW s \in Runs, Receive(s) PROVE Kept
  <2>1. ~Current(s)
    BY <1>8 DEF Receive, Alone, Newest, Open
  <2> QED BY <1>8, <2>1 DEF Receive, Display, Fail, Settle
<1>9. ASSUME NEW s \in Runs, Serve(s) \/ ServerWorks(s) \/ ReaderGone(s) PROVE Kept
  BY <1>9 DEF Serve, ServerWorks, ReaderGone, screen
<1>10. ASSUME UNCHANGED vars PROVE Kept
  BY <1>10 DEF vars, screen
<1> QED BY <1>1, <1>2, <1>3, <1>4, <1>5, <1>6, <1>7, <1>8, <1>9, <1>10 DEF Next, Client, Finished

(* Whatever a run still delivers once it is over changes nothing on the    *)
(* screen; only the user's own steps do.                                   *)
THEOREM LateChangesNothing == Spec => LateStaysOut
<1>1. Typed /\ Alone /\ [Next]_vars => [Keeps]_vars
  BY KeepsStep
<1> QED BY <1>1, AloneAlways, PTL DEF Spec, LateStaysOut, Keeps

-----------------------------------------------------------------------------
(* What a run had parsed stays on the screen.                              *)

(* A run that is over parses no more; a run that has not started has       *)
(* parsed nothing; and nothing is parsed that was not sent.                *)
Parsed ==
  /\ \A s \in Runs : read[s] <= Len(sent[s])
  /\ \A s \in Runs : s > started => read[s] = 0 /\ leg[s] = "none"
  /\ phase \in {"error", "cancelled"} => leg[started] = "settled" \/ status[started] # "streaming"
  /\ phase \in {"error", "cancelled"} => started # 0
  /\ PartialKept

LEMMA ParsedInit == Init => Parsed
<1>1. ASSUME Init PROVE \A s \in Runs : sent[s] = <<>>
  BY <1>1 DEF Init, Server!Init
<1> QED BY <1>1 DEF Init, Parsed, PartialKept

(* The events on the screen are the same after the server sent more.       *)
LEMMA VisibleStays ==
  ASSUME NEW s \in Runs, NEW n \in Nat,
         Len(sent[s]) \in Nat, n <= Len(sent[s]),
         \A i \in 1..Len(sent[s]) : sent'[s][i] = sent[s][i]
  PROVE  {<<s, i>> : i \in {k \in 1..n : sent'[s][k].type \in {"text", "tool_call", "tool_result"}}}
           = Visible(s, n)
<1>1. \A k \in 1..n : sent'[s][k] = sent[s][k]
  OBVIOUS
<1> QED BY <1>1 DEF Visible

LEMMA VisibleGrows ==
  ASSUME NEW s, NEW n \in Nat
  PROVE  Visible(s, n + 1) =
           Visible(s, n) \cup (IF sent[s][n + 1].type \in {"text", "tool_call", "tool_result"}
                               THEN {<<s, n + 1>>} ELSE {})
<1>1. 1..(n + 1) = 1..n \cup {n + 1}
  OBVIOUS
<1> QED BY <1>1 DEF Visible

(* A settling run: the newest one's text is flushed, any other's is not    *)
(* on the screen.                                                          *)
LEMMA ParsedSettle ==
  ASSUME Typed, Streams, Alone, Parsed, NEW s \in Runs, NEW completed \in BOOLEAN, NEW content,
         leg[s] \in Open, Settle(s, completed, content),
         status' \in [Runs -> {"streaming", "completed", "error", "cancelled"}],
         \A r \in Runs : status[r] # "streaming" => status'[r] = status[r]
  PROVE  Parsed'
<1>1. /\ UNCHANGED <<sent, started, read>>
      /\ leg' = [leg EXCEPT ![s] = "settled"]
  BY DEF Settle, serverVars
<1>2. s <= started
  BY DEF Parsed, Typed, TypeOK, Runs, Open
<1>3. \A r \in Runs : r > started => leg'[r] = "none"
  BY <1>1, <1>2 DEF Parsed, Typed, TypeOK, Runs
<1>4. Visible(started, read[started])' = Visible(started, read[started])
  BY <1>1 DEF Visible
<1>5. CASE Current(s)
  <2>1. s = started /\ phase = "streaming"
    BY <1>5 DEF Alone, Newest
  <2>2. phase' \in {"completed", "error"} /\ leg'[started] = "settled"
    BY <1>1, <1>5, <2>1 DEF Settle, Typed, TypeOK
  <2>3. phase' = "error" => shown' = shown \cup buffer /\ buffer' = {}
    BY <1>5 DEF Settle
  <2>4. PartialKept'
    BY <1>1, <1>4, <2>1, <2>2, <2>3 DEF Parsed, PartialKept
  <2> QED BY <1>1, <1>3, <2>1, <2>2, <2>4 DEF Parsed, Typed, TypeOK, Runs
<1>6. CASE ~Current(s)
  <2>1. UNCHANGED <<phase, shown, buffer>>
    BY <1>6 DEF Settle
  <2>2. PartialKept'
    BY <1>1, <1>4, <2>1 DEF Parsed, PartialKept
  <2>3. phase' \in {"error", "cancelled"} =>
           leg'[started] = "settled" \/ status'[started] # "streaming"
    <3>1. phase \in {"error", "cancelled"} => started \in Runs
      BY DEF Parsed, Typed, TypeOK, Runs
    <3> QED BY <1>1, <2>1, <3>1 DEF Parsed, Typed, TypeOK
  <2> QED BY <1>1, <1>3, <2>1, <2>2, <2>3 DEF Parsed
<1> QED BY <1>5, <1>6

LEMMA ParsedReceive ==
  ASSUME Typed, Streams, Alone, Parsed, NEW s \in Runs, Receive(s)
  PROVE  Parsed'
<1> DEFINE e == sent[s][read[s] + 1]
<1>1. CASE ~Acceptable(s, e)
  <2>1. leg[s] \in Open /\ Settle(s, FALSE, {}) /\ status' = status
    BY <1>1 DEF Receive, Fail, Open
  <2>2. \E completed \in BOOLEAN : Settle(s, completed, {})
    BY <2>1
  <2>3. status' \in [Runs -> {"streaming", "completed", "error", "cancelled"}]
    BY <2>1 DEF Typed, TypeOK
  <2> QED BY <2>1, <2>2, <2>3, ParsedSettle
<1>2. CASE Acceptable(s, e)
  <2>1. /\ read' = [read EXCEPT ![s] = @ + 1]
        /\ status' = [status EXCEPT ![s] = StatusAfter(s, e)]
        /\ Display(s, e)
        /\ UNCHANGED <<sent, phase, started, generation, born, leg>>
        /\ leg[s] \in Open /\ status[s] = "streaming"
        /\ read[s] < Len(sent[s])
    BY <1>2 DEF Receive, Open, Acceptable, serverVars
  <2>2. s <= started
    BY <2>1 DEF Parsed, Typed, TypeOK, Runs, Open
  <2>3. Len(sent[s]) \in Nat
    BY DEF Streams
  <2>4. \A r \in Runs : read'[r] <= Len(sent'[r])
    BY <2>1, <2>3 DEF Parsed, Typed, TypeOK
  <2>5. \A r \in Runs : r > started => read'[r] = 0 /\ leg'[r] = "none"
    BY <2>1, <2>2 DEF Parsed, Typed, TypeOK, Runs
  <2>6. phase \in {"error", "cancelled"} => s # started
    BY <2>1 DEF Parsed, Open
  <2>7. phase \in {"error", "cancelled"} => leg'[started] = "settled" \/ status'[started] # "streaming"
    BY <2>1, <2>6 DEF Parsed, Typed, TypeOK, Runs
  <2>8. PartialKept'
    <3>1. CASE s = started /\ phase = "streaming"
      <4>1. Current(s)
        BY <3>1 DEF Alone, Current, Mounted
      <4>2. /\ shown' = IF e.type \in {"tool_call", "tool_result"} THEN shown \cup {<<s, read[s] + 1>>} ELSE shown
            /\ buffer' = IF e.type = "text" THEN buffer \cup {<<s, read[s] + 1>>} ELSE buffer
        BY <2>1, <4>1 DEF Display
      <4>3. shown' \cup buffer' = (shown \cup buffer) \cup
              (IF e.type \in {"text", "tool_call", "tool_result"} THEN {<<s, read[s] + 1>>} ELSE {})
        BY <4>2
      <4>4. read'[s] = read[s] + 1 /\ read[s] \in Nat
        BY <2>1 DEF Typed, TypeOK
      <4>5. shown \cup buffer = Visible(s, read[s])
        BY <3>1 DEF Parsed, PartialKept
      <4>6. Visible(s, read[s] + 1)' = {<<s, i>> : i \in {k \in 1..read'[s] + 1 :
                sent[s][k].type \in {"text", "tool_call", "tool_result"}}}
        BY <2>1 DEF Visible
      <4>7. shown' \cup buffer' = Visible(s, read[s] + 1)
        BY <4>3, <4>4, <4>5, VisibleGrows
      <4>8. Visible(s, read[s])' = Visible(s, read[s] + 1)
        BY <2>1, <4>4 DEF Visible
      <4> QED BY <2>1, <3>1, <4>7, <4>8 DEF PartialKept
    <3>2. CASE ~(s = started /\ phase = "streaming")
      <4>1. ~Current(s)
        BY <2>1, <3>2 DEF Alone, Newest
      <4>2. UNCHANGED <<shown, buffer>>
        BY <2>1, <4>1 DEF Display
      <4>3. phase \in {"streaming", "error", "cancelled"} => s # started /\ read'[started] = read[started]
        BY <2>1, <2>6, <3>2 DEF Typed, TypeOK
      <4>4. phase \in {"streaming", "error", "cancelled"} =>
              Visible(started, read[started])' = Visible(started, read[started])
        BY <2>1, <4>3 DEF Visible
      <4> QED BY <2>1, <4>2, <4>4 DEF Parsed, PartialKept
    <3> QED BY <3>1, <3>2
  <2> QED BY <2>1, <2>4, <2>5, <2>7, <2>8 DEF Parsed
<1> QED BY <1>1, <1>2

LEMMA ParsedServer ==
  ASSUME Typed, Streams, Parsed, NEW s \in Runs, Grows(s), UNCHANGED <<screen, session>>
  PROVE  Parsed'
<1>1. \A r \in Runs : /\ Len(sent[r]) \in Nat /\ Len(sent'[r]) \in Nat /\ Len(sent[r]) <= Len(sent'[r])
                      /\ \A i \in 1..Len(sent[r]) : sent'[r][i] = sent[r][i]
  BY StreamsGrow
<1>2. \A r \in Runs : read'[r] <= Len(sent'[r])
  <2>1. \A r \in Runs : read'[r] = read[r] /\ read[r] \in Nat /\ read[r] <= Len(sent[r])
    BY DEF session, Parsed, Typed, TypeOK
  <2> QED BY <1>1, <2>1
<1>3. phase \in {"streaming", "error", "cancelled"} =>
        Visible(started, read[started])' = Visible(started, read[started])
  <2>1. SUFFICES ASSUME phase \in {"streaming", "error", "cancelled"}
                 PROVE Visible(started, read[started])' = Visible(started, read[started])
    OBVIOUS
  <2>2. started \in Runs
    BY <2>1 DEF Parsed, Typed, TypeOK, Begun, Runs
  <2>3. read[started] \in Nat /\ read[started] <= Len(sent[started])
    BY <2>2 DEF Parsed, Typed, TypeOK
  <2>4. Visible(started, read[started])' =
          {<<started, i>> : i \in {k \in 1..read[started] :
             sent'[started][k].type \in {"text", "tool_call", "tool_result"}}}
    BY DEF Visible, screen, session
  <2> QED BY <1>1, <2>2, <2>3, <2>4, VisibleStays
<1> QED BY <1>2, <1>3 DEF Parsed, PartialKept, screen, session

LEMMA ParsedStep ==
  ASSUME Typed, Streams, Alone, Parsed, [Next]_vars
  PROVE  Parsed'
<1>1. ASSUME StartRun PROVE Parsed'
  <2>1. /\ started + 1 \in Runs /\ started' = started + 1 /\ read' = read /\ sent' = sent
        /\ leg' = [leg EXCEPT ![started + 1] = "request"]
        /\ phase' = "streaming" /\ shown' = {} /\ buffer' = {}
    BY <1>1, RunAssumption DEF StartRun, serverVars, Typed, TypeOK, Runs
  <2>2. read[started + 1] = 0
    BY <2>1 DEF Parsed, Typed, TypeOK, Runs
  <2>3. Visible(started, read[started])' = {}
    BY <2>1, <2>2 DEF Visible
  <2>4. \A r \in Runs : r > started' => read'[r] = 0 /\ leg'[r] = "none"
    BY <2>1 DEF Parsed, Typed, TypeOK, Runs
  <2> QED BY <2>1, <2>3, <2>4 DEF Parsed, PartialKept
<1>2. ASSUME CancelRun PROVE Parsed'
  <2>1. /\ UNCHANGED <<started, read, sent, leg>> /\ phase = "streaming" /\ phase' = "cancelled"
        /\ shown' = shown \cup buffer /\ buffer' = {}
        /\ status' = [status EXCEPT ![started] = IF @ = "streaming" THEN "cancelled" ELSE @]
    BY <1>2 DEF CancelRun, Abandon, serverVars
  <2>2. started \in Runs
    BY <2>1 DEF Typed, TypeOK, Begun, Runs
  <2>3. status'[started] # "streaming"
    BY <2>1, <2>2 DEF Typed, TypeOK
  <2>4. Visible(started, read[started])' = Visible(started, read[started])
    BY <2>1 DEF Visible
  <2>5. started # 0
    BY <2>2 DEF Runs
  <2>6. PartialKept'
    BY <2>1, <2>4 DEF Parsed, PartialKept
  <2> QED BY <2>1, <2>3, <2>5, <2>6 DEF Parsed
<1>3. ASSUME Unmount PROVE Parsed'
  BY <1>3 DEF Unmount, Parsed, PartialKept, serverVars
<1>4. ASSUME SaveCompletion \/ SaveEnds PROVE Parsed'
  BY <1>4 DEF SaveCompletion, SaveEnds, Parsed, PartialKept, serverVars, session
<1>5. ASSUME FlushText PROVE Parsed'
  <2>1. /\ UNCHANGED <<started, read, sent, leg, status, phase>> /\ buffer' = {}
        /\ phase \in {"streaming", "error", "cancelled"} => shown' = shown \cup buffer
    BY <1>5 DEF FlushText, serverVars, session, Alone, Mounted
  <2>2. Visible(started, read[started])' = Visible(started, read[started])
    BY <2>1 DEF Visible
  <2> QED BY <2>1, <2>2 DEF Parsed, PartialKept
<1>6. ASSUME NEW s \in Runs, FallBack(s) \/ Headers(s) \/ Stall(s) \/ IdleTimeout(s) PROVE Parsed'
  <2>1. /\ UNCHANGED <<started, read, sent, status, phase, shown, buffer>>
        /\ leg' = leg \/ (leg[s] = "request" /\ \E l : leg' = [leg EXCEPT ![s] = l])
    BY <1>6 DEF FallBack, Headers, Stall, IdleTimeout, screen, serverVars
  <2>2. Visible(started, read[started])' = Visible(started, read[started])
    BY <2>1 DEF Visible
  <2>3. leg[s] = "request" => ~(s > started)
    BY DEF Parsed
  <2>4. \A r \in Runs : leg'[r] = leg[r] \/ (r = s /\ leg[r] = "request")
    BY <2>1 DEF Typed, TypeOK
  <2>5. \A r \in Runs : r > started' => read'[r] = 0 /\ leg'[r] = "none"
    BY <2>1, <2>3, <2>4 DEF Parsed
  <2>6. phase \in {"error", "cancelled"} => leg'[started] = "settled" \/ status'[started] # "streaming"
    <3>1. phase \in {"error", "cancelled"} => started \in Runs
      BY DEF Parsed, Typed, TypeOK, Runs
    <3> QED BY <2>1, <2>4, <3>1 DEF Parsed
  <2> QED BY <2>1, <2>2, <2>5, <2>6 DEF Parsed, PartialKept
<1>7. ASSUME NEW s \in Runs, Break(s) \/ EndOfBody(s) \/ Answered(s) \/ Rejects(s) PROVE Parsed'
  <2>1. leg[s] \in Open
    BY <1>7 DEF Break, EndOfBody, Answered, Rejects, Open
  <2>2. PICK completed \in BOOLEAN : \E content : Settle(s, completed, content)
    BY <1>7 DEF Break, EndOfBody, Answered, Rejects, Fail, StreamEarned, FoldEarned
  <2>3. /\ status' \in [Runs -> {"streaming", "completed", "error", "cancelled"}]
        /\ \A r \in Runs : status[r] # "streaming" => status'[r] = status[r]
    BY <1>7 DEF Break, EndOfBody, Answered, Rejects, Fail, Typed, TypeOK
  <2> QED BY <2>1, <2>2, <2>3, ParsedSettle
<1>8. ASSUME NEW s \in Runs, Receive(s) PROVE Parsed'
  BY <1>8, ParsedReceive
<1>9. ASSUME NEW s \in Runs, Serve(s) \/ ServerWorks(s) \/ ReaderGone(s) PROVE Parsed'
  BY <1>9, ServerGrows, ParsedServer DEF Serve, ServerWorks, ReaderGone
<1>10. ASSUME UNCHANGED vars PROVE Parsed'
  BY <1>10 DEF vars, serverVars, screen, session, Parsed, PartialKept, Visible
<1> QED BY <1>1, <1>2, <1>3, <1>4, <1>5, <1>6, <1>7, <1>8, <1>9, <1>10 DEF Next, Client, Finished

(* "Partial text stays on screen": a run that streams, failed or was       *)
(* cancelled shows exactly what it had parsed by then, whatever the other  *)
(* runs, the timers and the server do.                                     *)
THEOREM PartialAlwaysKept == Spec => []PartialKept
<1>1. Init => Typed /\ Streams /\ Alone /\ Parsed
  BY TypeInit, StreamsInit, AloneInit, ParsedInit
<1>2. Typed /\ Streams /\ Alone /\ Parsed /\ [Next]_vars => Typed' /\ Streams' /\ Alone' /\ Parsed'
  BY TypeStep, StreamsStep, AloneStep, ParsedStep
<1>3. Parsed => PartialKept
  BY DEF Parsed
<1> QED BY <1>1, <1>2, <1>3, PTL DEF Spec

-----------------------------------------------------------------------------
(* The turns behind the runs.  What is proved of the agent loop for any    *)
(* set of turns holds of the runs' turns: every step of the research run   *)
(* is a step of their loop, or leaves it alone.                            *)
Turn == INSTANCE AgentTurnProofs WITH Turns <- Runs

LEMMA TurnAssumption == Turn!AgentAssumption
PROOF BY RunAssumption DEF Turn!AgentAssumption, Exact

LEMMA TurnInit == Init => Turn!Init
PROOF BY DEF Init, Server!Init, Turn!Init

LEMMA TurnBegins == ASSUME NEW s \in Runs, Server!Begin(s) PROVE Turn!Begin(s)
PROOF BY DEF Server!Begin, Turn!Begin, Server!Goto, Turn!Goto, Server!Emit, Turn!Emit,
             Server!Event, Turn!Event

LEMMA TurnCloses == ASSUME NEW s \in Runs, Server!Close(s) PROVE Turn!Close(s)
PROOF BY DEF Server!Close, Turn!Close, Server!Goto, Turn!Goto, Server!Live, Turn!Live,
             Server!Handling, Turn!Handling

LEMMA TurnWorks == ASSUME NEW s \in Runs, Server!Work(s) PROVE Turn!Work(s)
<1> USE DEF Server!Goto, Turn!Goto, Server!Emit, Turn!Emit, Server!Event, Turn!Event,
            Server!EndTurn, Turn!EndTurn, Server!Resolve, Turn!Resolve, Server!Spend, Turn!Spend,
            Server!CallEvent, Turn!CallEvent, Server!ResultEvent, Turn!ResultEvent
<1>1. Server!ModelText(s) => Turn!ModelText(s)
  BY DEF Server!ModelText, Turn!ModelText
<1>2. Server!ModelStop(s) => Turn!ModelStop(s)
  BY DEF Server!ModelStop, Turn!ModelStop, Server!Stop, Turn!Stop, Server!RefuseFirst,
         Turn!RefuseFirst, Server!Accept, Turn!Accept, Server!FirstDue, Turn!FirstDue,
         Server!Asked, Turn!Asked
<1>3. Server!ModelFails(s) => Turn!ModelFails(s)
  BY DEF Server!ModelFails, Turn!ModelFails
<1>4. Server!RefuseOverBudget(s) => Turn!RefuseOverBudget(s)
  BY DEF Server!RefuseOverBudget, Turn!RefuseOverBudget
<1>5. Server!RefuseUnselected(s) => Turn!RefuseUnselected(s)
  BY DEF Server!RefuseUnselected, Turn!RefuseUnselected
<1>6. Server!ReportRefusal(s) => Turn!ReportRefusal(s)
  BY DEF Server!ReportRefusal, Turn!ReportRefusal
<1>7. Server!CallTool(s) => Turn!CallTool(s)
  BY DEF Server!CallTool, Turn!CallTool
<1>8. Server!ToolReturns(s) => Turn!ToolReturns(s)
  BY DEF Server!ToolReturns, Turn!ToolReturns
<1>9. Server!ToolRaises(s) => Turn!ToolRaises(s)
  BY DEF Server!ToolRaises, Turn!ToolRaises
<1>10. Server!FailRequired(s) => Turn!FailRequired(s)
  BY DEF Server!FailRequired, Turn!FailRequired
<1>11. Server!PublishArticle(s) => Turn!PublishArticle(s)
  BY DEF Server!PublishArticle, Turn!PublishArticle
<1>12. Server!NextRound(s) => Turn!NextRound(s)
  BY DEF Server!NextRound, Turn!NextRound
<1> QED BY <1>1, <1>2, <1>3, <1>4, <1>5, <1>6, <1>7, <1>8, <1>9, <1>10, <1>11, <1>12
        DEF Server!Work, Turn!Work

LEMMA TurnStep ==
  ASSUME [Next]_vars
  PROVE  [Turn!Next]_(Turn!vars)
<1>1. ASSUME NEW s \in Runs, Client(s) PROVE UNCHANGED serverVars
  BY <1>1 DEF Client, FallBack, Headers, Receive, EndOfBody, Answered, Break, Stall, IdleTimeout,
              Rejects, Settle, Fail
<1>2. ASSUME NEW s \in Runs, Serve(s) \/ ServerWorks(s) \/ ReaderGone(s) PROVE Turn!Next
  BY <1>2, TurnBegins, TurnWorks, TurnCloses DEF Serve, ServerWorks, ReaderGone, Turn!Next
<1>3. ASSUME StartRun \/ CancelRun \/ Unmount \/ SaveCompletion \/ SaveEnds \/ FlushText
      PROVE  UNCHANGED serverVars
  BY <1>3 DEF StartRun, CancelRun, Unmount, SaveCompletion, SaveEnds, FlushText
<1>4. ASSUME UNCHANGED vars PROVE UNCHANGED serverVars
  BY <1>4 DEF vars
<1>5. UNCHANGED serverVars => UNCHANGED Turn!vars
  BY DEF serverVars, Turn!vars
<1> QED BY <1>1, <1>2, <1>3, <1>4, <1>5 DEF Next, Finished

(* Whatever the app does, the turns behind its runs are turns of the agent *)
(* loop: it starts one, reads what one sent and goes away, and all that is *)
(* proved of the loop holds for its runs.                                  *)
THEOREM TurnsAreAgentTurns == Spec => Turn!Spec
BY TurnInit, TurnStep, PTL DEF Spec, Turn!Spec

LEMMA TurnsWhole ==
  /\ Init => Turn!Whole
  /\ Turn!Whole /\ [Next]_vars => Turn!Whole'
PROOF BY TurnAssumption, TurnInit, TurnStep, Turn!WholeInit, Turn!WholeStep

(* What a client may rely on in the events of a run.                       *)
LEMMA TurnFacts ==
  ASSUME Turn!Whole, NEW s \in Runs
  PROVE  /\ Len(sent[s]) \in Nat /\ DOMAIN sent[s] = 1..Len(sent[s])
         /\ \A i \in 1..Len(sent[s]) :
              /\ (sent[s][i].type = "start") = (i = 1)
              /\ sent[s][i].type \in {"done", "error"} => i = Len(sent[s]) /\ pc[s] = "over"
              /\ sent[s][i].type \in {"tool_call", "tool_result"} =>
                   sent[s][i].call.name \in Selected
              /\ sent[s][i].type = "done" =>
                   /\ ran[s][1] = Required
                   /\ \E k \in DOMAIN sent[s] :
                        sent[s][k].type = "tool_result" /\ sent[s][k].call.name = Required
                        /\ sent[s][k].ok
<1>1. Len(sent[s]) \in Nat /\ DOMAIN sent[s] = 1..Len(sent[s])
  BY DEF Turn!Whole, Turn!IInv, Turn!TypeOK
<1>2. Turn!Phases(s) /\ \A i \in DOMAIN sent[s] : Turn!NamesSelected(sent[s][i])
  BY RunAssumption DEF Turn!Whole, Turn!Progress, Turn!Allowed, Exact
<1>3. Turn!Concluded(s) => Turn!Won(s) /\ ran[s][1] = Required
  BY <1>2 DEF Turn!Phases
<1> QED BY <1>1, <1>2, <1>3
        DEF Turn!Whole, Turn!Shaped, Turn!Final, Turn!NamesSelected, Turn!Concluded, Turn!Won

-----------------------------------------------------------------------------
(* The client's parser and the server's stream.                            *)

(* Until a run settles, its session is at an end only if the last event it *)
(* parsed said so.                                                         *)
Following ==
  \A s \in Runs :
    /\ ~refused[s]
    /\ leg[s] # "settled" /\ status[s] = "completed" =>
         read[s] # 0 /\ sent[s][read[s]].type = "done"
    /\ leg[s] # "settled" /\ status[s] = "error" =>
         read[s] # 0 /\ sent[s][read[s]].type = "error"

LEMMA FollowingInit == Init => Following
PROOF BY DEF Init, Following

(* The next event of an open stream is one the parser takes.               *)
LEMMA NextIsAcceptable ==
  ASSUME Typed, Turn!Whole, Following, NEW s \in Runs,
         leg[s] = "stream", status[s] # "cancelled", read[s] < Len(sent[s])
  PROVE  Acceptable(s, sent[s][read[s] + 1])
<1>1. read[s] \in Nat /\ Len(sent[s]) \in Nat
  BY TurnFacts DEF Typed, TypeOK
<1>2. read[s] + 1 \in 1..Len(sent[s]) /\ (read[s] # 0 => read[s] \in 1..Len(sent[s]))
  BY <1>1
<1>3. status[s] = "streaming"
  <2>1. read[s] # 0 => sent[s][read[s]].type \notin {"done", "error"}
    BY <1>1, <1>2, TurnFacts
  <2> QED BY <2>1 DEF Following, Typed, TypeOK
<1> QED BY <1>1, <1>2, <1>3, TurnFacts DEF Acceptable

(* A step that changes no session but s's, and that one only by settling.  *)
LEMMA FollowingSettle ==
  ASSUME Typed, Following, NEW s \in Runs, UNCHANGED <<sent, read, refused>>,
         leg' = [leg EXCEPT ![s] = "settled"],
         \A r \in Runs \ {s} : status'[r] = status[r]
  PROVE  Following'
PROOF BY DEF Typed, TypeOK, Following

LEMMA FollowingStep ==
  ASSUME Typed, Streams, Parsed, Turn!Whole, Following, [Next]_vars
  PROVE  Following'
<1>1. ASSUME StartRun PROVE Following'
  <2>1. /\ UNCHANGED <<sent, read, refused, status>>
        /\ leg' = [leg EXCEPT ![started + 1] = "request"]
    BY <1>1 DEF StartRun, serverVars
  <2>2. \A r \in Runs : r = started + 1 => leg[r] = "none"
    BY DEF Parsed, Typed, TypeOK, Runs
  <2>3. \A r \in Runs : leg'[r] # "settled" => leg[r] # "settled"
    BY <2>1, <2>2 DEF Typed, TypeOK
  <2> QED BY <2>1, <2>3 DEF Following
<1>2. ASSUME CancelRun \/ Unmount PROVE Following'
  <2>1. /\ UNCHANGED <<sent, read, refused, leg>>
        /\ \A r \in Runs : status'[r] \in {status[r], "cancelled"}
    BY <1>2 DEF CancelRun, Unmount, Abandon, serverVars, Typed, TypeOK
  <2> QED BY <2>1 DEF Following
<1>3. ASSUME SaveCompletion \/ SaveEnds \/ FlushText \/ UNCHANGED vars PROVE Following'
  BY <1>3 DEF SaveCompletion, SaveEnds, FlushText, vars, serverVars, session, Following
<1>4. ASSUME NEW s \in Runs, FallBack(s) \/ Headers(s) \/ Stall(s) \/ IdleTimeout(s) PROVE Following'
  <2>1. /\ UNCHANGED <<sent, read, refused, status>>
        /\ \A r \in Runs : leg'[r] # "settled" => leg[r] # "settled"
    BY <1>4 DEF FallBack, Headers, Stall, IdleTimeout, serverVars, Typed, TypeOK
  <2> QED BY <2>1 DEF Following
<1>5. ASSUME NEW s \in Runs, Break(s) \/ EndOfBody(s) \/ Answered(s) \/ Rejects(s) PROVE Following'
  BY <1>5, FollowingSettle
     DEF Break, EndOfBody, Answered, Rejects, Fail, Settle, serverVars, Typed, TypeOK
<1>6. ASSUME NEW s \in Runs, Receive(s) PROVE Following'
  <2> DEFINE e == sent[s][read[s] + 1]
  <2>1. Acceptable(s, e)
    BY <1>6, NextIsAcceptable DEF Receive
  <2>2. /\ read' = [read EXCEPT ![s] = @ + 1]
        /\ status' = [status EXCEPT ![s] = StatusAfter(s, e)]
        /\ UNCHANGED <<sent, leg, refused>>
    BY <1>6, <2>1 DEF Receive, serverVars
  <2>3. status[s] = "streaming" /\ read[s] \in Nat
    BY <2>1 DEF Acceptable, Typed, TypeOK
  <2>4. /\ read'[s] = read[s] + 1 /\ read'[s] # 0
        /\ status'[s] = StatusAfter(s, e)
        /\ \A r \in Runs \ {s} : read'[r] = read[r] /\ status'[r] = status[r]
    BY <2>2, <2>3 DEF Typed, TypeOK
  <2>5. /\ StatusAfter(s, e) = "completed" => e.type = "done"
        /\ StatusAfter(s, e) = "error" => e.type = "error"
    BY <2>3 DEF StatusAfter
  <2> QED BY <2>2, <2>4, <2>5 DEF Following
<1>7. ASSUME NEW s \in Runs, Serve(s) \/ ServerWorks(s) \/ ReaderGone(s) PROVE Following'
  <2>1. UNCHANGED <<read, refused, leg, status>>
    BY <1>7 DEF Serve, ServerWorks, ReaderGone, session
  <2>2. \A r \in Runs : \A i \in 1..Len(sent[r]) : sent'[r][i] = sent[r][i]
    BY <1>7, ServerGrows, StreamsGrow DEF Serve, ServerWorks, ReaderGone
  <2>3. \A r \in Runs : read[r] # 0 => read[r] \in 1..Len(sent[r])
    BY TurnFacts DEF Parsed, Typed, TypeOK
  <2> QED BY <2>1, <2>2, <2>3 DEF Following
<1> QED BY <1>1, <1>2, <1>3, <1>4, <1>5, <1>6, <1>7 DEF Next, Client, Finished

(* All parts together, for the theorems that need the server's promises.   *)
Run == Typed /\ Streams /\ Alone /\ Parsed /\ Turn!Whole /\ Following

LEMMA RunAlways == Spec => []Run
<1>1. Init => Run
  BY TypeInit, StreamsInit, AloneInit, ParsedInit, TurnsWhole, FollowingInit DEF Run
<1>2. Run /\ [Next]_vars => Run'
  BY TypeStep, StreamsStep, AloneStep, ParsedStep, TurnsWhole, FollowingStep DEF Run
<1> QED BY <1>1, <1>2, PTL DEF Spec

(* The parser never finds fault with what the agent loop sends: start      *)
(* first, nothing after done or error, only tools of the allowlist.        *)
THEOREM ParserNeverRefuses == Spec => []NeverRefused
<1>1. Run => NeverRefused
  BY DEF Run, Following, NeverRefused
<1> QED BY <1>1, RunAlways, PTL

-----------------------------------------------------------------------------
(* Only whole runs complete.                                               *)

Complete(s) ==
  /\ pc[s] = "over" /\ sent[s][Len(sent[s])].type = "done"
  /\ Folded(s) \subseteq shown
  /\ \A p \in shown : p[1] = s

(* The part that is the server's: a turn that is over with done has run    *)
(* the required tool first and with success.                               *)
LEMMA DoneIsEarned ==
  ASSUME Turn!Whole, NEW s \in Runs, Complete(s)
  PROVE  /\ ran[s][1] = Required
         /\ \E i \in DOMAIN sent[s] :
              sent[s][i].type = "tool_result" /\ sent[s][i].call.name = Required /\ sent[s][i].ok
<1>1. Len(sent[s]) # 0
  <2>1. sent[s] # <<>>
    BY DEF Complete, Turn!Whole, Turn!IInv, Turn!Speaking
  <2>2. sent[s] \in Seq(Turn!Events)
    BY DEF Turn!Whole, Turn!IInv, Turn!TypeOK
  <2> QED BY <2>1, <2>2
<1>2. Len(sent[s]) \in 1..Len(sent[s])
  BY <1>1, TurnFacts
<1> QED BY <1>2, TurnFacts DEF Complete

OnlyComplete == phase \in {"completed", "saving", "saved"} => started \in Runs /\ Complete(started)

LEMMA CompleteInit == Init => OnlyComplete
PROOF BY DEF Init, OnlyComplete

(* A run completes on a stream whose last event it has parsed, or on the   *)
(* folded answer of a turn that is over.                                   *)
LEMMA SettleComplete ==
  ASSUME Run, OnlyComplete, NEW s \in Runs, NEW completed \in BOOLEAN, NEW content,
         leg[s] \in Open, Settle(s, completed, content),
         completed => /\ pc[s] = "over" /\ sent[s][Len(sent[s])].type = "done"
                      /\ Folded(s) \subseteq content /\ \A p \in content : p[1] = s
  PROVE  OnlyComplete'
<1>1. UNCHANGED <<pc, sent, started>> /\ Folded(started)' = Folded(started)
  BY DEF Settle, serverVars, Folded
<1>2. CASE Current(s)
  <2>1. s = started
    BY <1>2 DEF Run, Alone, Newest
  <2>2. /\ phase' = IF completed THEN "completed" ELSE "error"
        /\ completed => shown' = content
    BY <1>2 DEF Settle
  <2> QED BY <1>1, <2>1, <2>2 DEF OnlyComplete, Complete
<1>3. CASE ~Current(s)
  BY <1>1, <1>3 DEF Settle, OnlyComplete, Complete
<1> QED BY <1>2, <1>3

LEMMA StreamCompletes ==
  ASSUME Run, NEW s \in Runs, leg[s] = "stream", StreamEarned(s)
  PROVE  /\ pc[s] = "over" /\ sent[s][Len(sent[s])].type = "done"
         /\ Folded(s) \subseteq Visible(s, read[s]) /\ \A p \in Visible(s, read[s]) : p[1] = s
<1>1. read[s] # 0 /\ sent[s][read[s]].type = "done"
  BY DEF Run, Following, StreamEarned
<1>2. Len(sent[s]) \in Nat /\ DOMAIN sent[s] = 1..Len(sent[s]) /\ read[s] \in Nat /\ read[s] <= Len(sent[s])
  BY TurnFacts DEF Run, Parsed, Typed, TypeOK
<1>3. read[s] \in 1..Len(sent[s])
  BY <1>1, <1>2
<1>4. read[s] = Len(sent[s]) /\ pc[s] = "over"
  BY <1>1, <1>3, TurnFacts DEF Run
<1> QED BY <1>1, <1>2, <1>4 DEF Folded, Visible

LEMMA CompleteStep ==
  ASSUME Run, OnlyComplete, [Next]_vars
  PROVE  OnlyComplete'
<1>1. ASSUME StartRun \/ CancelRun \/ Unmount PROVE OnlyComplete'
  <2>1. phase' \in {"streaming", "cancelled", "closed"}
    BY <1>1 DEF StartRun, CancelRun, Unmount
  <2> QED BY <2>1 DEF OnlyComplete
<1>2. ASSUME SaveCompletion \/ SaveEnds \/ UNCHANGED vars PROVE OnlyComplete'
  BY <1>2 DEF SaveCompletion, SaveEnds, vars, serverVars, screen, OnlyComplete, Complete, Folded
<1>3. ASSUME FlushText PROVE OnlyComplete'
  <2>1. phase \in {"completed", "saving", "saved"} => UNCHANGED shown
    BY <1>3 DEF FlushText, Run, Alone, Mounted
  <2> QED BY <1>3, <2>1 DEF FlushText, serverVars, OnlyComplete, Complete, Folded
<1>4. ASSUME NEW s \in Runs, FallBack(s) \/ Headers(s) \/ Stall(s) \/ IdleTimeout(s) PROVE OnlyComplete'
  BY <1>4 DEF FallBack, Headers, Stall, IdleTimeout, serverVars, screen, OnlyComplete, Complete, Folded
<1>5. ASSUME NEW s \in Runs, Break(s) \/ Rejects(s) PROVE OnlyComplete'
  BY <1>5, SettleComplete DEF Break, Rejects, Fail
<1>6. ASSUME NEW s \in Runs, EndOfBody(s) PROVE OnlyComplete'
  <2>1. leg[s] = "stream" /\ leg[s] \in Open /\ Settle(s, StreamEarned(s), Visible(s, read[s]))
    BY <1>6 DEF EndOfBody, Open
  <2>2. StreamEarned(s) \in BOOLEAN
    BY DEF StreamEarned
  <2> QED BY <2>1, <2>2, SettleComplete, StreamCompletes
<1>7. ASSUME NEW s \in Runs, Answered(s) PROVE OnlyComplete'
  <2> DEFINE earned == sent[s][Len(sent[s])].type = "done" /\ FoldEarned(s)
  <2>1. leg[s] \in Open /\ pc[s] = "over" /\ Settle(s, earned, Folded(s)) /\ earned \in BOOLEAN
    BY <1>7 DEF Answered, Open, FoldEarned
  <2>2. \A p \in Folded(s) : p[1] = s
    BY DEF Folded
  <2> QED BY <2>1, <2>2, SettleComplete
<1>8. ASSUME NEW s \in Runs, Receive(s) PROVE OnlyComplete'
  <2>1. Acceptable(s, sent[s][read[s] + 1])
    BY <1>8, NextIsAcceptable DEF Receive, Run
  <2>2. UNCHANGED <<serverVars, phase, started>> /\ Display(s, sent[s][read[s] + 1])
    BY <1>8, <2>1 DEF Receive
  <2>3. phase \in {"completed", "saving", "saved"} => ~Current(s)
    BY <1>8 DEF Receive, Run, Alone, Newest, Open
  <2> QED BY <2>2, <2>3 DEF Display, serverVars, OnlyComplete, Complete, Folded
<1>9. ASSUME NEW s \in Runs, Serve(s) \/ ServerWorks(s) \/ ReaderGone(s) PROVE OnlyComplete'
  <2>1. UNCHANGED <<phase, started, shown>>
    BY <1>9 DEF Serve, ServerWorks, ReaderGone, screen
  <2>2. ASSUME phase \in {"completed", "saving", "saved"}
        PROVE  pc'[started] = "over" /\ sent'[started] = sent[started]
    <3>1. started \in Runs /\ pc[started] = "over"
      BY <2>2 DEF OnlyComplete, Complete
    <3>2. Turn!TypeOK /\ Turn!Held /\ [Turn!Next]_(Turn!vars)
      BY TurnStep DEF Run, Turn!Whole, Turn!IInv
    <3> QED BY <3>1, <3>2, TurnAssumption, Turn!OverStays
  <2> QED BY <2>1, <2>2 DEF OnlyComplete, Complete, Folded
<1> QED BY <1>1, <1>2, <1>3, <1>4, <1>5, <1>6, <1>7, <1>8, <1>9 DEF Next, Client, Finished

(* What can be saved is a whole run: the newest one, whose turn said done  *)
(* after the required tool ran first and succeeded, with all its prose and *)
(* tool results, and nothing of another run, on the screen.                *)
THEOREM OnlyWholeRunsComplete == Spec => []CompletionEarned
<1>1. Init => OnlyComplete
  BY CompleteInit
<1>2. Run /\ OnlyComplete /\ [Next]_vars => OnlyComplete'
  BY CompleteStep
<1>3. Run /\ OnlyComplete => CompletionEarned
  BY DoneIsEarned DEF Run, OnlyComplete, Complete, CompletionEarned
<1> QED BY <1>1, <1>2, <1>3, RunAlways, PTL DEF Spec
=============================================================================
