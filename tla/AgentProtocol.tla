---------------------------- MODULE AgentProtocol ----------------------------
(***************************************************************************)
(* What the readers of an agent event stream may rely on, whatever the     *)
(* model answers and whichever tools run: one start, every tool_call       *)
(* followed by its own tool_result or by the error that ends the turn, an  *)
(* article only after a tool that succeeded, and nothing after the first   *)
(* done or error.                                                          *)
(***************************************************************************)
CONSTANTS
  Turns,     \* agent turns, one per request
  Calls      \* tool calls the model may make

VARIABLE
  last       \* the newest event of each turn's stream

Event(type) == [type |-> type]
CallEvent(c) == [type |-> "tool_call", call |-> c]
ResultEvent(c, ok) == [type |-> "tool_result", call |-> c, ok |-> ok]

Silence == Event("silence")   \* nothing on the stream yet

Init == last = [t \in Turns |-> Silence]

Says(t, e) == last' = [last EXCEPT ![t] = e]

Open(t) ==
  /\ last[t].type = "silence"
  /\ Says(t, Event("start"))

(* Prose, a tool call, a failure or the end.                               *)
Continue(t) ==
  /\ last[t].type \in {"start", "text", "tool_result", "article"}
  /\ \/ \E type \in {"text", "error", "done"} : Says(t, Event(type))
     \/ \E c \in Calls : Says(t, CallEvent(c))

(* The answer to the call on the line, or the failure of the whole turn.   *)
Answer(t) ==
  /\ last[t].type = "tool_call"
  /\ \/ \E ok \in BOOLEAN : Says(t, ResultEvent(last[t].call, ok))
     \/ Says(t, Event("error"))

Publish(t) ==
  /\ last[t].type = "tool_result"
  /\ last[t].ok
  /\ Says(t, Event("article"))

Next == \E t \in Turns : Open(t) \/ Continue(t) \/ Answer(t) \/ Publish(t)

Spec == Init /\ [][Next]_last
=============================================================================
