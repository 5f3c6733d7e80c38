------------------------------ MODULE AgentTurn ------------------------------
(***************************************************************************)
(* The research agent's tool-use loop: run_agent_stream of app/agent.py.   *)
(* A turn alternates between one streamed model message and the tool calls *)
(* that message asked for, and yields the events its caller reads; a step  *)
(* here goes from one yield to the next.  Turns run in different request   *)
(* threads and share nothing.                                              *)
(*                                                                         *)
(* External, modelled from how the loop uses them: the model (a message is *)
(* some prose, any calls, any stop reason, or a failure) and the tools (a  *)
(* call succeeds, fails, or, at the defensive boundary, raises).           *)
(***************************************************************************)
EXTENDS Integers, Sequences

CONSTANTS
  Turns,      \* requests in progress or to come
  Names,      \* tool names the model may write
  Selected,   \* tool_specs: the tools of this turn
  Required,   \* required_first_tool, or None
  Composer,   \* compose_research_article
  Exact,      \* the turns with suppress_refused_tool_events
  MaxRounds,  \* max_iterations
  MaxCalls,   \* MAX_TOOL_CALLS
  MaxUses,    \* bound on the tool_use blocks of a conversation
  None

(* agent_run_options accepts a required tool only among the selected ones, *)
(* and only for a turn under the exact policy (FirstDue).                  *)
ASSUME AgentAssumption ==
  /\ Selected \subseteq Names
  /\ Exact \subseteq Turns
  /\ Required # None => Required \in Selected
  /\ MaxRounds \in Nat \ {0}
  /\ MaxCalls \in Nat \ {0}
  /\ MaxUses \in Nat

Calls == [id : 1..MaxUses, name : Names]

VARIABLES
  pc,        \* where the turn is: see Places
  round,     \* model messages requested so far
  budget,    \* tool_budget
  pending,   \* calls of the current message that are still to be handled
  called,    \* first_tool_called
  owed,      \* required_first_result_pending
  uses,      \* ids of the tool_use blocks in the conversation, in order
  answers,   \* ids of its tool_result blocks, in order
  ran,       \* history: names of the tools executed, in order
  sent       \* the events of the turn, in order

vars == <<pc, round, budget, pending, called, owed, uses, answers, ran, sent>>

Event(type) == [type |-> type]
CallEvent(c) == [type |-> "tool_call", call |-> c]
ResultEvent(c, ok) == [type |-> "tool_result", call |-> c, ok |-> ok]

(* "running": a tool executes; "refusing", "failing" and "publishing": the *)
(* second of two events about one call is still to come; "closed": the     *)
(* reader left and the server closed the generator.                        *)
Handling == {"running", "refusing", "failing", "publishing"}
Live == {"model", "tools"} \cup Handling
Places == {"idle", "over", "closed"} \cup Live

Goto(t, label) == pc' = [pc EXCEPT ![t] = label]
Emit(t, e) == sent' = [sent EXCEPT ![t] = Append(@, e)]

Init ==
  /\ pc = [t \in Turns |-> "idle"]
  /\ round = [t \in Turns |-> 0]
  /\ budget = [t \in Turns |-> MaxCalls]
  /\ pending = [t \in Turns |-> <<>>]
  /\ called = [t \in Turns |-> FALSE]
  /\ owed = [t \in Turns |-> FALSE]
  /\ uses = [t \in Turns |-> <<>>]
  /\ answers = [t \in Turns |-> <<>>]
  /\ ran = [t \in Turns |-> <<>>]
  /\ sent = [t \in Turns |-> <<>>]

(* Plausible mistakes in the loop, for checking the checks.                *)
StopUnchecked(t) ==           \* answers without looking at the contract
  /\ pc' = [pc EXCEPT ![t] = "over"]
  /\ Emit(t, Event("done"))
  /\ UNCHANGED <<pending, called, owed, uses>>

ToolRaisesGoesOn(t) ==        \* the boundary is inside the loop: no return
  /\ pc[t] = "running"
  /\ Goto(t, "tools")
  /\ Emit(t, Event("error"))
  /\ pending' = [pending EXCEPT ![t] = Tail(@)]
  /\ answers' = [answers EXCEPT ![t] = Append(@, pending[t][1].id)]
  /\ UNCHANGED <<round, budget, called, owed, uses, ran>>

RefuseOverBudgetUnanswered(t) ==   \* no result block for the refused call
  /\ pc[t] = "tools" /\ pending[t] # <<>>
  /\ budget[t] = 0
  /\ pending' = [pending EXCEPT ![t] = Tail(@)]
  /\ UNCHANGED <<pc, round, budget, called, owed, uses, answers, ran, sent>>

RefuseOverBudgetRequeues(t) ==     \* puts the call back at the end
  /\ pc[t] = "tools" /\ pending[t] # <<>>
  /\ budget[t] = 0
  /\ pending' = [pending EXCEPT ![t] = Append(Tail(@), Head(@))]
  /\ UNCHANGED <<pc, round, budget, called, owed, uses, answers, ran, sent>>

RefuseUnselectedAloud(t) ==        \* ignores suppress_refused_tool_events
  /\ pc[t] = "tools" /\ pending[t] # <<>>
  /\ pending[t][1].name \notin Selected
  /\ budget[t] > 0
  /\ budget' = [budget EXCEPT ![t] = @ - 1]
  /\ Goto(t, "refusing")
  /\ Emit(t, CallEvent(pending[t][1]))
  /\ UNCHANGED <<answers, pending, round, called, owed, uses, ran>>

NextRoundRefills(t) ==             \* a budget per message, not per turn
  /\ pc[t] = "tools" /\ pending[t] = <<>>
  /\ IF round[t] < MaxRounds
     THEN /\ Goto(t, "model")
          /\ round' = [round EXCEPT ![t] = @ + 1]
          /\ budget' = [budget EXCEPT ![t] = MaxCalls]
          /\ UNCHANGED sent
     ELSE /\ Goto(t, "over")
          /\ Emit(t, Event("done"))
          /\ UNCHANGED <<round, budget>>
  /\ UNCHANGED <<pending, called, owed, uses, answers, ran>>

NextRoundOnceMore(t) ==            \* the iteration limit is off by one
  /\ pc[t] = "tools" /\ pending[t] = <<>>
  /\ IF round[t] <= MaxRounds
     THEN /\ Goto(t, "model")
          /\ round' = [round EXCEPT ![t] = @ + 1]
          /\ UNCHANGED sent
     ELSE /\ Goto(t, "over")
          /\ Emit(t, Event("done"))
          /\ UNCHANGED round
  /\ UNCHANGED <<budget, pending, called, owed, uses, answers, ran>>

-----------------------------------------------------------------------------
Begin(t) ==
  /\ pc[t] = "idle"
  /\ Goto(t, "model")
  /\ round' = [round EXCEPT ![t] = 1]
  /\ Emit(t, Event("start"))
  /\ UNCHANGED <<budget, pending, called, owed, uses, answers, ran>>

(* Prose of the current message, as it arrives.                            *)
ModelText(t) ==
  /\ pc[t] = "model"
  /\ sent[t][Len(sent[t])].type # "text"   \* bound: one piece at a time
  /\ Emit(t, Event("text"))
  /\ UNCHANGED <<pc, round, budget, pending, called, owed, uses, answers, ran>>

(* The calls a message can ask for; their ids are new to the conversation. *)
Asked(t) ==
  UNION {{[k \in 1..n |-> [id |-> Len(uses[t]) + k, name |-> names[k]]] :
            names \in [1..n -> Names]} : n \in 0..(MaxUses - Len(uses[t]))}

EndTurn(t, type) ==
  /\ Goto(t, "over")
  /\ Emit(t, Event(type))

FirstDue(t) == t \in Exact /\ Required # None /\ ~called[t]

(* The message is the answer; a turn that still owes its required tool has *)
(* broken its contract.                                                    *)
Stop(t) ==
  /\ EndTurn(t, IF FirstDue(t) THEN "error" ELSE "done")
  /\ UNCHANGED <<pending, called, owed, uses>>

RefuseFirst(t) ==
  /\ EndTurn(t, "error")
  /\ UNCHANGED <<pending, called, owed, uses>>

Accept(t, asked) ==
  /\ Goto(t, "tools")
  /\ pending' = [pending EXCEPT ![t] = asked]
  /\ called' = [called EXCEPT ![t] = @ \/ FirstDue(t)]
  /\ owed' = [owed EXCEPT ![t] = @ \/ FirstDue(t)]
  /\ uses' = [uses EXCEPT ![t] = @ \o [k \in DOMAIN asked |-> asked[k].id]]
  /\ UNCHANGED sent

(* The end of a message.  A message with calls but another stop reason     *)
(* (max_tokens, a stream that simply ends) counts as an answer.            *)
ModelStop(t) ==
  /\ pc[t] = "model"
  /\ \/ Stop(t)
     \/ \E asked \in Asked(t) \ {<<>>} :
          IF FirstDue(t) /\ asked[1].name # Required
          THEN RefuseFirst(t)
          ELSE Accept(t, asked)
  /\ UNCHANGED <<round, budget, answers, ran>>

(* An error event of the model's stream, or a connection that breaks.      *)
ModelFails(t) ==
  /\ pc[t] = "model"
  /\ EndTurn(t, "error")
  /\ UNCHANGED <<round, budget, pending, called, owed, uses, answers, ran>>

(* The call in hand gets its result block and leaves the queue.            *)
Resolve(t) ==
  /\ answers' = [answers EXCEPT ![t] = Append(@, pending[t][1].id)]
  /\ pending' = [pending EXCEPT ![t] = Tail(@)]

Spend(t) ==
  /\ budget[t] > 0
  /\ budget' = [budget EXCEPT ![t] = @ - 1]

RefuseOverBudget(t) ==
  /\ pc[t] = "tools" /\ pending[t] # <<>>
  /\ budget[t] = 0
  /\ Resolve(t)
  /\ UNCHANGED <<pc, round, budget, called, owed, uses, ran, sent>>

(* A tool outside the turn's selection is not executed; under the exact    *)
(* policy its refusal is kept off the stream as well.                      *)
RefuseUnselected(t) ==
  /\ pc[t] = "tools" /\ pending[t] # <<>>
  /\ pending[t][1].name \notin Selected
  /\ Spend(t)
  /\ IF t \in Exact
     THEN Resolve(t) /\ UNCHANGED <<pc, sent>>
     ELSE /\ Goto(t, "refusing")
          /\ Emit(t, CallEvent(pending[t][1]))
          /\ UNCHANGED <<answers, pending>>
  /\ UNCHANGED <<round, called, owed, uses, ran>>

ReportRefusal(t) ==
  /\ pc[t] = "refusing"
  /\ Goto(t, "tools")
  /\ Emit(t, ResultEvent(pending[t][1], FALSE))
  /\ Resolve(t)
  /\ UNCHANGED <<round, budget, called, owed, uses, ran>>

CallTool(t) ==
  /\ pc[t] = "tools" /\ pending[t] # <<>>
  /\ pending[t][1].name \in Selected
  /\ Spend(t)
  /\ Emit(t, CallEvent(pending[t][1]))
  /\ ran' = [ran EXCEPT ![t] = Append(@, pending[t][1].name)]
  /\ Goto(t, "running")
  /\ UNCHANGED <<round, pending, called, owed, uses, answers>>

(* The result event; a failed required first tool ends the turn next, and  *)
(* the composer's article follows its result.                              *)
ToolReturns(t) ==
  /\ pc[t] = "running"
  /\ \E ok \in BOOLEAN :
       LET c == pending[t][1]
           settles == owed[t] /\ c.name = Required
       IN
       /\ Emit(t, ResultEvent(c, ok))
       /\ owed' = [owed EXCEPT ![t] = @ /\ ~settles]
       /\ \/ /\ settles /\ ~ok
             /\ Goto(t, "failing") /\ UNCHANGED <<answers, pending>>
          \/ /\ ok /\ c.name = Composer
             /\ Goto(t, "publishing") /\ UNCHANGED <<answers, pending>>
          \/ /\ ~settles \/ ok
             /\ Goto(t, "tools") /\ Resolve(t)
  /\ UNCHANGED <<round, budget, called, uses, ran>>

ToolRaises(t) ==
  /\ pc[t] = "running"
  /\ EndTurn(t, "error")
  /\ UNCHANGED <<round, budget, pending, called, owed, uses, answers, ran>>

FailRequired(t) ==
  /\ pc[t] = "failing"
  /\ EndTurn(t, "error")
  /\ UNCHANGED <<round, budget, pending, called, owed, uses, answers, ran>>

PublishArticle(t) ==
  /\ pc[t] = "publishing"
  /\ Goto(t, "tools")
  /\ Emit(t, Event("article"))
  /\ Resolve(t)
  /\ UNCHANGED <<round, budget, called, owed, uses, ran>>

(* All calls answered: ask the model again, or stop at the last iteration. *)
NextRound(t) ==
  /\ pc[t] = "tools" /\ pending[t] = <<>>
  /\ IF round[t] < MaxRounds
     THEN /\ Goto(t, "model")
          /\ round' = [round EXCEPT ![t] = @ + 1]
          /\ UNCHANGED sent
     ELSE EndTurn(t, "done") /\ UNCHANGED round
  /\ UNCHANGED <<budget, pending, called, owed, uses, answers, ran>>

(* The reader has gone and the server closes the generator.                *)
Close(t) ==
  /\ pc[t] \in Live
  /\ Goto(t, "closed")
  /\ UNCHANGED <<round, budget, pending, called, owed, uses, answers, ran, sent>>

Work(t) ==
  \/ ModelText(t) \/ ModelStop(t) \/ ModelFails(t)
  \/ RefuseOverBudget(t) \/ RefuseUnselected(t) \/ ReportRefusal(t)
  \/ CallTool(t) \/ ToolReturns(t) \/ ToolRaises(t)
  \/ FailRequired(t) \/ PublishArticle(t)
  \/ NextRound(t)

Finished == \A t \in Turns : pc[t] \in {"idle", "over", "closed"}

Next ==
  \/ \E t \in Turns : Begin(t) \/ Work(t) \/ Close(t)
  \/ Finished /\ UNCHANGED vars

Spec == Init /\ [][Next]_vars

(* Each message ends (the client's read timeout) and each tool returns     *)
(* (its upstream timeouts), so a turn that can go on does.                 *)
Fairness == \A t \in Turns : WF_vars(Work(t))

FairSpec == Spec /\ Fairness

(* Turns share nothing, so one behaviour of each shows as much as all of   *)
(* their interleavings: a bound for TLC.                                   *)
OneTurn == \A t, u \in Turns : t = u \/ pc'[t] = "idle" \/ pc'[u] = "idle"

OneTurnSpec == Init /\ [][Next /\ OneTurn]_vars /\ Fairness

-----------------------------------------------------------------------------
Events ==
  [type : {"start", "text", "article", "error", "done"}]
    \cup [type : {"tool_call"}, call : Calls]
    \cup [type : {"tool_result"}, call : Calls, ok : BOOLEAN]

(* Types and bounds of the loop's state; the model is asked at most        *)
(* MaxRounds times.                                                        *)
TypeOK ==
  /\ pc \in [Turns -> Places]
  /\ round \in [Turns -> 0..MaxRounds]
  /\ budget \in [Turns -> 0..MaxCalls]
  /\ pending \in [Turns -> Seq(Calls)]
  /\ called \in [Turns -> BOOLEAN]
  /\ owed \in [Turns -> BOOLEAN]
  /\ uses \in [Turns -> Seq(1..MaxUses)]
  /\ answers \in [Turns -> Seq(1..MaxUses)]
  /\ ran \in [Turns -> Seq(Selected)]
  /\ sent \in [Turns -> Seq(Events)]

(* The model's API refuses a conversation in which a tool_use block has no *)
(* tool_result: whenever the model is asked, every call it made so far,    *)
(* executed, refused or over budget, has been answered, in order.          *)
CallsAnswered ==
  \A t \in Turns : pc[t] = "model" => answers[t] = uses[t]

(* The required tool is the first to execute, nothing else executes before *)
(* it has succeeded, and no turn ends with done unless it did.             *)
RequiredFirst ==
  Required # None =>
    \A t \in Exact :
      LET won == \E i \in DOMAIN sent[t] :
                   /\ sent[t][i].type = "tool_result"
                   /\ sent[t][i].call.name = Required /\ sent[t][i].ok
      IN
      /\ ran[t] # <<>> => ran[t][1] = Required
      /\ Len(ran[t]) > 1 => won
      /\ (\E i \in DOMAIN sent[t] : sent[t][i].type = "done") => won

(* Under the exact policy the stream never names a tool outside the turn's *)
(* selection: the mobile client rejects the whole run if it does.          *)
OnlySelected ==
  \A t \in Exact : \A i \in DOMAIN sent[t] :
    sent[t][i].type \in {"tool_call", "tool_result"} =>
      sent[t][i].call.name \in Selected

(* A turn executes at most MaxCalls tools, over all its messages.          *)
BudgetHeld == \A t \in Turns : Len(ran[t]) <= MaxCalls

Newest(t) == IF sent[t] = <<>> THEN Event("silence") ELSE sent[t][Len(sent[t])]

Protocol == INSTANCE AgentProtocol WITH last <- [t \in Turns |-> Newest(t)]

(* The stream of every turn follows AgentProtocol, event by event.         *)
KeepsProtocol == Protocol!Spec

(* A turn that has begun ends, whatever the model and the tools do.        *)
TurnEnds ==
  \A t \in Turns : pc[t] \in Live ~> pc[t] \in {"over", "closed"}
=============================================================================
