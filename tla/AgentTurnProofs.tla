--------------------------- MODULE AgentTurnProofs ---------------------------
(***************************************************************************)
(* The agent loop for any number of turns, tools, messages and budgets.    *)
(* The inductive invariant has one part per promise: types, the alignment  *)
(* of tool_use and tool_result blocks, the budget, the progress of the     *)
(* required first tool, the selection, and the newest event of the stream. *)
(***************************************************************************)
EXTENDS AgentTurn, SequenceTheorems, TLAPS

-----------------------------------------------------------------------------
(* Sequences.                                                              *)

LEMMA AppendFacts ==
  ASSUME NEW S, NEW s \in Seq(S), NEW e \in S
  PROVE  /\ Append(s, e) \in Seq(S)
         /\ Len(s) \in Nat
         /\ Len(Append(s, e)) = Len(s) + 1 /\ Len(Append(s, e)) \in Nat
         /\ \A i \in 1..Len(s) : Append(s, e)[i] = s[i]
         /\ Append(s, e)[Len(s) + 1] = e
         /\ DOMAIN s = 1..Len(s)
         /\ DOMAIN Append(s, e) = 1..(Len(s) + 1)
         /\ Append(s, e) # <<>>
PROOF OBVIOUS

LEMMA TailFacts ==
  ASSUME NEW S, NEW s \in Seq(S), s # <<>>
  PROVE  /\ Tail(s) \in Seq(S)
         /\ Len(s) \in Nat \ {0}
         /\ Len(Tail(s)) = Len(s) - 1 /\ Len(Tail(s)) \in Nat /\ Len(s) > 0
         /\ \A i \in 1..Len(Tail(s)) : Tail(s)[i] = s[i + 1]
         /\ s[1] \in S
PROOF OBVIOUS

(* What a message may ask for: calls whose ids continue the conversation.  *)
LEMMA AskedFacts ==
  ASSUME TypeOK, NEW t \in Turns, NEW asked \in Asked(t)
  PROVE  /\ asked \in Seq(Calls)
         /\ Len(asked) \in Nat
         /\ DOMAIN asked = 1..Len(asked)
         /\ \A k \in 1..Len(asked) : asked[k].id = Len(uses[t]) + k
         /\ [k \in DOMAIN asked |-> asked[k].id] \in Seq(1..MaxUses)
         /\ Len([k \in DOMAIN asked |-> asked[k].id]) = Len(asked)
<1>1. Len(uses[t]) \in Nat
  BY DEF TypeOK
<1>0. PICK n \in 0..(MaxUses - Len(uses[t])) :
        asked \in {[k \in 1..n |-> [id |-> Len(uses[t]) + k, name |-> names[k]]] :
                     names \in [1..n -> Names]}
  BY DEF Asked
<1>2. PICK names \in [1..n -> Names] :
        asked = [k \in 1..n |-> [id |-> Len(uses[t]) + k, name |-> names[k]]]
  BY <1>0
<1>3. n \in Nat /\ Len(uses[t]) + n <= MaxUses
  BY <1>0, <1>1, AgentAssumption
<1>4. \A k \in 1..n : asked[k] = [id |-> Len(uses[t]) + k, name |-> names[k]]
                      /\ asked[k] \in Calls /\ asked[k].id = Len(uses[t]) + k
                      /\ asked[k].id \in 1..MaxUses
  BY <1>1, <1>2, <1>3, AgentAssumption DEF Calls
<1>5. asked \in [1..n -> Calls]
  BY <1>2, <1>4
<1>6. asked \in Seq(Calls) /\ DOMAIN asked = 1..n /\ Len(asked) = n
  BY <1>3, <1>5, SeqDef
<1>7. [k \in DOMAIN asked |-> asked[k].id] \in [1..n -> 1..MaxUses]
  BY <1>4, <1>6
<1>8. /\ [k \in DOMAIN asked |-> asked[k].id] \in Seq(1..MaxUses)
      /\ Len([k \in DOMAIN asked |-> asked[k].id]) = n
  BY <1>3, <1>7, SeqDef
<1> QED BY <1>3, <1>4, <1>6, <1>8

-----------------------------------------------------------------------------
(* Types.                                                                  *)

LEMMA EventTypes ==
  /\ \A type \in {"start", "text", "article", "error", "done"} : Event(type) \in Events
  /\ \A c \in Calls : CallEvent(c) \in Events
  /\ \A c \in Calls, ok \in BOOLEAN : ResultEvent(c, ok) \in Events
PROOF BY DEF Events, Event, CallEvent, ResultEvent

LEMMA EmitFacts ==
  ASSUME TypeOK, NEW t \in Turns, NEW e \in Events
  PROVE  Append(sent[t], e) \in Seq(Events)
<1>1. sent[t] \in Seq(Events)
  BY DEF TypeOK
<1> QED BY <1>1, AppendFacts

(* The call in hand, and what is left once it is resolved.                 *)
LEMMA HeadFacts ==
  ASSUME TypeOK, NEW t \in Turns, pending[t] # <<>>
  PROVE  /\ pending[t][1] \in Calls
         /\ pending[t][1].id \in 1..MaxUses
         /\ pending[t][1].name \in Names
         /\ Tail(pending[t]) \in Seq(Calls)
         /\ Append(answers[t], pending[t][1].id) \in Seq(1..MaxUses)
<1>1. pending[t] \in Seq(Calls) /\ answers[t] \in Seq(1..MaxUses)
  BY DEF TypeOK
<1>2. pending[t][1] \in Calls /\ Tail(pending[t]) \in Seq(Calls)
  BY <1>1, TailFacts
<1>3. pending[t][1].id \in 1..MaxUses /\ pending[t][1].name \in Names
  BY <1>2 DEF Calls
<1> QED BY <1>1, <1>2, <1>3, AppendFacts

(* A turn that is busy with a call has one in hand.                        *)
Held == \A t \in Turns : pc[t] \in Handling => pending[t] # <<>>

LEMMA TypeInit == Init => TypeOK /\ Held
PROOF BY AgentAssumption DEF Init, TypeOK, Held, Places, Handling

LEMMA HeldStep ==
  ASSUME TypeOK, Held, [Next]_vars
  PROVE  Held'
<1> USE DEF TypeOK, Held, Goto, Handling
<1>1. CASE UNCHANGED vars
  BY <1>1 DEF vars
<1>2. ASSUME NEW t \in Turns, Begin(t) \/ Work(t) \/ Close(t)
      PROVE  Held'
  <2>1. CASE pc'[t] \in Handling
    <3>1. pending'[t] # <<>>
      BY <1>2, <2>1 DEF Begin, Close, Work, ModelText, ModelStop, Stop, RefuseFirst, Accept,
             ModelFails, RefuseOverBudget, RefuseUnselected, ReportRefusal, CallTool,
             ToolReturns, ToolRaises, FailRequired, PublishArticle, NextRound, EndTurn
    <3> QED
      BY <1>2, <3>1 DEF Begin, Close, Work, ModelText, ModelStop, Stop, RefuseFirst, Accept,
             ModelFails, RefuseOverBudget, RefuseUnselected, ReportRefusal, CallTool,
             ToolReturns, ToolRaises, FailRequired, PublishArticle, NextRound, EndTurn, Resolve
  <2>2. CASE pc'[t] \notin Handling
    BY <1>2, <2>2 DEF Begin, Close, Work, ModelText, ModelStop, Stop, RefuseFirst, Accept,
             ModelFails, RefuseOverBudget, RefuseUnselected, ReportRefusal, CallTool,
             ToolReturns, ToolRaises, FailRequired, PublishArticle, NextRound, EndTurn, Resolve
  <2> QED BY <2>1, <2>2
<1> QED BY <1>1, <1>2 DEF Next

LEMMA TypeStep ==
  ASSUME TypeOK, Held, [Next]_vars
  PROVE  TypeOK'
<1> USE AgentAssumption, EventTypes
<1>1. CASE UNCHANGED vars
  BY <1>1 DEF TypeOK, vars
<1>2. ASSUME NEW t \in Turns, Begin(t) \/ Work(t) \/ Close(t)
      PROVE  TypeOK'
  <2>0. pc[t] \in Handling => pending[t] # <<>>
    BY DEF Held
  <2>1. /\ \A e \in Events : Append(sent[t], e) \in Seq(Events)
        /\ pending[t] # <<>> => /\ pending[t][1] \in Calls
                                /\ Tail(pending[t]) \in Seq(Calls)
                                /\ Append(answers[t], pending[t][1].id) \in Seq(1..MaxUses)
    BY EmitFacts, HeadFacts
  <2> USE DEF TypeOK, Goto, Emit
  <2>2. CASE Begin(t)
    BY <2>1, <2>2 DEF Begin, Places, Live
  <2>3. CASE ModelText(t)
    BY <2>1, <2>3 DEF ModelText, Places
  <2>4. CASE ModelStop(t)
    <3>1. ASSUME NEW type \in {"done", "error"}, EndTurn(t, type),
                 UNCHANGED <<pending, called, owed, uses>>,
                 UNCHANGED <<round, budget, answers, ran>>
          PROVE  TypeOK'
      BY <2>1, <3>1 DEF EndTurn, Places
    <3>2. ASSUME NEW asked \in Asked(t), Accept(t, asked),
                 UNCHANGED <<round, budget, answers, ran>>
          PROVE  TypeOK'
      <4>1. /\ asked \in Seq(Calls)
            /\ uses[t] \o [k \in DOMAIN asked |-> asked[k].id] \in Seq(1..MaxUses)
        BY AskedFacts, ConcatProperties
      <4> QED BY <3>2, <4>1 DEF Accept, Places, Live, FirstDue
    <3> QED BY <2>4, <3>1, <3>2 DEF ModelStop, Stop, RefuseFirst
  <2>5. CASE ModelFails(t)
    BY <2>1, <2>5 DEF ModelFails, EndTurn, Places
  <2>6. CASE RefuseOverBudget(t)
    BY <2>1, <2>6 DEF RefuseOverBudget, Resolve
  <2>7. CASE RefuseUnselected(t)
    <3>1. budget' \in [Turns -> 0..MaxCalls]
      BY <2>7 DEF RefuseUnselected, Spend
    <3>2. CASE t \in Exact
      BY <2>1, <2>7, <3>1, <3>2 DEF RefuseUnselected, Resolve
    <3>3. CASE t \notin Exact
      <4>0. CallEvent(pending[t][1]) \in Events
            /\ sent' = [sent EXCEPT ![t] = Append(@, CallEvent(pending[t][1]))]
        BY <2>1, <2>7, <3>3 DEF RefuseUnselected
      <4>1. sent' \in [Turns -> Seq(Events)]
        BY <2>1, <4>0
      <4>2. pc' \in [Turns -> Places]
        BY <2>7, <3>3 DEF RefuseUnselected, Places, Live, Handling
      <4> QED BY <2>7, <3>1, <3>3, <4>1, <4>2 DEF RefuseUnselected
    <3> QED BY <3>2, <3>3
  <2>8. CASE ReportRefusal(t)
    BY <2>0, <2>1, <2>8 DEF ReportRefusal, Resolve, Places, Live, Handling
  <2>9. CASE CallTool(t)
    <3>1. Append(ran[t], pending[t][1].name) \in Seq(Selected)
      BY <2>9, AppendFacts DEF CallTool
    <3>2. budget' \in [Turns -> 0..MaxCalls]
      BY <2>9 DEF CallTool, Spend
    <3> QED BY <2>1, <2>9, <3>1, <3>2 DEF CallTool, Places, Live, Handling
  <2>10. CASE ToolReturns(t)
    <3>0. PICK ok \in BOOLEAN :
            /\ Emit(t, ResultEvent(pending[t][1], ok))
            /\ owed' = [owed EXCEPT ![t] = @ /\ ~(owed[t] /\ pending[t][1].name = Required)]
            /\ \/ Goto(t, "failing") /\ UNCHANGED <<answers, pending>>
               \/ Goto(t, "publishing") /\ UNCHANGED <<answers, pending>>
               \/ Goto(t, "tools") /\ Resolve(t)
      BY <2>10 DEF ToolReturns
    <3>1. sent' \in [Turns -> Seq(Events)]
      BY <2>0, <2>1, <2>10, <3>0 DEF ToolReturns, Handling
    <3>2. owed' \in [Turns -> BOOLEAN]
      BY <3>0
    <3>3. pc' \in [Turns -> Places]
      BY <3>0 DEF Places, Live, Handling
    <3>4. pending[t] # <<>>
      BY <2>0, <2>10 DEF ToolReturns, Handling
    <3>5. answers' \in [Turns -> Seq(1..MaxUses)]
      BY <2>1, <3>0, <3>4 DEF Resolve
    <3>6. pending' \in [Turns -> Seq(Calls)]
      BY <2>1, <3>0, <3>4 DEF Resolve
    <3> QED BY <2>10, <3>1, <3>2, <3>3, <3>5, <3>6 DEF ToolReturns
  <2>11. CASE ToolRaises(t)
    BY <2>1, <2>11 DEF ToolRaises, EndTurn, Places
  <2>12. CASE FailRequired(t)
    BY <2>1, <2>12 DEF FailRequired, EndTurn, Places
  <2>13. CASE PublishArticle(t)
    BY <2>0, <2>1, <2>13 DEF PublishArticle, Resolve, Places, Live, Handling
  <2>14. CASE NextRound(t)
    <3>0. ASSUME round[t] < MaxRounds
          PROVE  round' \in [Turns -> 0..MaxRounds]
      <4>1. round' = [round EXCEPT ![t] = @ + 1]
        BY <2>14, <3>0 DEF NextRound
      <4>2. round[t] + 1 \in 0..MaxRounds
        BY <3>0
      <4> QED BY <4>1, <4>2
    <3>1. round' \in [Turns -> 0..MaxRounds]
      BY <2>14, <3>0 DEF NextRound
    <3>2. sent' \in [Turns -> Seq(Events)]
      BY <2>1, <2>14 DEF NextRound, EndTurn
    <3>3. pc' \in [Turns -> Places]
      BY <2>14 DEF NextRound, EndTurn, Places, Live
    <3> QED BY <2>14, <3>1, <3>2, <3>3 DEF NextRound
  <2>15. CASE Close(t)
    BY <2>1, <2>15 DEF Close, Places
  <2> QED
    BY <1>2, <2>2, <2>3, <2>4, <2>5, <2>6, <2>7, <2>8, <2>9, <2>10, <2>11,
       <2>12, <2>13, <2>14, <2>15 DEF Work
<1> QED BY <1>1, <1>2 DEF Next

-----------------------------------------------------------------------------
(* Tool calls and their results.                                           *)

(* The blocks of the conversation are numbered as they come: what is still *)
(* pending starts where the answers stop, and together they are the uses.  *)
Matched ==
  \A t \in Turns :
    /\ pc[t] \in {"idle", "model"} => pending[t] = <<>>
    /\ Len(answers[t]) + Len(pending[t]) = Len(uses[t])
    /\ \A k \in 1..Len(uses[t]) : uses[t][k] = k
    /\ \A k \in 1..Len(answers[t]) : answers[t][k] = k
    /\ \A k \in 1..Len(pending[t]) : pending[t][k].id = Len(answers[t]) + k

LEMMA MatchedInit == Init => Matched
<1> SUFFICES ASSUME Init, NEW t \in Turns
             PROVE  /\ pending[t] = <<>> /\ uses[t] = <<>> /\ answers[t] = <<>>
                    /\ Len(answers[t]) + Len(pending[t]) = Len(uses[t])
                    /\ 1..Len(uses[t]) = {}
  BY DEF Matched
<1> QED BY DEF Init

LEMMA Lengths ==
  ASSUME TypeOK, NEW t \in Turns
  PROVE  /\ Len(pending[t]) \in Nat /\ Len(answers[t]) \in Nat /\ Len(uses[t]) \in Nat
         /\ Len(ran[t]) \in Nat /\ Len(sent[t]) \in Nat
PROOF BY DEF TypeOK

(* Sums of lengths, apart from the sequences they come from.               *)
LEMMA SumZero == \A a, p, u \in Nat : a + p = u /\ p = 0 => a = u
PROOF OBVIOUS

LEMMA SumShift == \A a, b, k \in Nat : b = a + 1 => a + (k + 1) = b + k
PROOF OBVIOUS

LEMMA MatchedAt ==
  ASSUME TypeOK, Matched, NEW t \in Turns
  PROVE  /\ pc[t] \in {"idle", "model"} => Len(answers[t]) = Len(uses[t])
         /\ pending[t] # <<>> => pending[t][1].id = Len(answers[t]) + 1
<1>1. Len(answers[t]) + Len(pending[t]) = Len(uses[t])
  BY DEF Matched
<1>2. pending[t] = <<>> => Len(pending[t]) = 0
  OBVIOUS
<1>3. pending[t] # <<>> => 1 \in 1..Len(pending[t])
  <2>1. pending[t] \in Seq(Calls)
    BY DEF TypeOK
  <2> QED BY <2>1, EmptySeq
<1>4. pc[t] \in {"idle", "model"} => pending[t] = <<>>
  BY DEF Matched
<1>5. pending[t] # <<>> => pending[t][1].id = Len(answers[t]) + 1
  BY <1>3 DEF Matched
<1>6. Len(pending[t]) \in Nat /\ Len(answers[t]) \in Nat /\ Len(uses[t]) \in Nat
  BY Lengths
<1>7. pc[t] \in {"idle", "model"} => Len(answers[t]) = Len(uses[t])
  BY <1>1, <1>2, <1>4, <1>6, SumZero
<1> QED BY <1>5, <1>7

LEMMA MatchedResolve ==
  ASSUME TypeOK, Matched, NEW t \in Turns, pending[t] # <<>>, Resolve(t), UNCHANGED uses,
         pc'[t] = "tools", \A u \in Turns \ {t} : pc'[u] = pc[u]
  PROVE  Matched'
<1> DEFINE rest == Tail(pending[t])
           more == Append(answers[t], pending[t][1].id)
<1>1. /\ pending[t] \in Seq(Calls) /\ answers[t] \in Seq(1..MaxUses)
      /\ pending[t][1].id \in 1..MaxUses
  BY HeadFacts DEF TypeOK
<1>2. pending'[t] = rest /\ answers'[t] = more
      /\ \A u \in Turns \ {t} : pending'[u] = pending[u] /\ answers'[u] = answers[u]
  BY DEF Resolve, TypeOK
<1>3. /\ Len(rest) = Len(pending[t]) - 1 /\ Len(rest) \in Nat
      /\ Len(pending[t]) \in Nat /\ Len(pending[t]) > 0
      /\ \A k \in 1..Len(rest) : rest[k] = pending[t][k + 1]
  BY <1>1, TailFacts
<1>4. /\ Len(more) = Len(answers[t]) + 1 /\ Len(more) \in Nat /\ Len(answers[t]) \in Nat
      /\ \A k \in 1..Len(answers[t]) : more[k] = answers[t][k]
      /\ more[Len(answers[t]) + 1] = pending[t][1].id
  BY <1>1, AppendFacts
<1> HIDE DEF rest, more
<1>5. pending[t][1].id = Len(answers[t]) + 1
  BY MatchedAt
<1>6. \A k \in 1..Len(more) : more[k] = k
  <2> SUFFICES ASSUME NEW k \in 1..Len(more) PROVE more[k] = k
    OBVIOUS
  <2>1. CASE k = Len(answers[t]) + 1
    BY <1>4, <1>5, <2>1
  <2>2. CASE k # Len(answers[t]) + 1
    <3>1. k \in 1..Len(answers[t])
      BY <1>4, <2>2
    <3>2. answers[t][k] = k
      BY <3>1 DEF Matched
    <3> QED BY <1>4, <3>1, <3>2
  <2> QED BY <2>1, <2>2
<1>7. \A k \in 1..Len(rest) : rest[k].id = Len(more) + k
  <2> SUFFICES ASSUME NEW k \in 1..Len(rest) PROVE rest[k].id = Len(more) + k
    OBVIOUS
  <2>1. k + 1 \in 1..Len(pending[t])
    BY <1>3
  <2>2. pending[t][k + 1].id = Len(answers[t]) + (k + 1)
    BY <2>1 DEF Matched
  <2>3. k \in Nat /\ rest[k] = pending[t][k + 1]
    BY <1>3
  <2>4. Len(answers[t]) + (k + 1) = Len(more) + k
    BY <1>4, <2>3, SumShift, Zenon
  <2> QED BY <2>2, <2>3, <2>4
<1>8. Len(more) + Len(rest) = Len(uses[t])
  <2>1. Len(answers[t]) + Len(pending[t]) = Len(uses[t])
    BY DEF Matched
  <2>2. Len(uses[t]) \in Nat
    BY Lengths
  <2> DEFINE a == Len(answers[t])  b == Len(more)
             h == Len(pending[t])  q == Len(rest)  u == Len(uses[t])
  <2>3. a \in Nat /\ b \in Nat /\ h \in Nat /\ q \in Nat /\ u \in Nat
        /\ a + h = u /\ b = a + 1 /\ q = h - 1
    BY <1>3, <1>4, <2>1, <2>2, Zenon
  <2>4. b + q = u
    <3> HIDE DEF a, b, h, q, u
    <3> QED BY <2>3
  <2> QED BY <2>4
<1> QED BY <1>2, <1>6, <1>7, <1>8 DEF Matched

LEMMA MatchedAccept ==
  ASSUME TypeOK, Matched, NEW t \in Turns, NEW asked \in Asked(t), pc[t] = "model",
         Accept(t, asked), UNCHANGED answers
  PROVE  Matched'
<1> DEFINE new == [k \in DOMAIN asked |-> asked[k].id]
           all == uses[t] \o new
<1>1. /\ asked \in Seq(Calls) /\ Len(asked) \in Nat /\ DOMAIN asked = 1..Len(asked)
      /\ new \in Seq(1..MaxUses) /\ Len(new) = Len(asked)
      /\ \A k \in 1..Len(asked) : asked[k].id = Len(uses[t]) + k
  BY AskedFacts
<1>2. \A k \in 1..Len(asked) : new[k] = Len(uses[t]) + k
  BY <1>1
<1>3. uses[t] \in Seq(1..MaxUses) /\ Len(uses[t]) \in Nat
      /\ answers[t] \in Seq(1..MaxUses) /\ Len(answers[t]) \in Nat
  BY DEF TypeOK
<1> HIDE DEF new
<1>4. /\ Len(all) = Len(uses[t]) + Len(asked)
      /\ \A k \in 1..(Len(uses[t]) + Len(asked)) :
           all[k] = IF k <= Len(uses[t]) THEN uses[t][k] ELSE new[k - Len(uses[t])]
  BY <1>1, <1>3, ConcatProperties
<1>5. \A k \in 1..Len(all) : all[k] = k
  <2> SUFFICES ASSUME NEW k \in 1..Len(all) PROVE all[k] = k
    OBVIOUS
  <2>1. CASE k <= Len(uses[t])
    <3>1. k \in 1..Len(uses[t]) /\ all[k] = uses[t][k]
      BY <1>1, <1>3, <1>4, <2>1
    <3> QED BY <3>1 DEF Matched
  <2>2. CASE k > Len(uses[t])
    <3>1. k - Len(uses[t]) \in 1..Len(asked)
      BY <1>1, <1>3, <1>4, <2>2
    <3>2. new[k - Len(uses[t])] = Len(uses[t]) + (k - Len(uses[t]))
      BY <1>2, <3>1
    <3>3. all[k] = new[k - Len(uses[t])]
      BY <1>1, <1>3, <1>4, <2>2
    <3> QED BY <1>3, <3>2, <3>3
  <2> QED BY <1>1, <1>3, <1>4, <2>1, <2>2
<1>6. Len(answers[t]) = Len(uses[t])
  BY MatchedAt
<1>7. /\ pc'[t] = "tools" /\ pending'[t] = asked /\ uses'[t] = all
      /\ \A u \in Turns \ {t} : /\ pc'[u] = pc[u] /\ pending'[u] = pending[u]
                               /\ uses'[u] = uses[u]
  BY DEF Accept, Goto, TypeOK, new
<1> HIDE DEF all
<1>8. Len(answers[t]) + Len(asked) = Len(all)
  BY <1>4, <1>6
<1>9. \A k \in 1..Len(asked) : asked[k].id = Len(answers[t]) + k
  BY <1>1, <1>6
<1> QED BY <1>5, <1>7, <1>8, <1>9 DEF Matched

(* A step that leaves the blocks alone and asks the model nothing new.     *)
LEMMA MatchedQuiet ==
  ASSUME Matched, UNCHANGED <<uses, answers, pending>>,
         \A t \in Turns :
           pc'[t] \in {"idle", "model"} => pc[t] \in {"idle", "model"} \/ pending[t] = <<>>
  PROVE  Matched'
PROOF BY DEF Matched

LEMMA MatchedStep ==
  ASSUME TypeOK, Held, Matched, [Next]_vars
  PROVE  Matched'
<1>1. CASE UNCHANGED vars
  BY <1>1 DEF Matched, vars
<1>2. ASSUME NEW t \in Turns, Begin(t) \/ Work(t) \/ Close(t)
      PROVE  Matched'
  <2>1. CASE Begin(t) \/ ModelText(t) \/ ModelFails(t) \/ CallTool(t) \/ ToolRaises(t)
             \/ FailRequired(t) \/ NextRound(t) \/ Close(t)
    <3>1. UNCHANGED <<uses, answers, pending>>
      BY <2>1 DEF Begin, ModelText, ModelFails, CallTool, ToolRaises, FailRequired, NextRound,
             Close
    <3>2. \A u \in Turns :
            pc'[u] \in {"idle", "model"} => pc[u] \in {"idle", "model"} \/ pending[u] = <<>>
      BY <2>1 DEF Begin, ModelText, ModelFails, CallTool, ToolRaises, FailRequired, NextRound,
             Close, EndTurn, Goto, TypeOK
    <3> QED BY <3>1, <3>2, MatchedQuiet
  <2>2. CASE ModelStop(t)
    <3>1. ASSUME NEW type \in {"done", "error"}, EndTurn(t, type),
                 UNCHANGED <<pending, uses, answers>>
          PROVE  Matched'
      BY <3>1, MatchedQuiet DEF EndTurn, Goto, TypeOK
    <3>2. ASSUME NEW asked \in Asked(t), Accept(t, asked)
          PROVE  Matched'
      BY <2>2, <3>2, MatchedAccept DEF ModelStop
    <3> QED BY <2>2, <3>1, <3>2 DEF ModelStop, Stop, RefuseFirst
  <2>3. CASE RefuseOverBudget(t) \/ ReportRefusal(t) \/ PublishArticle(t)
    <3>1. /\ pending[t] # <<>> /\ Resolve(t) /\ UNCHANGED uses /\ pc'[t] = "tools"
          /\ \A u \in Turns \ {t} : pc'[u] = pc[u]
      BY <2>3 DEF RefuseOverBudget, ReportRefusal, PublishArticle, Goto, Held, Handling, TypeOK
    <3> QED BY <3>1, MatchedResolve
  <2>4. CASE RefuseUnselected(t)
    <3>1. CASE t \in Exact
      <4>1. /\ pending[t] # <<>> /\ Resolve(t) /\ UNCHANGED uses /\ pc'[t] = "tools"
            /\ \A u \in Turns \ {t} : pc'[u] = pc[u]
        BY <2>4, <3>1 DEF RefuseUnselected
      <4> QED BY <4>1, MatchedResolve
    <3>2. CASE t \notin Exact
      <4>1. /\ UNCHANGED <<uses, answers, pending>>
            /\ pc' = [pc EXCEPT ![t] = "refusing"]
        BY <2>4, <3>2 DEF RefuseUnselected, Goto
      <4> QED BY <4>1, MatchedQuiet DEF TypeOK
    <3> QED BY <3>1, <3>2
  <2>5. CASE ToolReturns(t)
    <3>1. /\ pending[t] # <<>> /\ UNCHANGED uses
          /\ \/ /\ UNCHANGED <<answers, pending>>
                /\ pc' = [pc EXCEPT ![t] = "failing"] \/ pc' = [pc EXCEPT ![t] = "publishing"]
             \/ Resolve(t) /\ pc' = [pc EXCEPT ![t] = "tools"]
      BY <2>5 DEF ToolReturns, Goto, Held, Handling
    <3>2. CASE Resolve(t) /\ pc' = [pc EXCEPT ![t] = "tools"]
      BY <3>1, <3>2, MatchedResolve DEF TypeOK
    <3>3. CASE /\ UNCHANGED <<answers, pending>>
               /\ \/ pc' = [pc EXCEPT ![t] = "failing"]
                  \/ pc' = [pc EXCEPT ![t] = "publishing"]
      BY <3>1, <3>3, MatchedQuiet DEF TypeOK
    <3> QED BY <3>1, <3>2, <3>3
  <2> QED BY <1>2, <2>1, <2>2, <2>3, <2>4, <2>5 DEF Work
<1> QED BY <1>1, <1>2 DEF Next

LEMMA MatchedAnswers == ASSUME TypeOK, Matched PROVE CallsAnswered
<1> SUFFICES ASSUME NEW t \in Turns, pc[t] = "model"
             PROVE  answers[t] = uses[t]
  BY DEF CallsAnswered
<1>1. answers[t] \in Seq(1..MaxUses) /\ uses[t] \in Seq(1..MaxUses)
  BY DEF TypeOK
<1>2. Len(answers[t]) = Len(uses[t])
  BY MatchedAt
<1>3. \A k \in 1..Len(answers[t]) : answers[t][k] = uses[t][k]
  BY <1>1, <1>2 DEF Matched
<1> QED BY <1>1, <1>2, <1>3, SeqEqual

-----------------------------------------------------------------------------
(* The budget: every execution spends from it and nothing refills it.      *)
Budgeted == \A t \in Turns : Len(ran[t]) + budget[t] <= MaxCalls

LEMMA BudgetedInit == Init => Budgeted
<1> SUFFICES ASSUME Init, NEW t \in Turns
             PROVE  Len(ran[t]) + budget[t] <= MaxCalls
  BY DEF Budgeted
<1>1. Len(ran[t]) = 0 /\ budget[t] = MaxCalls
  BY DEF Init
<1> QED BY <1>1, AgentAssumption

(* Spending one, or nothing, of what is left keeps a sum below its limit.  *)
LEMMA LessSpent ==
  ASSUME NEW n \in Nat, NEW before \in Int, NEW after, NEW limit \in Nat,
         n + before <= limit, after = before \/ after = before - 1
  PROVE  n + after <= limit
OBVIOUS

LEMMA BudgetedStep ==
  ASSUME TypeOK, Budgeted, [Next]_vars
  PROVE  Budgeted'
<1> USE DEF TypeOK, Budgeted
<1>1. CASE UNCHANGED vars
  BY <1>1 DEF vars
<1>2. ASSUME NEW t \in Turns, CallTool(t)
      PROVE  Budgeted'
  <2> DEFINE longer == Append(ran[t], pending[t][1].name)
  <2>1. Len(longer) = Len(ran[t]) + 1 /\ Len(ran[t]) \in Nat
    BY <1>2, AppendFacts DEF CallTool
  <2>2. ran' = [ran EXCEPT ![t] = longer] /\ budget' = [budget EXCEPT ![t] = @ - 1]
    BY <1>2 DEF CallTool, Spend
  <2> HIDE DEF longer
  <2>3. Len(ran'[t]) + budget'[t] = Len(ran[t]) + budget[t]
    BY <2>1, <2>2, AgentAssumption
  <2>4. \A u \in Turns \ {t} : ran'[u] = ran[u] /\ budget'[u] = budget[u]
    BY <2>2
  <2> QED BY <2>3, <2>4
<1>3. ASSUME NEW t \in Turns, RefuseUnselected(t)
      PROVE  Budgeted'
  <2>1. ran' = ran /\ budget' = [budget EXCEPT ![t] = @ - 1]
    BY <1>3 DEF RefuseUnselected, Spend
  <2> SUFFICES ASSUME NEW u \in Turns PROVE Len(ran[u]) + budget'[u] <= MaxCalls
    BY <2>1
  <2>2. Len(ran[u]) \in Nat /\ budget[u] \in Int /\ Len(ran[u]) + budget[u] <= MaxCalls
    BY AgentAssumption
  <2>3. budget'[u] = budget[u] \/ budget'[u] = budget[u] - 1
    <3>1. DOMAIN budget = Turns
      OBVIOUS
    <3> QED BY <2>1, <3>1, Zenon
  <2> HIDE DEF TypeOK, Budgeted
  <2> QED BY <2>2, <2>3, AgentAssumption, LessSpent DEF AgentAssumption
<1>4. ASSUME NEW t \in Turns, Begin(t) \/ Work(t) \/ Close(t), ~CallTool(t), ~RefuseUnselected(t)
      PROVE  Budgeted'
  <2>1. UNCHANGED <<ran, budget>>
    BY <1>4 DEF Begin, Close, Work, ModelText, ModelStop, ModelFails, RefuseOverBudget,
           ReportRefusal, ToolReturns, ToolRaises, FailRequired, PublishArticle, NextRound
  <2> QED BY <2>1
<1> QED BY <1>1, <1>2, <1>3, <1>4 DEF Next

LEMMA BudgetedHolds == ASSUME TypeOK, Budgeted PROVE BudgetHeld
<1> SUFFICES ASSUME NEW t \in Turns PROVE Len(ran[t]) <= MaxCalls
  BY DEF BudgetHeld
<1>1. Len(ran[t]) \in Nat /\ budget[t] \in Nat
  BY Lengths, AgentAssumption DEF TypeOK
<1>2. Len(ran[t]) + budget[t] <= MaxCalls
  BY DEF Budgeted
<1> QED BY <1>1, <1>2, AgentAssumption

-----------------------------------------------------------------------------
(* The stream.                                                             *)

(* One more event: what was there stays, and the newest is the new one.    *)
LEMMA EmitExtends ==
  ASSUME TypeOK, NEW t \in Turns, NEW e \in Events, Emit(t, e)
  PROVE  /\ DOMAIN sent[t] = 1..Len(sent[t]) /\ Len(sent[t]) \in Nat
         /\ DOMAIN sent'[t] = 1..(Len(sent[t]) + 1)
         /\ \A i \in 1..Len(sent[t]) : sent'[t][i] = sent[t][i]
         /\ sent'[t][Len(sent[t]) + 1] = e
         /\ Newest(t)' = e /\ sent'[t] # <<>>
         /\ \A u \in Turns \ {t} : sent'[u] = sent[u]
<1>1. sent[t] \in Seq(Events) /\ sent'[t] = Append(sent[t], e)
      /\ \A u \in Turns \ {t} : sent'[u] = sent[u]
  BY DEF TypeOK, Emit
<1>2. Len(sent'[t]) = Len(sent[t]) + 1 /\ sent'[t][Len(sent[t]) + 1] = e /\ sent'[t] # <<>>
  BY <1>1, AppendFacts
<1>3. Newest(t)' = e
  BY <1>2 DEF Newest
<1> QED BY <1>1, <1>2, <1>3, AppendFacts

(* Where the turn is, and the newest event of its stream.                  *)
Speaking ==
  \A t \in Turns :
    /\ (pc[t] = "idle") = (sent[t] = <<>>)
    /\ pc[t] \in {"model", "tools"} =>
         Newest(t).type \in {"start", "text", "tool_result", "article"}
    /\ pc[t] \in {"running", "refusing"} => Newest(t) = CallEvent(pending[t][1])
    /\ pc[t] \in {"failing", "publishing"} => Newest(t).type = "tool_result"
    /\ pc[t] = "publishing" => Newest(t).ok

LEMMA SpeakingInit == Init => Speaking
PROOF BY DEF Init, Speaking

(* Steps that say nothing.                                                 *)
LEMMA SpeakingQuiet ==
  ASSUME Speaking, UNCHANGED sent, NEW t \in Turns, pc[t] # "idle", pc'[t] # "idle",
         pc'[t] \in {"model", "tools"} => pc[t] \in {"model", "tools"},
         pc'[t] \notin Handling,
         \A u \in Turns \ {t} : pc'[u] = pc[u] /\ pending'[u] = pending[u]
  PROVE  Speaking'
PROOF BY DEF Speaking, Newest, Handling

(* Steps that say one thing.                                               *)
LEMMA SpeakingEmit ==
  ASSUME TypeOK, Speaking, NEW t \in Turns, NEW e \in Events, Emit(t, e), pc'[t] # "idle",
         pc'[t] \in {"model", "tools"} =>
           e.type \in {"start", "text", "tool_result", "article"},
         pc'[t] \in {"running", "refusing"} => e = CallEvent(pending'[t][1]),
         pc'[t] \in {"failing", "publishing"} => e.type = "tool_result",
         pc'[t] = "publishing" => e.ok,
         \A u \in Turns \ {t} : pc'[u] = pc[u] /\ pending'[u] = pending[u]
  PROVE  Speaking'
<1>1. /\ Newest(t)' = e /\ sent'[t] # <<>>
      /\ \A u \in Turns \ {t} : sent'[u] = sent[u] /\ Newest(u)' = Newest(u)
  BY EmitExtends DEF Newest
<1> QED BY <1>1 DEF Speaking

LEMMA SpeakingStep ==
  ASSUME TypeOK, Held, Speaking, [Next]_vars
  PROVE  Speaking'
<1> USE EventTypes
<1>1. CASE UNCHANGED vars
  BY <1>1 DEF Speaking, Newest, vars
<1>2. ASSUME NEW t \in Turns, Begin(t) \/ Work(t) \/ Close(t)
      PROVE  Speaking'
  <2>1. /\ pc[t] \in Handling => pending[t] # <<>>
        /\ pending[t] # <<>> => pending[t][1] \in Calls
    BY HeadFacts DEF Held
  <2>2. ASSUME NEW label \in {"model", "tools", "over"}, Goto(t, label),
               NEW e \in Events, Emit(t, e),
               label # "over" => e.type \in {"start", "text", "tool_result", "article"},
               \A u \in Turns \ {t} : pending'[u] = pending[u]
        PROVE  Speaking'
    <3>1. pc'[t] = label /\ \A u \in Turns \ {t} : pc'[u] = pc[u]
      BY <2>2 DEF Goto, TypeOK
    <3> QED BY <2>2, <3>1, SpeakingEmit
  <2>3. ASSUME NEW label \in {"running", "refusing"}, Goto(t, label), UNCHANGED pending,
               pending[t] # <<>>, Emit(t, CallEvent(pending[t][1]))
        PROVE  Speaking'
    <3>1. pc'[t] = label /\ \A u \in Turns \ {t} : pc'[u] = pc[u]
      BY <2>3 DEF Goto, TypeOK
    <3> QED BY <2>1, <2>3, <3>1, SpeakingEmit
  <2>4. ASSUME NEW label \in {"model", "tools", "closed"}, Goto(t, label), UNCHANGED sent,
               pc[t] # "idle", label # "closed" => pc[t] \in {"model", "tools"},
               \A u \in Turns \ {t} : pending'[u] = pending[u]
        PROVE  Speaking'
    <3>1. pc'[t] = label /\ \A u \in Turns \ {t} : pc'[u] = pc[u]
      BY <2>4 DEF Goto, TypeOK
    <3> QED BY <2>4, <3>1, SpeakingQuiet DEF Handling
  <2>5. CASE Begin(t)
    BY <2>2, <2>5 DEF Begin, Event
  <2>6. CASE ModelText(t)
    <3>1. Goto(t, "model") /\ Emit(t, Event("text")) /\ UNCHANGED pending
      BY <2>6 DEF ModelText, Goto, TypeOK
    <3> QED BY <2>2, <3>1 DEF Event
  <2>7. CASE ModelStop(t)
    <3>1. ASSUME NEW type \in {"done", "error"}, EndTurn(t, type), UNCHANGED pending
          PROVE  Speaking'
      BY <2>2, <3>1 DEF EndTurn
    <3>2. ASSUME NEW asked \in Asked(t), Accept(t, asked)
          PROVE  Speaking'
      <4>1. Goto(t, "tools") /\ UNCHANGED sent /\ pc[t] = "model"
            /\ \A u \in Turns \ {t} : pending'[u] = pending[u]
        BY <2>7, <3>2 DEF ModelStop, Accept, TypeOK
      <4> QED BY <2>4, <4>1
    <3> QED BY <2>7, <3>1, <3>2 DEF ModelStop, Stop, RefuseFirst
  <2>8. CASE ModelFails(t) \/ ToolRaises(t) \/ FailRequired(t)
    BY <2>2, <2>8 DEF ModelFails, ToolRaises, FailRequired, EndTurn
  <2>9. CASE RefuseOverBudget(t)
    <3>1. Goto(t, "tools") /\ UNCHANGED sent /\ pc[t] = "tools"
          /\ \A u \in Turns \ {t} : pending'[u] = pending[u]
      BY <2>9 DEF RefuseOverBudget, Resolve, Goto, TypeOK
    <3> QED BY <2>4, <3>1
  <2>10. CASE RefuseUnselected(t)
    <3>1. CASE t \in Exact
      <4>1. Goto(t, "tools") /\ UNCHANGED sent /\ pc[t] = "tools"
            /\ \A u \in Turns \ {t} : pending'[u] = pending[u]
        BY <2>10, <3>1 DEF RefuseUnselected, Resolve, Goto, TypeOK
      <4> QED BY <2>4, <4>1
    <3>2. CASE t \notin Exact
      BY <2>3, <2>10, <3>2 DEF RefuseUnselected
    <3> QED BY <3>1, <3>2
  <2>11. CASE ReportRefusal(t)
    <3>1. ResultEvent(pending[t][1], FALSE) \in Events
      BY <2>1, <2>11 DEF ReportRefusal, Handling
    <3>2. \A u \in Turns \ {t} : pending'[u] = pending[u]
      BY <2>11 DEF ReportRefusal, Resolve, TypeOK
    <3> QED BY <2>2, <2>11, <3>1, <3>2 DEF ReportRefusal, ResultEvent
  <2>12. CASE CallTool(t)
    BY <2>3, <2>12 DEF CallTool
  <2>13. CASE ToolReturns(t)
    <3>1. PICK ok \in BOOLEAN :
            /\ Emit(t, ResultEvent(pending[t][1], ok))
            /\ \/ Goto(t, "failing") /\ UNCHANGED pending
               \/ ok /\ Goto(t, "publishing") /\ UNCHANGED pending
               \/ Goto(t, "tools") /\ Resolve(t)
      BY <2>13 DEF ToolReturns
    <3>2. ResultEvent(pending[t][1], ok) \in Events
      BY <2>1, <2>13 DEF ToolReturns, Handling
    <3>3. ResultEvent(pending[t][1], ok).type = "tool_result"
          /\ ResultEvent(pending[t][1], ok).ok = ok
      BY DEF ResultEvent
    <3>4. CASE Goto(t, "tools") /\ Resolve(t)
      <4>1. \A u \in Turns \ {t} : pending'[u] = pending[u]
        BY <3>4 DEF Resolve, TypeOK
      <4> QED BY <2>2, <3>1, <3>2, <3>3, <3>4, <4>1
    <3>5. CASE Goto(t, "failing") /\ UNCHANGED pending
      <4>1. pc'[t] = "failing" /\ \A u \in Turns \ {t} : pc'[u] = pc[u]
        BY <3>5 DEF Goto, TypeOK
      <4> QED BY <3>1, <3>2, <3>3, <3>5, <4>1, SpeakingEmit
    <3>6. CASE ok /\ Goto(t, "publishing") /\ UNCHANGED pending
      <4>1. pc'[t] = "publishing" /\ \A u \in Turns \ {t} : pc'[u] = pc[u]
        BY <3>6 DEF Goto, TypeOK
      <4> QED BY <3>1, <3>2, <3>3, <3>6, <4>1, SpeakingEmit
    <3> QED BY <3>1, <3>4, <3>5, <3>6
  <2>14. CASE PublishArticle(t)
    <3>1. \A u \in Turns \ {t} : pending'[u] = pending[u]
      BY <2>14 DEF PublishArticle, Resolve, TypeOK
    <3> QED BY <2>2, <2>14, <3>1 DEF PublishArticle, Event
  <2>15. CASE NextRound(t)
    <3>1. CASE round[t] < MaxRounds
      BY <2>4, <2>15, <3>1 DEF NextRound
    <3>2. CASE ~(round[t] < MaxRounds)
      BY <2>2, <2>15, <3>2 DEF NextRound, EndTurn
    <3> QED BY <3>1, <3>2
  <2>16. CASE Close(t)
    BY <2>4, <2>16 DEF Close, Live, Handling
  <2> QED
    BY <1>2, <2>5, <2>6, <2>7, <2>8, <2>9, <2>10, <2>11, <2>12, <2>13, <2>14, <2>15, <2>16
       DEF Work
<1> QED BY <1>1, <1>2 DEF Next

-----------------------------------------------------------------------------
(* The parts together.                                                     *)
IInv == TypeOK /\ Held /\ Matched /\ Budgeted /\ Speaking

LEMMA Inductive == Spec => []IInv
<1>1. Init => IInv
  BY TypeInit, MatchedInit, BudgetedInit, SpeakingInit DEF IInv
<1>2. IInv /\ [Next]_vars => IInv'
  BY TypeStep, HeldStep, MatchedStep, BudgetedStep, SpeakingStep DEF IInv
<1> QED BY <1>1, <1>2, PTL DEF Spec

(* The loop's state keeps its types; in particular the model is asked at   *)
(* most max_iterations times.                                              *)
THEOREM TypeCorrect == Spec => []TypeOK
<1>1. IInv => TypeOK
  BY DEF IInv
<1> QED BY <1>1, Inductive, PTL

(* Whenever the model is asked, every tool_use block has its tool_result.  *)
THEOREM AlwaysAnswered == Spec => []CallsAnswered
<1>1. IInv => CallsAnswered
  BY MatchedAnswers DEF IInv
<1> QED BY <1>1, Inductive, PTL

(* A turn never executes more than MAX_TOOL_CALLS tools.                   *)
THEOREM BudgetAlwaysHeld == Spec => []BudgetHeld
<1>1. IInv => BudgetHeld
  BY BudgetedHolds DEF IInv
<1> QED BY <1>1, Inductive, PTL

-----------------------------------------------------------------------------
(* The event protocol.                                                     *)

Last == [t \in Turns |-> Newest(t)]

LEMMA QuietLast == UNCHANGED sent => UNCHANGED Last
PROOF BY DEF Last, Newest

(* An event appended to the stream is the newest one of that turn.         *)
LEMMA SaysNewest ==
  ASSUME TypeOK, NEW t \in Turns, NEW e \in Events, Emit(t, e)
  PROVE  /\ Protocol!Says(t, e)
         /\ Last[t] = Newest(t)
<1>1. Newest(t)' = e /\ \A u \in Turns \ {t} : sent'[u] = sent[u]
  BY EmitExtends
<1>2. \A u \in Turns \ {t} : Newest(u)' = Newest(u)
  BY <1>1 DEF Newest
<1>3. Last' = [Last EXCEPT ![t] = e]
  BY <1>1, <1>2 DEF Last
<1> QED BY <1>3 DEF Protocol!Says, Last

(* The abstract steps, in the words of the loop.                           *)
LEMMA Continues ==
  ASSUME TypeOK, NEW t \in Turns, NEW e \in Events, Emit(t, e),
         Newest(t).type \in {"start", "text", "tool_result", "article"},
         \/ e \in {Event("text"), Event("error"), Event("done")}
         \/ \E c \in Calls : e = CallEvent(c)
  PROVE  Protocol!Next
<1>1. Protocol!Says(t, e) /\ Last[t] = Newest(t)
  BY SaysNewest
<1>2. CASE e \in {Event("text"), Event("error"), Event("done")}
  <2>1. \E type \in {"text", "error", "done"} : Protocol!Says(t, Protocol!Event(type))
    BY <1>1, <1>2 DEF Event, Protocol!Event
  <2> QED BY <1>1, <2>1 DEF Last, Protocol!Continue, Protocol!Next
<1>3. CASE \E c \in Calls : e = CallEvent(c)
  <2>1. \E c \in Calls : Protocol!Says(t, Protocol!CallEvent(c))
    BY <1>1, <1>3 DEF CallEvent, Protocol!CallEvent
  <2> QED BY <1>1, <2>1 DEF Last, Protocol!Continue, Protocol!Next
<1> QED BY <1>2, <1>3

LEMMA Answers ==
  ASSUME TypeOK, NEW t \in Turns, NEW c \in Calls, NEW e \in Events, Emit(t, e),
         Newest(t) = CallEvent(c),
         e = Event("error") \/ \E ok \in BOOLEAN : e = ResultEvent(c, ok)
  PROVE  Protocol!Next
<1>1. Protocol!Says(t, e) /\ Last[t] = Newest(t)
  BY SaysNewest
<1>2. Last[t].type = "tool_call" /\ Last[t].call = c
  BY <1>1 DEF CallEvent
<1>3. \/ \E ok \in BOOLEAN : Protocol!Says(t, Protocol!ResultEvent(Last[t].call, ok))
      \/ Protocol!Says(t, Protocol!Event("error"))
  BY <1>1, <1>2 DEF Event, Protocol!Event, ResultEvent, Protocol!ResultEvent
<1> QED BY <1>2, <1>3 DEF Last, Protocol!Answer, Protocol!Next

LEMMA ProtocolStep ==
  ASSUME TypeOK, Held, Speaking, [Next]_vars
  PROVE  [Protocol!Next]_Last
<1> USE EventTypes
<1>1. CASE UNCHANGED vars
  BY <1>1, QuietLast DEF vars
<1>2. ASSUME NEW t \in Turns, Begin(t) \/ Work(t) \/ Close(t)
      PROVE  [Protocol!Next]_Last
  <2>0. pc[t] \in Handling => pending[t][1] \in Calls
    BY HeadFacts DEF Held
  <2>1. /\ pc[t] \in {"model", "tools"} =>
             Newest(t).type \in {"start", "text", "tool_result", "article"}
        /\ pc[t] \in {"running", "refusing"} => Newest(t) = CallEvent(pending[t][1])
        /\ pc[t] \in {"failing", "publishing"} => Newest(t).type = "tool_result"
        /\ pc[t] = "publishing" => Newest(t).ok
        /\ pc[t] = "idle" => Newest(t) = Event("silence")
    BY DEF Speaking, Newest
  <2>2. CASE Begin(t)
    <3>1. Protocol!Says(t, Event("start")) /\ Last[t] = Newest(t)
      BY <2>2, SaysNewest DEF Begin
    <3>2. Last[t].type = "silence"
      BY <2>1, <2>2, <3>1 DEF Begin, Event
    <3> QED BY <3>1, <3>2 DEF Last, Event, Protocol!Event, Protocol!Open, Protocol!Next
  <2>3. CASE ModelText(t)
    BY <2>1, <2>3, Continues DEF ModelText
  <2>4. CASE ModelStop(t)
    <3>1. ASSUME NEW type \in {"done", "error"}, EndTurn(t, type)
          PROVE  Protocol!Next
      BY <2>1, <2>4, <3>1, Continues DEF ModelStop, EndTurn
    <3>2. ASSUME NEW asked \in Asked(t), Accept(t, asked)
          PROVE  UNCHANGED sent
      BY <3>2 DEF Accept
    <3> QED BY <2>4, <3>1, <3>2, QuietLast DEF ModelStop, Stop, RefuseFirst
  <2>5. CASE ModelFails(t) \/ FailRequired(t)
    BY <2>1, <2>5, Continues DEF ModelFails, FailRequired, EndTurn
  <2>6. CASE RefuseOverBudget(t) \/ Close(t)
    BY <2>6, QuietLast DEF RefuseOverBudget, Close
  <2>7. CASE RefuseUnselected(t)
    <3>1. CASE t \in Exact
      BY <2>7, <3>1, QuietLast DEF RefuseUnselected
    <3>2. CASE t \notin Exact
      <4>1. pending[t][1] \in Calls
        BY <2>7, HeadFacts DEF RefuseUnselected
      <4> QED BY <2>1, <2>7, <3>2, <4>1, Continues DEF RefuseUnselected
    <3> QED BY <3>1, <3>2
  <2>8. CASE ReportRefusal(t)
    BY <2>0, <2>1, <2>8, Answers DEF ReportRefusal, Handling
  <2>9. CASE CallTool(t)
    <3>1. pending[t][1] \in Calls
      BY <2>9, HeadFacts DEF CallTool
    <3> QED BY <2>1, <2>9, <3>1, Continues DEF CallTool
  <2>10. CASE ToolReturns(t)
    <3>1. PICK ok \in BOOLEAN : Emit(t, ResultEvent(pending[t][1], ok))
      BY <2>10 DEF ToolReturns
    <3> QED BY <2>0, <2>1, <2>10, <3>1, Answers DEF ToolReturns, Handling
  <2>11. CASE ToolRaises(t)
    BY <2>0, <2>1, <2>11, Answers DEF ToolRaises, EndTurn, Handling
  <2>12. CASE PublishArticle(t)
    <3>1. Protocol!Says(t, Event("article")) /\ Last[t] = Newest(t)
      BY <2>12, SaysNewest DEF PublishArticle
    <3>2. Last[t].type = "tool_result" /\ Last[t].ok
      BY <2>1, <2>12, <3>1 DEF PublishArticle
    <3> QED BY <3>1, <3>2 DEF Last, Event, Protocol!Event, Protocol!Publish, Protocol!Next
  <2>13. CASE NextRound(t)
    <3>1. CASE round[t] < MaxRounds
      BY <2>13, <3>1, QuietLast DEF NextRound
    <3>2. CASE ~(round[t] < MaxRounds)
      BY <2>1, <2>13, <3>2, Continues DEF NextRound, EndTurn
    <3> QED BY <3>1, <3>2
  <2> QED
    BY <1>2, <2>2, <2>3, <2>4, <2>5, <2>6, <2>7, <2>8, <2>9, <2>10, <2>11, <2>12, <2>13
       DEF Work
<1> QED BY <1>1, <1>2 DEF Next

(* The events of every turn follow AgentProtocol: each tool_call is        *)
(* answered or ends the turn, nothing follows done or error.               *)
THEOREM ProtocolKept == Spec => KeepsProtocol
<1>1. Init => Protocol!Init
  BY DEF Init, Newest, Event, Protocol!Init, Protocol!Silence, Protocol!Event
<1>2. IInv /\ [Next]_vars => [Protocol!Next]_Last
  BY ProtocolStep DEF IInv
<1> QED BY <1>1, <1>2, Inductive, PTL DEF Spec, KeepsProtocol, Protocol!Spec, Last

-----------------------------------------------------------------------------
(* The required first tool.                                                *)

Won(t) == \E i \in DOMAIN sent[t] :
  /\ sent[t][i].type = "tool_result"
  /\ sent[t][i].call.name = Required /\ sent[t][i].ok

Concluded(t) == \E i \in DOMAIN sent[t] : sent[t][i].type = "done"

(* Three phases: the tool is not called yet; its call is at the head of    *)
(* the queue or executing (owed); it has succeeded or the turn is failing. *)
Phases(t) ==
  /\ ran[t] # <<>> => ran[t][1] = Required
  /\ Len(ran[t]) > 1 => Won(t)
  /\ Concluded(t) => Won(t) /\ ran[t] # <<>>
  /\ ~called[t] => /\ ran[t] = <<>> /\ ~owed[t] /\ budget[t] = MaxCalls
                   /\ pc[t] \notin {"tools"} \cup Handling
  /\ owed[t] => /\ Len(ran[t]) <= 1
                /\ pc[t] \notin {"idle", "model", "refusing", "publishing", "failing"}
  /\ owed[t] /\ pc[t] = "tools" =>
       /\ ran[t] = <<>> /\ budget[t] = MaxCalls
       /\ pending[t] # <<>> /\ pending[t][1].name = Required
  /\ owed[t] /\ pc[t] = "running" => ran[t] # <<>> /\ pending[t][1].name = Required
  /\ called[t] /\ ~owed[t] =>
       /\ ran[t] # <<>>
       /\ pc[t] \notin {"over", "closed", "failing"} => Won(t)

Progress == Required # None => \A t \in Exact : Phases(t)

LEMMA ProgressHolds == Progress => RequiredFirst
PROOF BY DEF Progress, Phases, RequiredFirst, Won, Concluded

LEMMA ProgressInit == Init => Progress
<1> SUFFICES ASSUME Init, NEW t \in Exact PROVE Phases(t)
  BY DEF Progress
<1>0. t \in Turns
  BY AgentAssumption
<1>1. /\ ran[t] = <<>> /\ Len(ran[t]) = 0 /\ sent[t] = <<>> /\ pc[t] = "idle"
      /\ called[t] = FALSE /\ owed[t] = FALSE /\ budget[t] = MaxCalls
      /\ DOMAIN sent[t] = {}
  BY <1>0 DEF Init
<1> QED BY <1>1 DEF Phases, Concluded, Handling

(* What one more event decides.                                            *)
LEMMA EmitDecides ==
  ASSUME TypeOK, NEW t \in Turns, NEW e \in Events, Emit(t, e)
  PROVE  /\ Won(t) => Won(t)'
         /\ e.type = "tool_result" /\ e.call.name = Required /\ e.ok => Won(t)'
         /\ e.type # "done" => (Concluded(t)' => Concluded(t))
<1>1. /\ DOMAIN sent[t] = 1..Len(sent[t]) /\ Len(sent[t]) \in Nat
      /\ DOMAIN sent'[t] = 1..(Len(sent[t]) + 1)
      /\ \A i \in 1..Len(sent[t]) : sent'[t][i] = sent[t][i]
      /\ sent'[t][Len(sent[t]) + 1] = e
  BY EmitExtends
<1> DEFINE n == Len(sent[t])
<1>2. /\ n \in Nat /\ DOMAIN sent[t] = 1..n /\ DOMAIN sent'[t] = 1..(n + 1)
      /\ \A i \in 1..n : sent'[t][i] = sent[t][i]
      /\ sent'[t][n + 1] = e
  BY <1>1
<1> HIDE DEF n
<1>3. 1..n \subseteq 1..(n + 1) /\ n + 1 \in 1..(n + 1)
      /\ \A i \in 1..(n + 1) : i \in 1..n \/ i = n + 1
  BY <1>2
<1>4. Won(t) => Won(t)'
  BY <1>2, <1>3 DEF Won
<1>5. e.type = "tool_result" /\ e.call.name = Required /\ e.ok => Won(t)'
  BY <1>2, <1>3 DEF Won
<1>6. e.type # "done" => (Concluded(t)' => Concluded(t))
  BY <1>2, <1>3 DEF Concluded
<1> QED BY <1>4, <1>5, <1>6

LEMMA PhasesElsewhere ==
  ASSUME NEW u \in Turns, Phases(u), pc'[u] = pc[u], budget'[u] = budget[u],
         pending'[u] = pending[u], called'[u] = called[u], owed'[u] = owed[u],
         ran'[u] = ran[u], sent'[u] = sent[u]
  PROVE  Phases(u)'
PROOF BY DEF Phases, Won, Concluded

(* A step that leaves for good, or that stays with the model, changes no   *)
(* phase; saying done takes a tool that has succeeded.                     *)
LEMMA PhasesEnd ==
  ASSUME TypeOK, NEW t \in Turns, Phases(t), UNCHANGED <<budget, pending, called, owed, ran>>,
         Goto(t, "over"), NEW e \in Events, Emit(t, e),
         e.type = "done" => Won(t) /\ ran[t] # <<>>
  PROVE  Phases(t)'
<1>1. pc'[t] = "over"
  BY DEF Goto, TypeOK
<1>2. (Won(t) => Won(t)') /\ (Concluded(t)' => Won(t)' /\ ran[t] # <<>>)
  BY EmitDecides DEF Phases
<1> QED BY <1>1, <1>2 DEF Phases, Handling

LEMMA PhasesStep ==
  ASSUME TypeOK, Held, Required # None, NEW t \in Turns, t \in Exact, Phases(t),
         Begin(t) \/ Work(t) \/ Close(t)
  PROVE  Phases(t)'
<1> USE EventTypes
<1>0. Required \in Selected /\ MaxCalls # 0
  BY AgentAssumption
<1>1. CASE Begin(t)
  <2>1. pc'[t] = "model" /\ pc[t] = "idle" /\ UNCHANGED <<budget, pending, called, owed, ran>>
    BY <1>1 DEF Begin, Goto, TypeOK
  <2>2. (Won(t) => Won(t)') /\ (Concluded(t)' => Concluded(t))
    BY <1>1, EmitDecides DEF Begin, Event
  <2> QED BY <2>1, <2>2 DEF Phases, Handling
<1>2. CASE ModelText(t)
  <2>1. UNCHANGED <<pc, budget, pending, called, owed, ran>>
    BY <1>2 DEF ModelText
  <2>2. (Won(t) => Won(t)') /\ (Concluded(t)' => Concluded(t))
    BY <1>2, EmitDecides DEF ModelText, Event
  <2> QED BY <2>1, <2>2 DEF Phases
<1>3. CASE ModelStop(t)
  <2>1. pc[t] = "model" /\ UNCHANGED <<budget, ran>>
    BY <1>3 DEF ModelStop
  <2>2. CASE Stop(t)
    <3>1. called[t] => Won(t) /\ ran[t] # <<>>
      BY <2>1 DEF Phases
    <3>2. FirstDue(t) = ~called[t]
      BY DEF FirstDue, TypeOK
    <3>3. PICK e \in Events : Emit(t, e) /\ (e.type = "done" => called[t])
      BY <2>2, <3>2 DEF Stop, EndTurn, Event
    <3> QED BY <2>1, <2>2, <3>1, <3>3, PhasesEnd DEF Stop, EndTurn
  <2>3. CASE RefuseFirst(t)
    <3>1. Emit(t, Event("error")) /\ Event("error").type # "done"
      BY <2>3 DEF RefuseFirst, EndTurn, Event
    <3> QED BY <2>1, <2>3, <3>1, PhasesEnd DEF RefuseFirst, EndTurn
  <2>4. ASSUME NEW asked \in Asked(t) \ {<<>>}, Accept(t, asked),
               ~called[t] => asked[1].name = Required
        PROVE  Phases(t)'
    <3>1. /\ pc'[t] = "tools" /\ pending'[t] = asked /\ UNCHANGED sent
          /\ called'[t] = TRUE /\ owed'[t] = (owed[t] \/ ~called[t])
      BY <2>4 DEF Accept, Goto, FirstDue, TypeOK
    <3>2. Won(t)' = Won(t) /\ Concluded(t)' = Concluded(t)
      BY <3>1 DEF Won, Concluded
    <3>3. ran[t] = <<>> => Len(ran[t]) <= 1
      OBVIOUS
    <3> QED BY <2>1, <2>4, <3>1, <3>2, <3>3 DEF Phases
  <2> QED BY <1>3, <2>2, <2>3, <2>4 DEF ModelStop, FirstDue, TypeOK
<1>4. CASE ModelFails(t) \/ ToolRaises(t) \/ FailRequired(t)
  <2>1. /\ UNCHANGED <<budget, pending, called, owed, ran>> /\ Goto(t, "over")
        /\ Emit(t, Event("error")) /\ Event("error").type # "done"
    BY <1>4 DEF ModelFails, ToolRaises, FailRequired, EndTurn, Event
  <2> QED BY <2>1, PhasesEnd
<1>5. CASE RefuseOverBudget(t)
  <2>1. /\ pc[t] = "tools" /\ budget[t] = 0
        /\ UNCHANGED <<pc, budget, called, owed, ran, sent>>
    BY <1>5 DEF RefuseOverBudget
  <2>2. Won(t)' = Won(t) /\ Concluded(t)' = Concluded(t)
    BY <2>1 DEF Won, Concluded
  <2> QED BY <1>0, <2>1, <2>2 DEF Phases
<1>6. CASE RefuseUnselected(t)
  <2>1. /\ pc[t] = "tools" /\ pending[t][1].name # Required
        /\ UNCHANGED <<pc, called, owed, ran, sent>>
    BY <1>0, <1>6 DEF RefuseUnselected
  <2>2. Won(t)' = Won(t) /\ Concluded(t)' = Concluded(t)
    BY <2>1 DEF Won, Concluded
  <2> QED BY <1>0, <2>1, <2>2 DEF Phases
<1>7. CASE ReportRefusal(t)
  <2>1. pc[t] = "refusing" /\ pc'[t] = "tools" /\ UNCHANGED <<budget, called, owed, ran>>
    BY <1>7 DEF ReportRefusal, Goto, TypeOK
  <2>2. ResultEvent(pending[t][1], FALSE) \in Events
    BY <2>1, HeadFacts DEF Held, Handling
  <2>3. (Won(t) => Won(t)') /\ (Concluded(t)' => Concluded(t))
    BY <1>7, <2>2, EmitDecides DEF ReportRefusal, ResultEvent
  <2> QED BY <2>1, <2>3 DEF Phases, Handling
<1>8. CASE CallTool(t)
  <2> DEFINE longer == Append(ran[t], pending[t][1].name)
  <2>1. /\ pc[t] = "tools" /\ pc'[t] = "running" /\ UNCHANGED <<pending, called, owed>>
        /\ ran'[t] = longer /\ pending[t] # <<>>
    BY <1>8 DEF CallTool, Goto, TypeOK
  <2>2. ran[t] \in Seq(Selected) /\ pending[t][1].name \in Selected
    BY <1>8 DEF CallTool, TypeOK
  <2>3. /\ longer # <<>> /\ Len(longer) = Len(ran[t]) + 1 /\ Len(ran[t]) \in Nat
        /\ ran[t] # <<>> => longer[1] = ran[t][1]
        /\ ran[t] = <<>> => longer[1] = pending[t][1].name /\ Len(longer) = 1
    BY <2>2, AppendFacts
  <2>4. CallEvent(pending[t][1]) \in Events
    BY <2>1, HeadFacts
  <2>5. (Won(t) => Won(t)') /\ (Concluded(t)' => Concluded(t))
    BY <1>8, <2>4, EmitDecides DEF CallTool, CallEvent
  <2> HIDE DEF longer
  <2>6. called[t]
    BY <2>1 DEF Phases
  <2>7. CASE owed[t]
    <3>1. ran[t] = <<>> /\ pending[t][1].name = Required
      BY <2>1, <2>7 DEF Phases
    <3>2. ran'[t] # <<>> /\ ran'[t][1] = Required /\ Len(ran'[t]) = 1
      BY <2>1, <2>3, <3>1
    <3> QED BY <2>1, <2>5, <2>6, <2>7, <3>1, <3>2 DEF Phases
  <2>8. CASE ~owed[t]
    <3>1. ran[t] # <<>> /\ Won(t)
      BY <2>1, <2>6, <2>8 DEF Phases
    <3>2. ran'[t] # <<>> /\ ran'[t][1] = Required
      BY <2>1, <2>3, <3>1 DEF Phases
    <3> QED BY <2>1, <2>5, <2>6, <2>8, <3>1, <3>2 DEF Phases
  <2> QED BY <2>7, <2>8
<1>9. CASE ToolReturns(t)
  <2>1. /\ pc[t] = "running" /\ UNCHANGED <<budget, called, ran>>
        /\ pending[t] # <<>>
    BY <1>9 DEF ToolReturns, Held, Handling
  <2>2. PICK ok \in BOOLEAN :
          /\ Emit(t, ResultEvent(pending[t][1], ok))
          /\ owed' = [owed EXCEPT ![t] = @ /\ ~(owed[t] /\ pending[t][1].name = Required)]
          /\ \/ owed[t] /\ ~ok /\ Goto(t, "failing")
             \/ ok /\ Goto(t, "publishing")
             \/ ~(owed[t] /\ pending[t][1].name = Required) /\ Goto(t, "tools")
             \/ ok /\ Goto(t, "tools")
    BY <1>9 DEF ToolReturns
  <2>3. ResultEvent(pending[t][1], ok) \in Events
    BY <2>1, HeadFacts
  <2>4. /\ Won(t) => Won(t)'
        /\ pending[t][1].name = Required /\ ok => Won(t)'
        /\ Concluded(t)' => Concluded(t)
    BY <2>2, <2>3, EmitDecides DEF ResultEvent
  <2>5. owed[t] => pending[t][1].name = Required
    BY <2>1 DEF Phases
  <2>6. owed'[t] = FALSE /\ called[t] /\ ran[t] # <<>>
    BY <2>1, <2>2, <2>5 DEF Phases, TypeOK, Handling
  <2>7. pc'[t] = "failing" \/ Won(t)'
    <3>1. CASE owed[t]
      BY <2>2, <2>4, <2>5, <3>1 DEF Goto, TypeOK
    <3>2. CASE ~owed[t]
      BY <2>1, <2>4, <2>6, <3>2 DEF Phases
    <3> QED BY <3>1, <3>2
  <2> QED BY <2>1, <2>4, <2>6, <2>7 DEF Phases
<1>10. CASE PublishArticle(t)
  <2>1. pc[t] = "publishing" /\ pc'[t] = "tools" /\ UNCHANGED <<budget, called, owed, ran>>
    BY <1>10 DEF PublishArticle, Goto, TypeOK
  <2>2. (Won(t) => Won(t)') /\ (Concluded(t)' => Concluded(t))
    BY <1>10, EmitDecides DEF PublishArticle, Event
  <2> QED BY <2>1, <2>2 DEF Phases, Handling
<1>11. CASE NextRound(t)
  <2>1. /\ pc[t] = "tools" /\ pending[t] = <<>>
        /\ UNCHANGED <<budget, pending, called, owed, ran>>
    BY <1>11 DEF NextRound
  <2>2. called[t] /\ ~owed[t] /\ Won(t) /\ ran[t] # <<>>
    BY <2>1 DEF Phases
  <2>3. CASE round[t] < MaxRounds
    <3>1. pc'[t] = "model" /\ UNCHANGED sent
      BY <1>11, <2>3 DEF NextRound, Goto, TypeOK
    <3>2. Won(t)' = Won(t) /\ Concluded(t)' = Concluded(t)
      BY <3>1 DEF Won, Concluded
    <3> QED BY <2>1, <2>2, <3>1, <3>2 DEF Phases
  <2>4. CASE ~(round[t] < MaxRounds)
    BY <1>11, <2>1, <2>2, <2>4, PhasesEnd DEF NextRound, EndTurn
  <2> QED BY <2>3, <2>4
<1>12. CASE Close(t)
  <2>1. /\ pc'[t] = "closed" /\ pc[t] \in Live
        /\ UNCHANGED <<budget, pending, called, owed, ran, sent>>
    BY <1>12 DEF Close, Goto, TypeOK
  <2>2. Won(t)' = Won(t) /\ Concluded(t)' = Concluded(t)
    BY <2>1 DEF Won, Concluded
  <2> QED BY <2>1, <2>2 DEF Phases, Handling
<1> QED
  BY <1>1, <1>2, <1>3, <1>4, <1>5, <1>6, <1>7, <1>8, <1>9, <1>10, <1>11, <1>12 DEF Work

LEMMA OthersAlone ==
  ASSUME TypeOK, NEW t \in Turns, Begin(t) \/ Work(t) \/ Close(t), NEW u \in Turns \ {t}
  PROVE  /\ pc'[u] = pc[u] /\ budget'[u] = budget[u] /\ pending'[u] = pending[u]
         /\ called'[u] = called[u] /\ owed'[u] = owed[u] /\ ran'[u] = ran[u]
         /\ sent'[u] = sent[u]
<1> USE DEF TypeOK, Goto, Emit, EndTurn, Resolve, Spend
<1>1. CASE Begin(t) \/ ModelText(t) \/ ModelFails(t) \/ ToolRaises(t) \/ FailRequired(t)
           \/ PublishArticle(t) \/ ReportRefusal(t) \/ RefuseOverBudget(t) \/ Close(t)
  BY <1>1 DEF Begin, ModelText, ModelFails, ToolRaises, FailRequired, PublishArticle,
         ReportRefusal, RefuseOverBudget, Close
<1>2. CASE ModelStop(t)
  BY <1>2 DEF ModelStop, Stop, RefuseFirst, Accept
<1>3. CASE CallTool(t)
  BY <1>3 DEF CallTool
<1>4. CASE RefuseUnselected(t)
  BY <1>4 DEF RefuseUnselected
<1>5. CASE ToolReturns(t)
  BY <1>5 DEF ToolReturns
<1>6. CASE NextRound(t)
  BY <1>6 DEF NextRound
<1> QED BY <1>1, <1>2, <1>3, <1>4, <1>5, <1>6 DEF Work

LEMMA ProgressStep ==
  ASSUME TypeOK, Held, Progress, [Next]_vars
  PROVE  Progress'
<1> SUFFICES ASSUME Required # None, NEW u \in Exact PROVE Phases(u)'
  BY DEF Progress
<1>0. u \in Turns
  BY AgentAssumption
<1>1. CASE UNCHANGED vars
  BY <1>0, <1>1, PhasesElsewhere DEF Progress, vars
<1>2. ASSUME NEW t \in Turns, Begin(t) \/ Work(t) \/ Close(t)
      PROVE  Phases(u)'
  <2>1. CASE u = t
    BY <1>0, <1>2, <2>1, PhasesStep DEF Progress
  <2>2. CASE u # t
    BY <1>0, <1>2, <2>2, OthersAlone, PhasesElsewhere DEF Progress
  <2> QED BY <2>1, <2>2
<1> QED BY <1>1, <1>2 DEF Next

(* The required tool executes first, alone until it has succeeded, and the *)
(* turn says done only after that.                                         *)
THEOREM RequiredComesFirst == Spec => []RequiredFirst
<1>1. Init => Progress
  BY ProgressInit
<1>2. IInv /\ Progress /\ [Next]_vars => Progress'
  BY ProgressStep DEF IInv
<1>3. Progress => RequiredFirst
  BY ProgressHolds
<1> QED BY <1>1, <1>2, <1>3, Inductive, PTL DEF Spec

-----------------------------------------------------------------------------
(* The selection.                                                          *)

NamesSelected(e) == e.type \in {"tool_call", "tool_result"} => e.call.name \in Selected

(* Under the exact policy a call that is executing is a selected one, no   *)
(* refusal is under way, and no event names another tool.                  *)
Allowed ==
  \A t \in Exact :
    /\ pc[t] # "refusing"
    /\ pc[t] = "running" => pending[t][1].name \in Selected
    /\ \A i \in DOMAIN sent[t] : NamesSelected(sent[t][i])

(* The turn says nothing, or one thing that is not about a call.           *)
NamesNothing(t) ==
  \/ UNCHANGED sent
  \/ \E type \in {"start", "text", "article", "error", "done"} : Emit(t, Event(type))

LEMMA AllowedInit == Init => Allowed
<1> SUFFICES ASSUME Init, NEW t \in Exact
             PROVE  pc[t] = "idle" /\ DOMAIN sent[t] = {}
  BY AgentAssumption DEF Allowed
<1>1. pc[t] = "idle" /\ sent[t] = <<>>
  BY AgentAssumption DEF Init
<1> QED BY <1>1

LEMMA AllowedEmit ==
  ASSUME TypeOK, NEW t \in Turns, \A i \in DOMAIN sent[t] : NamesSelected(sent[t][i]),
         NEW e \in Events, Emit(t, e), NamesSelected(e)
  PROVE  \A i \in DOMAIN sent'[t] : NamesSelected(sent'[t][i])
<1>1. /\ DOMAIN sent[t] = 1..Len(sent[t]) /\ Len(sent[t]) \in Nat
      /\ DOMAIN sent'[t] = 1..(Len(sent[t]) + 1)
      /\ \A i \in 1..Len(sent[t]) : sent'[t][i] = sent[t][i]
      /\ sent'[t][Len(sent[t]) + 1] = e
  BY EmitExtends
<1>2. \A i \in 1..(Len(sent[t]) + 1) : i \in 1..Len(sent[t]) \/ i = Len(sent[t]) + 1
  BY <1>1
<1> QED BY <1>1, <1>2

LEMMA AllowedStep ==
  ASSUME TypeOK, Held, Allowed, [Next]_vars
  PROVE  Allowed'
<1> USE EventTypes
<1>a. Exact \subseteq Turns
  BY AgentAssumption
<1> SUFFICES ASSUME NEW u \in Turns, u \in Exact
             PROVE  /\ pc'[u] # "refusing"
                    /\ pc'[u] = "running" => pending'[u][1].name \in Selected
                    /\ \A i \in DOMAIN sent'[u] : NamesSelected(sent'[u][i])
  BY <1>a DEF Allowed
<1>0. /\ pc[u] # "refusing"
      /\ pc[u] = "running" => pending[u][1].name \in Selected
      /\ \A i \in DOMAIN sent[u] : NamesSelected(sent[u][i])
  BY DEF Allowed
<1>1. CASE UNCHANGED vars
  BY <1>0, <1>1 DEF vars
<1>2. ASSUME NEW t \in Turns \ {u}, Begin(t) \/ Work(t) \/ Close(t)
      PROVE  /\ pc'[u] = pc[u] /\ pending'[u] = pending[u] /\ sent'[u] = sent[u]
  BY <1>2, OthersAlone
<1>3. ASSUME Begin(u) \/ Work(u) \/ Close(u)
      PROVE  /\ pc'[u] # "refusing"
             /\ pc'[u] = "running" => pending'[u][1].name \in Selected
             /\ \A i \in DOMAIN sent'[u] : NamesSelected(sent'[u][i])
  <2>1. pc[u] \in Handling => pending[u] # <<>>
    BY DEF Held
  <2>2. CASE pc'[u] # "running" /\ NamesNothing(u)
    <3>1. pc'[u] # "refusing"
      BY <1>0, <1>3 DEF Work, Begin, Close, ModelText, ModelStop, Stop, RefuseFirst, Accept,
         ModelFails, RefuseOverBudget, RefuseUnselected, ReportRefusal, CallTool, ToolReturns,
         ToolRaises, FailRequired, PublishArticle, NextRound, EndTurn, Goto, TypeOK
    <3>2. \A type \in {"start", "text", "article", "error", "done"} :
            Event(type) \in Events /\ NamesSelected(Event(type))
      BY DEF Event, NamesSelected
    <3> QED BY <1>0, <2>2, <3>1, <3>2, AllowedEmit DEF NamesNothing
  <2>3. CASE CallTool(u)
    <3>1. /\ pc'[u] = "running" /\ UNCHANGED pending /\ pending[u] # <<>>
          /\ pending[u][1].name \in Selected /\ Emit(u, CallEvent(pending[u][1]))
      BY <2>3 DEF CallTool, Goto, TypeOK
    <3>2. CallEvent(pending[u][1]) \in Events /\ NamesSelected(CallEvent(pending[u][1]))
      BY <3>1, HeadFacts DEF CallEvent, NamesSelected
    <3> QED BY <1>0, <3>1, <3>2, AllowedEmit
  <2>4. CASE ToolReturns(u)
    <3>1. PICK ok \in BOOLEAN :
            /\ Emit(u, ResultEvent(pending[u][1], ok))
            /\ pc'[u] \in {"failing", "publishing", "tools"}
      BY <2>4 DEF ToolReturns, Goto, TypeOK
    <3>2. pc[u] = "running" /\ pending[u] # <<>>
      BY <2>1, <2>4 DEF ToolReturns, Handling
    <3>3. ResultEvent(pending[u][1], ok) \in Events /\ NamesSelected(ResultEvent(pending[u][1], ok))
      BY <1>0, <3>2, HeadFacts DEF ResultEvent, NamesSelected
    <3> QED BY <1>0, <3>1, <3>3, AllowedEmit
  <2>5. ~ReportRefusal(u)
    BY <1>0 DEF ReportRefusal
  <2>6. ASSUME ~CallTool(u), ~ToolReturns(u)
        PROVE  pc'[u] # "running" /\ NamesNothing(u)
    <3>1. CASE Begin(u) \/ ModelText(u) \/ ModelFails(u) \/ ToolRaises(u) \/ FailRequired(u)
               \/ PublishArticle(u) \/ Close(u)
      BY <3>1 DEF Begin, ModelText, ModelFails, ToolRaises, FailRequired, PublishArticle, Close,
         EndTurn, Goto, TypeOK, NamesNothing
    <3>2. CASE ModelStop(u)
      BY <3>2 DEF ModelStop, Stop, RefuseFirst, Accept, EndTurn, Goto, TypeOK, NamesNothing
    <3>3. CASE RefuseOverBudget(u) \/ RefuseUnselected(u)
      BY <3>3 DEF RefuseOverBudget, RefuseUnselected, NamesNothing
    <3>4. CASE NextRound(u)
      BY <3>4 DEF NextRound, EndTurn, Goto, TypeOK, NamesNothing
    <3> QED BY <1>3, <2>5, <2>6, <3>1, <3>2, <3>3, <3>4 DEF Work
  <2> QED BY <2>2, <2>3, <2>4, <2>6
<1> QED BY <1>0, <1>1, <1>2, <1>3 DEF Next

(* Under the exact policy no event of a turn names an unselected tool.     *)
THEOREM SelectedOnly == Spec => []OnlySelected
<1>1. Init => Allowed
  BY AllowedInit
<1>2. IInv /\ Allowed /\ [Next]_vars => Allowed'
  BY AllowedStep DEF IInv
<1>3. Allowed => OnlySelected
  BY DEF Allowed, OnlySelected, NamesSelected
<1> QED BY <1>1, <1>2, <1>3, Inductive, PTL DEF Spec

-----------------------------------------------------------------------------
(* The shape of a stream, for those who read it: start comes first and     *)
(* only first, done or error last, and then the turn is over.              *)
Final == {"done", "error"}

Shaped ==
  \A t \in Turns : \A i \in DOMAIN sent[t] :
    /\ (sent[t][i].type = "start") = (i = 1)
    /\ sent[t][i].type \in Final => i = Len(sent[t]) /\ pc[t] = "over"

LEMMA ShapedInit == Init => Shaped
<1> SUFFICES ASSUME Init, NEW t \in Turns PROVE DOMAIN sent[t] = {}
  BY DEF Shaped
<1>1. sent[t] = <<>>
  BY DEF Init
<1> QED BY <1>1

(* A step of a turn says nothing, or one event that fits where the turn    *)
(* was and where it goes.                                                  *)
Fits(t, e) ==
  /\ Emit(t, e)
  /\ (e.type = "start") = (pc[t] = "idle")
  /\ e.type \in Final => pc'[t] = "over"

LEMMA StepFits ==
  ASSUME TypeOK, Held, NEW t \in Turns, Begin(t) \/ Work(t) \/ Close(t)
  PROVE  /\ pc[t] \notin {"over", "closed"}
         /\ UNCHANGED sent \/ \E e \in Events : Fits(t, e)
<1> USE EventTypes DEF Fits, Final
<1>0. pc[t] \in Handling => pending[t][1] \in Calls
  BY HeadFacts DEF Held
<1>1. pc[t] \notin {"over", "closed"}
  BY DEF Begin, Close, Live, Handling, Work, ModelText, ModelStop, ModelFails, RefuseOverBudget,
     RefuseUnselected, ReportRefusal, CallTool, ToolReturns, ToolRaises, FailRequired,
     PublishArticle, NextRound
<1>2. CASE Begin(t) \/ ModelText(t) \/ PublishArticle(t)
  <2>1. PICK type \in {"start", "text", "article"} :
          Emit(t, Event(type)) /\ (type = "start") = (pc[t] = "idle")
    BY <1>2 DEF Begin, ModelText, PublishArticle
  <2>2. Event(type) \in Events /\ Event(type).type = type
    BY DEF Event
  <2>3. Fits(t, Event(type))
    BY <2>1, <2>2
  <2> QED BY <1>1, <2>2, <2>3
<1>3. ASSUME pc[t] # "idle", NEW type \in Final, EndTurn(t, type)
      PROVE  \E e \in Events : Fits(t, e)
  <2>1. Emit(t, Event(type)) /\ pc'[t] = "over"
    BY <1>3 DEF EndTurn, Goto, TypeOK
  <2> QED BY <1>3, <2>1 DEF Event
<1>4. CASE ModelStop(t)
  BY <1>3, <1>4 DEF ModelStop, Stop, RefuseFirst, Accept
<1>5. CASE ModelFails(t) \/ ToolRaises(t) \/ FailRequired(t)
  BY <1>3, <1>5 DEF ModelFails, ToolRaises, FailRequired
<1>6. CASE NextRound(t)
  BY <1>3, <1>6 DEF NextRound
<1>7. CASE RefuseOverBudget(t) \/ Close(t)
  BY <1>1, <1>7 DEF RefuseOverBudget, Close
<1>8. CASE RefuseUnselected(t) \/ CallTool(t)
  <2>1. pc[t] = "tools" /\ pending[t] # <<>>
    BY <1>8 DEF RefuseUnselected, CallTool
  <2>2. CallEvent(pending[t][1]) \in Events /\ CallEvent(pending[t][1]).type = "tool_call"
    BY <2>1, HeadFacts DEF CallEvent
  <2> QED BY <1>8, <2>1, <2>2 DEF RefuseUnselected, CallTool
<1>9. CASE ReportRefusal(t) \/ ToolReturns(t)
  <2>1. pc[t] \in Handling /\ \E ok \in BOOLEAN : Emit(t, ResultEvent(pending[t][1], ok))
    BY <1>9 DEF ReportRefusal, ToolReturns, Handling
  <2> QED BY <1>0, <2>1 DEF ResultEvent, Handling
<1> QED BY <1>1, <1>2, <1>4, <1>5, <1>6, <1>7, <1>8, <1>9 DEF Work

(* What is over stays over and says nothing more.                          *)
LEMMA OverStays ==
  ASSUME TypeOK, Held, [Next]_vars, NEW t \in Turns, pc[t] = "over"
  PROVE  pc'[t] = "over" /\ sent'[t] = sent[t] /\ ran'[t] = ran[t]
<1>1. CASE UNCHANGED vars
  BY <1>1 DEF vars
<1>2. ASSUME NEW u \in Turns, Begin(u) \/ Work(u) \/ Close(u)
      PROVE  pc'[t] = "over" /\ sent'[t] = sent[t] /\ ran'[t] = ran[t]
  <2>1. u # t
    BY <1>2, StepFits
  <2> QED BY <1>2, <2>1, OthersAlone
<1> QED BY <1>1, <1>2 DEF Next

LEMMA ShapedStep ==
  ASSUME TypeOK, Held, Speaking, Shaped, [Next]_vars
  PROVE  Shaped'
<1> SUFFICES ASSUME NEW t \in Turns, NEW i \in DOMAIN sent'[t]
             PROVE  /\ (sent'[t][i].type = "start") = (i = 1)
                    /\ sent'[t][i].type \in Final => i = Len(sent'[t]) /\ pc'[t] = "over"
  BY DEF Shaped
<1>1. CASE sent'[t] = sent[t]
  BY <1>1, OverStays DEF Shaped
<1>2. ASSUME NEW e \in Events, Fits(t, e), pc[t] # "over"
      PROVE  /\ (sent'[t][i].type = "start") = (i = 1)
             /\ sent'[t][i].type \in Final => i = Len(sent'[t]) /\ pc'[t] = "over"
  <2> DEFINE n == Len(sent[t])
  <2>1. /\ DOMAIN sent[t] = 1..n /\ n \in Nat /\ DOMAIN sent'[t] = 1..(n + 1)
        /\ \A k \in 1..n : sent'[t][k] = sent[t][k]
        /\ sent'[t][n + 1] = e
    BY <1>2, EmitExtends DEF Fits
  <2>2. Len(sent'[t]) = n + 1
    BY <1>2, AppendFacts DEF Fits, Emit, TypeOK
  <2>3. (pc[t] = "idle") = (n = 0)
    BY DEF Speaking, TypeOK
  <2> HIDE DEF n
  <2>4. CASE i = n + 1
    BY <1>2, <2>1, <2>2, <2>3, <2>4 DEF Fits
  <2>5. CASE i # n + 1
    <3>1. i \in 1..n
      BY <2>1, <2>5
    <3> QED BY <1>2, <2>1, <3>1 DEF Shaped
  <2> QED BY <2>4, <2>5
<1>3. ASSUME NEW u \in Turns, Begin(u) \/ Work(u) \/ Close(u)
      PROVE  sent'[t] = sent[t] \/ \E e \in Events : Fits(t, e) /\ pc[t] # "over"
  BY <1>3, StepFits, OthersAlone
<1> QED BY <1>1, <1>2, <1>3 DEF Next, vars

(* All that is known of a turn: what a composition may build on.           *)
Whole == IInv /\ Progress /\ Allowed /\ Shaped

LEMMA WholeInit == Init => Whole
PROOF BY TypeInit, MatchedInit, BudgetedInit, SpeakingInit, ProgressInit, AllowedInit, ShapedInit
         DEF Whole, IInv

LEMMA WholeStep == ASSUME Whole, [Next]_vars PROVE Whole'
PROOF BY TypeStep, HeldStep, MatchedStep, BudgetedStep, SpeakingStep, ProgressStep, AllowedStep,
         ShapedStep DEF Whole, IInv
=============================================================================
