---------------------------- MODULE ScreenMachines ----------------------------
(***************************************************************************)
(* The browser's console and terminal and five screens of the mobile app,  *)
(* and what holds of each for every value of its parameters.  What is in   *)
(* flight outlives what asked for it, so every invariant says which        *)
(* answers will still be heeded and what they may change.                  *)
(***************************************************************************)
EXTENDS Machines, SequenceTheorems, FiniteSetTheorems, TLAPS

CONSTANTS
  MigrateLimit, ChatLimit, MaxMessages,               \* of the console
  Plain, Foreign,                                     \* of the terminal
  Watchlists, DefaultList,                            \* of the pulse
  Queries, Long,                                      \* of the search box
  Ranges, Intervals, ChartOpening, PeriodOf, Daily,   \* of the chart
  Timed, Forecast, Deep, LensOpening,                 \* of the lens
  MaxScreenCalls, MaxPanelCalls, MaxChartCalls

VARIABLES
  local, born, migrated, moves, excused, unwritten, view, turns, opening, strayed,
  user, saves,
  shown, line, flights, net, world, timer

-----------------------------------------------------------------------------
(* The console: one turn at a time and every message with its conversation, *)
(* until the visitor strays; no acknowledged message lost at any time.     *)
Console == INSTANCE ChatConsole WITH MaxCalls <- MaxChartCalls

ASSUME ConsoleParameters == Console!ConversationAssumption /\ Console!ConsoleAssumption

ConChat == [id : Nat \ {0}, topic : Nat \ {0}, msgs : SUBSET Console!Messages]
ConMove == [rest : Seq(ConChat) \ {<<>>}, into : Nat \cup {None}, left : SUBSET Console!Messages]
ConSave == [msg : Console!Messages, chat : Nat]
ConView ==
  [chat : Nat \cup {None}, topic : Nat, shown : SUBSET Console!Messages, streaming : BOOLEAN,
   controller : Console!Turns \cup {None}]
ConTurn == [at : Console!Places, topic : Nat, heard : BOOLEAN, aborted : BOOLEAN]

(* The chats of both stores.                                               *)
ConKept == {local[i] : i \in DOMAIN local} \cup remote

ConStores ==
  /\ born \in Nat
  /\ local \in Seq(ConChat) /\ Len(local) <= ChatLimit /\ remote \subseteq ConChat
  /\ \A c \in ConKept : c.id <= born
  /\ \A i, j \in DOMAIN local : local[i].id = local[j].id => i = j
  /\ user \in BOOLEAN /\ migrated \in BOOLEAN /\ raced \in BOOLEAN
  /\ acked \subseteq Console!Messages /\ excused \subseteq Console!Messages

ConSent ==
  /\ moves \in Seq(ConMove)
  /\ \A i \in DOMAIN moves : moves[i].into \in 1..born \cup {None}
  /\ saves \subseteq ConSave
  /\ \A s \in saves : s.chat <= born

ConPage ==
  /\ view \in ConView /\ view.chat \in 1..born \cup {None}
  /\ turns \in [Console!Turns -> ConTurn]
  /\ \A t \in Console!Turns : turns[t].at # "none" => turns[t].topic # 0
  /\ opening \subseteq 1..born
  /\ strayed \in BOOLEAN

(* Messages of one conversation, by the topics that turns had.             *)
ConOf(of, msgs, topic) ==
  \A m \in msgs : of[Console!TurnOf(m)].at # "none" /\ of[Console!TurnOf(m)].topic = topic

ConApart(of, both) ==
  /\ \A k \in both : ConOf(of, k.msgs, k.topic)
  /\ \A k, l \in both : k.id = l.id => k.topic = l.topic

ConViewing(page, of, both) ==
  /\ ConOf(of, page.shown, page.topic)
  /\ \A k \in both : k.id = page.chat => k.topic = page.topic

ConSaving(save, of, both) ==
  /\ of[Console!TurnOf(save.msg)].at # "none"
  /\ \A k \in both : k.id = save.chat => k.topic = of[Console!TurnOf(save.msg)].topic

ConMoving(move, of, both) ==
  /\ \A j \in DOMAIN move.rest : ConOf(of, move.rest[j].msgs, move.rest[j].topic)
  /\ ConOf(of, move.left, move.rest[1].topic)
  /\ \A k \in both : k.id = move.into => k.topic = move.rest[1].topic

ConThreads ==
  /\ ConApart(turns, ConKept)
  /\ ConViewing(view, turns, ConKept)
  /\ \A s \in saves : ConSaving(s, turns, ConKept)
  /\ \A i \in DOMAIN moves : ConMoving(moves[i], turns, ConKept)

ConOneTurn ==
  /\ \A t, u \in Console!Running : t = u
  /\ \A t \in Console!Running : turns[t].topic = view.topic
  /\ IF view.streaming THEN view.controller # None /\ Console!At(view.controller, "streaming")
     ELSE \A t \in Console!Turns : ~Console!At(t, "streaming")

ConInv ==
  /\ calls \in 0..MaxChartCalls
  /\ ConStores /\ ConSent /\ ConPage
  /\ ~strayed => ConThreads /\ ConOneTurn

LEMMA ConAssumed ==
  /\ MigrateLimit \in Nat \ {0} /\ ChatLimit \in Nat \ {0} /\ MaxChartCalls \in Nat
  /\ None \notin Nat /\ MaxTurns \in Nat /\ MaxMessages = 2 * MaxTurns /\ MaxMessages \in Nat
BY ConsoleParameters DEF Console!ConversationAssumption, Console!ConsoleAssumption

(* Question and answer are messages of their turn.                         *)
LEMMA ConMessages ==
  /\ \A t \in Console!Turns : /\ t \in Nat \ {0} /\ t # None
                              /\ Console!Question(t) \in Console!Messages /\ Console!TurnOf(Console!Question(t)) = t
                              /\ Console!Answer(t) \in Console!Messages /\ Console!TurnOf(Console!Answer(t)) = t
  /\ \A m \in Console!Messages : Console!TurnOf(m) \in Console!Turns
BY ConAssumed DEF Console!Turns, Console!Messages, Console!Question, Console!Answer, Console!TurnOf

LEMMA ConStart ==
  ASSUME Console!Init
  PROVE  ConInv
<1>0. local = <<>> /\ remote = {} /\ moves = <<>> /\ saves = {}
  BY DEF Console!Init, Console!StoreInit
<1>5. ConKept = {} /\ DOMAIN moves = {} /\ DOMAIN local = {} /\ Len(local) = 0
  BY <1>0 DEF ConKept
<1>1. ConSent
  BY <1>0, <1>5 DEF ConSent
<1>6. ConStores
  <2>1. local \in Seq(ConChat) /\ Len(local) <= ChatLimit /\ remote \subseteq ConChat
    BY <1>0, <1>5, ConAssumed
  <2> QED BY <1>5, <2>1 DEF Console!Init, Console!StoreInit, ConStores
<1>2. ConPage
  BY DEF Console!Init, Console!StoreInit, ConPage, ConView, ConTurn, Console!NoTurn, Console!Places
<1>3. ConThreads /\ ConOneTurn
  BY <1>0, <1>5 DEF Console!Init, ConThreads, ConApart, ConViewing, ConOf, ConOneTurn, Console!Running,
                    Console!NoTurn, Console!At
<1> QED BY <1>1, <1>2, <1>3, <1>6, ConAssumed DEF Console!Init, Console!StoreInit, ConInv

LEMMA ConCounts ==
  ASSUME ConInv, Console!Counted \/ UNCHANGED calls
  PROVE  calls' \in 0..MaxChartCalls
BY ConAssumed DEF ConInv, Console!Counted

(* Turns that were begun keep their topic.                                 *)
ConTold(of) ==
  \A t \in Console!Turns : turns[t].at # "none" => of[t].at # "none" /\ of[t].topic = turns[t].topic

(* A chat as it was, with at most one message more, of its conversation;   *)
(* or the next new chat.                                                   *)
ConFrom(k, of, topic) ==
  \/ \E l \in ConKept : /\ k.id = l.id /\ k.topic = l.topic
                        /\ \A m \in k.msgs : m \in l.msgs \/ ConOf(of, {m}, l.topic)
  \/ k.id = born + 1 /\ k.topic = topic /\ ConOf(of, k.msgs, topic)

LEMMA ConGrows ==
  ASSUME ConInv, ConThreads, NEW of, NEW both, NEW topic, ConTold(of), \A k \in both : ConFrom(k, of, topic)
  PROVE  /\ ConApart(of, both)
         /\ ConViewing(view, of, both)
         /\ \A s \in saves : ConSaving(s, of, both)
         /\ \A i \in DOMAIN moves : ConMoving(moves[i], of, both)
<1>0. \A msgs \in SUBSET Console!Messages : \A p : ConOf(turns, msgs, p) => ConOf(of, msgs, p)
  BY ConMessages DEF ConOf, ConTold
<1>1. born \in Nat /\ \A k \in ConKept : k \in ConChat /\ k.id <= born /\ k.id \in Nat /\ k.msgs \in SUBSET Console!Messages
  <2>1. born \in Nat /\ \A k \in ConKept : k \in ConChat /\ k.id <= born
    BY DEF ConInv, ConStores, ConKept
  <2> QED BY <2>1 DEF ConChat
<1>2. \A k \in both : ConOf(of, k.msgs, k.topic)
  <2> SUFFICES ASSUME NEW k \in both
               PROVE  ConOf(of, k.msgs, k.topic)
    OBVIOUS
  <2>1. ASSUME NEW l \in ConKept, k.topic = l.topic, \A m \in k.msgs : m \in l.msgs \/ ConOf(of, {m}, l.topic)
        PROVE  ConOf(of, k.msgs, k.topic)
    <3>1. ConOf(of, l.msgs, l.topic)
      BY <1>0, <1>1 DEF ConThreads, ConApart
    <3> QED BY <2>1, <3>1 DEF ConOf
  <2> QED BY <2>1 DEF ConFrom
<1>3. \A k \in both : k.id <= born => \E l \in ConKept : k.id = l.id /\ k.topic = l.topic
  BY <1>1 DEF ConFrom
<1>4. \A k \in both : k.id \in Nat /\ (k.id > born => k.id = born + 1 /\ k.topic = topic)
  BY <1>1 DEF ConFrom
<1>5. ConApart(of, both)
  <2>1. ASSUME NEW k \in both, NEW l \in both, k.id = l.id
        PROVE  k.topic = l.topic
    <3>1. CASE k.id <= born
      BY <1>3, <2>1, <3>1 DEF ConThreads, ConApart
    <3>2. CASE k.id > born
      BY <1>4, <2>1, <3>2
    <3> QED BY <1>1, <1>4, <3>1, <3>2
  <2> QED BY <1>2, <2>1 DEF ConApart
<1>6. ConViewing(view, of, both)
  <2>1. view.chat \in 1..born \cup {None} /\ view.shown \in SUBSET Console!Messages
    BY DEF ConInv, ConPage, ConView
  <2>2. ASSUME NEW k \in both, k.id = view.chat
        PROVE  k.topic = view.topic
    <3>1. k.id <= born
      BY <1>1, <1>4, <2>1, <2>2, ConAssumed
    <3> QED BY <1>3, <2>2, <3>1 DEF ConThreads, ConViewing
  <2> QED BY <1>0, <2>1, <2>2 DEF ConViewing, ConThreads
<1>7. ASSUME NEW s \in saves
      PROVE  ConSaving(s, of, both)
  <2>1. s.msg \in Console!Messages /\ s.chat <= born
    BY DEF ConInv, ConSent, ConSave
  <2>2. /\ of[Console!TurnOf(s.msg)].at # "none"
        /\ of[Console!TurnOf(s.msg)].topic = turns[Console!TurnOf(s.msg)].topic
    BY <2>1, ConMessages DEF ConTold, ConThreads, ConSaving
  <2>3. \A k \in both : k.id = s.chat => k.topic = turns[Console!TurnOf(s.msg)].topic
    BY <1>3, <2>1 DEF ConThreads, ConSaving
  <2> QED BY <2>2, <2>3 DEF ConSaving
<1>8. ASSUME NEW i \in DOMAIN moves
      PROVE  ConMoving(moves[i], of, both)
  <2>1. /\ moves[i].rest \in Seq(ConChat) /\ moves[i].into \in 1..born \cup {None}
        /\ moves[i].left \in SUBSET Console!Messages
    <3>1. moves[i] \in ConMove
      BY DEF ConInv, ConSent
    <3> QED BY <3>1 DEF ConMove, ConInv, ConSent
  <2>2. \A j \in DOMAIN moves[i].rest : moves[i].rest[j].msgs \in SUBSET Console!Messages
    <3>1. \A j \in DOMAIN moves[i].rest : moves[i].rest[j] \in ConChat
      BY <2>1
    <3> QED BY <3>1 DEF ConChat
  <2>3. ASSUME NEW k \in both, k.id = moves[i].into
        PROVE  k.topic = moves[i].rest[1].topic
    <3>1. k.id <= born
      BY <1>1, <1>4, <2>1, <2>3, ConAssumed
    <3> QED BY <1>3, <2>3, <3>1 DEF ConThreads, ConMoving
  <2> QED BY <1>0, <2>1, <2>2, <2>3 DEF ConMoving, ConThreads
<1> QED BY <1>5, <1>6, <1>7, <1>8

(* Added, appendMessage and a new chat at the front of localStorage.       *)
ConGrown(k, l, id, m) ==
  /\ k \in ConChat /\ k.id = l.id /\ k.topic = l.topic
  /\ l.msgs \subseteq k.msgs /\ \A n \in k.msgs : n \in l.msgs \/ (n = m /\ l.id = id)

LEMMA ConAdds ==
  ASSUME NEW k \in ConChat, NEW id, NEW m \in Console!Messages
  PROVE  ConGrown(Console!Added(k, id, m), k, id, m) /\ (k.id = id => m \in Console!Added(k, id, m).msgs)
BY DEF Console!Added, ConGrown, ConChat

(* What an append reports as stored: it is, or the quota refused it.       *)
ConReported(m) ==
  /\ unwritten \subseteq unwritten' /\ unwritten' \subseteq unwritten \cup {m}
  /\ acked' \subseteq acked \cup {m}
  /\ \A n \in acked' : n \in acked \/ n \in unwritten' \/ \E i \in DOMAIN local' : n \in local'[i].msgs

LEMMA ConAppends ==
  ASSUME ConInv, NEW chats \in Seq(ConChat), NEW id, NEW m \in Console!Messages, Console!Append1(chats, id, m)
  PROVE  /\ local' \in Seq(ConChat) /\ Len(local') = Len(chats)
         /\ \A i \in DOMAIN local' : i \in DOMAIN chats /\ ConGrown(local'[i], chats[i], id, m)
         /\ saves' \subseteq saves \cup {[msg |-> m, chat |-> id]}
         /\ ConReported(m)
         /\ calls' \in 0..MaxChartCalls
<1>0. calls' \in 0..MaxChartCalls
  BY ConCounts DEF Console!Append1
<1>1. CASE /\ local' = chats /\ acked' \subseteq acked \cup {m}
           /\ \/ acked' = acked /\ UNCHANGED unwritten
              \/ unwritten' = unwritten \cup {m}
  <2>1. \A i \in DOMAIN chats : ConGrown(chats[i], chats[i], id, m)
    BY DEF ConGrown
  <2>2. ConReported(m)
    BY <1>1 DEF ConReported
  <2>3. saves' \subseteq saves \cup {[msg |-> m, chat |-> id]}
    BY DEF Console!Append1
  <2> QED BY <1>0, <1>1, <2>1, <2>2, <2>3
<1>2. CASE /\ local' = [i \in DOMAIN chats |-> Console!Added(chats[i], id, m)]
           /\ acked' = IF Console!In(Console!ToSet(chats), id) THEN acked \cup {m} ELSE acked
           /\ UNCHANGED <<saves, unwritten>>
  <2>1. /\ DOMAIN chats = 1..Len(chats) /\ Len(chats) \in Nat
        /\ \A i \in DOMAIN chats : Console!Added(chats[i], id, m) \in ConChat
    BY ConAdds DEF ConGrown
  <2>2. local' \in Seq(ConChat) /\ Len(local') = Len(chats) /\ DOMAIN local' = DOMAIN chats
    BY <1>2, <2>1
  <2>3. Console!In(Console!ToSet(chats), id) => \E i \in DOMAIN local' : m \in local'[i].msgs
    BY <1>2, <2>2, ConAdds DEF Console!In, Console!ToSet
  <2>4. ConReported(m)
    BY <1>2, <2>3 DEF ConReported
  <2> QED BY <1>0, <1>2, <2>2, <2>4, ConAdds
<1> QED BY <1>1, <1>2 DEF Console!Append1

LEMMA ConUnshifts ==
  ASSUME ConInv, NEW k \in ConChat, NEW chats, chats = Console!Unshift(k)
  PROVE  /\ chats \in Seq(ConChat) /\ Len(chats) <= ChatLimit /\ Len(chats) >= 1 /\ chats[1] = k
         /\ \A i \in DOMAIN chats : i = 1 \/ (i - 1 \in DOMAIN local /\ chats[i] = local[i - 1])
         /\ \A i \in DOMAIN local : local[i] \in Console!FallenOff \/ (i + 1 \in DOMAIN chats /\ chats[i + 1] = local[i])
<1> DEFINE all == <<k>> \o local
           n == IF Len(local) < ChatLimit THEN Len(local) + 1 ELSE ChatLimit
<1>0. local \in Seq(ConChat) /\ Len(local) \in Nat /\ Len(local) <= ChatLimit /\ ChatLimit \in Nat \ {0}
  BY ConAssumed DEF ConInv, ConStores
<1>1. /\ all \in Seq(ConChat) /\ Len(all) = Len(local) + 1 /\ all[1] = k
      /\ \A i \in 2..Len(all) : all[i] = local[i - 1]
  BY <1>0
<1>2. /\ n \in 1..Len(all) /\ n \in Nat /\ n <= ChatLimit
      /\ Len(local) < ChatLimit => n = Len(local) + 1
      /\ Len(local) = ChatLimit => n = Len(local)
  BY <1>0, <1>1
<1>3. chats = SubSeq(all, 1, n)
  BY DEF Console!Unshift
<1> HIDE DEF all, n
<1>4. chats \in Seq(ConChat) /\ Len(chats) = n /\ \A i \in 1..n : chats[i] = all[i]
  BY <1>1, <1>2, <1>3
<1>5. DOMAIN chats = 1..n /\ DOMAIN local = 1..Len(local)
  BY <1>0, <1>4
<1>6. ASSUME NEW i \in DOMAIN chats, i # 1
      PROVE  i - 1 \in DOMAIN local /\ chats[i] = local[i - 1]
  <2>1. i \in 2..Len(all) /\ i \in 1..n /\ i - 1 \in 1..Len(local)
    <3>1. i \in Nat /\ 1 <= i /\ i <= n /\ n <= Len(local) + 1 /\ Len(all) = Len(local) + 1
      <4>1. Len(all) = Len(local) + 1
        BY <1>1
      <4>2. n <= Len(local) + 1
        BY <1>0, <1>2, <4>1
      <4>3. i \in 1..n
        BY <1>5
      <4> QED BY <1>2, <4>1, <4>2, <4>3
    <3> QED BY <1>0, <1>2, <1>6, <3>1
  <2> QED BY <1>1, <1>4, <1>5, <2>1
<1>7. ASSUME NEW i \in DOMAIN local, local[i] \notin Console!FallenOff
      PROVE  i + 1 \in DOMAIN chats /\ chats[i + 1] = local[i]
  <2>0. i \in 1..Len(local) /\ i \in Nat
    BY <1>0, <1>5
  <2>1. i + 1 <= n
    <3>1. CASE Len(local) < ChatLimit
      BY <1>0, <1>2, <2>0, <3>1
    <3>2. CASE Len(local) = ChatLimit
      <4>1. i # ChatLimit
        BY <1>0, <1>7, <3>2 DEF Console!FallenOff
      <4> QED BY <1>0, <1>2, <2>0, <3>2, <4>1
    <3> QED BY <1>0, <3>1, <3>2
  <2>2. i + 1 \in 1..n /\ i + 1 \in 2..Len(all) /\ (i + 1) - 1 = i
    BY <1>1, <1>2, <2>0, <2>1
  <2> QED BY <1>1, <1>4, <1>5, <2>2
<1> QED BY <1>1, <1>2, <1>4, <1>6, <1>7

(* What persist does to a localStorage of those chats.                     *)
ConPersisted(chats, id, m) ==
  /\ local' \in Seq(ConChat) /\ Len(local') = Len(chats)
  /\ \A i \in DOMAIN local' : i \in DOMAIN chats /\ ConGrown(local'[i], chats[i], id, m)
  /\ \A s \in saves' : s \in saves \/ (id # None /\ s \in ConSave /\ s.msg = m /\ s.chat = id)
  /\ ConReported(m)
  /\ calls' \in 0..MaxChartCalls

LEMMA ConPersists ==
  ASSUME ConInv, NEW chats \in Seq(ConChat), NEW id \in Nat \cup {None}, NEW m \in Console!Messages,
         Console!Persist(chats, id, m)
  PROVE  ConPersisted(chats, id, m)
<1>1. CASE id = None
  <2>1. local' = chats /\ UNCHANGED <<saves, acked, unwritten, calls>> /\ calls' \in 0..MaxChartCalls
    BY <1>1 DEF Console!Persist, ConInv
  <2>2. \A i \in DOMAIN chats : ConGrown(chats[i], chats[i], id, m)
    BY DEF ConGrown
  <2> QED BY <2>1, <2>2 DEF ConPersisted, ConReported
<1>2. CASE id # None
  <2> DEFINE s == [msg |-> m, chat |-> id]
  <2>1. s \in ConSave /\ s.msg = m /\ s.chat = id
    BY <1>2 DEF ConSave
  <2>2. Console!Append1(chats, id, m)
    BY <1>2 DEF Console!Persist
  <2>3. saves' \subseteq saves \cup {s}
    BY <2>2, ConAppends
  <2> HIDE DEF s
  <2>4. \A x \in saves' : x \in saves \/ (id # None /\ x \in ConSave /\ x.msg = m /\ x.chat = id)
    BY <1>2, <2>1, <2>3
  <2> QED BY <2>2, <2>4, ConAppends DEF ConPersisted
<1> QED BY <1>1, <1>2

(* The chats of localStorage after it, as they were, or with a new one.    *)
ConLocals ==
  /\ local' \in Seq(ConChat) /\ Len(local') <= ChatLimit
  /\ \A i, j \in DOMAIN local' : local'[i].id = local'[j].id => i = j

LEMMA ConSame ==
  ASSUME ConInv, NEW id \in Nat \cup {None}, NEW m \in Console!Messages, ConPersisted(local, id, m)
  PROVE  /\ ConLocals
         /\ \A i \in DOMAIN local' : \E k \in ConKept : ConGrown(local'[i], k, id, m)
BY DEF ConInv, ConStores, ConPersisted, ConLocals, ConKept, ConGrown

LEMMA ConFronted ==
  ASSUME ConInv, NEW new \in ConChat, new.id = born + 1, NEW id \in Nat \cup {None}, NEW m \in Console!Messages,
         ConPersisted(Console!Unshift(new), id, m)
  PROVE  /\ ConLocals
         /\ \A i \in DOMAIN local' :
              (\E k \in ConKept : ConGrown(local'[i], k, id, m)) \/ ConGrown(local'[i], new, id, m)
<1> DEFINE chats == Console!Unshift(new)
<1>1. /\ chats \in Seq(ConChat) /\ Len(chats) <= ChatLimit /\ chats[1] = new
      /\ \A i \in DOMAIN chats : i = 1 \/ (i - 1 \in DOMAIN local /\ chats[i] = local[i - 1])
  BY ConUnshifts
<1>2. /\ local' \in Seq(ConChat) /\ Len(local') = Len(chats)
      /\ \A i \in DOMAIN local' : i \in DOMAIN chats /\ ConGrown(local'[i], chats[i], id, m)
  BY DEF ConPersisted
<1> HIDE DEF chats
<1>3. born \in Nat /\ local \in Seq(ConChat) /\ \A i \in DOMAIN local : local[i].id \in Nat /\ local[i].id <= born
  <2>1. born \in Nat /\ local \in Seq(ConChat) /\ \A i \in DOMAIN local : local[i] \in ConChat /\ local[i].id <= born
    BY DEF ConInv, ConStores, ConKept
  <2> QED BY <2>1 DEF ConChat
<1>4. \A i, j \in DOMAIN chats : chats[i].id = chats[j].id => i = j
  <2> SUFFICES ASSUME NEW i \in DOMAIN chats, NEW j \in DOMAIN chats, chats[i].id = chats[j].id
               PROVE  i = j
    OBVIOUS
  <2>1. i \in Nat /\ j \in Nat
    BY <1>1
  <2>2. CASE i = 1
    BY <1>1, <1>3, <2>2
  <2>3. CASE j = 1
    BY <1>1, <1>3, <2>3
  <2>4. CASE i # 1 /\ j # 1
    <3>1. i - 1 \in DOMAIN local /\ j - 1 \in DOMAIN local /\ local[i - 1].id = local[j - 1].id
      BY <1>1, <2>4
    <3>2. i - 1 = j - 1
      BY <3>1 DEF ConInv, ConStores
    <3> QED BY <2>1, <3>2
  <2> QED BY <2>2, <2>3, <2>4
<1>5. ConLocals
  BY <1>1, <1>2, <1>4 DEF ConLocals, ConGrown
<1>7. \A i \in DOMAIN local' : (\E k \in ConKept : ConGrown(local'[i], k, id, m)) \/ ConGrown(local'[i], new, id, m)
  BY <1>1, <1>2 DEF ConKept
<1> QED BY <1>5, <1>7

(* Of everything that is both or on its way, as it was, with one message   *)
(* more of its own conversation, or as a new chat.                         *)
ConStays(id, m, topic) ==
  /\ ConTold(turns')
  /\ \A k \in ConKept' : \/ \E l \in ConKept : ConGrown(k, l, id, m)
                         \/ k.id = born + 1 /\ k.topic = topic /\ \A n \in k.msgs : n = m
  /\ ConOf(turns', {m}, topic)
  /\ \A l \in ConKept : l.id = id => l.topic = topic

LEMMA ConHolds ==
  ASSUME ConInv, ConThreads, NEW id, NEW m, NEW topic, ConStays(id, m, topic)
  PROVE  /\ ConApart(turns', ConKept')
         /\ ConViewing(view, turns', ConKept')
         /\ \A s \in saves : ConSaving(s, turns', ConKept')
         /\ \A i \in DOMAIN moves : ConMoving(moves[i], turns', ConKept')
<1>1. ASSUME NEW k \in ConKept'
      PROVE  ConFrom(k, turns', topic)
  <2>1. ASSUME NEW l \in ConKept, ConGrown(k, l, id, m)
        PROVE  ConFrom(k, turns', topic)
    <3>1. \A n \in k.msgs : n \in l.msgs \/ ConOf(turns', {n}, l.topic)
      BY <2>1 DEF ConGrown, ConStays
    <3> QED BY <2>1, <3>1 DEF ConFrom, ConGrown
  <2>2. CASE k.id = born + 1 /\ k.topic = topic /\ \A n \in k.msgs : n = m
    BY <2>2 DEF ConFrom, ConStays, ConOf
  <2> QED BY <2>1, <2>2 DEF ConStays
<1>2. ConTold(turns')
  BY DEF ConStays
<1> HIDE DEF ConTold, ConFrom, ConApart, ConViewing, ConSaving, ConMoving, ConKept, ConInv, ConThreads
<1> QED BY <1>1, <1>2, ConGrows

(* The data of a step that ends with these chats.                          *)
LEMMA ConStored ==
  ASSUME ConInv, ConLocals, remote' \subseteq ConChat, born' \in {born, born + 1},
         \A k \in ConKept' : k.id = born' \/ \E l \in ConKept : k.id = l.id,
         UNCHANGED <<user, migrated, raced>>, acked' \subseteq Console!Messages, excused' \subseteq Console!Messages
  PROVE  ConStores'
<1>1. born \in Nat /\ born' \in Nat /\ born <= born'
  BY DEF ConInv, ConStores
<1>2. \A k \in ConKept : k.id \in Nat /\ k.id <= born
  <2>1. \A k \in ConKept : k \in ConChat /\ k.id <= born
    BY DEF ConInv, ConStores, ConKept
  <2> QED BY <2>1 DEF ConChat
<1>3. \A k \in ConKept' : k.id <= born'
  BY <1>1, <1>2
<1>4. user \in BOOLEAN /\ migrated \in BOOLEAN /\ raced \in BOOLEAN
  BY DEF ConInv, ConStores
<1> QED BY <1>1, <1>3, <1>4 DEF ConLocals, ConStores

LEMMA ConTurns ==
  ASSUME ConInv, NEW t \in Console!Turns, NEW next \in ConTurn, turns' = [turns EXCEPT ![t] = next]
  PROVE  /\ turns' \in [Console!Turns -> ConTurn] /\ turns'[t] = next
         /\ \A u \in Console!Turns : u # t => turns'[u] = turns[u]
BY DEF ConInv, ConPage

(* A turn begins: the only one, of the topic on the screen.                *)
LEMMA ConSends ==
  ASSUME ConInv, NEW t \in Console!Turns, NEW place \in {"creating", "streaming"}, NEW topic,
         Console!At(t, "none"), ~view.streaming, topic = IF view.topic = 0 THEN t ELSE view.topic,
         turns' = [turns EXCEPT ![t] = [Console!NoTurn EXCEPT !.at = place, !.topic = topic]]
  PROVE  /\ topic \in Nat \ {0}
         /\ turns' \in [Console!Turns -> ConTurn]
         /\ \A u \in Console!Turns : turns'[u].at # "none" => turns'[u].topic # 0
         /\ ConTold(turns')
         /\ ConOf(turns', {Console!Question(t)}, topic)
         /\ ~strayed => /\ ConOf(turns', view.shown, topic)
                        /\ \A k \in ConKept : k.id = view.chat => k.topic = topic
         /\ ~strayed /\ Console!Running = {} =>
              /\ \A u \in Console!Turns : u # t => turns'[u].at \in {"none", "done"}
              /\ turns'[t].at = place /\ turns'[t].topic = topic
<1> DEFINE next == [Console!NoTurn EXCEPT !.at = place, !.topic = topic]
<1>1. topic \in Nat \ {0} /\ view.topic \in Nat /\ view.shown \in SUBSET Console!Messages
  BY ConMessages DEF ConInv, ConPage, ConView
<1>2. next \in ConTurn /\ next.at = place /\ next.topic = topic
  BY <1>1 DEF Console!NoTurn, ConTurn, Console!Places
<1> HIDE DEF next
<1>3. /\ turns' \in [Console!Turns -> ConTurn] /\ turns'[t] = next
      /\ \A u \in Console!Turns : u # t => turns'[u] = turns[u]
  BY <1>2, ConTurns DEF next
<1>4. ConTold(turns')
  BY <1>3 DEF ConTold, Console!At
<1>5. ConOf(turns', {Console!Question(t)}, topic)
  BY <1>2, <1>3, ConMessages DEF ConOf
<1>6. ASSUME ~strayed
      PROVE  /\ ConOf(turns', view.shown, topic)
             /\ \A k \in ConKept : k.id = view.chat => k.topic = topic
  <2>1. ConOf(turns, view.shown, view.topic) /\ \A k \in ConKept : k.id = view.chat => k.topic = view.topic
    BY <1>6 DEF ConInv, ConThreads, ConViewing
  <2>2. view.topic = 0 => view.shown = {}
    BY <1>1, <2>1, ConMessages DEF ConOf, ConInv, ConPage
  <2>3. \A k \in ConKept : k.topic # 0
    <3>1. \A k \in ConKept : k \in ConChat
      BY DEF ConInv, ConStores, ConKept
    <3> QED BY <3>1 DEF ConChat
  <2> QED BY <1>1, <1>4, <2>1, <2>2, <2>3, ConMessages DEF ConOf, ConTold
<1>7. ASSUME ~strayed, Console!Running = {}
      PROVE  \A u \in Console!Turns : u # t => turns'[u].at \in {"none", "done"}
  <2>1. \A u \in Console!Turns : turns[u].at \in Console!Places
    BY DEF ConInv, ConPage, ConTurn
  <2> QED BY <1>3, <1>7, <2>1 DEF Console!Running, Console!Places
<1>8. \A u \in Console!Turns : turns'[u].at # "none" => turns'[u].topic # 0
  BY <1>1, <1>2, <1>3 DEF ConInv, ConPage
<1> QED BY <1>1, <1>2, <1>3, <1>4, <1>5, <1>6, <1>7, <1>8

(* The only turn, and its topic is that of the screen.                     *)
LEMMA ConAlone ==
  ASSUME NEW t \in Console!Turns, \A u \in Console!Turns : u # t => turns'[u].at \in {"none", "done"},
         turns'[t].topic = view'.topic,
         \/ view'.streaming /\ view'.controller = t /\ turns'[t].at = "streaming"
         \/ ~view'.streaming /\ turns'[t].at # "streaming"
  PROVE  ConOneTurn'
BY ConMessages DEF ConOneTurn, Console!Running, Console!At

LEMMA ConSentOn ==
  ASSUME ConInv, born' \in {born, born + 1}, UNCHANGED moves,
         \A s \in saves' : s \in saves \/ (s \in ConSave /\ s.chat <= born')
  PROVE  ConSent'
<1>1. born \in Nat /\ \A s \in saves : s.chat \in Nat /\ s.chat <= born
  BY DEF ConInv, ConStores, ConSent, ConSave
<1>2. \A i \in DOMAIN moves : moves[i].into \in 1..born' \cup {None}
  BY <1>1 DEF ConInv, ConSent
<1>3. \A s \in saves' : s \in ConSave /\ s.chat <= born'
  BY <1>1 DEF ConInv, ConSent
<1> QED BY <1>2, <1>3 DEF ConSent, ConInv

LEMMA ConSendsCreating ==
  ASSUME ConInv, NEW t \in Console!Turns, NEW topic,
         Console!At(t, "none"), ~view.streaming, topic = IF view.topic = 0 THEN t ELSE view.topic,
         turns' = [turns EXCEPT ![t] = [Console!NoTurn EXCEPT !.at = "creating", !.topic = topic]],
         view.chat = None, view' = [view EXCEPT !.topic = topic, !.shown = @ \cup {Console!Question(t)}],
         strayed' = (strayed \/ Console!Running # {}),
         UNCHANGED <<local, saves, acked, unwritten, calls, born, excused, remote, user, migrated, moves, raced, opening>>
  PROVE  ConInv'
<1> DEFINE q == Console!Question(t)
<1>1. q \in Console!Messages
  BY ConMessages
<1>2. /\ topic \in Nat \ {0}
      /\ turns' \in [Console!Turns -> ConTurn]
      /\ \A u \in Console!Turns : turns'[u].at # "none" => turns'[u].topic # 0
      /\ ConTold(turns')
      /\ ConOf(turns', {q}, topic)
      /\ ~strayed => ConOf(turns', view.shown, topic)
      /\ ~strayed /\ Console!Running = {} =>
           /\ \A u \in Console!Turns : u # t => turns'[u].at \in {"none", "done"}
           /\ turns'[t].at = "creating" /\ turns'[t].topic = topic
  BY ConSends
<1> HIDE DEF q
<1>3. /\ view' \in ConView /\ view'.chat = None /\ view'.topic = topic /\ view'.shown = view.shown \cup {q}
      /\ view'.streaming = FALSE
  BY <1>1, <1>2 DEF ConView, ConInv, ConPage, q
<1>4. ConStores' /\ ConSent' /\ ConKept' = ConKept
  BY DEF ConInv, ConStores, ConSent, ConKept
<1>5. ConPage'
  BY <1>2, <1>3 DEF ConInv, ConPage
<1>6. ASSUME ~strayed'
      PROVE  ConThreads' /\ ConOneTurn'
  <2>1. ~strayed /\ Console!Running = {} /\ ConThreads
    BY <1>6 DEF ConInv
  <2>2. ConOneTurn'
    BY <1>2, <1>3, <2>1, ConAlone
  <2>3. ConStays(None, q, topic)
    <3>1. \A k \in ConKept : k \in ConChat
      BY DEF ConInv, ConStores, ConKept
    <3>2. \A k \in ConKept' : ConGrown(k, k, None, q)
      BY <1>4, <3>1 DEF ConGrown
    <3>3. \A k \in ConKept : k.id # None
      BY <3>1, ConAssumed DEF ConChat
    <3> QED BY <1>2, <1>4, <3>2, <3>3 DEF ConStays
  <2>4. /\ ConApart(turns', ConKept')
        /\ \A s \in saves : ConSaving(s, turns', ConKept')
        /\ \A i \in DOMAIN moves : ConMoving(moves[i], turns', ConKept')
    BY <2>1, <2>3, ConHolds
  <2>5. ConViewing(view', turns', ConKept')
    <3>1. \A k \in ConKept : k.id # None
      <4>1. \A k \in ConKept : k \in ConChat
        BY DEF ConInv, ConStores, ConKept
      <4> QED BY <4>1, ConAssumed DEF ConChat
    <3> QED BY <1>2, <1>3, <1>4, <2>1, <3>1 DEF ConViewing, ConOf
  <2> QED BY <2>2, <2>4, <2>5 DEF ConThreads
<1> QED BY <1>4, <1>5, <1>6 DEF ConInv

(* A new chat of the browser, its topic on the screen, with its question.  *)
LEMMA ConSendsNew ==
  ASSUME ConInv, NEW t \in Console!Turns, NEW topic,
         Console!At(t, "none"), ~view.streaming, topic = IF view.topic = 0 THEN t ELSE view.topic,
         turns' = [turns EXCEPT ![t] = [Console!NoTurn EXCEPT !.at = "streaming", !.topic = topic]],
         view.chat = None, born' = born + 1,
         view' = [Console!Streaming([view EXCEPT !.topic = topic, !.shown = @ \cup {Console!Question(t)}], t)
                    EXCEPT !.chat = born'],
         strayed' = (strayed \/ Console!Running # {}),
         \/ /\ Console!Persist(Console!Unshift([id |-> born', topic |-> topic, msgs |-> {}]), born', Console!Question(t))
            /\ excused' = excused \cup Console!MessagesOf(Console!FallenOff)
         \/ Console!Counted /\ UNCHANGED <<local, saves, acked, unwritten, excused>>,
         UNCHANGED <<remote, user, migrated, moves, raced, opening>>
  PROVE  ConInv'
<1> DEFINE q == Console!Question(t)
           new == [id |-> born', topic |-> topic, msgs |-> {}]
<1>1. q \in Console!Messages
  BY ConMessages
<1>2. /\ topic \in Nat \ {0}
      /\ turns' \in [Console!Turns -> ConTurn]
      /\ \A u \in Console!Turns : turns'[u].at # "none" => turns'[u].topic # 0
      /\ ConTold(turns')
      /\ ConOf(turns', {q}, topic)
      /\ ~strayed => ConOf(turns', view.shown, topic)
      /\ ~strayed /\ Console!Running = {} =>
           /\ \A u \in Console!Turns : u # t => turns'[u].at \in {"none", "done"}
           /\ turns'[t].at = "streaming" /\ turns'[t].topic = topic
  BY ConSends
<1>3. born \in Nat /\ born' \in Nat \ {0} /\ born' = born + 1 /\ born' \in 1..born'
  BY DEF ConInv, ConStores
<1>4. new \in ConChat /\ new.id = born + 1 /\ new.topic = topic /\ new.msgs = {}
  BY <1>2, <1>3 DEF ConChat
<1> HIDE DEF q, new
<1>5. /\ view' \in ConView /\ view'.chat = born' /\ view'.topic = topic /\ view'.shown = view.shown \cup {q}
      /\ view'.streaming = TRUE /\ view'.controller = t
  BY <1>1, <1>2, <1>3 DEF ConView, ConInv, ConPage, q, Console!Streaming
<1>6. /\ ConLocals /\ calls' \in 0..MaxChartCalls
      /\ \A i \in DOMAIN local' : (\E k \in ConKept : ConGrown(local'[i], k, born', q)) \/ ConGrown(local'[i], new, born', q)
      /\ \A s \in saves' : s \in saves \/ (s \in ConSave /\ s.msg = q /\ s.chat = born')
      /\ acked' \subseteq Console!Messages
  <2>1. CASE Console!Persist(Console!Unshift(new), born', q)
    <3>1. Console!Unshift(new) \in Seq(ConChat)
      BY <1>4, ConUnshifts
    <3>2. ConPersisted(Console!Unshift(new), born', q)
      BY <1>1, <1>3, <2>1, <3>1, ConPersists
    <3>3. /\ ConLocals
          /\ \A i \in DOMAIN local' :
               (\E k \in ConKept : ConGrown(local'[i], k, born', q)) \/ ConGrown(local'[i], new, born', q)
      BY <1>1, <1>3, <1>4, <3>2, ConFronted
    <3>4. acked \subseteq Console!Messages
      BY DEF ConInv, ConStores
    <3> QED BY <1>1, <3>2, <3>3, <3>4 DEF ConPersisted, ConReported
  <2>2. CASE Console!Counted /\ UNCHANGED <<local, saves, acked, unwritten, excused>>
    <3>1. calls' \in 0..MaxChartCalls
      BY <2>2, ConCounts
    <3>2. \A i \in DOMAIN local : local[i] \in ConKept /\ ConGrown(local[i], local[i], born', q)
      BY DEF ConGrown, ConKept, ConInv, ConStores
    <3> QED BY <2>2, <3>1, <3>2 DEF ConLocals, ConInv, ConStores
  <2> QED BY <2>1, <2>2 DEF q, new
<1>7. excused' \subseteq Console!Messages
  <2>1. \A i \in DOMAIN local : local[i].msgs \subseteq Console!Messages
    <3>1. \A i \in DOMAIN local : local[i] \in ConChat
      BY DEF ConInv, ConStores
    <3> QED BY <3>1 DEF ConChat
  <2>2. Console!FallenOff \subseteq {local[i] : i \in DOMAIN local}
    BY ConAssumed DEF Console!FallenOff, ConInv, ConStores
  <2>3. Console!MessagesOf(Console!FallenOff) \subseteq Console!Messages
    BY <2>1, <2>2 DEF Console!MessagesOf
  <2> QED BY <2>3 DEF ConInv, ConStores
<1>8. \A k \in ConKept' : (\E l \in ConKept : ConGrown(k, l, born', q)) \/ ConGrown(k, new, born', q)
  <2>1. \A k \in remote : k \in ConKept /\ ConGrown(k, k, born', q)
    BY DEF ConGrown, ConKept, ConInv, ConStores
  <2> QED BY <1>6, <2>1 DEF ConKept
<1>9. ConStores' /\ ConSent' /\ ConPage'
  <2>1. remote' \subseteq ConChat
    BY DEF ConInv, ConStores
  <2>2. \A k \in ConKept' : k.id = born' \/ \E l \in ConKept : k.id = l.id
    BY <1>3, <1>4, <1>8 DEF ConGrown
  <2>3. ConStores'
    BY <1>3, <1>6, <1>7, <2>1, <2>2, ConStored
  <2>4. \A s \in saves' : s \in saves \/ (s \in ConSave /\ s.chat <= born')
    BY <1>3, <1>6
  <2>5. ConSent'
    BY <1>3, <2>4, ConSentOn
  <2>6. opening \subseteq 1..born'
    BY <1>3 DEF ConInv, ConPage
  <2> QED BY <1>2, <1>3, <1>5, <2>3, <2>5, <2>6 DEF ConInv, ConPage
<1>10. ASSUME ~strayed'
       PROVE  ConThreads' /\ ConOneTurn'
  <2>1. ~strayed /\ Console!Running = {} /\ ConThreads
    BY <1>10 DEF ConInv
  <2>2. ConOneTurn'
    BY <1>2, <1>5, <2>1, ConAlone
  <2>3. \A k \in ConKept : k.id \in Nat /\ k.id <= born
    <3>1. \A k \in ConKept : k \in ConChat /\ k.id <= born
      BY DEF ConInv, ConStores, ConKept
    <3> QED BY <3>1 DEF ConChat
  <2>4. \A k \in ConKept' : (\E l \in ConKept : ConGrown(k, l, born', q))
                            \/ (k.id = born + 1 /\ k.topic = topic /\ \A n \in k.msgs : n = q)
    BY <1>4, <1>8 DEF ConGrown
  <2>5. \A l \in ConKept : l.id = born' => l.topic = topic
    BY <1>3, <2>3
  <2>6. ConStays(born', q, topic)
    BY <1>2, <2>4, <2>5 DEF ConStays
  <2>7. /\ ConApart(turns', ConKept')
        /\ \A s \in saves : ConSaving(s, turns', ConKept')
        /\ \A i \in DOMAIN moves : ConMoving(moves[i], turns', ConKept')
    BY <2>1, <2>6, ConHolds
  <2>8. \A k \in ConKept' : k.id = born' => k.topic = topic
    BY <1>3, <2>3, <2>4 DEF ConGrown
  <2>9. ConViewing(view', turns', ConKept')
    BY <1>2, <1>5, <2>1, <2>8 DEF ConViewing, ConOf
  <2>10. \A s \in saves' : ConSaving(s, turns', ConKept')
    BY <1>2, <1>6, <2>7, <2>8 DEF ConSaving, ConOf
  <2> QED BY <2>2, <2>7, <2>9, <2>10 DEF ConThreads
<1> QED BY <1>6, <1>9, <1>10 DEF ConInv

(* A message of the turn goes to the chat that is open, if one is.         *)
LEMMA ConWrites ==
  ASSUME ConInv, NEW m \in Console!Messages, Console!Persist(local, view.chat, m),
         UNCHANGED <<remote, born, user, migrated, moves, excused, raced>>
  PROVE  /\ ConStores' /\ ConSent' /\ calls' \in 0..MaxChartCalls
         /\ \A topic :
              /\ ~strayed /\ ConTold(turns') /\ ConOf(turns', {m}, topic)
              /\ \A k \in ConKept : k.id = view.chat => k.topic = topic
              => /\ ConApart(turns', ConKept')
                 /\ \A k \in ConKept' : k.id = view.chat => k.topic = topic
                 /\ \A s \in saves' : ConSaving(s, turns', ConKept')
                 /\ \A i \in DOMAIN moves' : ConMoving(moves'[i], turns', ConKept')
<1>1. view.chat \in Nat \cup {None} /\ view.chat \in 1..born \cup {None} /\ born \in Nat /\ local \in Seq(ConChat)
  BY DEF ConInv, ConPage, ConStores, ConView
<1>2. ConPersisted(local, view.chat, m)
  BY <1>1, ConPersists
<1>3. ConLocals /\ \A i \in DOMAIN local' : \E k \in ConKept : ConGrown(local'[i], k, view.chat, m)
  BY <1>1, <1>2, ConSame
<1>4. \A k \in ConKept' : \E l \in ConKept : ConGrown(k, l, view.chat, m)
  <2>1. \A k \in remote : k \in ConKept /\ ConGrown(k, k, view.chat, m)
    BY DEF ConGrown, ConKept, ConInv, ConStores
  <2> QED BY <1>3, <2>1 DEF ConKept
<1>5. ConStores'
  <2>1. acked' \subseteq Console!Messages /\ excused' \subseteq Console!Messages /\ remote' \subseteq ConChat
    BY <1>2 DEF ConInv, ConStores, ConPersisted, ConReported
  <2>2. \A k \in ConKept' : \E l \in ConKept : k.id = l.id
    BY <1>4 DEF ConGrown
  <2> QED BY <1>3, <2>1, <2>2, ConStored
<1>6. ConSent'
  <2>1. \A s \in saves' : s \in saves \/ (s \in ConSave /\ s.chat <= born')
    BY <1>1, <1>2 DEF ConPersisted
  <2> QED BY <2>1, ConSentOn
<1>7. ASSUME NEW topic, ~strayed, ConTold(turns'), ConOf(turns', {m}, topic),
             \A k \in ConKept : k.id = view.chat => k.topic = topic
      PROVE  /\ ConApart(turns', ConKept')
             /\ \A k \in ConKept' : k.id = view.chat => k.topic = topic
             /\ \A s \in saves' : ConSaving(s, turns', ConKept')
             /\ \A i \in DOMAIN moves' : ConMoving(moves'[i], turns', ConKept')
  <2>1. ConStays(view.chat, m, topic)
    BY <1>4, <1>7 DEF ConStays
  <2>2. ConThreads
    BY <1>7 DEF ConInv
  <2>3. /\ ConApart(turns', ConKept')
        /\ \A s \in saves : ConSaving(s, turns', ConKept')
        /\ \A i \in DOMAIN moves : ConMoving(moves[i], turns', ConKept')
    BY <2>1, <2>2, ConHolds
  <2>4. \A k \in ConKept' : k.id = view.chat => k.topic = topic
    BY <1>4, <1>7 DEF ConGrown
  <2>5. \A s \in saves' : ConSaving(s, turns', ConKept')
    BY <1>2, <1>7, <2>3, <2>4 DEF ConPersisted, ConSaving, ConOf
  <2> QED BY <2>3, <2>4, <2>5
<1> QED BY <1>2, <1>5, <1>6, <1>7 DEF ConPersisted

LEMMA ConSendsOn ==
  ASSUME ConInv, NEW t \in Console!Turns, NEW topic,
         Console!At(t, "none"), ~view.streaming, topic = IF view.topic = 0 THEN t ELSE view.topic,
         turns' = [turns EXCEPT ![t] = [Console!NoTurn EXCEPT !.at = "streaming", !.topic = topic]],
         view' = Console!Streaming([view EXCEPT !.topic = topic, !.shown = @ \cup {Console!Question(t)}], t),
         Console!Persist(local, view.chat, Console!Question(t)),
         strayed' = (strayed \/ Console!Running # {}),
         UNCHANGED <<born, excused, remote, user, migrated, moves, raced, opening>>
  PROVE  ConInv'
<1> DEFINE q == Console!Question(t)
<1>1. q \in Console!Messages
  BY ConMessages
<1>2. /\ topic \in Nat \ {0}
      /\ turns' \in [Console!Turns -> ConTurn]
      /\ \A u \in Console!Turns : turns'[u].at # "none" => turns'[u].topic # 0
      /\ ConTold(turns')
      /\ ConOf(turns', {q}, topic)
      /\ ~strayed => /\ ConOf(turns', view.shown, topic)
                     /\ \A k \in ConKept : k.id = view.chat => k.topic = topic
      /\ ~strayed /\ Console!Running = {} =>
           /\ \A u \in Console!Turns : u # t => turns'[u].at \in {"none", "done"}
           /\ turns'[t].at = "streaming" /\ turns'[t].topic = topic
  BY ConSends
<1> HIDE DEF q
<1>5. /\ view' \in ConView /\ view'.chat = view.chat /\ view'.topic = topic /\ view'.shown = view.shown \cup {q}
      /\ view'.streaming = TRUE /\ view'.controller = t
  BY <1>1, <1>2 DEF ConView, ConInv, ConPage, q, Console!Streaming
<1>6. /\ ConStores' /\ ConSent' /\ calls' \in 0..MaxChartCalls
      /\ ~strayed => /\ ConApart(turns', ConKept')
                     /\ \A k \in ConKept' : k.id = view.chat => k.topic = topic
                     /\ \A s \in saves' : ConSaving(s, turns', ConKept')
                     /\ \A i \in DOMAIN moves' : ConMoving(moves'[i], turns', ConKept')
  <2>1. Console!Persist(local, view.chat, q)
    BY DEF q
  <2>2. UNCHANGED <<remote, born, user, migrated, moves, excused, raced>>
    OBVIOUS
  <2>3. /\ ConStores' /\ ConSent' /\ calls' \in 0..MaxChartCalls
        /\ \A about :
             /\ ~strayed /\ ConTold(turns') /\ ConOf(turns', {q}, about)
             /\ \A k \in ConKept : k.id = view.chat => k.topic = about
             => /\ ConApart(turns', ConKept')
                /\ \A k \in ConKept' : k.id = view.chat => k.topic = about
                /\ \A s \in saves' : ConSaving(s, turns', ConKept')
                /\ \A i \in DOMAIN moves' : ConMoving(moves'[i], turns', ConKept')
    BY ONLY ConInv, <1>1, <2>1, <2>2, ConWrites
  <2>4. CASE ~strayed
    <3>1. ~strayed /\ ConTold(turns') /\ ConOf(turns', {q}, topic) /\ \A k \in ConKept : k.id = view.chat => k.topic = topic
      BY <1>2, <2>4
    <3> QED BY ONLY <2>3, <3>1
  <2> QED BY <2>3, <2>4
<1>7. ConPage'
  BY <1>2, <1>5 DEF ConInv, ConPage
<1>8. ASSUME ~strayed'
      PROVE  ConThreads' /\ ConOneTurn'
  <2>1. ~strayed /\ Console!Running = {}
    BY <1>8 DEF ConInv
  <2>2. ConOneTurn'
    BY <1>2, <1>5, <2>1, ConAlone
  <2>3. ConViewing(view', turns', ConKept')
    BY <1>2, <1>5, <1>6, <2>1 DEF ConViewing, ConOf
  <2> QED BY <1>6, <2>1, <2>2, <2>3 DEF ConThreads
<1> QED BY <1>6, <1>7, <1>8 DEF ConInv

LEMMA ConAsks ==
  ASSUME ConInv, NEW t \in Console!Turns, Console!Send(t)
  PROVE  ConInv'
<1> DEFINE topic == IF view.topic = 0 THEN t ELSE view.topic
<1>1. CASE view.chat = None /\ user /\ turns' = [turns EXCEPT ![t] = [Console!NoTurn EXCEPT !.at = "creating", !.topic = topic]]
           /\ view' = [view EXCEPT !.topic = topic, !.shown = @ \cup {Console!Question(t)}]
           /\ UNCHANGED <<local, saves, acked, unwritten, calls, born, excused>>
  BY <1>1, ConSendsCreating DEF Console!Send
<1>2. CASE view.chat = None /\ ~user /\ born' = born + 1
           /\ turns' = [turns EXCEPT ![t] = [Console!NoTurn EXCEPT !.at = "streaming", !.topic = topic]]
           /\ view' = [Console!Streaming([view EXCEPT !.topic = topic, !.shown = @ \cup {Console!Question(t)}], t)
                         EXCEPT !.chat = born']
           /\ \/ /\ Console!Persist(Console!Unshift([id |-> born', topic |-> topic, msgs |-> {}]), born',
                                    Console!Question(t))
                 /\ excused' = excused \cup Console!MessagesOf(Console!FallenOff)
              \/ Console!Counted /\ UNCHANGED <<local, saves, acked, unwritten, excused>>
  BY <1>2, ConSendsNew DEF Console!Send
<1>3. CASE view.chat # None
           /\ turns' = [turns EXCEPT ![t] = [Console!NoTurn EXCEPT !.at = "streaming", !.topic = topic]]
           /\ view' = Console!Streaming([view EXCEPT !.topic = topic, !.shown = @ \cup {Console!Question(t)}], t)
           /\ Console!Persist(local, view.chat, Console!Question(t)) /\ UNCHANGED <<born, excused>>
  BY <1>3, ConSendsOn DEF Console!Send
<1> QED BY <1>1, <1>2, <1>3 DEF Console!Send

LEMMA ConGoes ==
  ASSUME ConInv, NEW t \in Console!Turns, NEW next \in ConTurn, turns[t].at # "none",
         next.at # "none", next.topic = turns[t].topic, turns' = [turns EXCEPT ![t] = next]
  PROVE  /\ turns' \in [Console!Turns -> ConTurn] /\ turns'[t] = next
         /\ \A u \in Console!Turns : u # t => turns'[u] = turns[u]
         /\ \A u \in Console!Turns : turns'[u].at # "none" => turns'[u].topic # 0
         /\ ConTold(turns')
<1>1. /\ turns' \in [Console!Turns -> ConTurn] /\ turns'[t] = next
      /\ \A u \in Console!Turns : u # t => turns'[u] = turns[u]
  BY ConTurns
<1> QED BY <1>1 DEF ConTold, ConInv, ConPage

(* Nothing is added to what is both.                                       *)
LEMMA ConQuiet ==
  ASSUME ConInv, ConThreads, ConTold(turns'), ConKept' \subseteq ConKept
  PROVE  /\ ConApart(turns', ConKept')
         /\ ConViewing(view, turns', ConKept')
         /\ \A s \in saves : ConSaving(s, turns', ConKept')
         /\ \A i \in DOMAIN moves : ConMoving(moves[i], turns', ConKept')
<1>1. \A k \in ConKept' : ConFrom(k, turns', 0)
  BY DEF ConFrom
<1> HIDE DEF ConTold, ConFrom, ConApart, ConViewing, ConSaving, ConMoving, ConKept, ConInv, ConThreads
<1> QED BY <1>1, ConGrows

LEMMA ConCreates ==
  ASSUME ConInv, NEW t \in Console!Turns, Console!At(t, "creating"), born' = born + 1,
         remote' = remote \cup {[id |-> born', topic |-> turns[t].topic, msgs |-> {}]},
         view' = [Console!Streaming(view, t) EXCEPT !.chat = born'],
         Console!Persist(local, born', Console!Question(t)),
         turns' = [turns EXCEPT ![t].at = "streaming"],
         UNCHANGED <<user, migrated, moves, excused, raced, opening, strayed>>
  PROVE  ConInv'
<1> DEFINE q == Console!Question(t)
           topic == turns[t].topic
           new == [id |-> born', topic |-> turns[t].topic, msgs |-> {}]
           next == [turns[t] EXCEPT !.at = "streaming"]
<1>1. q \in Console!Messages /\ Console!TurnOf(q) = t
  BY ConMessages
<1>2. born \in Nat /\ born' \in Nat \ {0} /\ born' = born + 1 /\ born' \in 1..born' /\ local \in Seq(ConChat)
  BY DEF ConInv, ConStores
<1>3. turns[t] \in ConTurn /\ turns[t].at = "creating" /\ topic \in Nat \ {0}
  BY DEF ConInv, ConPage, Console!At, ConTurn
<1>4. new \in ConChat /\ new.id = born + 1 /\ new.topic = topic /\ new.msgs = {}
  BY <1>2, <1>3 DEF ConChat
<1>5. next \in ConTurn /\ next.at = "streaming" /\ next.topic = topic
  BY <1>3 DEF ConTurn, Console!Places
<1>6. turns' = [turns EXCEPT ![t] = next] /\ remote' = remote \cup {new}
  OBVIOUS
<1> HIDE DEF q, new, next, topic
<1>7. /\ turns' \in [Console!Turns -> ConTurn] /\ turns'[t] = next
      /\ \A u \in Console!Turns : u # t => turns'[u] = turns[u]
      /\ \A u \in Console!Turns : turns'[u].at # "none" => turns'[u].topic # 0
      /\ ConTold(turns')
  BY <1>3, <1>5, <1>6, ConGoes DEF topic
<1>8. /\ view' \in ConView /\ view'.chat = born' /\ view'.topic = view.topic /\ view'.shown = view.shown
      /\ view'.streaming = TRUE /\ view'.controller = t
  BY <1>2 DEF ConView, ConInv, ConPage, Console!Streaming
<1>9. ConPersisted(local, born', q)
  BY <1>1, <1>2, ConPersists DEF q
<1>10. ConLocals /\ \A i \in DOMAIN local' : \E k \in ConKept : ConGrown(local'[i], k, born', q)
  BY <1>1, <1>2, <1>9, ConSame
<1>11. \A k \in ConKept' : (\E l \in ConKept : ConGrown(k, l, born', q)) \/ k = new
  <2>1. \A k \in remote : k \in ConKept /\ ConGrown(k, k, born', q)
    BY DEF ConGrown, ConKept, ConInv, ConStores
  <2> QED BY <1>6, <1>10, <2>1 DEF ConKept
<1>12. ConStores' /\ ConSent' /\ ConPage'
  <2>1. remote' \subseteq ConChat /\ acked' \subseteq Console!Messages /\ excused' \subseteq Console!Messages
    BY <1>1, <1>4, <1>6, <1>9 DEF ConInv, ConStores, ConPersisted, ConReported
  <2>2. \A k \in ConKept' : k.id = born' \/ \E l \in ConKept : k.id = l.id
    BY <1>2, <1>4, <1>11 DEF ConGrown
  <2>3. ConStores'
    BY <1>2, <1>10, <2>1, <2>2, ConStored
  <2>4. \A s \in saves' : s \in saves \/ (s \in ConSave /\ s.chat <= born')
    BY <1>2, <1>9 DEF ConPersisted
  <2>5. ConSent'
    BY <1>2, <2>4, ConSentOn
  <2>6. opening \subseteq 1..born'
    BY <1>2 DEF ConInv, ConPage
  <2> QED BY <1>2, <1>7, <1>8, <2>3, <2>5, <2>6 DEF ConInv, ConPage
<1>13. ASSUME ~strayed'
       PROVE  ConThreads' /\ ConOneTurn'
  <2>1. ~strayed /\ ConThreads /\ ConOneTurn
    BY <1>13 DEF ConInv
  <2>2. topic = view.topic /\ \A u \in Console!Turns : u # t => turns[u].at \in {"none", "done"}
    <3>1. \A u \in Console!Turns : turns[u].at \in Console!Places
      BY DEF ConInv, ConPage, ConTurn
    <3>2. t \in Console!Running
      BY <1>3 DEF Console!Running
    <3> QED BY <2>1, <3>1, <3>2 DEF Console!Running, Console!Places, ConOneTurn, topic
  <2>3. ConOneTurn'
    BY <1>5, <1>7, <1>8, <2>2, ConAlone
  <2>4. \A k \in ConKept : k.id \in Nat /\ k.id <= born
    <3>1. \A k \in ConKept : k \in ConChat /\ k.id <= born
      BY DEF ConInv, ConStores, ConKept
    <3> QED BY <3>1 DEF ConChat
  <2>5. \A k \in ConKept' : (\E l \in ConKept : ConGrown(k, l, born', q))
                            \/ (k.id = born + 1 /\ k.topic = topic /\ \A n \in k.msgs : n = q)
    BY <1>4, <1>11
  <2>6. ConOf(turns', {q}, topic)
    BY <1>1, <1>5, <1>7 DEF ConOf
  <2>7. ConStays(born', q, topic)
    BY <1>2, <1>7, <2>4, <2>5, <2>6 DEF ConStays
  <2>8. /\ ConApart(turns', ConKept') /\ ConViewing(view, turns', ConKept')
        /\ \A s \in saves : ConSaving(s, turns', ConKept')
        /\ \A i \in DOMAIN moves : ConMoving(moves[i], turns', ConKept')
    BY <2>1, <2>7, ConHolds
  <2>9. \A k \in ConKept' : k.id = born' => k.topic = topic
    BY <1>2, <2>4, <2>5 DEF ConGrown
  <2>10. ConViewing(view', turns', ConKept')
    BY <1>8, <2>2, <2>8, <2>9 DEF ConViewing
  <2>11. \A s \in saves' : ConSaving(s, turns', ConKept')
    BY <1>9, <2>6, <2>8, <2>9 DEF ConSaving, ConOf, ConPersisted
  <2> QED BY <2>3, <2>8, <2>10, <2>11 DEF ConThreads
<1> QED BY <1>9, <1>12, <1>13 DEF ConInv, ConPersisted

LEMMA ConCreatesNot ==
  ASSUME ConInv, NEW t \in Console!Turns, Console!At(t, "creating"), Console!Counted,
         view' = Console!Streaming(view, t),
         saves' = IF view.chat = None \/ ~user THEN saves
                  ELSE saves \cup {[msg |-> Console!Question(t), chat |-> view.chat]},
         turns' = [turns EXCEPT ![t].at = "streaming"],
         UNCHANGED <<born, remote, local, acked, user, migrated, moves, excused, raced, opening, strayed>>
  PROVE  ConInv'
<1> DEFINE q == Console!Question(t)
           topic == turns[t].topic
           save == [msg |-> Console!Question(t), chat |-> view.chat]
           next == [turns[t] EXCEPT !.at = "streaming"]
<1>1. q \in Console!Messages /\ Console!TurnOf(q) = t
  BY ConMessages
<1>2. born \in Nat /\ view \in ConView /\ view.chat \in 1..born \cup {None}
  BY DEF ConInv, ConStores, ConPage
<1>3. turns[t] \in ConTurn /\ turns[t].at = "creating" /\ topic \in Nat \ {0}
  BY DEF ConInv, ConPage, Console!At, ConTurn
<1>4. next \in ConTurn /\ next.at = "streaming" /\ next.topic = topic
  BY <1>3 DEF ConTurn, Console!Places
<1>5. turns' = [turns EXCEPT ![t] = next]
  OBVIOUS
<1>6. \A s \in saves' : s \in saves \/ (s \in ConSave /\ s.chat <= born' /\ s.msg = q /\ s.chat = view.chat)
  <2>1. save.msg = q /\ save.chat = view.chat /\ (view.chat # None => save \in ConSave)
    BY <1>1, <1>2 DEF ConSave
  <2>2. saves' = saves \/ (view.chat # None /\ saves' = saves \cup {save})
    OBVIOUS
  <2> HIDE DEF save
  <2> QED BY <1>2, <2>1, <2>2
<1> HIDE DEF q, next, topic, save
<1>7. /\ turns' \in [Console!Turns -> ConTurn] /\ turns'[t] = next
      /\ \A u \in Console!Turns : u # t => turns'[u] = turns[u]
      /\ \A u \in Console!Turns : turns'[u].at # "none" => turns'[u].topic # 0
      /\ ConTold(turns')
  BY <1>3, <1>4, <1>5, ConGoes DEF topic
<1>8. /\ view' \in ConView /\ view'.chat = view.chat /\ view'.topic = view.topic /\ view'.shown = view.shown
      /\ view'.streaming = TRUE /\ view'.controller = t
  BY <1>2 DEF ConView, Console!Streaming
<1>9. ConStores' /\ ConKept' = ConKept /\ calls' \in 0..MaxChartCalls
  BY ConCounts DEF ConInv, ConStores, ConKept
<1>10. ConSent' /\ ConPage'
  <2>1. ConSent'
    BY <1>6, ConSentOn
  <2> QED BY <1>7, <1>8, <2>1 DEF ConInv, ConPage
<1>11. ASSUME ~strayed'
       PROVE  ConThreads' /\ ConOneTurn'
  <2>1. ~strayed /\ ConThreads /\ ConOneTurn
    BY <1>11 DEF ConInv
  <2>2. topic = view.topic /\ \A u \in Console!Turns : u # t => turns[u].at \in {"none", "done"}
    <3>1. \A u \in Console!Turns : turns[u].at \in Console!Places
      BY DEF ConInv, ConPage, ConTurn
    <3>2. t \in Console!Running
      BY <1>3 DEF Console!Running
    <3> QED BY <2>1, <3>1, <3>2 DEF Console!Running, Console!Places, ConOneTurn, topic
  <2>3. ConOneTurn'
    BY <1>4, <1>7, <1>8, <2>2, ConAlone
  <2>4. /\ ConApart(turns', ConKept') /\ ConViewing(view, turns', ConKept')
        /\ \A s \in saves : ConSaving(s, turns', ConKept')
        /\ \A i \in DOMAIN moves : ConMoving(moves[i], turns', ConKept')
    BY <1>7, <1>9, <2>1, ConQuiet
  <2>5. ConViewing(view', turns', ConKept')
    BY <1>8, <2>4 DEF ConViewing
  <2>6. ConOf(turns', {q}, topic)
    BY <1>1, <1>4, <1>7 DEF ConOf
  <2>7. \A s \in saves' : ConSaving(s, turns', ConKept')
    BY <1>6, <2>2, <2>4, <2>6 DEF ConSaving, ConOf, ConViewing
  <2> QED BY <2>3, <2>4, <2>5, <2>7 DEF ConThreads
<1> QED BY <1>9, <1>10, <1>11 DEF ConInv

(* A step of a turn, or an abort, that only turns show.                    *)
LEMMA ConTurnOnly ==
  ASSUME ConInv, UNCHANGED <<local, remote, born, user, migrated, moves, saves, acked, excused, raced, calls,
                             view, opening, strayed>>,
         turns' \in [Console!Turns -> ConTurn],
         \A u \in Console!Turns : turns'[u].at = turns[u].at /\ turns'[u].topic = turns[u].topic
  PROVE  ConInv'
<1>1. ConStores' /\ ConSent' /\ ConPage' /\ ConKept' = ConKept /\ ConTold(turns')
  BY DEF ConInv, ConStores, ConSent, ConPage, ConKept, ConTold
<1>2. ASSUME ~strayed'
      PROVE  ConThreads' /\ ConOneTurn'
  <2>1. ~strayed /\ ConThreads /\ ConOneTurn
    BY <1>2 DEF ConInv
  <2>2. /\ ConApart(turns', ConKept') /\ ConViewing(view, turns', ConKept')
        /\ \A s \in saves : ConSaving(s, turns', ConKept')
        /\ \A i \in DOMAIN moves : ConMoving(moves[i], turns', ConKept')
    BY <1>1, <2>1, ConQuiet
  <2>3. Console!Running' = Console!Running
    BY DEF Console!Running
  <2>4. ConOneTurn'
    BY <2>1, <2>3 DEF ConOneTurn, Console!At, Console!Running
  <2> QED BY <2>2, <2>4 DEF ConThreads
<1> QED BY <1>1, <1>2 DEF ConInv

LEMMA ConAborts ==
  ASSUME ConInv
  PROVE  /\ Console!Aborted \in [Console!Turns -> ConTurn]
         /\ \A u \in Console!Turns : /\ Console!Aborted[u].at = turns[u].at
                                     /\ Console!Aborted[u].topic = turns[u].topic
<1>1. turns \in [Console!Turns -> ConTurn] /\ view.controller \in Console!Turns \cup {None}
  BY DEF ConInv, ConPage, ConView
<1> QED BY <1>1 DEF Console!Aborted, ConTurn

LEMMA ConHears ==
  ASSUME ConInv, NEW t \in Console!Turns, Console!Hear(t)
  PROVE  ConInv'
<1>1. /\ turns' \in [Console!Turns -> ConTurn]
      /\ \A u \in Console!Turns : turns'[u].at = turns[u].at /\ turns'[u].topic = turns[u].topic
  <2>1. turns \in [Console!Turns -> ConTurn]
    BY DEF ConInv, ConPage
  <2> QED BY <2>1 DEF Console!Hear, ConTurn
<1> QED BY <1>1, ConTurnOnly DEF Console!Hear, Console!stored

LEMMA ConStops ==
  ASSUME ConInv, Console!Stop
  PROVE  ConInv'
BY ConAborts, ConTurnOnly DEF Console!Stop, Console!stored

(* A turn ends: what was heard goes to the chat that is open.              *)
LEMMA ConEnds ==
  ASSUME ConInv, NEW t \in Console!Turns, Console!End(t)
  PROVE  ConInv'
<1> DEFINE q == Console!Answer(t)
           topic == turns[t].topic
           next == [turns[t] EXCEPT !.at = "done"]
<1>1. q \in Console!Messages /\ Console!TurnOf(q) = t
  BY ConMessages
<1>2. view \in ConView /\ view.chat \in 1..born \cup {None}
  BY DEF ConInv, ConPage
<1>3. turns[t] \in ConTurn /\ turns[t].at = "streaming" /\ topic \in Nat \ {0}
  BY DEF ConInv, ConPage, Console!At, ConTurn, Console!End
<1>4. next \in ConTurn /\ next.at = "done" /\ next.topic = topic
  BY <1>3 DEF ConTurn, Console!Places
<1>5. turns' = [turns EXCEPT ![t] = next]
  BY DEF Console!End
<1>6. UNCHANGED <<remote, born, user, migrated, moves, excused, raced, opening, strayed>>
  BY DEF Console!End
<1> HIDE DEF q, next, topic
<1>7. /\ turns' \in [Console!Turns -> ConTurn] /\ turns'[t] = next
      /\ \A u \in Console!Turns : u # t => turns'[u] = turns[u]
      /\ \A u \in Console!Turns : turns'[u].at # "none" => turns'[u].topic # 0
      /\ ConTold(turns')
  BY <1>3, <1>4, <1>5, ConGoes DEF topic
<1>8. /\ view' \in ConView /\ view'.chat = view.chat /\ view'.topic = view.topic
      /\ view'.streaming = FALSE
      /\ \A n \in view'.shown : n \in view.shown \/ n = q
  <2> DEFINE ended == [view EXCEPT !.streaming = FALSE, !.controller = None]
  <2>1. /\ ended \in ConView /\ ended.chat = view.chat /\ ended.topic = view.topic /\ ended.streaming = FALSE
        /\ ended.shown = view.shown
    BY <1>2 DEF ConView
  <2>2. view' \in {ended, [ended EXCEPT !.shown = @ \cup {q}]}
    BY DEF Console!End, q
  <2> HIDE DEF ended
  <2> QED BY <1>1, <2>1, <2>2 DEF ConView
<1>9. ConOf(turns', {q}, topic)
  BY <1>1, <1>4, <1>7 DEF ConOf
<1> DEFINE Goes == /\ ConApart(turns', ConKept')
                   /\ \A k \in ConKept' : k.id = view.chat => k.topic = view.topic
                   /\ \A s \in saves' : ConSaving(s, turns', ConKept')
                   /\ \A i \in DOMAIN moves' : ConMoving(moves'[i], turns', ConKept')
<1>10. /\ ConStores' /\ ConSent' /\ calls' \in 0..MaxChartCalls
       /\ ~strayed /\ topic = view.topic => Goes
  <2>1. CASE Console!Persist(local, view.chat, q)
    <3>1. /\ ConStores' /\ ConSent' /\ calls' \in 0..MaxChartCalls
          /\ \A about :
               /\ ~strayed /\ ConTold(turns') /\ ConOf(turns', {q}, about)
               /\ \A k \in ConKept : k.id = view.chat => k.topic = about
               => /\ ConApart(turns', ConKept')
                  /\ \A k \in ConKept' : k.id = view.chat => k.topic = about
                  /\ \A s \in saves' : ConSaving(s, turns', ConKept')
                  /\ \A i \in DOMAIN moves' : ConMoving(moves'[i], turns', ConKept')
      BY ONLY ConInv, <1>1, <1>6, <2>1, ConWrites
    <3>2. ASSUME ~strayed, topic = view.topic
          PROVE  Goes
      <4>1. /\ ~strayed /\ ConTold(turns') /\ ConOf(turns', {q}, view.topic)
            /\ \A k \in ConKept : k.id = view.chat => k.topic = view.topic
        BY <1>7, <1>9, <3>2 DEF ConInv, ConThreads, ConViewing
      <4> QED BY ONLY <3>1, <4>1
    <3>3. \A n \in Nat : n # 0 /\ n # 1 => n >= 2
      OBVIOUS
    <3> QED BY ONLY <3>1, <3>2, <3>3
  <2>2. CASE UNCHANGED <<local, saves, acked, calls>>
    <3>1. ConStores' /\ ConSent' /\ calls' \in 0..MaxChartCalls /\ ConKept' = ConKept
      BY <1>6, <2>2 DEF ConInv, ConStores, ConSent, ConKept
    <3>2. ASSUME ~strayed, topic = view.topic
          PROVE  Goes
      <4>1. ConThreads
        BY <3>2 DEF ConInv
      <4>2. /\ ConApart(turns', ConKept') /\ ConViewing(view, turns', ConKept')
            /\ \A s \in saves : ConSaving(s, turns', ConKept')
            /\ \A i \in DOMAIN moves : ConMoving(moves[i], turns', ConKept')
        BY <1>7, <3>1, <4>1, ConQuiet
      <4> QED BY <1>6, <2>2, <4>2 DEF ConViewing
    <3>3. \A n \in Nat : n # 0 /\ n # 1 => n >= 2
      OBVIOUS
    <3> QED BY ONLY <3>1, <3>2, <3>3
  <2> QED BY <2>1, <2>2 DEF Console!End, q
<1>11. ConPage'
  BY <1>6, <1>7, <1>8 DEF ConInv, ConPage
<1>12. ASSUME ~strayed'
       PROVE  ConThreads' /\ ConOneTurn'
  <2>1. ~strayed /\ ConThreads /\ ConOneTurn
    BY <1>6, <1>12 DEF ConInv
  <2>2. topic = view.topic /\ \A u \in Console!Turns : u # t => turns[u].at \in {"none", "done"}
    <3>1. \A u \in Console!Turns : turns[u].at \in Console!Places
      BY DEF ConInv, ConPage, ConTurn
    <3>2. t \in Console!Running
      BY <1>3 DEF Console!Running
    <3> QED BY <2>1, <3>1, <3>2 DEF Console!Running, Console!Places, ConOneTurn, topic
  <2>3. ConOneTurn'
    BY <1>4, <1>7, <1>8, <2>2, ConAlone
  <2>4. ConOf(turns', view.shown, view.topic)
    <3>1. view.shown \subseteq Console!Messages
      BY <1>2 DEF ConView
    <3> QED BY <1>7, <2>1, <3>1, ConMessages DEF ConTold, ConThreads, ConViewing, ConOf
  <2>5. ConViewing(view', turns', ConKept')
    BY <1>8, <1>9, <1>10, <2>1, <2>2, <2>4 DEF ConViewing, ConOf
  <2> QED BY <1>10, <2>1, <2>2, <2>3, <2>5 DEF ConThreads
<1> QED BY <1>10, <1>11, <1>12 DEF ConInv

-----------------------------------------------------------------------------
(* Another chat, or none, on the screen.                                   *)
LEMMA ConShows ==
  ASSUME ConInv, UNCHANGED <<born, user, migrated, moves, saves, raced, excused>>, calls' \in 0..MaxChartCalls,
         ConStores', ConKept' \subseteq ConKept,
         opening' \subseteq 1..born,
         turns' \in {turns, Console!Aborted},
         turns' = turns \/ view.streaming,
         strayed' = (strayed \/ Console!Running # {}),
         view' \in ConView, view'.chat \in 1..born \cup {None}, view'.streaming = view.streaming,
         view'.controller = view.controller,
         ~strayed => ConViewing(view', turns, ConKept)
  PROVE  ConInv'
<1>1. /\ turns' \in [Console!Turns -> ConTurn]
      /\ \A u \in Console!Turns : turns'[u].at = turns[u].at /\ turns'[u].topic = turns[u].topic
  <2>1. turns \in [Console!Turns -> ConTurn]
    BY DEF ConInv, ConPage
  <2> QED BY <2>1, ConAborts
<1>2. ConSent' /\ ConPage'
  BY <1>1 DEF ConInv, ConSent, ConPage
<1>3. ASSUME ~strayed'
      PROVE  ConThreads' /\ ConOneTurn'
  <2>1. ~strayed /\ ConThreads /\ ConOneTurn /\ Console!Running = {}
    BY <1>3 DEF ConInv
  <2>2. ~view.streaming
    BY <2>1 DEF ConOneTurn, Console!Running, Console!At
  <2>3. turns' = turns
    BY <2>2
  <2>4. /\ ConApart(turns', ConKept')
        /\ \A s \in saves : ConSaving(s, turns', ConKept')
        /\ \A i \in DOMAIN moves : ConMoving(moves[i], turns', ConKept')
    BY <2>1, <2>3, ConQuiet DEF ConTold
  <2>5. ConViewing(view', turns', ConKept')
    BY <2>1, <2>3 DEF ConViewing
  <2>6. ConOneTurn'
    BY <2>1, <2>2, <2>3 DEF ConOneTurn, Console!Running, Console!At
  <2> QED BY <2>4, <2>5, <2>6 DEF ConThreads
<1> QED BY <1>2, <1>3 DEF ConInv

LEMMA ConFresh ==
  ASSUME ConInv
  PROVE  /\ Console!Fresh \in ConView /\ Console!Fresh.chat = None /\ Console!Fresh.streaming = view.streaming
         /\ Console!Fresh.controller = view.controller
         /\ ~strayed => ConViewing(Console!Fresh, turns, ConKept)
<1>1. /\ Console!Fresh \in ConView /\ Console!Fresh.chat = None /\ Console!Fresh.streaming = view.streaming
      /\ Console!Fresh.controller = view.controller /\ Console!Fresh.shown = {}
  BY DEF Console!Fresh, ConView, ConInv, ConPage
<1>2. \A k \in ConKept : k.id # None
  <2>1. \A k \in ConKept : k \in ConChat
    BY DEF ConInv, ConStores, ConKept
  <2> QED BY <2>1, ConAssumed DEF ConChat
<1> QED BY <1>1, <1>2 DEF ConViewing, ConOf

LEMMA ConOpened ==
  ASSUME ConInv, NEW k \in ConKept, NEW page,
         page = [view EXCEPT !.chat = k.id, !.topic = k.topic, !.shown = k.msgs]
  PROVE  /\ page \in ConView /\ page.chat \in 1..born /\ page.streaming = view.streaming
         /\ page.controller = view.controller
         /\ ~strayed => ConViewing(page, turns, ConKept)
<1>1. k.id \in Nat \ {0} /\ k.topic \in Nat \ {0} /\ k.msgs \in SUBSET Console!Messages /\ k.id <= born /\ born \in Nat
  <2>1. k \in ConChat /\ k.id <= born /\ born \in Nat
    BY DEF ConInv, ConStores, ConKept
  <2> QED BY <2>1 DEF ConChat
<1>2. /\ page \in ConView /\ page.chat = k.id /\ page.topic = k.topic /\ page.shown = k.msgs
      /\ page.streaming = view.streaming /\ page.controller = view.controller
  BY <1>1 DEF ConView, ConInv, ConPage
<1>3. ASSUME ~strayed
      PROVE  ConViewing(page, turns, ConKept)
  BY <1>2, <1>3 DEF ConInv, ConThreads, ConApart, ConViewing
<1> QED BY <1>1, <1>2, <1>3

LEMMA ConStartsNew ==
  ASSUME ConInv, Console!StartNewChat
  PROVE  ConInv'
<1>1. /\ ConStores' /\ ConKept' = ConKept /\ opening' \subseteq 1..born /\ calls' \in 0..MaxChartCalls
      /\ UNCHANGED <<born, user, migrated, moves, saves, raced, excused>>
  BY ConCounts DEF Console!StartNewChat, Console!stored, ConInv, ConStores, ConKept, ConPage
<1>2. /\ turns' \in {turns, Console!Aborted} /\ (turns' = turns \/ view.streaming) /\ view' = Console!Fresh
      /\ strayed' = (strayed \/ Console!Running # {})
  BY DEF Console!StartNewChat
<1> QED BY <1>1, <1>2, ConFresh, ConShows

(* A chat is opened of those that are both.                                *)
LEMMA ConListed ==
  ASSUME ConInv
  PROVE  Console!Chats \subseteq ConKept
BY DEF Console!Chats, Console!ToSet, ConKept

LEMMA ConKeepsPage ==
  ASSUME ConInv, UNCHANGED <<born, user, migrated, moves, saves, raced, excused>>, calls' \in 0..MaxChartCalls,
         ConStores', ConKept' \subseteq ConKept, opening' \subseteq 1..born, UNCHANGED <<turns, strayed, view>>
  PROVE  ConInv'
<1>1. ConSent' /\ ConPage'
  BY DEF ConInv, ConSent, ConPage
<1>2. ASSUME ~strayed'
      PROVE  ConThreads' /\ ConOneTurn'
  <2>1. ~strayed /\ ConThreads /\ ConOneTurn
    BY <1>2 DEF ConInv
  <2>2. /\ ConApart(turns', ConKept') /\ ConViewing(view, turns', ConKept')
        /\ \A s \in saves : ConSaving(s, turns', ConKept')
        /\ \A i \in DOMAIN moves : ConMoving(moves[i], turns', ConKept')
    BY <2>1, ConQuiet DEF ConTold
  <2>3. ConOneTurn'
    BY <2>1 DEF ConOneTurn, Console!Running, Console!At
  <2> QED BY <2>2, <2>3 DEF ConThreads
<1> QED BY <1>1, <1>2 DEF ConInv

LEMMA ConOpens ==
  ASSUME ConInv, NEW id \in 1..born, Console!OpenChat(id) \/ Console!Loaded(id) \/ Console!LoadFails(id)
  PROVE  ConInv'
<1>1. /\ ConStores' /\ ConKept' = ConKept /\ opening' \subseteq 1..born /\ calls' \in 0..MaxChartCalls
      /\ UNCHANGED <<born, user, migrated, moves, saves, raced, excused, turns>>
  BY ConCounts DEF Console!OpenChat, Console!Loaded, Console!LoadFails, Console!stored, ConInv, ConStores, ConKept,
                   ConPage
<1>2. CASE UNCHANGED <<view, strayed>>
  BY <1>1, <1>2, ConKeepsPage
<1>3. ASSUME NEW chats, chats \subseteq ConKept, Console!In(chats, id),
             Console!Opened(CHOOSE c \in chats : c.id = id)
      PROVE  ConInv'
  <2> DEFINE k == CHOOSE c \in chats : c.id = id
  <2>1. k \in ConKept
    BY <1>3 DEF Console!In
  <2>2. /\ view' = [view EXCEPT !.chat = k.id, !.topic = k.topic, !.shown = k.msgs]
        /\ strayed' = (strayed \/ Console!Running # {})
    BY <1>3 DEF Console!Opened
  <2> HIDE DEF k
  <2>3. /\ view' \in ConView /\ view'.chat \in 1..born /\ view'.streaming = view.streaming
        /\ view'.controller = view.controller
        /\ ~strayed => ConViewing(view', turns, ConKept)
    BY <2>1, <2>2, ConOpened
  <2> QED BY <1>1, <2>2, <2>3, ConShows
<1>4. remote \subseteq ConKept /\ Console!Chats \subseteq ConKept
  BY ConListed DEF ConKept
<1> QED BY <1>2, <1>3, <1>4 DEF Console!OpenChat, Console!Loaded, Console!LoadFails

(* The sequence r is s without its element number k.                       *)
ConWithout(r, s, k) ==
  /\ Len(r) = Len(s) - 1
  /\ \A i \in DOMAIN r : i \in Nat /\ r[i] = s[IF i < k THEN i ELSE i + 1]
                         /\ (IF i < k THEN i ELSE i + 1) \in DOMAIN s
  /\ \A i \in DOMAIN s : i # k => \E j \in DOMAIN r : r[j] = s[i]

LEMMA ConRemoves ==
  ASSUME NEW S, NEW s \in Seq(S), NEW k \in DOMAIN s, NEW r, r = Console!RemoveAt(s, k)
  PROVE  r \in Seq(S) /\ ConWithout(r, s, k)
<1>0. Len(s) \in Nat /\ k \in 1..Len(s) /\ DOMAIN s = 1..Len(s) /\ k \in Nat
  OBVIOUS
<1> DEFINE p == SubSeq(s, 1, k - 1)
           q == SubSeq(s, k + 1, Len(s))
<1>1. p \in Seq(S) /\ Len(p) = k - 1 /\ \A i \in 1..(k - 1) : p[i] = s[i]
  BY <1>0
<1>2. q \in Seq(S) /\ Len(q) = Len(s) - k /\ \A i \in 1..(Len(s) - k) : q[i] = s[k + i]
  BY <1>0
<1>3. r = p \o q
  BY DEF Console!RemoveAt
<1> HIDE DEF p, q
<1>4. r \in Seq(S) /\ Len(r) = Len(s) - 1
  <2>1. r \in Seq(S) /\ Len(r) = Len(p) + Len(q)
    BY <1>1, <1>2, <1>3
  <2> QED BY <1>0, <1>1, <1>2, <2>1
<1>5. \A i \in 1..Len(r) : r[i] = IF i <= k - 1 THEN p[i] ELSE q[i - (k - 1)]
  BY <1>0, <1>1, <1>2, <1>3, <1>4
<1>6. ASSUME NEW i \in DOMAIN r
      PROVE  /\ i \in Nat /\ r[i] = s[IF i < k THEN i ELSE i + 1]
             /\ (IF i < k THEN i ELSE i + 1) \in DOMAIN s
  <2>1. i \in Nat /\ i >= 1 /\ i <= Len(s) - 1 /\ i \in 1..Len(r)
    BY <1>0, <1>4
  <2>2. CASE i < k
    <3>1. i \in 1..(k - 1) /\ i <= k - 1
      BY <1>0, <2>1, <2>2
    <3> QED BY <1>0, <1>1, <1>5, <2>1, <2>2, <3>1
  <2>3. CASE ~(i < k)
    <3>1. ~(i <= k - 1) /\ i - (k - 1) \in 1..(Len(s) - k) /\ k + (i - (k - 1)) = i + 1
      BY <1>0, <2>1, <2>3
    <3>2. r[i] = q[i - (k - 1)]
      BY <1>5, <2>1, <3>1
    <3> QED BY <1>0, <1>2, <2>1, <2>3, <3>1, <3>2
  <2> QED BY <2>2, <2>3
<1>7. ASSUME NEW i \in DOMAIN s, i # k
      PROVE  \E j \in DOMAIN r : r[j] = s[i]
  <2>1. DOMAIN r = 1..(Len(s) - 1) /\ i \in 1..Len(s)
    BY <1>0, <1>4
  <2>2. CASE i < k
    <3>1. i \in DOMAIN r
      BY <1>0, <2>1, <2>2
    <3> QED BY <1>6, <2>2, <3>1
  <2>3. CASE i > k
    <3>1. i - 1 \in DOMAIN r /\ ~(i - 1 < k) /\ (i - 1) + 1 = i
      BY <1>0, <2>1, <2>3
    <3> QED BY <1>6, <3>1
  <2> QED BY <1>0, <1>7, <2>1, <2>2, <2>3
<1> QED BY <1>4, <1>6, <1>7 DEF ConWithout

LEMMA ConDeletes ==
  ASSUME ConInv, NEW id \in 1..born, Console!Delete(id)
  PROVE  ConInv'
<1>1. /\ calls' \in 0..MaxChartCalls /\ opening' \subseteq 1..born
      /\ UNCHANGED <<born, user, migrated, moves, saves, raced, excused>>
  BY ConCounts DEF Console!Delete, Console!DeleteStored, ConInv, ConPage
<1>2. ConLocals /\ remote' \subseteq remote /\ \A i \in DOMAIN local' : \E j \in DOMAIN local : local'[i] = local[j]
  <2>1. CASE user
    <3>1. remote' = {c \in remote : c.id # id} /\ local' = local
      BY <2>1 DEF Console!Delete, Console!DeleteStored
    <3> QED BY <3>1 DEF ConLocals, ConInv, ConStores
  <2>2. ASSUME NEW k \in DOMAIN local, local' = Console!RemoveAt(local, k), remote' = remote
        PROVE  ConLocals /\ \A i \in DOMAIN local' : \E j \in DOMAIN local : local'[i] = local[j]
    <3>1. local \in Seq(ConChat) /\ Len(local) <= ChatLimit /\ Len(local) \in Nat /\ k \in Nat
      BY DEF ConInv, ConStores
    <3>2. /\ local' \in Seq(ConChat) /\ Len(local') = Len(local) - 1
          /\ \A i \in DOMAIN local' : i \in Nat /\ local'[i] = local[IF i < k THEN i ELSE i + 1]
                                      /\ (IF i < k THEN i ELSE i + 1) \in DOMAIN local
      <4>1. local' \in Seq(ConChat) /\ ConWithout(local', local, k)
        BY <2>2, <3>1, ConRemoves
      <4> QED BY <4>1 DEF ConWithout
    <3>3. Len(local') <= ChatLimit
      BY <3>1, <3>2, ConAssumed
    <3>4. ASSUME NEW i \in DOMAIN local', NEW j \in DOMAIN local', local'[i].id = local'[j].id
          PROVE  i = j
      <4>1. (IF i < k THEN i ELSE i + 1) = (IF j < k THEN j ELSE j + 1)
        BY <3>2, <3>4 DEF ConInv, ConStores
      <4>2. i \in Nat /\ j \in Nat
        BY <3>2
      <4> QED BY <3>1, <4>1, <4>2
    <3> QED BY <3>2, <3>3, <3>4 DEF ConLocals
  <2>3. CASE ~user
    <3>1. remote' = remote /\ \E k \in DOMAIN local : local' = Console!RemoveAt(local, k)
      BY <2>3 DEF Console!Delete, Console!DeleteStored
    <3> QED BY <2>2, <3>1
  <2> QED BY <2>1, <2>3
<1>3. ConKept' \subseteq ConKept
  BY <1>2 DEF ConKept
<1>4. ConStores'
  <2>1. born \in Nat /\ remote' \subseteq ConChat /\ acked' \subseteq Console!Messages /\ excused' \subseteq Console!Messages
    BY <1>1, <1>2 DEF Console!Delete, Console!DeleteStored, ConInv, ConStores
  <2> QED BY <1>1, <1>2, <1>3, <2>1, ConStored
<1>5. CASE UNCHANGED <<turns, view, strayed>>
  BY <1>1, <1>3, <1>4, <1>5, ConKeepsPage
<1>6. CASE /\ turns' = IF view.streaming THEN Console!Aborted ELSE turns
           /\ view' = Console!Fresh /\ strayed' = (strayed \/ Console!Running # {})
  BY <1>1, <1>3, <1>4, <1>6, ConFresh, ConShows
<1> QED BY <1>5, <1>6 DEF Console!Delete
-----------------------------------------------------------------------------
(* The stores: sign-in and out, inserts and migrations.                    *)
LEMMA ConStoreStep ==
  ASSUME ConInv, calls' \in 0..MaxChartCalls, ConStores', ConSent', born' \in {born, born + 1},
         UNCHANGED <<view, turns, opening, strayed>>,
         ~strayed => /\ ConApart(turns, ConKept') /\ ConViewing(view, turns, ConKept')
                     /\ \A s \in saves' : ConSaving(s, turns, ConKept')
                     /\ \A i \in DOMAIN moves' : ConMoving(moves'[i], turns, ConKept')
  PROVE  ConInv'
<1>1. ConPage'
  <2>1. born \in Nat
    BY DEF ConInv, ConStores
  <2>2. view.chat \in 1..born' \cup {None} /\ opening \subseteq 1..born'
    BY <2>1 DEF ConInv, ConPage
  <2> QED BY <2>2 DEF ConInv, ConPage
<1>2. ASSUME ~strayed
      PROVE  ConThreads' /\ ConOneTurn'
  BY <1>2 DEF ConInv, ConThreads, ConOneTurn, Console!Running, Console!At
<1> QED BY <1>1, <1>2 DEF ConInv

LEMMA ConSigns ==
  ASSUME ConInv, Console!SignIn \/ Console!SignOut, UNCHANGED <<view, turns, opening, strayed>>
  PROVE  ConInv'
<1>1. /\ calls' \in 0..MaxChartCalls /\ UNCHANGED <<local, remote, born, saves, acked, excused>>
  BY ConCounts DEF Console!SignIn, Console!SignOut
<1>2. ConStores' /\ ConKept' = ConKept
  BY <1>1 DEF Console!SignIn, Console!SignOut, ConInv, ConStores, ConKept
<1> DEFINE n == IF Len(local) < MigrateLimit THEN Len(local) ELSE MigrateLimit
           mv == [rest |-> SubSeq(local, 1, n), into |-> None, left |-> {}]
<1>3. moves' = moves \/ (local # <<>> /\ moves' = Append(moves, mv))
  BY DEF Console!SignIn, Console!SignOut
<1>4. ASSUME local # <<>>
      PROVE  mv \in ConMove /\ mv.into = None /\ mv.left = {} /\ \A j \in DOMAIN mv.rest : mv.rest[j] \in ConKept
  <2>1. local \in Seq(ConChat) /\ Len(local) \in Nat /\ Len(local) # 0 /\ MigrateLimit \in Nat \ {0}
    BY <1>4, ConAssumed DEF ConInv, ConStores
  <2>2. n \in 1..Len(local) /\ n # 0 /\ n \in Nat
    BY <2>1
  <2> HIDE DEF n
  <2>3. /\ SubSeq(local, 1, n) \in Seq(ConChat) /\ Len(SubSeq(local, 1, n)) = n
        /\ \A j \in 1..n : SubSeq(local, 1, n)[j] = local[j]
    BY <2>1, <2>2
  <2>4. SubSeq(local, 1, n) # <<>> /\ DOMAIN SubSeq(local, 1, n) = 1..n /\ DOMAIN local = 1..Len(local)
    BY <2>1, <2>2, <2>3
  <2>5. \A j \in 1..n : j \in 1..Len(local)
    BY <2>1, <2>2
  <2>6. mv \in ConMove
    BY <2>3, <2>4 DEF ConMove
  <2> QED BY <2>3, <2>4, <2>5, <2>6 DEF ConKept
<1> HIDE DEF n, mv
<1>5. /\ moves' \in Seq(ConMove)
      /\ \A i \in DOMAIN moves' : (i \in DOMAIN moves /\ moves'[i] = moves[i]) \/ (local # <<>> /\ moves'[i] = mv)
  BY <1>3, <1>4 DEF ConInv, ConSent
<1>6. ConSent'
  BY <1>1, <1>4, <1>5 DEF ConInv, ConSent
<1>7. ASSUME ~strayed
      PROVE  /\ ConApart(turns, ConKept') /\ ConViewing(view, turns, ConKept')
             /\ \A s \in saves' : ConSaving(s, turns, ConKept')
             /\ \A i \in DOMAIN moves' : ConMoving(moves'[i], turns, ConKept')
  <2>1. ConThreads
    BY <1>7 DEF ConInv
  <2>2. ASSUME local # <<>>
        PROVE  ConMoving(mv, turns, ConKept)
    <3>1. \A k \in ConKept : k.id # None
      <4>1. \A k \in ConKept : k \in ConChat
        BY DEF ConInv, ConStores, ConKept
      <4> QED BY <4>1, ConAssumed DEF ConChat
    <3> QED BY <1>4, <2>1, <2>2, <3>1 DEF ConMoving, ConThreads, ConApart, ConOf
  <2> QED BY <1>1, <1>2, <1>5, <2>1, <2>2 DEF ConThreads
<1> QED BY <1>1, <1>2, <1>6, <1>7, ConStoreStep

(* A message reaches the rows of a chat.                                   *)
LEMMA ConLands ==
  ASSUME ConInv, NEW id, NEW m \in Console!Messages, NEW rows, rows = {Console!Added(k, id, m) : k \in remote}
  PROVE  rows \subseteq ConChat /\ \A k \in rows : \E l \in remote : l \in ConKept /\ ConGrown(k, l, id, m)
<1>1. \A l \in remote : l \in ConChat /\ l \in ConKept
  BY DEF ConInv, ConStores, ConKept
<1>2. \A l \in remote : ConGrown(Console!Added(l, id, m), l, id, m)
  BY <1>1, ConAdds
<1> QED BY <1>1, <1>2 DEF ConGrown

LEMMA ConLocalKept ==
  ASSUME ConInv, NEW id, NEW m
  PROVE  \A k \in ConKept : ConGrown(k, k, id, m)
BY DEF ConInv, ConStores, ConKept, ConGrown

LEMMA ConSaves ==
  ASSUME ConInv, NEW s \in saves, Console!SaveAnswers(s), UNCHANGED <<view, turns, opening, strayed>>
  PROVE  ConInv'
<1>1. calls' \in 0..MaxChartCalls /\ UNCHANGED <<local, born, user, migrated, moves, excused, raced>>
      /\ saves' = saves \ {s}
  BY ConCounts DEF Console!SaveAnswers
<1>2. s.msg \in Console!Messages /\ s \in ConSave
  BY DEF ConInv, ConSent, ConSave
<1>3. remote' \subseteq ConChat /\ \A k \in ConKept' : \E l \in ConKept : ConGrown(k, l, s.chat, s.msg)
  <2>1. CASE remote' = remote
    <3>1. ConKept' = ConKept /\ remote' \subseteq ConChat
      BY <1>1, <2>1 DEF ConKept, ConInv, ConStores
    <3> QED BY <3>1, ConLocalKept
  <2>2. CASE remote' = {Console!Added(k, s.chat, s.msg) : k \in remote}
    <3>1. remote' \subseteq ConChat /\ \A k \in remote' : \E l \in ConKept : ConGrown(k, l, s.chat, s.msg)
      <4> DEFINE rows == {Console!Added(k, s.chat, s.msg) : k \in remote}
      <4>1. rows \subseteq ConChat /\ \A k \in rows : \E l \in remote : l \in ConKept /\ ConGrown(k, l, s.chat, s.msg)
        BY <1>2, ConLands
      <4>2. remote' = rows
        BY <2>2
      <4> HIDE DEF rows
      <4> QED BY <4>1, <4>2
    <3>2. \A i \in DOMAIN local : local[i] \in ConKept
      BY DEF ConKept
    <3> QED BY <1>1, <3>1, <3>2, ConLocalKept DEF ConKept
  <2> QED BY <2>1, <2>2 DEF Console!SaveAnswers
<1>4. ConStores' /\ ConSent'
  <2>1. ConLocals
    BY <1>1 DEF ConLocals, ConInv, ConStores
  <2>2. \A k \in ConKept' : \E l \in ConKept : k.id = l.id
    BY <1>3 DEF ConGrown
  <2>3. acked' \subseteq Console!Messages /\ excused' \subseteq Console!Messages
    BY <1>1, <1>2 DEF Console!SaveAnswers, ConInv, ConStores
  <2>4. ConStores'
    BY <1>1, <1>3, <2>1, <2>2, <2>3, ConStored
  <2>5. ConSent'
    BY <1>1, ConSentOn
  <2> QED BY <2>4, <2>5
<1>5. ASSUME ~strayed
      PROVE  /\ ConApart(turns, ConKept') /\ ConViewing(view, turns, ConKept')
             /\ \A x \in saves' : ConSaving(x, turns, ConKept')
             /\ \A i \in DOMAIN moves' : ConMoving(moves'[i], turns, ConKept')
  <2> DEFINE topic == turns[Console!TurnOf(s.msg)].topic
  <2>1. ConThreads
    BY <1>5 DEF ConInv
  <2>2. ConOf(turns', {s.msg}, topic) /\ \A l \in ConKept : l.id = s.chat => l.topic = topic
    BY <2>1 DEF ConThreads, ConSaving, ConOf
  <2> HIDE DEF topic
  <2>3. ConStays(s.chat, s.msg, topic)
    BY <1>3, <2>2 DEF ConStays, ConTold
  <2>4. /\ ConApart(turns', ConKept') /\ ConViewing(view, turns', ConKept')
        /\ \A x \in saves : ConSaving(x, turns', ConKept')
        /\ \A i \in DOMAIN moves : ConMoving(moves[i], turns', ConKept')
    BY <2>1, <2>3, ConHolds
  <2> QED BY <1>1, <2>4
<1> QED BY <1>1, <1>4, <1>5, ConStoreStep

(* One answer of a migration, and what the code does up to its next        *)
(* request: it goes on, or ends and clears localStorage.                   *)
ConNext(mv) == [rest |-> Tail(mv.rest), into |-> None, left |-> {}]

LEMMA ConMovesOn ==
  ASSUME ConInv, NEW i \in DOMAIN moves, NEW mv \in ConMove, Console!Onward(i, mv)
  PROVE  /\ \/ local' = local /\ UNCHANGED <<migrated, excused>>
            \/ local' = <<>> /\ migrated' = TRUE /\ excused' \subseteq Console!Messages
         /\ moves' \in Seq(ConMove)
         /\ \A j \in DOMAIN moves' :
              \/ \E l \in DOMAIN moves : moves'[j] = moves[l]
              \/ moves'[j] = mv
              \/ moves'[j] = ConNext(mv) /\ mv.rest[2] = moves'[j].rest[1]
                 /\ \A l \in DOMAIN moves'[j].rest : l + 1 \in DOMAIN mv.rest /\ moves'[j].rest[l] = mv.rest[l + 1]
<1>1. moves \in Seq(ConMove) /\ mv.rest \in Seq(ConChat) /\ mv.rest # <<>> /\ DOMAIN moves = 1..Len(moves)
      /\ Len(moves) \in Nat
  BY DEF ConInv, ConSent, ConMove
<1>2. CASE ~user \/ (mv.left = {} /\ Len(mv.rest) = 1)
  <2>1. Console!ClearLocal /\ moves' = Console!RemoveAt(moves, i)
    BY <1>2 DEF Console!Onward
  <2>2. moves' \in Seq(ConMove) /\ ConWithout(moves', moves, i)
    BY <1>1, <2>1, ConRemoves
  <2>3. \A j \in DOMAIN moves' : \E l \in DOMAIN moves : moves'[j] = moves[l]
    BY <2>2 DEF ConWithout
  <2>4. excused' \subseteq Console!Messages
    <3>1. \A k \in DOMAIN local : local[k].msgs \subseteq Console!Messages
      <4>1. \A k \in DOMAIN local : local[k] \in ConChat
        BY DEF ConInv, ConStores
      <4> QED BY <4>1 DEF ConChat
    <3>2. \A all \in SUBSET {local[k] : k \in DOMAIN local} : Console!MessagesOf(all) \subseteq Console!Messages
      BY <3>1 DEF Console!MessagesOf
    <3> QED BY <2>1, <3>2 DEF Console!ClearLocal, Console!ToSet, ConInv, ConStores
  <2> QED BY <2>1, <2>2, <2>3, <2>4 DEF Console!ClearLocal
<1>3. CASE ~(~user \/ (mv.left = {} /\ Len(mv.rest) = 1)) /\ mv.left # {}
  <2>1. moves' = [moves EXCEPT ![i] = mv] /\ UNCHANGED <<local, migrated, excused>>
    BY <1>3 DEF Console!Onward
  <2> QED BY <1>1, <2>1
<1>4. CASE ~(~user \/ (mv.left = {} /\ Len(mv.rest) = 1)) /\ mv.left = {}
  <2>1. moves' = [moves EXCEPT ![i] = ConNext(mv)] /\ UNCHANGED <<local, migrated, excused>>
    BY <1>4 DEF Console!Onward, ConNext
  <2>2. Len(mv.rest) \in Nat /\ Len(mv.rest) >= 2 /\ DOMAIN mv.rest = 1..Len(mv.rest)
    <3>1. Len(mv.rest) \in Nat /\ Len(mv.rest) # 0 /\ DOMAIN mv.rest = 1..Len(mv.rest)
      BY <1>1
    <3>2. Len(mv.rest) # 1
      BY <1>4
    <3>3. \A n \in Nat : n # 0 /\ n # 1 => n >= 2
      OBVIOUS
    <3> QED BY ONLY <3>1, <3>2, <3>3
  <2> DEFINE tail == Tail(mv.rest)
  <2>3. tail \in Seq(ConChat) /\ Len(tail) = Len(mv.rest) - 1 /\ \A l \in 1..Len(tail) : tail[l] = mv.rest[l + 1]
    BY <1>1, <2>2
  <2>4. ConNext(mv).rest = tail /\ ConNext(mv).into = None /\ ConNext(mv).left = {}
    BY DEF ConNext
  <2> HIDE DEF tail
  <2>5. tail # <<>> /\ DOMAIN tail = 1..Len(tail) /\ 1 \in 1..Len(tail) /\ \A l \in 1..Len(tail) : l + 1 \in 1..Len(mv.rest)
    BY <2>2, <2>3
  <2>6. ConNext(mv) \in ConMove
    BY <2>3, <2>4, <2>5 DEF ConMove, ConNext
  <2>7. tail[1] = mv.rest[2]
    BY <2>3, <2>5
  <2>8. /\ moves' \in Seq(ConMove)
        /\ \A j \in DOMAIN moves' : (j \in DOMAIN moves /\ moves'[j] = moves[j]) \/ moves'[j] = ConNext(mv)
    BY <1>1, <2>1, <2>6
  <2>9. /\ mv.rest[2] = ConNext(mv).rest[1]
        /\ \A l \in DOMAIN ConNext(mv).rest : l + 1 \in DOMAIN mv.rest /\ ConNext(mv).rest[l] = mv.rest[l + 1]
    BY <2>2, <2>3, <2>4, <2>5, <2>7
  <2> QED BY <2>1, <2>8, <2>9
<1> QED BY <1>2, <1>3, <1>4

LEMMA ConMoved ==
  ASSUME ConInv, NEW i \in DOMAIN moves, NEW mv \in ConMove, Console!Onward(i, mv),
         UNCHANGED <<user, saves, acked, raced, calls, view, turns, opening, strayed>>,
         born' \in {born, born + 1}, mv.into \in 1..born', remote' \subseteq ConChat,
         \A k \in remote' : k.id = born' \/ \E l \in ConKept : k.id = l.id,
         NEW both, {local[j] : j \in DOMAIN local} \cup remote' \subseteq both,
         ~strayed => /\ ConApart(turns, both) /\ ConViewing(view, turns, both)
                     /\ \A s \in saves : ConSaving(s, turns, both)
                     /\ \A j \in DOMAIN moves : ConMoving(moves[j], turns, both)
                     /\ ConMoving(mv, turns, both)
  PROVE  ConInv'
<1>1. /\ \/ local' = local /\ UNCHANGED <<migrated, excused>>
         \/ local' = <<>> /\ migrated' = TRUE /\ excused' \subseteq Console!Messages
      /\ moves' \in Seq(ConMove)
      /\ \A j \in DOMAIN moves' :
           \/ \E l \in DOMAIN moves : moves'[j] = moves[l]
           \/ moves'[j] = mv
           \/ moves'[j] = ConNext(mv) /\ mv.rest[2] = moves'[j].rest[1]
              /\ \A l \in DOMAIN moves'[j].rest : l + 1 \in DOMAIN mv.rest /\ moves'[j].rest[l] = mv.rest[l + 1]
  BY ConMovesOn
<1>2. born \in Nat /\ born' \in Nat /\ born <= born'
  BY DEF ConInv, ConStores
<1>3. ConKept' \subseteq both /\ \A k \in ConKept' : k.id = born' \/ \E l \in ConKept : k.id = l.id
  BY <1>1 DEF ConKept
<1>4. ConStores'
  <2>1. /\ local' \in Seq(ConChat) /\ Len(local') <= ChatLimit
        /\ \A j, l \in DOMAIN local' : local'[j].id = local'[l].id => j = l
    <3>1. CASE local' = local
      BY <3>1 DEF ConInv, ConStores
    <3>2. CASE local' = <<>>
      <4>1. local' \in Seq(ConChat) /\ Len(local') = 0 /\ DOMAIN local' = {}
        BY <3>2
      <4> QED BY <4>1, ConAssumed
    <3> QED BY <1>1, <3>1, <3>2
  <2>2. \A k \in ConKept' : k.id <= born'
    <3>1. \A k \in ConKept : k.id \in Nat /\ k.id <= born
      <4>1. \A k \in ConKept : k \in ConChat /\ k.id <= born
        BY DEF ConInv, ConStores, ConKept
      <4> QED BY <4>1 DEF ConChat
    <3> QED BY <1>2, <1>3, <3>1
  <2> QED BY <1>1, <1>2, <2>1, <2>2 DEF ConInv, ConStores
<1>5. ConSent'
  <2>1. \A j \in DOMAIN moves' : moves'[j].into \in 1..born' \cup {None}
    <3>1. \A l \in DOMAIN moves : moves[l].into \in 1..born' \cup {None}
      BY <1>2 DEF ConInv, ConSent
    <3>2. ConNext(mv).into = None
      BY DEF ConNext
    <3> QED BY <1>1, <3>1, <3>2
  <2>2. \A s \in saves : s \in ConSave /\ s.chat <= born'
    <3>1. \A s \in saves : s \in ConSave /\ s.chat <= born /\ s.chat \in Nat
      BY DEF ConInv, ConSent, ConSave
    <3> QED BY <1>2, <3>1
  <2> QED BY <1>1, <2>1, <2>2 DEF ConSent
<1>6. calls' \in 0..MaxChartCalls
  BY DEF ConInv
<1>7. ASSUME ~strayed
      PROVE  /\ ConApart(turns, ConKept') /\ ConViewing(view, turns, ConKept')
             /\ \A s \in saves' : ConSaving(s, turns, ConKept')
             /\ \A j \in DOMAIN moves' : ConMoving(moves'[j], turns, ConKept')
  <2>1. /\ ConApart(turns, both) /\ ConViewing(view, turns, both)
        /\ \A s \in saves : ConSaving(s, turns, both)
        /\ \A j \in DOMAIN moves : ConMoving(moves[j], turns, both)
        /\ ConMoving(mv, turns, both)
    BY <1>7
  <2>2. ConApart(turns, ConKept') /\ ConViewing(view, turns, ConKept') /\ \A s \in saves : ConSaving(s, turns, ConKept')
    BY <1>3, <2>1 DEF ConApart, ConViewing, ConSaving
  <2>3. \A k \in ConKept' : k.id # None
    <3>1. \A k \in ConKept' : k \in ConChat
      BY <1>4 DEF ConStores, ConKept
    <3> QED BY <3>1, ConAssumed DEF ConChat
  <2>4. \A j \in DOMAIN moves : ConMoving(moves[j], turns, ConKept')
    BY <1>3, <2>1 DEF ConMoving
  <2>5. ConMoving(mv, turns, ConKept')
    BY <1>3, <2>1 DEF ConMoving
  <2>6. ASSUME NEW next, next = ConNext(mv), \A l \in DOMAIN next.rest : l + 1 \in DOMAIN mv.rest /\ next.rest[l] = mv.rest[l + 1]
        PROVE  ConMoving(next, turns, ConKept')
    <3>1. next.into = None /\ next.left = {}
      BY <2>6 DEF ConNext
    <3>2. \A j \in DOMAIN next.rest : ConOf(turns, next.rest[j].msgs, next.rest[j].topic)
      BY <2>5, <2>6 DEF ConMoving
    <3> QED BY <2>3, <3>1, <3>2 DEF ConMoving, ConOf
  <2>7. \A j \in DOMAIN moves' : ConMoving(moves'[j], turns, ConKept')
    BY <1>1, <2>4, <2>5, <2>6
  <2> QED BY <2>2, <2>7
<1> QED BY <1>4, <1>5, <1>6, <1>7, ConStoreStep

LEMMA ConMoveOf ==
  ASSUME ConInv, NEW i \in DOMAIN moves
  PROVE  /\ moves[i] \in ConMove /\ moves[i].into \in 1..born \cup {None}
         /\ moves[i].rest \in Seq(ConChat) /\ 1 \in DOMAIN moves[i].rest /\ moves[i].rest[1] \in ConChat
         /\ moves[i].left \subseteq Console!Messages
<1>1. moves[i] \in ConMove /\ moves[i].into \in 1..born \cup {None}
  BY DEF ConInv, ConSent
<1>2. moves[i].rest \in Seq(ConChat) /\ moves[i].rest # <<>> /\ moves[i].left \subseteq Console!Messages
  BY <1>1 DEF ConMove
<1>3. 1 \in DOMAIN moves[i].rest
  BY <1>2
<1> QED BY <1>1, <1>2, <1>3

LEMMA ConMoveCreates ==
  ASSUME ConInv, NEW i \in DOMAIN moves, Console!MoveCreates(i), UNCHANGED <<view, turns, opening, strayed>>
  PROVE  ConInv'
<1> DEFINE first == moves[i].rest[1]
           new == [id |-> born', topic |-> first.topic, msgs |-> {}]
           mv == [moves[i] EXCEPT !.into = born', !.left = first.msgs]
           both == ConKept \cup {new}
<1>1. /\ moves[i] \in ConMove /\ first \in ConChat /\ 1 \in DOMAIN moves[i].rest
      /\ moves[i].rest \in Seq(ConChat)
  BY ConMoveOf
<1>2. born \in Nat /\ born' = born + 1 /\ born' \in Nat \ {0} /\ born' \in 1..born'
  BY DEF ConInv, ConStores, Console!MoveCreates
<1>3. first.topic \in Nat \ {0} /\ first.msgs \subseteq Console!Messages
  BY <1>1 DEF ConChat
<1>4. new \in ConChat /\ new.id = born' /\ new.topic = first.topic /\ new.msgs = {}
  BY <1>2, <1>3 DEF ConChat
<1>5. mv \in ConMove /\ mv.into = born' /\ mv.left = first.msgs /\ mv.rest = moves[i].rest
  BY <1>1, <1>2, <1>3 DEF ConMove
<1>6. /\ remote' = remote \cup {new} /\ Console!Onward(i, mv)
      /\ UNCHANGED <<user, saves, acked, raced, calls, view, turns, opening, strayed>>
  BY DEF Console!MoveCreates
<1> HIDE DEF new, mv, first
<1>7. remote' \subseteq ConChat /\ {local[j] : j \in DOMAIN local} \cup remote' \subseteq both
      /\ \A k \in remote' : k.id = born' \/ \E l \in ConKept : k.id = l.id
  BY <1>4, <1>6 DEF ConInv, ConStores, ConKept
<1>8. ASSUME ~strayed
      PROVE  /\ ConApart(turns, both) /\ ConViewing(view, turns, both)
             /\ \A s \in saves : ConSaving(s, turns, both)
             /\ \A j \in DOMAIN moves : ConMoving(moves[j], turns, both)
             /\ ConMoving(mv, turns, both)
  <2>1. ConThreads
    BY <1>8 DEF ConInv
  <2>2. \A k \in both : ConFrom(k, turns, first.topic)
    BY <1>2, <1>4 DEF ConFrom, ConOf
  <2>3. ConTold(turns)
    BY DEF ConTold
  <2> HIDE DEF both
  <2>4. /\ ConApart(turns, both) /\ ConViewing(view, turns, both)
        /\ \A s \in saves : ConSaving(s, turns, both)
        /\ \A j \in DOMAIN moves : ConMoving(moves[j], turns, both)
    BY <2>1, <2>2, <2>3, ConGrows
  <2>5. \A k \in both : k.id = born' => k.topic = first.topic
    <3>1. \A k \in ConKept : k.id \in Nat /\ k.id <= born
      <4>1. \A k \in ConKept : k \in ConChat /\ k.id <= born
        BY DEF ConInv, ConStores, ConKept
      <4> QED BY <4>1 DEF ConChat
    <3> QED BY <1>2, <1>4, <3>1 DEF both
  <2>6. ConMoving(mv, turns, both)
    BY <1>1, <1>5, <2>4, <2>5 DEF ConMoving, first
  <2> QED BY <2>4, <2>6
<1> HIDE DEF both
<1> QED BY <1>2, <1>5, <1>6, <1>7, <1>8, ConMoved

LEMMA ConMoveCopies ==
  ASSUME ConInv, NEW i \in DOMAIN moves, Console!MoveCopies(i), UNCHANGED <<view, turns, opening, strayed>>
  PROVE  ConInv'
<1> SUFFICES ASSUME NEW m \in moves[i].left,
                    remote' = {Console!Added(k, moves[i].into, m) : k \in remote},
                    Console!Onward(i, [moves[i] EXCEPT !.left = @ \ {m}])
             PROVE  ConInv'
  BY DEF Console!MoveCopies
<1> DEFINE id == moves[i].into
           mv == [moves[i] EXCEPT !.left = @ \ {m}]
           both == {local[j] : j \in DOMAIN local} \cup remote'
<1>1. /\ moves[i] \in ConMove /\ 1 \in DOMAIN moves[i].rest /\ moves[i].left \subseteq Console!Messages
      /\ id \in 1..born \cup {None} /\ id # None /\ m \in Console!Messages
  BY ConMoveOf DEF Console!MoveCopies
<1>2. born \in Nat /\ born' = born
  BY DEF ConInv, ConStores, Console!MoveCopies
<1>3. mv \in ConMove /\ mv.into = id /\ mv.left = moves[i].left \ {m} /\ mv.rest = moves[i].rest
  BY <1>1 DEF ConMove
<1>4. /\ Console!Onward(i, mv)
      /\ UNCHANGED <<user, saves, acked, raced, calls, view, turns, opening, strayed>>
  BY DEF Console!MoveCopies
<1>5. remote' \subseteq ConChat /\ \A k \in remote' : \E l \in remote : l \in ConKept /\ ConGrown(k, l, id, m)
  <2> DEFINE rows == {Console!Added(k, id, m) : k \in remote}
  <2>1. rows \subseteq ConChat /\ \A k \in rows : \E l \in remote : l \in ConKept /\ ConGrown(k, l, id, m)
    BY <1>1, ConLands
  <2>2. remote' = rows
    OBVIOUS
  <2> HIDE DEF rows
  <2> QED BY <2>1, <2>2
<1> HIDE DEF mv, id
<1>6. \A k \in both : \E l \in ConKept : ConGrown(k, l, id, m)
  <2>1. \A j \in DOMAIN local : local[j] \in ConKept
    BY DEF ConKept
  <2> QED BY <1>5, <2>1, ConLocalKept
<1>7. ASSUME ~strayed
      PROVE  /\ ConApart(turns, both) /\ ConViewing(view, turns, both)
             /\ \A s \in saves : ConSaving(s, turns, both)
             /\ \A j \in DOMAIN moves : ConMoving(moves[j], turns, both)
             /\ ConMoving(mv, turns, both)
  <2> DEFINE topic == moves[i].rest[1].topic
  <2>1. ConThreads
    BY <1>7 DEF ConInv
  <2>2. ConOf(turns, {m}, topic) /\ \A l \in ConKept : l.id = id => l.topic = topic
    BY <2>1 DEF ConThreads, ConMoving, ConOf, id
  <2> HIDE DEF topic
  <2>3. ASSUME NEW k \in both
        PROVE  ConFrom(k, turns, topic)
    <3>1. PICK l \in ConKept : ConGrown(k, l, id, m)
      BY <1>6
    <3>2. \A n \in k.msgs : n \in l.msgs \/ ConOf(turns, {n}, l.topic)
      BY <2>2, <3>1 DEF ConGrown
    <3> QED BY <3>1, <3>2 DEF ConFrom, ConGrown
  <2>4. ConTold(turns)
    BY DEF ConTold
  <2> HIDE DEF both
  <2>5. /\ ConApart(turns, both) /\ ConViewing(view, turns, both)
        /\ \A s \in saves : ConSaving(s, turns, both)
        /\ \A j \in DOMAIN moves : ConMoving(moves[j], turns, both)
    BY <2>1, <2>3, <2>4, ConGrows
  <2>6. ConMoving(mv, turns, both)
    BY <1>3, <2>5 DEF ConMoving, ConOf, id
  <2> QED BY <2>5, <2>6
<1>8. \A k \in remote' : k.id = born' \/ \E l \in ConKept : k.id = l.id
  BY <1>5 DEF ConGrown
<1>9. {local[j] : j \in DOMAIN local} \cup remote' \subseteq both /\ mv.into \in 1..born' /\ born' \in {born, born + 1}
  BY <1>1, <1>2, <1>3
<1> HIDE DEF both
<1> QED BY <1>3, <1>4, <1>5, <1>7, <1>8, <1>9, ConMoved

LEMMA ConMoveFails ==
  ASSUME ConInv, NEW i \in DOMAIN moves, Console!MoveFails(i), UNCHANGED <<view, turns, opening, strayed>>
  PROVE  ConInv'
<1>1. calls' \in 0..MaxChartCalls /\ UNCHANGED <<local, remote, born, user, migrated, saves, acked, excused, raced>>
  BY ConCounts DEF Console!MoveFails
<1>2. moves \in Seq(ConMove) /\ moves' = Console!RemoveAt(moves, i)
  BY DEF ConInv, ConSent, Console!MoveFails
<1>3. moves' \in Seq(ConMove) /\ ConWithout(moves', moves, i)
  BY <1>2, ConRemoves
<1>4. \A j \in DOMAIN moves' : \E l \in DOMAIN moves : moves'[j] = moves[l]
  BY <1>3 DEF ConWithout
<1>5. ConStores' /\ ConSent' /\ ConKept' = ConKept
  BY <1>1, <1>3, <1>4 DEF ConInv, ConStores, ConSent, ConKept
<1>6. ~strayed => /\ ConApart(turns, ConKept') /\ ConViewing(view, turns, ConKept')
                  /\ \A s \in saves' : ConSaving(s, turns, ConKept')
                  /\ \A j \in DOMAIN moves' : ConMoving(moves'[j], turns, ConKept')
  BY <1>1, <1>4, <1>5 DEF ConInv, ConThreads
<1> QED BY <1>1, <1>5, <1>6, ConStoreStep

LEMMA ConStep ==
  ASSUME ConInv, [Console!Next]_(Console!vars)
  PROVE  ConInv'
<1>1. CASE UNCHANGED Console!vars
  BY <1>1, ConTurnOnly DEF Console!vars, Console!stored, ConInv, ConPage
<1>2. CASE Console!StoreStep /\ UNCHANGED <<view, turns, opening, strayed>>
  BY <1>2, ConSigns, ConSaves, ConMoveCreates, ConMoveCopies, ConMoveFails DEF Console!StoreStep
<1>3. ASSUME NEW t \in Console!Turns, Console!Send(t) \/ Console!Created(t) \/ Console!Hear(t) \/ Console!End(t)
      PROVE  ConInv'
  <2>1. CASE Console!Created(t)
    BY <2>1, ConCreates, ConCreatesNot DEF Console!Created
  <2> QED BY <1>3, <2>1, ConAsks, ConHears, ConEnds
<1>4. CASE Console!Stop \/ Console!StartNewChat
  BY <1>4, ConStops, ConStartsNew
<1>5. ASSUME NEW id \in 1..born, Console!OpenChat(id) \/ Console!Loaded(id) \/ Console!LoadFails(id) \/ Console!Delete(id)
      PROVE  ConInv'
  BY <1>5, ConOpens, ConDeletes
<1> QED BY <1>1, <1>2, <1>3, <1>4, <1>5 DEF Console!Next

LEMMA ConPromised ==
  ConInv /\ unwritten \subseteq Console!Messages => Console!TypeOK /\ Console!StopReaches /\ Console!ThreadsUnmixed
<1> SUFFICES ASSUME ConInv, unwritten \subseteq Console!Messages
             PROVE  Console!TypeOK /\ Console!StopReaches /\ Console!ThreadsUnmixed
  OBVIOUS
<1>1. Console!StopReaches
  BY DEF ConInv, ConOneTurn, Console!StopReaches
<1>2. Console!ThreadsUnmixed
  BY DEF ConInv, ConThreads, ConApart, ConViewing, ConOf, ConKept, Console!ThreadsUnmixed, Console!ToSet
<1>3. Console!StoreTypeOK
  <2>1. ConChat \subseteq Console!Chat
    BY DEF ConChat, Console!Chat
  <2>2. local \in Seq(Console!Chat) /\ Len(local) <= ChatLimit /\ remote \subseteq Console!Chat
    BY <2>1 DEF ConInv, ConStores
  <2>3. \A i \in DOMAIN moves : /\ moves[i].rest \in Seq(Console!Chat) /\ moves[i].rest # <<>>
                                /\ moves[i].left \subseteq Console!Messages
    <3>1. \A i \in DOMAIN moves : moves[i] \in ConMove
      BY DEF ConInv, ConSent
    <3> QED BY <2>1, <3>1 DEF ConMove
  <2>4. \A s \in saves : s.msg \in Console!Messages
    BY DEF ConInv, ConSent, ConSave
  <2>5. \A k \in Console!ToSet(local) \cup remote : k.id <= born
    BY DEF ConInv, ConStores, ConKept, Console!ToSet
  <2> QED BY <2>2, <2>3, <2>4, <2>5 DEF ConInv, ConStores, Console!StoreTypeOK
<1>4. Console!TypeOK
  BY <1>3 DEF ConInv, ConPage, ConView, ConTurn, Console!TypeOK
<1> QED BY <1>1, <1>2, <1>4

-----------------------------------------------------------------------------
(* What a migration under way has still to copy.                           *)
ConRest(mv) ==
  {m \in Console!Messages : \/ mv.into # None /\ m \in mv.left
                            \/ \E j \in DOMAIN mv.rest : (j > 1 \/ mv.into = None) /\ m \in mv.rest[j].msgs}

(* Every acknowledged message is stored or was excused; while no race has  *)
(* been, there is one migration, of a visitor who is signed in, and of the *)
(* chats it copies each acknowledged message is copied or to be copied.    *)
ConCopied(chats, rows, mv) ==
  \A k \in DOMAIN chats : k <= MigrateLimit =>
    \A m \in chats[k].msgs : m \in acked => m \in Console!MessagesOf(rows) \/ m \in ConRest(mv)

ConRemembers ==
  /\ Console!ConversationsKept /\ unwritten \subseteq Console!Messages
  /\ ~raced /\ moves # <<>> => /\ user /\ Len(moves) = 1
                               /\ ConCopied(local, remote, moves[1])

LEMMA ConRemembersStart ==
  ASSUME Console!Init
  PROVE  ConRemembers
BY DEF Console!Init, Console!StoreInit, ConRemembers, Console!ConversationsKept

(* What is stored is what some chat holds.                                 *)
LEMMA ConStoredAre ==
  ASSUME NEW m
  PROVE  m \in Console!Stored <=> \E k \in ConKept : m \in k.msgs
BY DEF Console!Stored, Console!MessagesOf, Console!ToSet, ConKept

(* A step that only adds, with the migration as it was.                    *)
LEMMA ConAddsOnly ==
  ASSUME ConInv, ConRemembers, UNCHANGED <<moves, raced>>, moves # <<>> => UNCHANGED user,
         \A k \in ConKept : (\E l \in ConKept' : k.msgs \subseteq l.msgs) \/ k.msgs \subseteq excused',
         excused \subseteq excused', unwritten \subseteq unwritten', unwritten' \subseteq Console!Messages,
         \A n \in acked' : n \in acked \/ n \in unwritten' \/ \E l \in ConKept' : n \in l.msgs,
         ~raced /\ moves # <<>> => /\ UNCHANGED local
                                   /\ Console!MessagesOf(remote) \subseteq Console!MessagesOf(remote')
                                   /\ \A n \in acked' : n \in acked \/ n \in Console!MessagesOf(remote')
  PROVE  ConRemembers'
<1>1. \A n \in acked' : n \in Console!Stored' \/ n \in excused' \/ n \in unwritten'
  <2>1. \A n : (\E l \in ConKept' : n \in l.msgs) => n \in Console!Stored'
    BY DEF Console!Stored, Console!MessagesOf, Console!ToSet, ConKept
  <2>2. \A n \in acked : (\E k \in ConKept : n \in k.msgs) \/ n \in excused \/ n \in unwritten
    BY ConStoredAre DEF ConRemembers, Console!ConversationsKept
  <2> QED BY <2>1, <2>2
<1>2. ASSUME ~raced, moves # <<>>
      PROVE  user' /\ Len(moves') = 1 /\ ConCopied(local, remote, moves[1])'
  BY <1>2 DEF ConRemembers, ConCopied
<1> QED BY <1>1, <1>2 DEF ConRemembers, Console!ConversationsKept

LEMMA ConPersistKeeps ==
  ASSUME ConInv, NEW chats \in Seq(ConChat), NEW id \in Nat \cup {None}, NEW m \in Console!Messages,
         Console!Persist(chats, id, m)
  PROVE  /\ \A i \in DOMAIN chats : i \in DOMAIN local' /\ chats[i].msgs \subseteq local'[i].msgs
         /\ ConReported(m)
         /\ user => local' = chats /\ acked' = acked
<1>1. ConPersisted(chats, id, m)
  BY ConPersists
<1>2. DOMAIN local' = DOMAIN chats
  <2>1. local' \in Seq(ConChat) /\ Len(local') = Len(chats)
    BY <1>1 DEF ConPersisted
  <2> QED BY <2>1
<1> QED BY <1>1, <1>2 DEF ConPersisted, ConGrown, Console!Persist, Console!Append1

(* A message both in the browser or sent.                                  *)
LEMMA ConPersistRemembers ==
  ASSUME ConInv, ConRemembers, NEW id \in Nat \cup {None}, NEW m \in Console!Messages, Console!Persist(local, id, m),
         UNCHANGED <<moves, raced, user, excused>>, remote \subseteq remote'
  PROVE  ConRemembers'
<1>1. local \in Seq(ConChat)
  BY DEF ConInv, ConStores
<1>2. /\ \A i \in DOMAIN local : i \in DOMAIN local' /\ local[i].msgs \subseteq local'[i].msgs
      /\ ConReported(m)
      /\ user => local' = local /\ acked' = acked
  BY <1>1, ConPersistKeeps
<1>3. \A k \in ConKept : \E l \in ConKept' : k.msgs \subseteq l.msgs
  BY <1>2 DEF ConKept
<1>4. /\ \A n \in acked' : n \in acked \/ n \in unwritten' \/ \E l \in ConKept' : n \in l.msgs
      /\ unwritten \subseteq unwritten' /\ unwritten' \subseteq Console!Messages
  BY <1>2 DEF ConKept, ConReported, ConRemembers
<1>5. ~raced /\ moves # <<>> => user
  BY DEF ConRemembers
<1>6. Console!MessagesOf(remote) \subseteq Console!MessagesOf(remote')
  BY DEF Console!MessagesOf
<1> QED BY <1>2, <1>3, <1>4, <1>5, <1>6, ConAddsOnly

LEMMA ConSameRemembers ==
  ASSUME ConRemembers, UNCHANGED <<local, remote, moves, raced, user, acked, excused, unwritten>>
  PROVE  ConRemembers'
BY DEF ConRemembers, Console!ConversationsKept, Console!Stored, ConCopied

LEMMA ConTurnRemembers ==
  ASSUME ConInv, ConRemembers, NEW t \in Console!Turns, Console!Send(t) \/ Console!Created(t) \/ Console!End(t)
  PROVE  ConRemembers'
<1>1. /\ Console!Question(t) \in Console!Messages /\ Console!Answer(t) \in Console!Messages
      /\ view.chat \in Nat \cup {None} /\ born \in Nat /\ born + 1 \in Nat
  BY ConMessages DEF ConInv, ConPage, ConView, ConStores
<1>2. CASE UNCHANGED <<local, remote, moves, raced, user, acked, excused, unwritten>>
  BY <1>2, ConSameRemembers
<1>3. ASSUME NEW id \in Nat \cup {None}, NEW m \in Console!Messages, Console!Persist(local, id, m),
             UNCHANGED <<moves, raced, user, excused>>, remote \subseteq remote'
      PROVE  ConRemembers'
  BY <1>3, ConPersistRemembers
<1>4. ASSUME NEW topic, topic = IF view.topic = 0 THEN t ELSE view.topic, ~user, born' = born + 1,
             Console!Persist(Console!Unshift([id |-> born', topic |-> topic, msgs |-> {}]), born', Console!Question(t)),
             excused' = excused \cup Console!MessagesOf(Console!FallenOff),
             UNCHANGED <<remote, user, moves, raced>>
      PROVE  ConRemembers'
  <2> DEFINE new == [id |-> born', topic |-> topic, msgs |-> {}]
             chats == Console!Unshift(new)
  <2>1. topic \in Nat \ {0}
    BY <1>4, ConMessages DEF ConInv, ConPage, ConView
  <2>2. new \in ConChat
    BY <1>1, <1>4, <2>1 DEF ConChat
  <2> HIDE DEF new
  <2>3. /\ chats \in Seq(ConChat)
        /\ \A i \in DOMAIN local : local[i] \in Console!FallenOff \/ (i + 1 \in DOMAIN chats /\ chats[i + 1] = local[i])
    BY <2>2, ConUnshifts
  <2>4. Console!Persist(chats, born', Console!Question(t)) /\ born' \in Nat \cup {None}
    BY <1>1, <1>4 DEF new
  <2> HIDE DEF chats
  <2>5. /\ \A i \in DOMAIN chats : i \in DOMAIN local' /\ chats[i].msgs \subseteq local'[i].msgs
        /\ ConReported(Console!Question(t))
    BY <1>1, <2>3, <2>4, ConPersistKeeps
  <2>6. \A i \in DOMAIN local : \/ \E j \in DOMAIN local' : local[i].msgs \subseteq local'[j].msgs
                                \/ local[i].msgs \subseteq excused'
    BY <1>4, <2>3, <2>5 DEF Console!MessagesOf
  <2>7. \A k \in ConKept : (\E l \in ConKept' : k.msgs \subseteq l.msgs) \/ k.msgs \subseteq excused'
    BY <1>4, <2>6 DEF ConKept
  <2>8. /\ \A n \in acked' : n \in acked \/ n \in unwritten' \/ \E l \in ConKept' : n \in l.msgs
        /\ unwritten \subseteq unwritten' /\ unwritten' \subseteq Console!Messages
    BY <1>1, <2>5 DEF ConKept, ConReported, ConRemembers
  <2>9. ~(~raced /\ moves # <<>>) /\ excused \subseteq excused'
    BY <1>4 DEF ConRemembers
  <2> QED BY <1>4, <2>7, <2>8, <2>9, ConAddsOnly
<1>5. CASE Console!Send(t)
  BY <1>1, <1>2, <1>3, <1>4, <1>5 DEF Console!Send
<1>6. CASE Console!Created(t)
  <2>1. CASE Console!Persist(local, born', Console!Question(t)) /\ born' = born + 1
             /\ remote' = remote \cup {[id |-> born', topic |-> turns[t].topic, msgs |-> {}]}
    BY <1>1, <1>3, <1>6, <2>1 DEF Console!Created
  <2> QED BY <1>2, <1>6, <2>1 DEF Console!Created
<1>7. CASE Console!End(t)
  BY <1>1, <1>2, <1>3, <1>7 DEF Console!End
<1> QED BY <1>5, <1>6, <1>7

LEMMA ConSaveRemembers ==
  ASSUME ConInv, ConRemembers, NEW s \in saves, Console!SaveAnswers(s)
  PROVE  ConRemembers'
<1>1. /\ UNCHANGED <<local, user, moves, excused, unwritten, raced>> /\ s.msg \in Console!Messages
      /\ remote' \in {remote, {Console!Added(k, s.chat, s.msg) : k \in remote}}
      /\ acked' = acked \/ (acked' = acked \cup {s.msg} /\ Console!In(remote, s.chat)
                            /\ remote' = {Console!Added(k, s.chat, s.msg) : k \in remote})
  BY DEF Console!SaveAnswers, ConInv, ConSent, ConSave
<1>2. \A k \in remote : /\ k.msgs \subseteq Console!Added(k, s.chat, s.msg).msgs
                        /\ k.id = s.chat => s.msg \in Console!Added(k, s.chat, s.msg).msgs
  <2>1. \A k \in remote : k \in ConChat
    BY DEF ConInv, ConStores
  <2> QED BY <1>1, <2>1, ConAdds DEF ConGrown
<1>3. \A k \in remote : \E l \in remote' : k.msgs \subseteq l.msgs
  BY <1>1, <1>2
<1>4. Console!MessagesOf(remote) \subseteq Console!MessagesOf(remote')
  BY <1>3 DEF Console!MessagesOf
<1>5. \A n \in acked' : n \in acked \/ \E l \in remote' : n \in l.msgs
  BY <1>1, <1>2 DEF Console!In
<1>6. \A n \in acked' : n \in acked \/ n \in Console!MessagesOf(remote')
  BY <1>5 DEF Console!MessagesOf
<1>7. \A k \in ConKept : \E l \in ConKept' : k.msgs \subseteq l.msgs
  BY <1>1, <1>3 DEF ConKept
<1>8. \A n \in acked' : n \in acked \/ \E l \in ConKept' : n \in l.msgs
  BY <1>5 DEF ConKept
<1>9. unwritten' \subseteq Console!Messages
  BY <1>1 DEF ConRemembers
<1> QED BY <1>1, <1>4, <1>6, <1>7, <1>8, <1>9, ConAddsOnly

LEMMA ConDeleteRemembers ==
  ASSUME ConInv, ConRemembers, NEW id \in 1..born, Console!Delete(id)
  PROVE  ConRemembers'
<1>1. /\ UNCHANGED <<user, moves, excused, unwritten, raced>> /\ acked' \subseteq acked
      /\ \A n \in acked', k \in Console!Chats : n \in k.msgs => k.id # id
  BY DEF Console!Delete, Console!DeleteStored, Console!MessagesOf
<1>2. \A k \in ConKept, n \in acked' : n \in k.msgs => k \in ConKept'
  <2>1. CASE user
    BY <1>1, <2>1 DEF Console!Delete, Console!DeleteStored, Console!Chats, ConKept
  <2>2. ASSUME ~user, NEW j \in DOMAIN local, local[j].id = id, local' = Console!RemoveAt(local, j), remote' = remote
        PROVE  \A k \in ConKept, n \in acked' : n \in k.msgs => k \in ConKept'
    <3>1. local \in Seq(ConChat)
      BY DEF ConInv, ConStores
    <3>2. ConWithout(local', local, j)
      BY <2>2, <3>1, ConRemoves
    <3>3. \A i \in DOMAIN local, n \in acked' : n \in local[i].msgs => i # j
      BY <1>1, <2>2 DEF Console!Chats, Console!ToSet
    <3> QED BY <2>2, <3>2, <3>3 DEF ConWithout, ConKept
  <2> QED BY <2>1, <2>2 DEF Console!Delete, Console!DeleteStored
<1>3. \A n \in acked' : n \in Console!Stored' \/ n \in excused' \/ n \in unwritten'
  <2>1. \A n : (\E l \in ConKept' : n \in l.msgs) => n \in Console!Stored'
    BY DEF Console!Stored, Console!MessagesOf, Console!ToSet, ConKept
  <2>2. \A n \in acked : (\E k \in ConKept : n \in k.msgs) \/ n \in excused \/ n \in unwritten
    BY ConStoredAre DEF ConRemembers, Console!ConversationsKept
  <2> QED BY <1>1, <1>2, <2>1, <2>2
<1>4. ASSUME ~raced, moves # <<>>
      PROVE  user' /\ Len(moves') = 1 /\ ConCopied(local, remote, moves[1])'
  <2>1. user /\ Len(moves) = 1 /\ ConCopied(local, remote, moves[1])
    BY <1>4 DEF ConRemembers
  <2>2. local' = local /\ remote' = {k \in remote : k.id # id}
    BY <2>1 DEF Console!Delete, Console!DeleteStored
  <2>3. \A n \in acked' : n \in Console!MessagesOf(remote) => n \in Console!MessagesOf(remote')
    BY <1>1, <2>1, <2>2 DEF Console!MessagesOf, Console!Chats
  <2> QED BY <1>1, <2>1, <2>2, <2>3 DEF ConCopied
<1> QED BY <1>1, <1>3, <1>4 DEF ConRemembers, Console!ConversationsKept

LEMMA ConSignRemembers ==
  ASSUME ConInv, ConRemembers, Console!SignIn \/ Console!SignOut
  PROVE  ConRemembers'
<1>1. UNCHANGED <<local, remote, acked, excused, unwritten>>
  BY DEF Console!SignIn, Console!SignOut
<1>2. Console!ConversationsKept' /\ unwritten' \subseteq Console!Messages
  BY <1>1 DEF ConRemembers, Console!ConversationsKept, Console!Stored
<1>3. CASE Console!SignOut
  BY <1>2, <1>3 DEF ConRemembers, Console!SignOut
<1>4. CASE Console!SignIn
  <2> SUFFICES ASSUME ~raced', moves' # <<>>
               PROVE  user' /\ Len(moves') = 1 /\ ConCopied(local, remote, moves[1])'
    BY <1>2 DEF ConRemembers
  <2> DEFINE n == IF Len(local) < MigrateLimit THEN Len(local) ELSE MigrateLimit
             mv == [rest |-> SubSeq(local, 1, n), into |-> None, left |-> {}]
  <2>1. moves = <<>> /\ local # <<>> /\ moves' = Append(moves, mv) /\ user' = TRUE
    BY <1>4 DEF ConRemembers, Console!SignIn
  <2>2. moves' = <<mv>> /\ Len(moves') = 1 /\ moves'[1] = mv
    BY <2>1
  <2>3. local \in Seq(ConChat) /\ Len(local) \in Nat /\ Len(local) # 0 /\ MigrateLimit \in Nat \ {0}
    BY <2>1, ConAssumed DEF ConInv, ConStores
  <2>4. n \in 1..Len(local) /\ \A k \in 1..Len(local) : k <= MigrateLimit => k \in 1..n
    BY <2>3
  <2>5. mv.into = None /\ mv.rest = SubSeq(local, 1, n)
    OBVIOUS
  <2> HIDE DEF n, mv
  <2>6. DOMAIN mv.rest = 1..n /\ \A k \in 1..n : mv.rest[k] = local[k]
    BY <2>3, <2>4, <2>5
  <2>7. \A k \in DOMAIN local : \A m \in local[k].msgs : m \in Console!Messages
    <3>1. \A k \in DOMAIN local : local[k] \in ConChat
      BY <2>3
    <3> QED BY <3>1 DEF ConChat
  <2>8. DOMAIN local = 1..Len(local)
    BY <2>3
  <2>9. ConCopied(local', remote', mv)
    BY <1>1, <2>4, <2>5, <2>6, <2>7, <2>8 DEF ConCopied, ConRest
  <2>10. ConCopied(local, remote, moves[1])'
    BY <1>1, <2>2, <2>9 DEF ConCopied
  <2> QED BY <2>1, <2>2, <2>10
<1> QED BY <1>3, <1>4

LEMMA ConMovedRemembers ==
  ASSUME ConInv, ConRemembers, NEW i \in DOMAIN moves, NEW mv \in ConMove, Console!Onward(i, mv),
         UNCHANGED <<user, acked, unwritten, raced>>, \A k \in remote : \E l \in remote' : k.msgs \subseteq l.msgs,
         mv.into # None, ~raced => ConCopied(local, remote', mv)
  PROVE  ConRemembers'
<1>1. /\ moves \in Seq(ConMove) /\ Len(moves) \in Nat /\ DOMAIN moves = 1..Len(moves) /\ moves # <<>>
      /\ mv.rest \in Seq(ConChat) /\ mv.rest # <<>>
  <2>1. moves \in Seq(ConMove) /\ mv.rest \in Seq(ConChat) /\ mv.rest # <<>>
    BY DEF ConInv, ConSent, ConMove
  <2>2. DOMAIN moves # {}
    OBVIOUS
  <2> QED BY <2>1, <2>2
<1>2. ~raced => user /\ Len(moves) = 1 /\ i = 1
  BY <1>1 DEF ConRemembers
<1>3. \A n \in acked : (\E k \in ConKept : n \in k.msgs) \/ n \in excused \/ n \in unwritten
  BY ConStoredAre DEF ConRemembers, Console!ConversationsKept
<1>4. \A n : (\E l \in ConKept' : n \in l.msgs) => n \in Console!Stored'
  BY DEF Console!Stored, Console!MessagesOf, Console!ToSet, ConKept
<1>5. CASE ~user \/ (mv.left = {} /\ Len(mv.rest) = 1)
  <2>1. Console!ClearLocal /\ moves' = Console!RemoveAt(moves, i) /\ excused \subseteq excused'
    BY <1>5 DEF Console!Onward, Console!ClearLocal
  <2>2. ASSUME NEW k \in DOMAIN local, NEW n \in local[k].msgs, n \in acked
        PROVE  (\E l \in ConKept' : n \in l.msgs) \/ n \in excused'
    <3>1. CASE raced
      BY <2>1, <2>2, <3>1 DEF Console!ClearLocal, Console!MessagesOf, Console!ToSet
    <3>2. CASE ~raced /\ k > MigrateLimit
      BY <2>1, <2>2, <3>2 DEF Console!ClearLocal, Console!MessagesOf
    <3>3. CASE ~raced /\ k <= MigrateLimit
      <4>1. mv.left = {} /\ DOMAIN mv.rest = {1}
        BY <1>1, <1>2, <1>5, <3>3
      <4>2. ConRest(mv) = {}
        BY <4>1 DEF ConRest
      <4>3. n \in Console!MessagesOf(remote')
        BY <2>2, <3>3, <4>2 DEF ConCopied
      <4> QED BY <4>3 DEF Console!MessagesOf, ConKept
    <3>4. k \in Nat /\ MigrateLimit \in Nat
      BY ConAssumed DEF ConInv, ConStores
    <3> QED BY <3>1, <3>2, <3>3, <3>4
  <2>3. \A k \in remote : \A n \in k.msgs : \E l \in ConKept' : n \in l.msgs
    <3>1. \A l \in remote' : l \in ConKept'
      BY DEF ConKept
    <3> QED BY <3>1
  <2>4. \A n \in acked' : (\E l \in ConKept' : n \in l.msgs) \/ n \in excused' \/ n \in unwritten'
    BY <1>3, <2>1, <2>2, <2>3 DEF ConKept
  <2>5. ~raced => moves' = <<>>
    <3>1. ConWithout(moves', moves, i) /\ moves' \in Seq(ConMove)
      BY <1>1, <2>1, ConRemoves
    <3> QED BY <1>2, <3>1 DEF ConWithout
  <2> QED BY <1>4, <2>4, <2>5 DEF ConRemembers, Console!ConversationsKept
<1>6. CASE ~(~user \/ (mv.left = {} /\ Len(mv.rest) = 1))
  <2> DEFINE next == IF mv.left # {} THEN mv ELSE ConNext(mv)
  <2>1. moves' = [moves EXCEPT ![i] = next] /\ UNCHANGED <<local, migrated, excused>>
    BY <1>6 DEF Console!Onward, ConNext
  <2>2. \A n \in acked' : (\E l \in ConKept' : n \in l.msgs) \/ n \in excused' \/ n \in unwritten'
    BY <1>3, <2>1 DEF ConKept
  <2>3. ASSUME ~raced
        PROVE  user' /\ Len(moves') = 1 /\ moves'[1] = next
    <3>1. user' = user /\ moves' = [moves EXCEPT ![i] = next]
      BY <2>1
    <3>2. i = 1 /\ Len(moves) = 1 /\ user
      BY <1>2, <2>3
    <3> HIDE DEF next
    <3> QED BY <1>1, <3>1, <3>2
  <2>4. ConRest(mv) \subseteq ConRest(next)
    <3>1. CASE mv.left # {}
      BY <3>1
    <3>2. CASE mv.left = {}
      <4>1. /\ next.into = None
            /\ \A j \in DOMAIN mv.rest : j > 1 => j - 1 \in DOMAIN next.rest /\ next.rest[j - 1] = mv.rest[j]
        <5>1. next.into = None /\ next.rest = Tail(mv.rest)
          BY <3>2 DEF ConNext
        <5>2. /\ Len(Tail(mv.rest)) = Len(mv.rest) - 1 /\ Tail(mv.rest) \in Seq(ConChat)
              /\ \A j \in 1..(Len(mv.rest) - 1) : Tail(mv.rest)[j] = mv.rest[j + 1]
          BY <1>1
        <5>3. DOMAIN Tail(mv.rest) = 1..(Len(mv.rest) - 1) /\ DOMAIN mv.rest = 1..Len(mv.rest) /\ Len(mv.rest) \in Nat
          BY <1>1, <5>2
        <5>4. ASSUME NEW j \in DOMAIN mv.rest, j > 1
              PROVE  j - 1 \in 1..(Len(mv.rest) - 1) /\ (j - 1) + 1 = j
          BY <5>3, <5>4
        <5> QED BY <5>1, <5>2, <5>3, <5>4
      <4>2. ConRest(mv) = {m \in Console!Messages : \E j \in DOMAIN mv.rest : j > 1 /\ m \in mv.rest[j].msgs}
        BY <3>2 DEF ConRest
      <4> HIDE DEF next
      <4> QED BY <4>1, <4>2 DEF ConRest
    <3> QED BY <3>1, <3>2
  <2>5. ASSUME ~raced
        PROVE  ConCopied(local, remote, moves[1])'
    <3>1. ConCopied(local, remote', next)
      BY <2>4, <2>5 DEF ConCopied
    <3> HIDE DEF next
    <3> QED BY <2>1, <2>3, <2>5, <3>1 DEF ConCopied
  <2> QED BY <1>4, <2>2, <2>3, <2>5 DEF ConRemembers, Console!ConversationsKept
<1> QED BY <1>5, <1>6

LEMMA ConMoveCreatesRemembers ==
  ASSUME ConInv, ConRemembers, NEW i \in DOMAIN moves, Console!MoveCreates(i)
  PROVE  ConRemembers'
<1> DEFINE first == moves[i].rest[1]
           new == [id |-> born', topic |-> first.topic, msgs |-> {}]
           mv == [moves[i] EXCEPT !.into = born', !.left = first.msgs]
<1>1. /\ moves[i] \in ConMove /\ first \in ConChat /\ 1 \in DOMAIN moves[i].rest
      /\ moves[i].rest \in Seq(ConChat)
  BY ConMoveOf
<1>2. born' \in Nat \ {0} /\ born' # None
  BY ConAssumed DEF ConInv, ConStores, Console!MoveCreates
<1>3. first.msgs \subseteq Console!Messages
  BY <1>1 DEF ConChat
<1>4. mv \in ConMove /\ mv.into = born' /\ mv.left = first.msgs /\ mv.rest = moves[i].rest
  BY <1>1, <1>2, <1>3 DEF ConMove
<1>5. /\ moves[i].into = None /\ remote' = remote \cup {new} /\ Console!Onward(i, mv)
      /\ UNCHANGED <<user, acked, unwritten, raced>>
  BY DEF Console!MoveCreates
<1>6. \A j \in DOMAIN moves[i].rest : j \in Nat /\ (j # 1 => j > 1)
  <2>1. \A j \in DOMAIN moves[i].rest : j \in Nat /\ j >= 1
    BY <1>1
  <2> QED BY <2>1
<1> HIDE DEF new, mv
<1>7. ConRest(moves[i]) \subseteq ConRest(mv)
  BY <1>2, <1>4, <1>5, <1>6 DEF ConRest, first
<1>8. \A k \in remote : \E l \in remote' : k.msgs \subseteq l.msgs
  BY <1>5
<1>9. ~raced => ConCopied(local, remote', mv)
  <2>1. ~raced => i = 1 /\ ConCopied(local, remote, moves[1])
    <3>1. moves \in Seq(ConMove) /\ moves # <<>>
      BY DEF ConInv, ConSent
    <3>2. Len(moves) = 1 => i = 1
      BY <3>1
    <3> QED BY <3>1, <3>2 DEF ConRemembers
  <2>2. Console!MessagesOf(remote) \subseteq Console!MessagesOf(remote')
    BY <1>8 DEF Console!MessagesOf
  <2> QED BY <1>7, <2>1, <2>2 DEF ConCopied
<1> QED BY <1>2, <1>4, <1>5, <1>8, <1>9, ConMovedRemembers

LEMMA ConMoveCopiesRemembers ==
  ASSUME ConInv, ConRemembers, NEW i \in DOMAIN moves, Console!MoveCopies(i)
  PROVE  ConRemembers'
<1> SUFFICES ASSUME NEW m \in moves[i].left,
                    remote' = {Console!Added(k, moves[i].into, m) : k \in remote},
                    Console!Onward(i, [moves[i] EXCEPT !.left = @ \ {m}])
             PROVE  ConRemembers'
  BY DEF Console!MoveCopies
<1> DEFINE id == moves[i].into
           mv == [moves[i] EXCEPT !.left = @ \ {m}]
<1>1. /\ moves[i] \in ConMove /\ id \in Nat \cup {None} /\ id # None /\ m \in Console!Messages /\ Console!In(remote, id)
  BY ConMoveOf DEF Console!MoveCopies, ConInv, ConStores
<1>2. mv \in ConMove /\ mv.into = id /\ mv.left = moves[i].left \ {m} /\ mv.rest = moves[i].rest
  BY <1>1 DEF ConMove
<1>3. Console!Onward(i, mv) /\ UNCHANGED <<user, acked, unwritten, raced>>
  BY DEF Console!MoveCopies
<1>4. \A k \in remote : /\ k.msgs \subseteq Console!Added(k, id, m).msgs
                        /\ k.id = id => m \in Console!Added(k, id, m).msgs
  <2>1. \A k \in remote : k \in ConChat
    BY DEF ConInv, ConStores
  <2> QED BY <1>1, <2>1, ConAdds DEF ConGrown
<1>5. /\ \A k \in remote : \E l \in remote' : k.msgs \subseteq l.msgs
      /\ \E l \in remote' : m \in l.msgs
  BY <1>1, <1>4 DEF Console!In
<1> HIDE DEF mv
<1>6. ConRest(moves[i]) \subseteq ConRest(mv) \cup {m}
  BY <1>2 DEF ConRest
<1>7. ~raced => ConCopied(local, remote', mv)
  <2>1. ~raced => i = 1 /\ ConCopied(local, remote, moves[1])
    <3>1. moves \in Seq(ConMove) /\ moves # <<>>
      BY DEF ConInv, ConSent
    <3>2. Len(moves) = 1 => i = 1
      BY <3>1
    <3> QED BY <3>1, <3>2 DEF ConRemembers
  <2>2. Console!MessagesOf(remote) \subseteq Console!MessagesOf(remote') /\ m \in Console!MessagesOf(remote')
    BY <1>5 DEF Console!MessagesOf
  <2> QED BY <1>6, <2>1, <2>2 DEF ConCopied
<1> QED BY <1>1, <1>2, <1>3, <1>5, <1>7, ConMovedRemembers

LEMMA ConMoveFailsRemembers ==
  ASSUME ConInv, ConRemembers, NEW i \in DOMAIN moves, Console!MoveFails(i)
  PROVE  ConRemembers'
<1>1. UNCHANGED <<local, remote, user, acked, excused, unwritten, raced>> /\ moves' = Console!RemoveAt(moves, i)
  BY DEF Console!MoveFails
<1>2. moves \in Seq(ConMove) /\ ConWithout(moves', moves, i) /\ moves' \in Seq(ConMove)
  BY <1>1, ConRemoves DEF ConInv, ConSent
<1>3. ~raced => moves' = <<>>
  <2>1. moves # <<>>
    BY <1>2
  <2>2. ~raced => Len(moves) = 1
    BY <2>1 DEF ConRemembers
  <2> QED BY <1>2, <2>2 DEF ConWithout
<1> QED BY <1>1, <1>3 DEF ConRemembers, Console!ConversationsKept, Console!Stored

LEMMA ConRemembersStep ==
  ASSUME ConInv, ConRemembers, [Console!Next]_(Console!vars)
  PROVE  ConRemembers'
<1>1. CASE UNCHANGED Console!vars
  BY <1>1, ConSameRemembers DEF Console!vars, Console!stored
<1>2. CASE Console!StoreStep
  <2>1. ASSUME NEW s \in saves, Console!SaveAnswers(s)
        PROVE  ConRemembers'
    BY <2>1, ConSaveRemembers
  <2>2. ASSUME NEW i \in DOMAIN moves, Console!MoveCreates(i) \/ Console!MoveCopies(i) \/ Console!MoveFails(i)
        PROVE  ConRemembers'
    BY <2>2, ConMoveCreatesRemembers, ConMoveCopiesRemembers, ConMoveFailsRemembers
  <2> QED BY <1>2, <2>1, <2>2, ConSignRemembers DEF Console!StoreStep
<1>3. ASSUME NEW t \in Console!Turns, Console!Send(t) \/ Console!Created(t) \/ Console!Hear(t) \/ Console!End(t)
      PROVE  ConRemembers'
  <2>1. CASE Console!Hear(t)
    BY <2>1, ConSameRemembers DEF Console!Hear, Console!stored
  <2> QED BY <1>3, <2>1, ConTurnRemembers
<1>4. CASE Console!Stop \/ Console!StartNewChat
  BY <1>4, ConSameRemembers DEF Console!Stop, Console!StartNewChat, Console!stored
<1>5. ASSUME NEW id \in 1..born, Console!OpenChat(id) \/ Console!Loaded(id) \/ Console!LoadFails(id) \/ Console!Delete(id)
      PROVE  ConRemembers'
  <2>1. CASE Console!Delete(id)
    BY <2>1, ConDeleteRemembers
  <2> QED BY <1>5, <2>1, ConSameRemembers DEF Console!OpenChat, Console!Loaded, Console!LoadFails, Console!stored
<1> QED BY <1>1, <1>2, <1>3, <1>4, <1>5 DEF Console!Next

(* TypeOK, StopReaches, ThreadsUnmixed and ConversationsKept (ChatConsole): *)
(* while the visitor stays with the turn, Stop reaches its stream and each *)
(* conversation keeps its own messages; and always, what was acknowledged  *)
(* is in one of the stores, or was dropped for a limit or a race, or was   *)
(* reported as stored though the browser's quota refused it.               *)
THEOREM ConsoleKept ==
  Console!Spec => [](Console!TypeOK /\ Console!StopReaches /\ Console!ThreadsUnmixed /\ Console!ConversationsKept)
<1> DEFINE Inv == ConInv /\ ConRemembers
<1>1. Console!Init => Inv
  BY ConStart, ConRemembersStart
<1>2. Inv /\ [Console!Next]_(Console!vars) => Inv'
  BY ConStep, ConRemembersStep
<1>3. Inv => Console!TypeOK /\ Console!StopReaches /\ Console!ThreadsUnmixed /\ Console!ConversationsKept
  BY ConPromised DEF ConRemembers
<1> QED BY <1>1, <1>2, <1>3, PTL DEF Console!Spec

-----------------------------------------------------------------------------
(* The terminal: each run has one request, the active one is of the mode   *)
(* the page is in, and every write under way is of something that was.     *)
Term == INSTANCE Terminal WITH MaxCalls <- MaxPanelCalls

ASSUME TermParameters == Term!TerminalAssumption

TermShown ==
  [mode : Term!Modes, run : Nat \cup {None}, loading : BOOLEAN, canSave : BOOLEAN,
   export : [of : Term!Modes \cup {Foreign}, by : Nat] \cup {None},
   error : Nat \cup {None}, rows : SUBSET Nat]

TermFlight ==
  [run : Nat, by : {"form", "watchlist", "rule"}, mode : Term!Modes, stage : {"asked", "scanning", "scanned"}]

TermWrite ==
  [kind : {"record"}, mode : Term!Modes, of : Term!Modes \cup {Foreign}] \cup [kind : {"run", "mark"}, run : Nat]

TermRecord == [mode : Term!Modes \cup {Foreign}, of : Term!Modes \cup {Foreign}]

TermPage ==
  /\ shown \in TermShown
  /\ shown.run \in 1..line \cup {None} /\ shown.rows \subseteq 1..line
  /\ shown.loading <=> shown.run # None
  /\ shown.export # None => shown.export.by \in 1..line
  /\ shown.error \in 1..line \cup {None}
  /\ Term!PanelIsCurrent

TermRequested ==
  /\ flights \subseteq TermFlight
  /\ \A f \in flights :
       /\ f.run \in 1..line
       /\ f.run = shown.run => f.mode = shown.mode
       /\ \A g \in flights : f.run = g.run => f = g
  /\ shown.run # None => \E f \in flights : f.run = shown.run

TermKept ==
  /\ remote \in [records : SUBSET TermRecord, runs : SUBSET Nat, marks : SUBSET Nat]
  /\ saves \subseteq TermWrite
  /\ acked \subseteq 1..line
  /\ \A s \in saves : /\ s.kind = "record" => s.of \in {s.mode, Foreign}
                      /\ s.kind = "run" => s.run \in acked
                      /\ s.kind = "mark" => s.run \in remote.runs
  /\ Term!RecordsAreTrue

TermInv ==
  /\ line \in Nat /\ calls \in 0..MaxPanelCalls /\ line <= calls /\ user \in BOOLEAN
  /\ TermPage /\ TermRequested /\ TermKept

LEMMA TermAssumed ==
  /\ Plain # {} /\ Foreign \notin Term!Modes /\ None \notin Nat /\ MaxPanelCalls \in Nat
  /\ Term!Modes = Plain \cup {"cockpit", "alerts", "torque-scan"}
BY TermParameters DEF Term!TerminalAssumption, Term!Modes

LEMMA TermStart ==
  ASSUME Term!Init
  PROVE  TermInv
<1>1. (CHOOSE m \in Plain : TRUE) \in Term!Modes
  BY TermAssumed
<1>2. TermPage
  BY <1>1, TermAssumed DEF Term!Init, TermPage, TermShown, Term!PanelIsCurrent
<1>3. TermRequested
  BY DEF Term!Init, TermRequested
<1>4. TermKept
  BY DEF Term!Init, TermKept, TermRecord, Term!RecordsAreTrue
<1> QED BY <1>2, <1>3, <1>4, TermAssumed DEF Term!Init, TermInv

LEMMA TermCounts ==
  ASSUME TermInv, Term!Counted
  PROVE  /\ calls' \in 0..MaxPanelCalls
         /\ line <= calls' /\ line + 1 <= calls' /\ line + 1 \in Nat
BY TermAssumed DEF TermInv, Term!Counted

(* The page after clearOutput in a mode: nothing is active or shown.       *)
LEMMA TermClears ==
  ASSUME TermInv, NEW m \in Term!Modes, NEW page, page = Term!Cleared(Term!InMode(m))
  PROVE  /\ page \in TermShown /\ page.mode = m /\ page.run = None /\ page.loading = FALSE
         /\ page.export = None /\ page.error = None /\ page.rows = shown.rows
<1>1. shown \in TermShown /\ (shown.run = None => shown.loading = FALSE)
  BY DEF TermInv, TermPage, TermShown
<1>2. Term!Cancelled(shown) \in TermShown /\ Term!Cancelled(shown).run = None
      /\ Term!Cancelled(shown).loading = FALSE /\ Term!Cancelled(shown).rows = shown.rows
  BY <1>1 DEF Term!Cancelled, TermShown
<1> QED BY <1>2 DEF Term!Cleared, Term!InMode, TermShown

(* A step of the page that keeps what is under way and what is kept.       *)
LEMMA TermKeeps ==
  ASSUME TermInv, line' \in Nat, line' >= line, calls' \in 0..MaxPanelCalls, line' <= calls', user' \in BOOLEAN,
         UNCHANGED <<saves, remote, acked>>
  PROVE  (TermPage /\ TermRequested)' => TermInv'
BY DEF TermInv, TermKept, Term!RecordsAreTrue

LEMMA TermModes ==
  ASSUME TermInv, NEW m \in Term!Modes, Term!SetMode(m)
  PROVE  TermInv'
<1>1. /\ shown' \in TermShown /\ shown'.run = None /\ shown'.loading = FALSE
      /\ shown'.export = None /\ shown'.error = None /\ shown'.rows = shown.rows
  BY TermClears DEF Term!SetMode
<1>2. UNCHANGED <<line, flights, user, saves, remote, acked>> /\ calls' \in 0..MaxPanelCalls /\ line <= calls'
  BY TermCounts DEF Term!SetMode
<1>3. TermPage'
  BY <1>1, <1>2, TermAssumed DEF TermInv, TermPage, Term!PanelIsCurrent
<1>4. TermRequested'
  BY <1>1, <1>2, TermAssumed DEF TermInv, TermRequested
<1> QED BY <1>2, <1>3, <1>4, TermKeeps DEF TermInv

LEMMA TermBegins ==
  ASSUME TermInv, NEW m \in Term!Modes, NEW by \in {"form", "watchlist", "rule"}, Term!Begin(by, m)
  PROVE  TermInv'
<1> DEFINE page == Term!Cleared(Term!InMode(m))
           f == [run |-> line', by |-> by, mode |-> m, stage |-> "asked"]
<1>1. /\ page \in TermShown /\ page.mode = m /\ page.run = None /\ page.loading = FALSE
      /\ page.export = None /\ page.error = None /\ page.rows = shown.rows
  BY TermClears
<1>2. /\ line' = line + 1 /\ line' \in Nat /\ line \in Nat /\ calls' \in 0..MaxPanelCalls /\ line' <= calls'
      /\ UNCHANGED <<user, saves, remote, acked>>
  BY TermCounts DEF Term!Begin, TermInv
<1>3. shown' = [page EXCEPT !.run = line', !.loading = TRUE, !.rows = IF m = "torque-scan" THEN {} ELSE @]
      /\ flights' = flights \cup {f}
  BY DEF Term!Begin
<1> HIDE DEF page
<1>4. /\ shown' \in TermShown /\ shown'.mode = m /\ shown'.run = line' /\ shown'.loading = TRUE
      /\ shown'.export = None /\ shown'.error = None
      /\ shown'.rows = IF m = "torque-scan" THEN {} ELSE shown.rows
  BY <1>1, <1>2, <1>3 DEF TermShown
<1>5. f \in TermFlight /\ f.run = line' /\ f.mode = m
  BY <1>2 DEF TermFlight
<1>6. \A g \in flights : g.run \in 1..line /\ g.run \in 1..line' /\ g.run # line'
  BY <1>2 DEF TermInv, TermRequested
<1>7. TermRequested'
  BY <1>2, <1>3, <1>4, <1>5, <1>6 DEF TermInv, TermRequested
<1>8. TermPage'
  <2>1. shown'.rows \subseteq 1..line'
    BY <1>2, <1>4 DEF TermInv, TermPage
  <2>2. line' # None /\ line' \in 1..line'
    BY <1>2, TermAssumed
  <2> QED BY <1>4, <2>1, <2>2 DEF TermPage, Term!PanelIsCurrent
<1>9. line' >= line /\ user' \in BOOLEAN
  BY <1>2 DEF TermInv
<1> QED BY <1>2, <1>7, <1>8, <1>9, TermKeeps

LEMMA TermOpens ==
  ASSUME TermInv, NEW of \in Term!Modes \cup {Foreign}, Term!Open(of)
  PROVE  TermInv'
<1> DEFINE m == IF of \in Term!Modes THEN of ELSE shown.mode
           page == Term!Cleared(Term!InMode(m))
           k == [of |-> of, by |-> line']
<1>0. m \in Term!Modes
  BY DEF TermInv, TermPage, TermShown
<1> HIDE DEF m
<1>1. /\ page \in TermShown /\ page.mode = m /\ page.run = None /\ page.loading = FALSE
      /\ page.export = None /\ page.error = None /\ page.rows = shown.rows
  BY <1>0, TermClears
<1>2. /\ line' = line + 1 /\ line' \in Nat /\ line \in Nat /\ calls' \in 0..MaxPanelCalls /\ line' <= calls'
      /\ UNCHANGED <<flights, user, saves, remote, acked>>
  BY TermCounts DEF Term!Open, TermInv
<1>3. shown' = [page EXCEPT !.export = k, !.canSave = TRUE]
  BY DEF Term!Open, m
<1> HIDE DEF page
<1>4. /\ shown' \in TermShown /\ shown'.mode = m /\ shown'.run = None /\ shown'.loading = FALSE
      /\ shown'.export = k /\ shown'.error = None /\ shown'.rows = shown.rows
  BY <1>1, <1>2, <1>3 DEF TermShown
<1>5. of \in {m, Foreign} /\ k.of = of /\ k.by = line' /\ line' \in 1..line'
  BY <1>2 DEF m
<1>6. TermPage'
  <2>1. shown'.rows \subseteq 1..line'
    BY <1>2, <1>4 DEF TermInv, TermPage
  <2> HIDE DEF k
  <2> QED BY <1>4, <1>5, <2>1, TermAssumed DEF TermPage, Term!PanelIsCurrent
<1>7. TermRequested'
  BY <1>2, <1>4, TermAssumed DEF TermInv, TermRequested
<1>8. line' >= line /\ user' \in BOOLEAN
  BY <1>2 DEF TermInv
<1> QED BY <1>2, <1>6, <1>7, <1>8, TermKeeps

(* A request ends or goes on: if its run is active, the page takes from it *)
(* what is its own; if not, nothing.                                       *)
LEMMA TermMoves ==
  ASSUME TermInv, NEW f \in flights, UNCHANGED <<line, user, remote, calls>>,
         \/ shown' = shown /\ shown.run # f.run /\ flights' = flights \ {f}
         \/ /\ shown.run = f.run /\ flights' = flights \ {f}
            /\ shown' \in TermShown /\ shown'.run = None /\ shown'.loading = FALSE
            /\ shown'.mode = shown.mode
            /\ shown'.export \in {shown.export, [of |-> f.mode, by |-> f.run]}
            /\ shown'.error \in {shown.error, f.run} /\ shown'.rows = shown.rows
         \/ /\ shown.run = f.run
            /\ \E stage \in {"scanning", "scanned"} : flights' = (flights \ {f}) \cup {[f EXCEPT !.stage = stage]}
            /\ shown' \in TermShown /\ shown'.run = shown.run /\ shown'.loading = shown.loading
            /\ shown'.mode = shown.mode
            /\ shown'.export \in {shown.export, [of |-> f.mode, by |-> f.run]}
            /\ shown'.error = shown.error /\ shown'.rows \in {shown.rows, shown.rows \cup {f.run}}
  PROVE  TermPage' /\ TermRequested'
<1>0. f \in TermFlight /\ f.run \in 1..line /\ f.run # None /\ line \in Nat /\ line' = line
  BY TermAssumed DEF TermInv, TermRequested
<1>1. shown.run = f.run => f.run = line /\ f.mode = shown.mode /\ line # None
  BY <1>0, TermAssumed DEF TermInv, TermRequested, TermPage, Term!PanelIsCurrent
<1>2. TermPage'
  <2> DEFINE k == [of |-> f.mode, by |-> f.run]
  <2>1. k.of = f.mode /\ k.by = f.run
    OBVIOUS
  <2> HIDE DEF k
  <2>2. shown'.export \in {shown.export, k} /\ (shown'.export = k => shown'.export = shown.export \/ shown.run = f.run)
    BY DEF k
  <2>3. shown' \in TermShown /\ shown'.run \in {shown.run, None} /\ shown'.mode = shown.mode
    BY DEF TermInv, TermPage
  <2>4. shown'.rows \subseteq 1..line'
    BY <1>0 DEF TermInv, TermPage
  <2>5. shown'.loading <=> shown'.run # None
    BY DEF TermInv, TermPage
  <2>6. shown'.error \in {None, line'}
    BY <1>0, <1>1 DEF TermInv, TermPage, Term!PanelIsCurrent
  <2>7. shown'.run # None /\ shown'.mode = "torque-scan" => shown'.rows \subseteq {line'}
    BY <1>0, <1>1, <2>3 DEF TermInv, TermPage, Term!PanelIsCurrent
  <2>9. shown'.export # None => shown'.export.by \in 1..line'
    BY <1>0, <1>1, <2>1, <2>2 DEF TermInv, TermPage, Term!PanelIsCurrent
  <2>8. shown'.export # None => shown'.export.by = line' /\ shown'.export.of \in {shown'.mode, Foreign}
    BY <1>0, <1>1, <2>1, <2>2, <2>3 DEF TermInv, TermPage, Term!PanelIsCurrent
  <2> QED BY <1>0, <2>3, <2>4, <2>5, <2>6, <2>7, <2>8, <2>9 DEF TermInv, TermPage, Term!PanelIsCurrent
<1>3. TermRequested'
  <2>1. CASE flights' = flights \ {f} /\ shown' = shown /\ shown.run # f.run
    BY <1>0, <2>1 DEF TermInv, TermRequested
  <2>4. CASE flights' = flights \ {f} /\ shown'.run = None
    <3>1. \A g \in flights' : g \in flights /\ g.run \in 1..line' /\ g.run # None
      BY <1>0, <2>4, TermAssumed DEF TermInv, TermRequested
    <3> QED BY <2>4, <3>1 DEF TermInv, TermRequested
  <2>2. ASSUME NEW stage \in {"scanning", "scanned"}, flights' = (flights \ {f}) \cup {[f EXCEPT !.stage = stage]},
               shown'.run = shown.run, shown'.mode = shown.mode
        PROVE  TermRequested'
    <3> DEFINE g == [f EXCEPT !.stage = stage]
    <3>1. g \in TermFlight /\ g.run = f.run /\ g.mode = f.mode
      BY <1>0 DEF TermFlight
    <3>2. flights' = (flights \ {f}) \cup {g}
      BY <2>2
    <3> HIDE DEF g
    <3> QED BY <1>0, <2>2, <3>1, <3>2 DEF TermInv, TermRequested
  <2>3. \/ flights' = flights \ {f} /\ shown' = shown /\ shown.run # f.run
        \/ flights' = flights \ {f} /\ shown'.run = None
        \/ /\ \E stage \in {"scanning", "scanned"} : flights' = (flights \ {f}) \cup {[f EXCEPT !.stage = stage]}
           /\ shown'.run = shown.run /\ shown'.mode = shown.mode
    OBVIOUS
  <2> QED BY <2>1, <2>2, <2>3, <2>4
<1> QED BY <1>2, <1>3

LEMMA TermFinishes ==
  ASSUME TermInv, NEW f \in flights, NEW page, page \in TermShown, page.run = shown.run
  PROVE  LET after == Term!Finished(f, page) IN
         /\ shown.run = f.run => after = [page EXCEPT !.run = None, !.loading = FALSE]
         /\ shown.run # f.run => after = page
         /\ after \in TermShown
BY DEF Term!Finished, Term!Active, TermShown

LEMMA TermAnswers ==
  ASSUME TermInv, NEW f \in flights,
         Term!Answer(f) \/ Term!Reject(f) \/ Term!ScanRow(f) \/ Term!ScanDone(f) \/ Term!ScanEnds(f)
  PROVE  TermInv'
<1> DEFINE k == [of |-> f.mode, by |-> f.run]
<1>0. /\ f \in TermFlight /\ f.run \in Nat /\ shown \in TermShown /\ UNCHANGED <<line, user, remote, calls>>
      /\ f.run \in 1..line
  BY DEF TermInv, TermRequested, TermPage, TermFlight, Term!Answer, Term!Reject, Term!ScanRow, Term!ScanDone,
         Term!ScanEnds, Term!Scan
<1>1. k \in [of : Term!Modes \cup {Foreign}, by : Nat]
  BY <1>0 DEF TermFlight
<1> HIDE DEF k
<1>2. CASE Term!Answer(f) \/ Term!Reject(f) \/ Term!ScanEnds(f)
  <2>1. /\ flights' = flights \ {f}
        /\ \/ shown' = shown /\ shown.run # f.run
           \/ /\ shown.run = f.run
              /\ \/ shown' = [[shown EXCEPT !.export = k, !.canSave = TRUE] EXCEPT !.run = None, !.loading = FALSE]
                 \/ shown' = [[shown EXCEPT !.error = f.run] EXCEPT !.run = None, !.loading = FALSE]
                 \/ shown' = [[shown EXCEPT !.canSave = TRUE] EXCEPT !.run = None, !.loading = FALSE]
    <3>1. CASE Term!Answer(f)
      BY <3>1 DEF Term!Answer, Term!Finished, Term!Active, Term!Showing, k, TermInv, TermPage, TermShown
    <3>2. CASE Term!Reject(f)
      BY <3>2 DEF Term!Reject, Term!Finished, Term!Active, TermInv, TermPage, TermShown
    <3>3. CASE Term!ScanEnds(f)
      BY <3>3 DEF Term!ScanEnds, Term!Finished, Term!Active, TermInv, TermPage, TermShown
    <3> QED BY <1>2, <3>1, <3>2, <3>3
  <2>2. \/ shown' = shown /\ shown.run # f.run
        \/ /\ shown.run = f.run
           /\ shown' \in TermShown /\ shown'.run = None /\ shown'.loading = FALSE
           /\ shown'.mode = shown.mode
           /\ shown'.export \in {shown.export, k}
           /\ shown'.error \in {shown.error, f.run} /\ shown'.rows = shown.rows
    BY <1>0, <1>1, <2>1 DEF TermShown
  <2>3. TermPage' /\ TermRequested'
    BY <1>0, <2>1, <2>2, TermMoves DEF k
  <2>4. TermKept'
    <3>1. CASE UNCHANGED <<saves, acked>>
      BY <1>0, <3>1 DEF TermInv, TermKept, Term!RecordsAreTrue
    <3>2. CASE Term!Answer(f) /\ Term!Active(f)
      <4>1. acked' = acked \cup {f.run} /\ saves' \subseteq saves \cup {[kind |-> "run", run |-> f.run]}
        BY <3>2 DEF Term!Answer
      <4>2. [kind |-> "run", run |-> f.run] \in TermWrite
        BY <1>0 DEF TermWrite
      <4>3. \A s \in saves' : s \in saves \/ (s.kind = "run" /\ s.run = f.run)
        BY <4>1
      <4> QED BY <1>0, <4>1, <4>2, <4>3 DEF TermInv, TermKept, Term!RecordsAreTrue
    <3>3. UNCHANGED <<saves, acked>> \/ (Term!Answer(f) /\ Term!Active(f))
      BY <1>2 DEF Term!Answer, Term!Reject, Term!ScanEnds
    <3> QED BY <3>1, <3>2, <3>3
  <2> QED BY <1>0, <2>3, <2>4 DEF TermInv
<1>3. CASE Term!ScanRow(f) \/ Term!ScanDone(f)
  <2>1. UNCHANGED <<saves, acked>>
    BY <1>3 DEF Term!ScanRow, Term!ScanDone, Term!Scan
  <2>2. \/ shown' = shown /\ shown.run # f.run /\ flights' = flights \ {f}
        \/ /\ shown.run = f.run
           /\ \E stage \in {"scanning", "scanned"} : flights' = (flights \ {f}) \cup {[f EXCEPT !.stage = stage]}
           /\ \/ shown' = [shown EXCEPT !.rows = @ \cup {f.run}]
              \/ shown' = [shown EXCEPT !.export = k]
    BY <1>3 DEF Term!ScanRow, Term!ScanDone, Term!Scan, Term!Active, Term!Showing, k
  <2>3. \/ shown' = shown /\ shown.run # f.run /\ flights' = flights \ {f}
        \/ /\ shown.run = f.run
           /\ \E stage \in {"scanning", "scanned"} : flights' = (flights \ {f}) \cup {[f EXCEPT !.stage = stage]}
           /\ shown' \in TermShown /\ shown'.run = shown.run /\ shown'.loading = shown.loading
           /\ shown'.mode = shown.mode
           /\ shown'.export \in {shown.export, k}
           /\ shown'.error = shown.error /\ shown'.rows \in {shown.rows, shown.rows \cup {f.run}}
    BY <1>0, <1>1, <2>2 DEF TermShown
  <2>4. TermPage' /\ TermRequested'
    BY <1>0, <2>3, TermMoves DEF k
  <2> QED BY <1>0, <2>1, <2>4, TermKeeps DEF TermInv
<1> QED BY <1>2, <1>3

LEMMA TermSaves ==
  ASSUME TermInv, Term!Save
  PROVE  TermInv'
<1> DEFINE s == [kind |-> "record", mode |-> shown.mode, of |-> shown.export.of]
<1>1. UNCHANGED <<shown, line, flights, user, remote, acked>> /\ calls' \in 0..MaxPanelCalls /\ line <= calls'
  BY TermCounts DEF Term!Save
<1>2. saves' = saves \cup {s} /\ shown.export # None
  BY DEF Term!Save
<1>3. s \in TermWrite /\ s.of \in {s.mode, Foreign} /\ s.kind = "record"
  BY <1>2 DEF TermWrite, TermInv, TermPage, TermShown, Term!PanelIsCurrent
<1> HIDE DEF s
<1>4. TermKept'
  BY <1>1, <1>2, <1>3 DEF TermInv, TermKept, Term!RecordsAreTrue
<1>5. TermPage' /\ TermRequested'
  BY <1>1 DEF TermInv, TermPage, TermRequested, Term!PanelIsCurrent
<1> QED BY <1>1, <1>4, <1>5 DEF TermInv

LEMMA TermWrites ==
  ASSUME TermInv, NEW s \in saves, Term!Lands(s) \/ Term!Fails(s)
  PROVE  TermInv'
<1>1. UNCHANGED <<shown, line, flights, user, acked, calls>>
  BY DEF Term!Lands, Term!Fails
<1>2. TermPage' /\ TermRequested'
  BY <1>1 DEF TermInv, TermPage, TermRequested, Term!PanelIsCurrent
<1>3. s \in TermWrite /\ remote \in [records : SUBSET TermRecord, runs : SUBSET Nat, marks : SUBSET Nat]
  BY DEF TermInv, TermKept
<1>4. CASE Term!Fails(s)
  BY <1>1, <1>4 DEF Term!Fails, TermInv, TermKept, Term!RecordsAreTrue, TermPage, TermRequested,
     Term!PanelIsCurrent
<1>5. CASE Term!Lands(s) /\ s.kind = "record"
  <2> DEFINE r == [mode |-> s.mode, of |-> s.of]
  <2>1. remote' = [remote EXCEPT !.records = @ \cup {r}] /\ saves' = saves \ {s}
    BY <1>5 DEF Term!Lands, Term!Applied, Term!Then
  <2>2. r \in TermRecord /\ r.of \in {r.mode, Foreign}
    BY <1>3, <1>5 DEF TermWrite, TermRecord, TermInv, TermKept
  <2> HIDE DEF r
  <2>3. /\ remote' \in [records : SUBSET TermRecord, runs : SUBSET Nat, marks : SUBSET Nat]
        /\ remote'.records = remote.records \cup {r} /\ remote'.runs = remote.runs
        /\ remote'.marks = remote.marks
    BY <1>3, <2>1, <2>2
  <2>4. TermKept'
    BY <1>1, <2>1, <2>2, <2>3 DEF TermInv, TermKept, Term!RecordsAreTrue
  <2> QED BY <1>1, <1>2, <2>4 DEF TermInv
<1>6. CASE Term!Lands(s) /\ s.kind = "run"
  <2> DEFINE t == [kind |-> "mark", run |-> s.run]
  <2>1. remote' = [remote EXCEPT !.runs = @ \cup {s.run}] /\ saves' = (saves \ {s}) \cup {t}
    BY <1>6 DEF Term!Lands, Term!Applied, Term!Then
  <2>2. s.run \in Nat /\ s.run \in acked /\ t \in TermWrite /\ t.kind = "mark" /\ t.run = s.run
    BY <1>3, <1>6 DEF TermWrite, TermInv, TermKept
  <2> HIDE DEF t
  <2>3. /\ remote' \in [records : SUBSET TermRecord, runs : SUBSET Nat, marks : SUBSET Nat]
        /\ remote'.records = remote.records /\ remote'.runs = remote.runs \cup {s.run}
        /\ remote'.marks = remote.marks
    BY <1>3, <2>1, <2>2
  <2>4. TermKept'
    BY <1>1, <2>1, <2>2, <2>3 DEF TermInv, TermKept, Term!RecordsAreTrue
  <2> QED BY <1>1, <1>2, <2>4 DEF TermInv
<1>7. CASE Term!Lands(s) /\ s.kind = "mark"
  <2>1. remote' = [remote EXCEPT !.marks = @ \cup {s.run}] /\ saves' = saves \ {s}
    BY <1>7 DEF Term!Lands, Term!Applied, Term!Then
  <2>2. s.run \in Nat /\ s.run \in remote.runs
    BY <1>3, <1>7 DEF TermWrite, TermInv, TermKept
  <2>3. /\ remote' \in [records : SUBSET TermRecord, runs : SUBSET Nat, marks : SUBSET Nat]
        /\ remote'.records = remote.records /\ remote'.runs = remote.runs
        /\ remote'.marks = remote.marks \cup {s.run}
    BY <1>3, <2>1, <2>2
  <2>4. TermKept'
    BY <1>1, <2>1, <2>2, <2>3 DEF TermInv, TermKept, Term!RecordsAreTrue
  <2> QED BY <1>1, <1>2, <2>4 DEF TermInv
<1> QED BY <1>3, <1>4, <1>5, <1>6, <1>7 DEF TermWrite

LEMMA TermSigns ==
  ASSUME TermInv, Term!SignInOrOut
  PROVE  TermInv'
<1>1. /\ UNCHANGED <<shown, line, flights, saves, remote, acked>> /\ user' \in BOOLEAN
      /\ calls' \in 0..MaxPanelCalls /\ line <= calls'
  BY TermCounts DEF Term!SignInOrOut, TermInv
<1>2. TermPage' /\ TermRequested'
  BY <1>1 DEF TermInv, TermPage, TermRequested, Term!PanelIsCurrent
<1> QED BY <1>1, <1>2, TermKeeps DEF TermInv

LEMMA TermStep ==
  ASSUME TermInv, [Term!Next]_(Term!vars)
  PROVE  TermInv'
<1>1. CASE UNCHANGED Term!vars
  BY <1>1 DEF Term!vars, TermInv, TermPage, TermRequested, TermKept, Term!PanelIsCurrent, Term!RecordsAreTrue
<1>2. ASSUME NEW m \in Term!Modes, Term!RunSaved(m)
      PROVE  TermInv'
  BY <1>2, TermBegins DEF Term!RunSaved
<1>3. CASE Term!Submit
  <2>1. shown.mode \in Term!Modes
    BY DEF TermInv, TermPage, TermShown
  <2> QED BY <1>3, <2>1, TermBegins DEF Term!Submit
<1>4. CASE Term!RunRule
  <2>1. "alerts" \in Term!Modes
    BY TermAssumed
  <2> QED BY <1>4, <2>1, TermBegins DEF Term!RunRule
<1>5. CASE Term!OpenSaved
  <2>1. \A r \in remote.records : r.of \in Term!Modes \cup {Foreign}
    BY DEF TermInv, TermKept, TermRecord
  <2> QED BY <1>5, <2>1, TermOpens DEF Term!OpenSaved
<1>6. CASE Term!OpenSavedRun
  <2>1. "alerts" \in Term!Modes
    BY TermAssumed
  <2> QED BY <1>6, <2>1, TermOpens DEF Term!OpenSavedRun
<1> QED BY <1>1, <1>2, <1>3, <1>4, <1>5, <1>6, TermModes, TermAnswers, TermSaves, TermWrites, TermSigns
     DEF Term!Next

LEMMA TermPromised ==
  TermInv => Term!TypeOK /\ Term!LoadingIsReal /\ Term!PanelIsCurrent /\ Term!RecordsAreTrue
<1> SUFFICES ASSUME TermInv
             PROVE  Term!TypeOK /\ Term!LoadingIsReal
  BY DEF TermInv, TermPage, TermKept
<1>1. Term!LoadingIsReal
  BY DEF TermInv, TermPage, TermRequested, Term!LoadingIsReal
<1>2. line \in 0..MaxPanelCalls
  BY TermAssumed DEF TermInv
<1>3. /\ shown.mode \in Term!Modes /\ shown.run \in 1..line \cup {None} /\ shown.loading \in BOOLEAN
      /\ shown.canSave \in BOOLEAN /\ shown.rows \subseteq 1..line
  BY DEF TermInv, TermPage, TermShown
<1>4. shown.export # None => shown.export.of \in Term!Modes \cup {Foreign} /\ shown.export.by \in 1..line
  BY DEF TermInv, TermPage, TermShown
<1>5. shown.error \in 1..line \cup {None}
  BY DEF TermInv, TermPage
<1>6. \A f \in flights : f.run \in 1..line /\ f.stage \in {"asked", "scanning", "scanned"}
  BY DEF TermInv, TermRequested, TermFlight
<1>7. \A r \in remote.records : r.mode \in Term!Modes \cup {Foreign}
  BY DEF TermInv, TermKept, TermRecord
<1>8. remote.runs \cup remote.marks \cup acked \subseteq 1..line
  BY DEF TermInv, TermKept, Term!RecordsAreTrue
<1> QED BY <1>1, <1>2, <1>3, <1>4, <1>5, <1>6, <1>7, <1>8 DEF TermInv, Term!TypeOK

THEOREM TerminalKept == Term!Spec => [](Term!TypeOK /\ Term!LoadingIsReal /\ Term!PanelIsCurrent /\ Term!RecordsAreTrue)
<1>1. TermInv /\ [Term!Next]_(Term!vars) => TermInv'
  BY TermStep
<1> QED BY TermStart, <1>1, TermPromised, PTL DEF Term!Spec

-----------------------------------------------------------------------------
(* The pulse: what will be heeded is of a visit that goes on and of the    *)
(* symbols it began with, and what is live of the label as well; only a    *)
(* visit that began completes its bootstrap.                               *)
Pulse == INSTANCE PulseScreen WITH Default <- DefaultList, MaxCalls <- MaxScreenCalls

ASSUME PulseParameters == Pulse!PulseAssumption

PulseShown ==
  [status : Pulse!Statuses, data : Watchlists \cup {None}, label : Watchlists, symbols : Watchlists,
   complete : BOOLEAN, crossed : BOOLEAN]

PulseWorld == [focused : BOOLEAN, hydrated : BOOLEAN, list : Watchlists, net : Pulse!Networks]

PulseFlight ==
  [stage : {"read", "live"}, generation : Nat, run : Nat, of : Watchlists, net : Pulse!Networks,
   prior : Watchlists \cup {None}, bootstrap : BOOLEAN]

PulseSound(s, begun) ==
  /\ s \in PulseShown
  /\ s.status \in {"fresh", "stale-refreshing", "offline-stale", "partial"} => s.data # None
  /\ s.status \in {"waiting", "loading", "empty-offline"} => s.data = None
  /\ s.complete => begun /\ s.label = s.symbols
  /\ s.data # None => s.data = s.label

PulseHeeded(f, s) ==
  /\ f.of = s.symbols
  /\ f.stage = "live" => /\ s.label = s.symbols /\ (f.prior # None => f.prior = s.label)
                         /\ f.bootstrap \/ s.complete

PulseWaits(s) == ~(s.complete /\ s.status \notin {"waiting", "loading", "stale-refreshing"})

PulseInv ==
  /\ PulseSound(shown, world.hydrated)
  /\ world \in PulseWorld /\ line \in Pulse!Line /\ calls \in 0..MaxScreenCalls
  /\ flights \subseteq PulseFlight
  /\ \A f \in flights :
       /\ f.generation <= line.generation /\ (f.stage = "read" => f.bootstrap)
       /\ Pulse!Current(f, line) => Pulse!Visiting /\ PulseHeeded(f, shown)
  /\ Pulse!VisitGoesOn

LEMMA PulseAssumed == MaxScreenCalls \in Nat /\ DefaultList \in Watchlists /\ None \notin Watchlists
BY PulseParameters DEF Pulse!PulseAssumption, Pulse!ScreenAssumption

LEMMA PulseStart ==
  ASSUME Pulse!Init
  PROVE  PulseInv
<1>1. PulseSound(shown, world.hydrated)
  BY PulseAssumed DEF Pulse!Init, PulseSound, PulseShown, Pulse!Statuses
<1>2. world \in PulseWorld /\ line \in Pulse!Line /\ calls \in 0..MaxScreenCalls /\ flights = {}
      /\ ~Pulse!Visiting
  BY PulseAssumed DEF Pulse!Init, PulseWorld, Pulse!Line, Pulse!NewLine, Pulse!Visiting
<1> QED BY <1>1, <1>2 DEF PulseInv, Pulse!VisitGoesOn

LEMMA PulseCounts ==
  ASSUME PulseInv, Pulse!Counted
  PROVE  calls' \in 0..MaxScreenCalls
BY PulseAssumed DEF PulseInv, Pulse!Counted

(* A line and a screen after the effect: nothing else can break.           *)
LEMMA PulseSettles ==
  ASSUME NEW s, NEW complete \in BOOLEAN, NEW l \in Pulse!Line, NEW t,
         t = [s EXCEPT !.complete = complete], s \in PulseShown, PulseSound(t, world'.hydrated),
         world' \in PulseWorld, calls' \in 0..MaxScreenCalls, flights' \subseteq PulseFlight,
         Pulse!Settle(s, complete, world'.net, l),
         \A f \in flights' :
           /\ f.generation <= l.generation /\ (f.stage = "read" => f.bootstrap)
           /\ Pulse!Current(f, l) => Pulse!Visiting' /\ PulseHeeded(f, t),
         Pulse!Visiting' /\ PulseWaits(t) /\ ~t.crossed =>
           \/ Pulse!GoesOffline(s, complete, world'.net)
           \/ \E f \in flights' : Pulse!Accepted(f, l) \/ (Pulse!Current(f, l) /\ f.stage = "read")
  PROVE  PulseInv'
<1>1. CASE Pulse!GoesOffline(s, complete, world'.net)
  <2>1. line' = [generation |-> l.generation + 1, run |-> l.run + 1]
    BY <1>1 DEF Pulse!Settle, Pulse!Cancelled
  <2>2. line' \in Pulse!Line /\ line'.generation = l.generation + 1 /\ l.generation \in Nat
    BY <2>1 DEF Pulse!Line
  <2>3. /\ shown' \in PulseShown /\ shown'.complete /\ shown'.data = t.data
        /\ shown'.label = t.label /\ shown'.symbols = t.symbols
        /\ shown'.status = IF t.data = None THEN "empty-offline" ELSE "offline-stale"
    BY <1>1 DEF Pulse!Settle, Pulse!OfflineView, Pulse!GoesOffline, PulseShown, Pulse!Statuses
  <2>4. t.complete
    BY <1>1 DEF Pulse!GoesOffline, PulseShown
  <2>5. PulseSound(shown', world'.hydrated)
    BY <2>3, <2>4 DEF PulseSound
  <2>6. \A f \in flights' : f.generation <= line'.generation /\ ~Pulse!Current(f, line')
    BY <2>2 DEF Pulse!Current, PulseFlight
  <2>7. Pulse!VisitGoesOn'
    BY <2>3 DEF Pulse!VisitGoesOn
  <2> QED BY <2>2, <2>5, <2>6, <2>7 DEF PulseInv, Pulse!Current
<1>2. CASE ~Pulse!GoesOffline(s, complete, world'.net)
  <2>1. line' = l /\ shown' = t
    BY <1>2 DEF Pulse!Settle
  <2>2. t.complete = complete
    BY DEF PulseShown
  <2>3. Pulse!VisitGoesOn'
    <3> SUFFICES ASSUME Pulse!Visiting', ~shown'.crossed
                 PROVE  IF ~PulseWaits(shown')
                        THEN world'.net = "offline" => shown'.status \in {"empty-offline", "offline-stale"}
                        ELSE Pulse!Awaited(line)'
      BY DEF Pulse!VisitGoesOn, PulseWaits
    <3>1. CASE ~PulseWaits(t)
      BY <1>2, <2>1, <2>2, <3>1 DEF PulseWaits, Pulse!GoesOffline
    <3>2. CASE PulseWaits(t)
      BY <1>2, <2>1, <3>2 DEF Pulse!Awaited, Pulse!At, Pulse!Accepted, PulseFlight
    <3> QED BY <2>1, <3>1, <3>2
  <2> QED BY <2>1, <2>3 DEF PulseInv, Pulse!Current
<1> QED BY <1>1, <1>2

(* A visit begins: no flight of before will be heeded.                     *)
LEMMA PulseBegins ==
  ASSUME PulseInv, NEW next, next \in PulseWorld, next.focused, next.hydrated, Pulse!Begin(next),
         calls' \in 0..MaxScreenCalls
  PROVE  PulseInv'
<1> DEFINE l == Pulse!NextRead(line)
           r == [stage |-> "read", generation |-> l.generation, run |-> 0, of |-> next.list,
                 net |-> next.net, prior |-> None, bootstrap |-> TRUE]
           begun == [shown EXCEPT !.symbols = next.list, !.complete = FALSE, !.crossed = FALSE]
           crosses == next.net # world.net /\ Pulse!GoesOffline(shown, shown.complete, next.net)
<1>1. l \in Pulse!Line /\ l.generation = line.generation + 1 /\ line.generation \in Nat
  BY DEF PulseInv, Pulse!NextRead, Pulse!Line
<1>2. r \in PulseFlight /\ r.generation = l.generation /\ r.stage = "read" /\ r.bootstrap /\ r.of = next.list
  BY <1>1 DEF PulseFlight, PulseWorld, Pulse!Line
<1>3. /\ begun \in PulseShown /\ ~begun.complete /\ ~begun.crossed /\ begun.symbols = next.list
      /\ begun.data = shown.data /\ begun.label = shown.label /\ begun.status = shown.status
  BY DEF PulseInv, PulseSound, PulseShown, PulseWorld
<1> HIDE DEF l, r, begun
<1>4. world' = next /\ flights' = flights \cup {r} /\ Pulse!Visiting'
  BY DEF Pulse!Begin, l, r, Pulse!Visiting
<1>5. \A f \in flights : f.generation \in Nat /\ f.generation < l.generation
  BY <1>1 DEF PulseInv, PulseFlight
<1>6. flights' \subseteq PulseFlight
  BY <1>2, <1>4 DEF PulseInv
<1>7. CASE crosses
  <2>1. line' = Pulse!Cancelled(l) /\ shown' = [Pulse!OfflineView(begun) EXCEPT !.crossed = TRUE]
    BY <1>7 DEF Pulse!Begin, l, begun
  <2>2. line' \in Pulse!Line /\ line'.generation = l.generation + 1 /\ l.generation \in Nat
    BY <1>1, <2>1 DEF Pulse!Cancelled, Pulse!Line
  <2>3. /\ shown' \in PulseShown /\ ~shown'.complete /\ shown'.crossed /\ shown'.data = shown.data
        /\ shown'.label = shown.label
        /\ shown'.status = IF shown.data = None THEN "empty-offline" ELSE "offline-stale"
    BY <1>3, <2>1 DEF Pulse!OfflineView, PulseShown, Pulse!Statuses
  <2>4. PulseSound(shown', world'.hydrated)
    BY <2>3 DEF PulseSound, PulseInv
  <2>5. \A f \in flights' : f.generation <= line'.generation /\ ~Pulse!Current(f, line')
    BY <1>1, <1>2, <1>4, <1>5, <2>2 DEF Pulse!Current
  <2>6. \A f \in flights' : f.stage = "read" => f.bootstrap
    BY <1>2, <1>4 DEF PulseInv
  <2> QED BY <1>4, <1>6, <2>2, <2>3, <2>4, <2>5, <2>6 DEF PulseInv, Pulse!VisitGoesOn, Pulse!Current
<1>8. CASE ~crosses
  <2>1. line' = l /\ shown' = begun
    BY <1>8 DEF Pulse!Begin, l, begun
  <2>2. PulseSound(shown', world'.hydrated)
    BY <1>3, <2>1 DEF PulseSound, PulseInv
  <2>3. Pulse!Current(r, line') /\ r \in Pulse!At("read")'
    BY <1>2, <1>4, <2>1 DEF Pulse!Current, Pulse!At
  <2>4. Pulse!VisitGoesOn'
    BY <1>3, <2>1, <2>3 DEF Pulse!VisitGoesOn, Pulse!Awaited
  <2>5. PulseHeeded(r, shown')
    BY <1>2, <1>3, <2>1 DEF PulseHeeded
  <2>6. \A f \in flights' : f = r \/ ~Pulse!Current(f, line')
    BY <1>1, <1>4, <1>5, <2>1 DEF Pulse!Current
  <2>7. \A f \in flights' : f.generation <= line'.generation /\ (f.stage = "read" => f.bootstrap)
    <3>1. l.generation <= l.generation /\ \A f \in flights : f.generation <= l.generation
      BY <1>1, <1>5
    <3>2. \A f \in flights : f.stage = "read" => f.bootstrap
      BY DEF PulseInv
    <3> QED BY <1>2, <1>4, <2>1, <3>1, <3>2
  <2> QED BY <1>1, <1>4, <1>6, <2>1, <2>2, <2>4, <2>5, <2>6, <2>7 DEF PulseInv, Pulse!Current
<1> QED BY <1>7, <1>8

LEMMA PulseComesAndGoes ==
  ASSUME PulseInv,
         \/ \E n \in Pulse!Networks : Pulse!Focus(n)
         \/ Pulse!ListsHydrated \/ Pulse!Blur
         \/ \E l \in Watchlists : Pulse!ListSaved(l)
  PROVE  PulseInv'
<1>0. world \in PulseWorld /\ (Pulse!Visiting <=> world.focused /\ world.hydrated)
  BY DEF PulseInv, Pulse!Visiting
<1>1. ASSUME NEW n \in Pulse!Networks, Pulse!Focus(n)
      PROVE  PulseInv'
  <2>0. calls' \in 0..MaxScreenCalls
    BY <1>1, PulseCounts DEF Pulse!Focus
  <2>1. CASE world.hydrated
    <3> DEFINE next == [world EXCEPT !.focused = TRUE, !.net = n]
    <3>1. next \in PulseWorld /\ next.focused /\ next.hydrated
      BY <1>0, <2>1 DEF PulseWorld
    <3>2. Pulse!Begin(next)
      BY <1>1, <2>1 DEF Pulse!Focus
    <3> HIDE DEF next
    <3> QED BY <2>0, <3>1, <3>2, PulseBegins
  <2>2. CASE ~world.hydrated
    <3>1. /\ UNCHANGED <<shown, line, flights>> /\ world' = [world EXCEPT !.focused = TRUE]
      BY <1>1, <2>2 DEF Pulse!Focus
    <3>2. world' \in PulseWorld /\ world'.hydrated = world.hydrated /\ ~Pulse!Visiting /\ ~Pulse!Visiting'
      BY <1>0, <2>2, <3>1 DEF PulseWorld, Pulse!Visiting
    <3> QED BY <2>0, <3>1, <3>2 DEF PulseInv, Pulse!Current, Pulse!VisitGoesOn
  <2> QED BY <2>1, <2>2
<1>2. CASE Pulse!ListsHydrated
  <2>1. PICK l \in Watchlists :
          LET loaded == [world EXCEPT !.hydrated = TRUE, !.list = l] IN
          IF world.focused THEN Pulse!Begin(loaded)
          ELSE world' = loaded /\ UNCHANGED <<shown, line, flights>>
    BY <1>2 DEF Pulse!ListsHydrated
  <2> DEFINE loaded == [world EXCEPT !.hydrated = TRUE, !.list = l]
  <2>2. loaded \in PulseWorld /\ loaded.hydrated /\ loaded.focused = world.focused
    BY <1>0 DEF PulseWorld
  <2>3. calls' \in 0..MaxScreenCalls /\ ~world.hydrated
    BY <1>2 DEF Pulse!ListsHydrated, PulseInv
  <2>4. CASE world.focused
    <3>1. Pulse!Begin(loaded)
      BY <2>1, <2>4
    <3> HIDE DEF loaded
    <3> QED BY <2>2, <2>3, <2>4, <3>1, PulseBegins
  <2>5. CASE ~world.focused
    <3>1. world' = loaded /\ UNCHANGED <<shown, line, flights>>
      BY <2>1, <2>5
    <3>2. ~Pulse!Visiting /\ ~Pulse!Visiting' /\ world'.hydrated /\ world' \in PulseWorld
      BY <2>2, <2>5, <3>1 DEF Pulse!Visiting
    <3>3. PulseSound(shown', world'.hydrated)
      BY <3>1, <3>2 DEF PulseSound, PulseInv
    <3> QED BY <2>3, <3>1, <3>2, <3>3 DEF PulseInv, Pulse!Current, Pulse!VisitGoesOn
  <2> QED BY <2>4, <2>5
<1>3. CASE Pulse!Blur
  <2>1. /\ world' \in PulseWorld /\ world'.hydrated = world.hydrated /\ ~Pulse!Visiting'
        /\ UNCHANGED <<shown, flights>> /\ calls' \in 0..MaxScreenCalls
    BY <1>0, <1>3, PulseCounts DEF Pulse!Blur, PulseWorld, Pulse!Visiting
  <2>2. line' \in Pulse!Line /\ line'.generation = line.generation + 1 /\ line.generation \in Nat
    BY <1>3 DEF Pulse!Blur, Pulse!Cancelled, Pulse!Line, PulseInv
  <2>3. \A f \in flights : f.generation <= line'.generation /\ ~Pulse!Current(f, line')
    BY <2>2 DEF PulseInv, PulseFlight, Pulse!Current
  <2> QED BY <2>1, <2>2, <2>3 DEF PulseInv, Pulse!VisitGoesOn, Pulse!Current
<1>4. ASSUME NEW l \in Watchlists, Pulse!ListSaved(l)
      PROVE  PulseInv'
  <2>1. /\ world' \in PulseWorld /\ world'.hydrated = world.hydrated /\ world'.net = world.net
        /\ (Pulse!Visiting' <=> Pulse!Visiting)
        /\ UNCHANGED <<shown, line, flights>> /\ calls' \in 0..MaxScreenCalls
    BY <1>0, <1>4, PulseCounts DEF Pulse!ListSaved, PulseWorld, Pulse!Visiting
  <2>2. Pulse!Awaited(line)' <=> Pulse!Awaited(line)
    BY <2>1 DEF Pulse!Awaited, Pulse!At
  <2> QED BY <2>1, <2>2 DEF PulseInv, Pulse!VisitGoesOn, Pulse!Current
<1> QED BY <1>1, <1>2, <1>3, <1>4

LEMMA PulseNet ==
  ASSUME PulseInv, NEW n \in Pulse!Networks, Pulse!NetChanges(n)
  PROVE  PulseInv'
<1>1. /\ world' \in PulseWorld /\ world'.hydrated = world.hydrated /\ world'.net = n
      /\ (Pulse!Visiting' <=> Pulse!Visiting) /\ flights' = flights /\ calls' \in 0..MaxScreenCalls
  BY PulseCounts DEF Pulse!NetChanges, PulseInv, PulseWorld, Pulse!Visiting
<1>2. shown = [shown EXCEPT !.complete = shown.complete] /\ shown \in PulseShown /\ shown.complete \in BOOLEAN
  BY DEF PulseInv, PulseSound, PulseShown
<1>3. Pulse!Settle(shown, shown.complete, world'.net, line)
  BY <1>1 DEF Pulse!NetChanges
<1>4. Pulse!Visiting /\ PulseWaits(shown) /\ ~shown.crossed =>
        \E f \in flights : Pulse!Accepted(f, line) \/ (Pulse!Current(f, line) /\ f.stage = "read")
  BY DEF PulseInv, Pulse!VisitGoesOn, PulseWaits, Pulse!Awaited, Pulse!At
<1> QED BY <1>1, <1>2, <1>3, <1>4, PulseSettles DEF PulseInv

(* A flight that nobody heeds lands.                                       *)
LEMMA PulseUnheeded ==
  ASSUME PulseInv, NEW f \in flights, Pulse!Landed(f), UNCHANGED <<shown, line, world, calls>>,
         ~Pulse!Accepted(f, line), f.stage = "read" => ~Pulse!Current(f, line)
  PROVE  PulseInv'
<1>1. flights' = flights \ {f}
  BY DEF Pulse!Landed
<1>2. Pulse!Awaited(line)' <=> Pulse!Awaited(line)
  BY <1>1 DEF Pulse!Awaited, Pulse!At, Pulse!Accepted, Pulse!Current
<1>3. Pulse!Visiting' <=> Pulse!Visiting
  BY DEF Pulse!Visiting
<1> QED BY <1>1, <1>2, <1>3 DEF PulseInv, Pulse!VisitGoesOn, Pulse!Current

LEMMA PulseReads ==
  ASSUME PulseInv, NEW f \in Pulse!At("read"), NEW found \in BOOLEAN, NEW fresh \in BOOLEAN,
         Pulse!ReadLands(f, found, fresh)
  PROVE  PulseInv'
<1> DEFINE data == IF found THEN f.of ELSE None
           View(stands) == [shown EXCEPT !.status = stands, !.data = data, !.label = f.of]
           Ended(stands, complete) == [View(stands) EXCEPT !.complete = complete]
<1>1. f \in flights /\ f.stage = "read" /\ f \in PulseFlight /\ f.bootstrap /\ UNCHANGED <<world, calls>>
  BY DEF Pulse!At, PulseInv, Pulse!ReadLands
<1>2. line \in Pulse!Line /\ world \in PulseWorld /\ calls \in 0..MaxScreenCalls /\ shown \in PulseShown
      /\ (Pulse!Visiting' <=> Pulse!Visiting) /\ flights \subseteq PulseFlight
  BY <1>1 DEF PulseInv, PulseSound, Pulse!Visiting
<1>3. CASE ~Pulse!Current(f, line)
  BY <1>1, <1>3, PulseUnheeded DEF Pulse!ReadLands, Pulse!Accepted
<1>4. CASE Pulse!Current(f, line)
  <2>1. Pulse!Visiting /\ world.hydrated /\ f.of = shown.symbols
    BY <1>1, <1>4 DEF PulseInv, PulseHeeded, Pulse!Visiting
  <2>2. ASSUME NEW stands \in Pulse!Statuses,
               stands \in {"fresh", "stale-refreshing", "offline-stale", "partial"} => found,
               stands \in {"waiting", "loading", "empty-offline"} => ~found,
               NEW complete \in BOOLEAN
        PROVE  /\ View(stands) \in PulseShown /\ PulseSound(Ended(stands, complete), world.hydrated)
               /\ Ended(stands, complete).symbols = shown.symbols
               /\ Ended(stands, complete).label = f.of /\ Ended(stands, complete).data = data
               /\ Ended(stands, complete).status = stands /\ Ended(stands, complete).complete = complete
               /\ View(stands) = Ended(stands, shown.complete)
    <3>1. data \in Watchlists \cup {None} /\ (data # None <=> found) /\ (found => data = f.of)
      BY <1>1, PulseAssumed DEF PulseFlight
    <3> HIDE DEF data
    <3> QED BY <1>1, <1>2, <2>1, <2>2, <3>1 DEF PulseSound, PulseShown, PulseFlight
  <2>3. ASSUME NEW stands \in {"fresh", "offline-stale", "empty-offline"},
               stands # "empty-offline" <=> found,
               Pulse!Landed(f), Pulse!Settle(View(stands), TRUE, world.net, line)
        PROVE  PulseInv'
    <3> DEFINE s == View(stands)
               t == [s EXCEPT !.complete = TRUE]
    <3>1. /\ s \in PulseShown /\ PulseSound(t, world'.hydrated) /\ t.symbols = shown.symbols
          /\ t.label = f.of /\ t.status = stands /\ t.complete = TRUE
      <4>1. /\ stands \in Pulse!Statuses
            /\ stands \in {"fresh", "stale-refreshing", "offline-stale", "partial"} => found
            /\ stands \in {"waiting", "loading", "empty-offline"} => ~found
        BY <2>3 DEF Pulse!Statuses
      <4> HIDE DEF View, Ended
      <4>2. /\ View(stands) \in PulseShown /\ PulseSound(Ended(stands, TRUE), world.hydrated)
            /\ Ended(stands, TRUE).symbols = shown.symbols /\ Ended(stands, TRUE).label = f.of
            /\ Ended(stands, TRUE).status = stands /\ Ended(stands, TRUE).complete = TRUE
        BY <2>2, <4>1
      <4> QED BY <1>1, <4>2 DEF Ended
    <3>2. Pulse!Settle(s, TRUE, world'.net, line)
      BY <1>1, <2>3
    <3> HIDE DEF s
    <3>3. t = [s EXCEPT !.complete = TRUE] /\ ~PulseWaits(t)
      BY <2>3, <3>1 DEF PulseWaits
    <3> HIDE DEF t
    <3>4. \A g \in flights' : g \in flights
      BY <2>3 DEF Pulse!Landed
    <3>5. \A g \in flights : Pulse!Current(g, line) => PulseHeeded(g, shown)
      BY DEF PulseInv
    <3>6. \A g \in flights' : Pulse!Current(g, line) => Pulse!Visiting' /\ PulseHeeded(g, t)
      <4>1. shown.symbols = f.of
        BY <2>1
      <4>2. \A g \in flights : PulseHeeded(g, shown) /\ g.stage = "live" => shown.label = t.label
        BY <3>1, <4>1 DEF PulseHeeded
      <4> QED BY <1>2, <2>1, <3>1, <3>4, <3>5, <4>1, <4>2 DEF PulseHeeded
    <3>7. \A g \in flights' : g.generation <= line.generation /\ (g.stage = "read" => g.bootstrap)
      BY <3>4 DEF PulseInv
    <3> QED BY <1>1, <1>2, <3>1, <3>2, <3>3, <3>4, <3>6, <3>7, PulseSettles
  <2>4. CASE /\ f.net # "offline" /\ ~(found /\ fresh)
             /\ shown' = View(IF found THEN "stale-refreshing" ELSE "loading")
             /\ line' = Pulse!NextRun(line)
             /\ flights' = (flights \ {f}) \cup
                  {[f EXCEPT !.stage = "live", !.run = line'.run, !.prior = data]}
    <3> DEFINE g == [f EXCEPT !.stage = "live", !.run = line'.run, !.prior = data]
    <3>1. line' \in Pulse!Line /\ line'.generation = line.generation /\ line'.run \in Nat
      BY <1>2, <2>4 DEF Pulse!NextRun, Pulse!Line
    <3>2. /\ PulseSound(shown', world'.hydrated) /\ shown'.symbols = shown.symbols
          /\ shown'.label = f.of /\ shown'.complete = shown.complete
      <4> DEFINE stands == IF found THEN "stale-refreshing" ELSE "loading"
      <4>1. /\ stands \in Pulse!Statuses
            /\ stands \in {"fresh", "stale-refreshing", "offline-stale", "partial"} => found
            /\ stands \in {"waiting", "loading", "empty-offline"} => ~found
        BY DEF Pulse!Statuses
      <4>2. shown' = View(stands) /\ shown.complete \in BOOLEAN
        BY <1>2, <2>4 DEF PulseShown
      <4> HIDE DEF stands, View, Ended
      <4>3. /\ PulseSound(Ended(stands, shown.complete), world.hydrated)
            /\ View(stands) = Ended(stands, shown.complete)
            /\ Ended(stands, shown.complete).symbols = shown.symbols
            /\ Ended(stands, shown.complete).label = f.of
            /\ Ended(stands, shown.complete).complete = shown.complete
        BY <2>2, <4>1, <4>2
      <4> QED BY <1>1, <4>2, <4>3
    <3>3. data \in Watchlists \cup {None} /\ (data # None => data = f.of)
      BY <1>1 DEF PulseFlight
    <3> HIDE DEF data
    <3>4. /\ g \in PulseFlight /\ g.stage = "live" /\ g.generation = f.generation /\ g.run = line'.run
          /\ g.of = f.of /\ g.prior = data /\ g.bootstrap
      BY <1>1, <3>1, <3>3 DEF PulseFlight
    <3>5. flights' = (flights \ {f}) \cup {g}
      BY <2>4
    <3> HIDE DEF g
    <3>6. Pulse!Accepted(g, line') /\ g \in Pulse!At("live")'
      BY <1>4, <3>1, <3>4, <3>5 DEF Pulse!Accepted, Pulse!Current, Pulse!At
    <3>7. PulseHeeded(g, shown')
      BY <2>1, <3>2, <3>3, <3>4 DEF PulseHeeded
    <3>8. Pulse!VisitGoesOn'
      <4>1. shown'.status \in {"waiting", "loading", "stale-refreshing"}
        BY <1>2, <2>4 DEF PulseShown
      <4> QED BY <3>6, <4>1 DEF Pulse!VisitGoesOn, Pulse!Awaited
    <3>9. \A k \in flights : Pulse!Current(k, line') => PulseHeeded(k, shown')
      BY <2>1, <3>1, <3>2 DEF PulseInv, PulseHeeded, Pulse!Current
    <3>10. \A k \in flights' : k.generation <= line'.generation /\ (k.stage = "read" => k.bootstrap)
      BY <1>1, <3>1, <3>4, <3>5 DEF PulseInv
    <3>11. flights' \subseteq PulseFlight
      BY <1>2, <3>4, <3>5
    <3> QED BY <1>1, <1>2, <2>1, <3>1, <3>2, <3>5, <3>7, <3>8, <3>9, <3>10, <3>11 DEF PulseInv
  <2>5. \/ /\ Pulse!Landed(f)
           /\ Pulse!Settle(View(IF found THEN "offline-stale" ELSE "empty-offline"), TRUE, world.net, line)
        \/ /\ found /\ Pulse!Landed(f) /\ Pulse!Settle(View("fresh"), TRUE, world.net, line)
        \/ /\ f.net # "offline" /\ ~(found /\ fresh)
           /\ shown' = View(IF found THEN "stale-refreshing" ELSE "loading")
           /\ line' = Pulse!NextRun(line)
           /\ flights' = (flights \ {f}) \cup
                {[f EXCEPT !.stage = "live", !.run = line'.run, !.prior = data]}
    BY <1>4 DEF Pulse!ReadLands
  <2>6. CASE /\ Pulse!Landed(f)
             /\ Pulse!Settle(View(IF found THEN "offline-stale" ELSE "empty-offline"), TRUE, world.net, line)
    <3> DEFINE stands == IF found THEN "offline-stale" ELSE "empty-offline"
    <3>1. stands \in {"fresh", "offline-stale", "empty-offline"} /\ (stands # "empty-offline" <=> found)
      OBVIOUS
    <3>2. Pulse!Landed(f) /\ Pulse!Settle(View(stands), TRUE, world.net, line)
      BY <2>6
    <3> HIDE DEF stands
    <3> QED BY <2>3, <3>1, <3>2
  <2>7. CASE found /\ Pulse!Landed(f) /\ Pulse!Settle(View("fresh"), TRUE, world.net, line)
    BY <2>3, <2>7
  <2> QED BY <2>4, <2>5, <2>6, <2>7
<1> QED BY <1>3, <1>4

LEMMA PulseEnds ==
  ASSUME PulseInv, NEW f \in Pulse!At("live"), Pulse!Answers(f) \/ Pulse!Rejects(f)
  PROVE  PulseInv'
<1>1. f \in flights /\ f.stage = "live" /\ f \in PulseFlight /\ UNCHANGED <<world, calls>>
  BY DEF Pulse!At, PulseInv, Pulse!Answers, Pulse!Rejects
<1>2. line \in Pulse!Line /\ world \in PulseWorld /\ calls \in 0..MaxScreenCalls /\ shown \in PulseShown
      /\ (Pulse!Visiting' <=> Pulse!Visiting) /\ flights \subseteq PulseFlight
  BY <1>1 DEF PulseInv, PulseSound, Pulse!Visiting
<1>3. CASE Pulse!Landed(f) /\ UNCHANGED <<shown, line>> /\ ~Pulse!Accepted(f, line)
  BY <1>1, <1>3, PulseUnheeded
<1>4. ASSUME Pulse!Current(f, line), NEW s,
             \/ \E stands \in {"fresh", "partial", "empty-online"} :
                  s = [shown EXCEPT !.status = stands, !.data = f.of]
             \/ s = [shown EXCEPT !.status = "error", !.data = f.prior],
             Pulse!Ends(f, s)
      PROVE  PulseInv'
  <2> DEFINE complete == shown.complete \/ f.bootstrap
             t == [s EXCEPT !.complete = complete]
  <2>1. Pulse!Visiting /\ world.hydrated /\ PulseHeeded(f, shown)
    BY <1>1, <1>4 DEF PulseInv, Pulse!Visiting
  <2>2. complete = TRUE
    BY <1>1, <2>1 DEF PulseHeeded
  <2> HIDE DEF complete
  <2>3. /\ s \in PulseShown /\ s.symbols = shown.symbols /\ s.label = shown.label
        /\ s.status \in {"fresh", "partial", "empty-online", "error"}
        /\ s.data \in Watchlists \cup {None} /\ (s.data # None => s.data = s.label)
        /\ s.status \in {"fresh", "partial"} => s.data # None
    BY <1>1, <1>2, <1>4, <2>1, PulseAssumed DEF PulseShown, PulseFlight, Pulse!Statuses, PulseHeeded
  <2>4. /\ t \in PulseShown /\ t.symbols = shown.symbols /\ t.label = shown.label
        /\ t.status = s.status /\ t.data = s.data /\ t.complete = TRUE
    BY <2>2, <2>3 DEF PulseShown
  <2>5. shown.label = shown.symbols
    BY <1>1, <2>1 DEF PulseHeeded
  <2>6. PulseSound(t, world'.hydrated)
    BY <1>1, <2>1, <2>3, <2>4, <2>5 DEF PulseSound
  <2>7. t = [s EXCEPT !.complete = complete] /\ complete \in BOOLEAN /\ ~PulseWaits(t)
    BY <2>2, <2>3, <2>4 DEF PulseWaits
  <2> HIDE DEF t
  <2>8. flights' = flights \ {f} /\ Pulse!Settle(s, complete, world'.net, line)
    BY <1>1, <1>4 DEF Pulse!Ends, Pulse!Landed, complete
  <2>9. \A g \in flights' :
          /\ g.generation <= line.generation /\ (g.stage = "read" => g.bootstrap)
          /\ Pulse!Current(g, line) => Pulse!Visiting' /\ PulseHeeded(g, t)
    BY <1>2, <2>1, <2>4, <2>8 DEF PulseInv, PulseHeeded
  <2>10. flights' \subseteq PulseFlight
    BY <1>2, <2>8
  <2> QED BY <1>1, <1>2, <2>3, <2>6, <2>7, <2>8, <2>9, <2>10, PulseSettles
<1>5. \/ Pulse!Landed(f) /\ UNCHANGED <<shown, line>> /\ ~Pulse!Accepted(f, line)
      \/ /\ Pulse!Current(f, line)
         /\ \E s : /\ \/ \E stands \in {"fresh", "partial", "empty-online"} :
                           s = [shown EXCEPT !.status = stands, !.data = f.of]
                      \/ s = [shown EXCEPT !.status = "error", !.data = f.prior]
                   /\ Pulse!Ends(f, s)
  <2>1. CASE Pulse!Answers(f)
    BY <2>1 DEF Pulse!Answers, Pulse!Accepted
  <2>2. CASE Pulse!Rejects(f)
    BY <2>2 DEF Pulse!Rejects, Pulse!Accepted
  <2> QED BY <2>1, <2>2
<1> QED BY <1>3, <1>4, <1>5

LEMMA PulseRefreshes ==
  ASSUME PulseInv, Pulse!Refresh
  PROVE  PulseInv'
<1> DEFINE f == [stage |-> "live", generation |-> line'.generation, run |-> line'.run, of |-> shown.symbols,
                 net |-> world.net, prior |-> shown.data, bootstrap |-> FALSE]
<1>1. line \in Pulse!Line /\ world \in PulseWorld /\ shown \in PulseShown /\ world' = world
      /\ shown.complete /\ Pulse!Visiting /\ Pulse!Visiting' /\ flights \subseteq PulseFlight
  BY DEF PulseInv, PulseSound, Pulse!Refresh, Pulse!Visiting
<1>2. line' = [generation |-> line.generation + 1, run |-> line.run + 1]
  BY <1>1 DEF Pulse!Refresh, Pulse!NextRun, Pulse!NextRead, Pulse!Line
<1>3. line' \in Pulse!Line /\ line'.generation = line.generation + 1 /\ line.generation \in Nat
  BY <1>1, <1>2 DEF Pulse!Line
<1>4. /\ f \in PulseFlight /\ f.stage = "live" /\ f.of = shown.symbols /\ f.prior = shown.data
      /\ f.generation = line'.generation /\ f.run = line'.run
  BY <1>1, <1>3 DEF PulseFlight, PulseShown, PulseWorld, Pulse!Line
<1>5. flights' = flights \cup {f}
  BY DEF Pulse!Refresh
<1> HIDE DEF f
<1>6. /\ shown' \in PulseShown /\ shown'.data = shown.data /\ shown'.label = shown.label
      /\ shown'.symbols = shown.symbols /\ shown'.complete
      /\ shown'.status = IF shown.data = None THEN "loading" ELSE "stale-refreshing"
  BY <1>1 DEF Pulse!Refresh, PulseShown, Pulse!Statuses
<1>7. PulseSound(shown', world'.hydrated) /\ PulseHeeded(f, shown')
  BY <1>1, <1>4, <1>6 DEF PulseInv, PulseSound, PulseHeeded
<1>8. \A g \in flights : g.generation <= line'.generation /\ ~Pulse!Current(g, line')
  BY <1>3 DEF PulseInv, PulseFlight, Pulse!Current
<1>9. Pulse!Accepted(f, line') /\ f \in Pulse!At("live")'
  BY <1>4, <1>5 DEF Pulse!Accepted, Pulse!Current, Pulse!At
<1>10. Pulse!VisitGoesOn'
  BY <1>6, <1>9 DEF Pulse!VisitGoesOn, Pulse!Awaited
<1>11. calls' \in 0..MaxScreenCalls
  BY PulseCounts DEF Pulse!Refresh
<1>12. line'.generation <= line'.generation
  BY <1>3
<1> QED BY <1>1, <1>3, <1>4, <1>5, <1>7, <1>8, <1>10, <1>11, <1>12 DEF PulseInv

LEMMA PulseStep ==
  ASSUME PulseInv, [Pulse!Next]_(Pulse!vars)
  PROVE  PulseInv'
<1>1. CASE UNCHANGED Pulse!vars
  BY <1>1 DEF Pulse!vars, PulseInv, Pulse!VisitGoesOn, Pulse!Visiting, Pulse!Awaited, Pulse!At,
     Pulse!Accepted, Pulse!Current
<1> QED BY <1>1, PulseComesAndGoes, PulseNet, PulseReads, PulseEnds, PulseRefreshes DEF Pulse!Next

LEMMA PulsePromised ==
  PulseInv => Pulse!TypeOK /\ Pulse!RowsAreOfTheList /\ Pulse!VisitGoesOn
BY DEF PulseInv, PulseSound, PulseShown, PulseWorld, PulseFlight, Pulse!TypeOK, Pulse!RowsAreOfTheList

(* The rows are of the list the screen names, and a visit goes on until    *)
(* its bootstrap is complete, for any lists, and any number of visits,     *)
(* changes of the network and refreshes.                                   *)
THEOREM PulseKept == Pulse!Spec => [](Pulse!TypeOK /\ Pulse!RowsAreOfTheList /\ Pulse!VisitGoesOn)
BY PulsePromised, PulseStart, PulseStep, PTL DEF Pulse!Spec

-----------------------------------------------------------------------------
(* The search box: a request that will be heeded is for the text in the    *)
(* box, and the timer holds that text.                                     *)
Search == INSTANCE SearchBox WITH MaxCalls <- MaxScreenCalls

ASSUME SearchParameters == Search!SearchAssumption

SearchShown ==
  [query : Search!Texts, of : Search!Texts, results : Search!Texts,
   status : {"idle", "loading", "results", "empty", "error"}]

SearchFlight == [stage : {"live"}, of : Queries, generation : Nat, run : Nat]

SearchInv ==
  /\ shown \in SearchShown /\ timer \in Long \cup {None} /\ line \in Search!Line
  /\ calls \in 0..MaxScreenCalls
  /\ flights \subseteq SearchFlight
  /\ \A f \in flights :
       /\ f.generation <= line.generation
       /\ Search!Current(f, line) => f.of = shown.query
  /\ timer # None => timer = shown.query
  /\ Search!ResultsAreOfTheText /\ Search!SearchIsReal

LEMMA SearchAssumed == MaxScreenCalls \in Nat /\ Long \subseteq Queries /\ None \notin Queries
BY SearchParameters DEF Search!SearchAssumption, Search!ScreenAssumption

LEMMA SearchStart ==
  ASSUME Search!Init
  PROVE  SearchInv
BY SearchAssumed DEF Search!Init, SearchInv, SearchShown, Search!Texts, Search!Line, Search!NewLine,
   Search!ResultsAreOfTheText, Search!SearchIsReal

LEMMA SearchCounts ==
  ASSUME SearchInv, Search!Counted
  PROVE  calls' \in 0..MaxScreenCalls
BY SearchAssumed DEF SearchInv, Search!Counted

(* runSearch(q) for the text in the box, on numbers later than the line's. *)
LEMMA SearchRuns ==
  ASSUME SearchInv, calls' \in 0..MaxScreenCalls,
         NEW l \in Search!Line, l.generation >= line.generation,
         shown.query # None, Search!Run(shown.query, l)
  PROVE  SearchInv'
<1> USE SearchAssumed DEF SearchInv, Search!Texts
<1> DEFINE q == shown.query
           f == [stage |-> "live", of |-> q, generation |-> line'.generation, run |-> line'.run]
<1>1. line' \in Search!Line /\ line'.generation = l.generation + 1 /\ line'.generation > line.generation
  <2>1. line' = [generation |-> l.generation + 1, run |-> l.run + 1]
    BY DEF Search!Run, Search!NextRun, Search!NextRead, Search!Line
  <2>2. l.generation \in Nat /\ l.run \in Nat /\ line.generation \in Nat
    BY DEF Search!Line
  <2> QED BY <2>1, <2>2 DEF Search!Line
<1>2. shown' \in SearchShown /\ shown'.query = q /\ shown'.of = q /\ shown'.status = "loading"
  BY DEF Search!Run, SearchShown
<1>3. q \in Queries /\ f \in SearchFlight /\ f \in flights' /\ flights' = flights \cup {f} /\ timer' = None
  BY <1>1 DEF Search!Run, SearchFlight, Search!Line, SearchShown
<1>4. Search!Accepted(f, line')
  BY DEF Search!Accepted, Search!Current
<1>5. Search!ResultsAreOfTheText' /\ Search!SearchIsReal'
  BY <1>2, <1>3, <1>4 DEF Search!ResultsAreOfTheText, Search!SearchIsReal, Search!Awaited, Search!At
<1>6. \A g \in flights' :
        /\ g.generation <= line'.generation
        /\ Search!Current(g, line') => g.of = shown'.query
  BY <1>1, <1>2, <1>3 DEF Search!Current, SearchFlight, Search!Line
<1> QED BY <1>1, <1>2, <1>3, <1>5, <1>6

LEMMA SearchTypes ==
  ASSUME SearchInv, NEW q \in Search!Texts, Search!Type(q)
  PROVE  SearchInv'
<1> USE SearchAssumed DEF SearchInv, Search!Type, Search!Texts
<1>1. calls' \in 0..MaxScreenCalls
  BY SearchCounts
<1>2. line' \in Search!Line /\ line'.generation > line.generation /\ flights' = flights
  BY DEF Search!Cancelled, Search!Line
<1>3. shown' \in SearchShown /\ shown'.query = q
  BY DEF SearchShown
<1>4. timer' \in Long \cup {None} /\ (timer' # None => timer' = q) /\ (q \in Long => timer' # None)
  OBVIOUS
<1>5. q \notin Long => shown'.status = "idle"
  OBVIOUS
<1>6. Search!ResultsAreOfTheText' /\ Search!SearchIsReal'
  BY <1>3, <1>4, <1>5 DEF Search!ResultsAreOfTheText, Search!SearchIsReal
<1>7. \A g \in flights' : g.generation < line'.generation
  BY <1>2 DEF SearchFlight, Search!Line
<1>8. \A g \in flights' : g.generation <= line'.generation /\ ~Search!Current(g, line')
  BY <1>2, <1>7 DEF Search!Current, SearchFlight, Search!Line
<1> QED BY <1>1, <1>2, <1>3, <1>4, <1>6, <1>8

LEMMA SearchLands ==
  ASSUME SearchInv, NEW f \in flights, Search!Answers(f) \/ Search!Rejects(f)
  PROVE  SearchInv'
<1> USE SearchAssumed DEF SearchInv, Search!Texts
<1>1. UNCHANGED <<line, timer, calls>> /\ flights' = flights \ {f}
  BY DEF Search!Answers, Search!Rejects, Search!Landed
<1>2. \/ /\ shown' = shown /\ ~Search!Accepted(f, line)
      \/ /\ Search!Current(f, line)
         /\ shown' \in SearchShown /\ shown'.query = shown.query
         /\ shown'.of = f.of /\ shown'.status \in {"results", "empty", "error"}
  <2>1. f.of \in Queries
    BY DEF SearchFlight
  <2> QED BY <2>1 DEF Search!Answers, Search!Rejects, Search!Accepted, SearchShown
<1>3. Search!ResultsAreOfTheText'
  BY <1>1, <1>2 DEF Search!ResultsAreOfTheText
<1>4. Search!SearchIsReal'
  BY <1>1, <1>2 DEF Search!SearchIsReal, Search!Awaited, Search!At, SearchFlight
<1>5. \A g \in flights' : Search!Current(g, line') => g.of = shown'.query
  BY <1>1, <1>2 DEF Search!Current
<1> QED BY <1>1, <1>2, <1>3, <1>4, <1>5

LEMMA SearchStep ==
  ASSUME SearchInv, [Search!Next]_(Search!vars)
  PROVE  SearchInv'
<1>1. CASE Search!Debounced
  BY <1>1, SearchRuns, SearchAssumed DEF Search!Debounced, SearchInv, Search!Line
<1>2. CASE Search!Submit
  <2>1. Search!Cancelled(line) \in Search!Line /\ Search!Cancelled(line).generation >= line.generation
    BY DEF SearchInv, Search!Cancelled, Search!Line
  <2> QED BY <1>2, <2>1, SearchRuns, SearchCounts DEF Search!Submit
<1>3. CASE UNCHANGED Search!vars
  BY <1>3 DEF Search!vars, SearchInv, Search!ResultsAreOfTheText, Search!SearchIsReal, Search!Awaited,
     Search!At, Search!Accepted, Search!Current
<1> QED BY <1>1, <1>2, <1>3, SearchTypes, SearchLands DEF Search!Next

(* What the search screen says is about the text in the box, and a search  *)
(* that is said to run runs, for any texts and any number of searches.     *)
THEOREM SearchKept ==
  Search!Spec => [](Search!TypeOK /\ Search!ResultsAreOfTheText /\ Search!SearchIsReal)
<1>1. SearchInv => Search!TypeOK /\ Search!ResultsAreOfTheText /\ Search!SearchIsReal
  BY DEF SearchInv, Search!TypeOK, SearchShown, SearchFlight
<1> QED BY <1>1, SearchStart, SearchStep, PTL DEF Search!Spec
-----------------------------------------------------------------------------
(* The overview: once the network is lost after the bootstrap, nothing     *)
(* that is under way will be heeded.                                       *)
Overview == INSTANCE OverviewPanel WITH MaxCalls <- MaxPanelCalls

ASSUME OverviewParameters == Overview!ScreenAssumption

OverviewShown ==
  [status : Overview!Busy \cup Overview!Offline \cup {"fresh", "partial", "error"},
   data : BOOLEAN, complete : BOOLEAN]

OverviewFlight ==
  [stage : {"read", "live"}, generation : Nat, run : Nat, net : Overview!Networks, prior : BOOLEAN]

OverviewInv ==
  /\ shown \in OverviewShown /\ flights \subseteq OverviewFlight
  /\ Overview!TypeOK
  /\ \A f \in flights : f.generation <= line.generation
  /\ shown.complete /\ net = "offline" => \A f \in flights : ~Overview!Current(f, line)
  /\ Overview!OverviewIsReal

LEMMA OverviewAssumed == MaxPanelCalls \in Nat
BY OverviewParameters DEF Overview!ScreenAssumption

LEMMA OverviewStart ==
  ASSUME Overview!Init
  PROVE  OverviewInv
<1> DEFINE f == [stage |-> "read", generation |-> 1, run |-> 0, net |-> net, prior |-> FALSE]
<1>1. line = [generation |-> 1, run |-> 0] /\ flights = {f}
  BY DEF Overview!Init, Overview!NextRead, Overview!NewLine
<1>2. f \in OverviewFlight /\ shown \in OverviewShown
  BY DEF Overview!Init, OverviewFlight, OverviewShown, Overview!Busy
<1>3. Overview!Current(f, line) /\ f \in Overview!At("read")
  BY <1>1 DEF Overview!Current, Overview!At
<1>4. Overview!TypeOK
  BY <1>1, OverviewAssumed DEF Overview!TypeOK, Overview!Init, Overview!Line, Overview!Busy
<1>5. Overview!OverviewIsReal
  BY <1>3 DEF Overview!OverviewIsReal, Overview!Init, Overview!Awaited
<1> QED BY <1>1, <1>2, <1>4, <1>5 DEF OverviewInv, Overview!Init

(* A line and a screen after the effect: nothing else can break.           *)
LEMMA OverviewSettles ==
  ASSUME OverviewInv, NEW s \in OverviewShown, NEW l \in Overview!Line, net' \in Overview!Networks,
         Overview!Settle(s, net', l), calls' \in 0..MaxPanelCalls, flights' \subseteq OverviewFlight,
         \A f \in flights' : f.generation <= l.generation,
         s.status \in {"fresh", "partial", "stale-refreshing", "offline-stale"} => s.data,
         s.status \in {"loading", "empty-offline"} => ~s.data,
         (s.complete /\ net' = "offline") \/ (s.status \in Overview!Busy =>
            \E f \in flights' : Overview!Accepted(f, l) \/ (Overview!Current(f, l) /\ f.stage = "read"))
  PROVE  OverviewInv'
<1>1. CASE s.complete /\ net' = "offline"
  <2>1. line' = [generation |-> l.generation + 1, run |-> l.run + 1]
    BY <1>1 DEF Overview!Settle, Overview!Cancelled
  <2>2. line' \in Overview!Line /\ line'.generation = l.generation + 1 /\ l.generation \in Nat
    BY <2>1 DEF Overview!Line
  <2>3. shown' \in OverviewShown /\ shown'.data = s.data /\ shown'.complete
        /\ shown'.status = IF s.data THEN "offline-stale" ELSE "empty-offline"
    BY <1>1 DEF Overview!Settle, OverviewShown, Overview!Offline
  <2>4. \A f \in flights' : f.generation <= line'.generation /\ ~Overview!Current(f, line')
    BY <2>2 DEF Overview!Current, OverviewFlight
  <2>5. Overview!TypeOK'
    BY <2>2, <2>3 DEF Overview!TypeOK, OverviewFlight, OverviewShown
  <2>6. Overview!OverviewIsReal'
    BY <2>3, <2>4 DEF Overview!OverviewIsReal, Overview!Busy, Overview!Offline, Overview!Awaited, Overview!At,
       Overview!Accepted
  <2> QED BY <2>3, <2>4, <2>5, <2>6 DEF OverviewInv
<1>2. CASE ~(s.complete /\ net' = "offline")
  <2>1. line' = l /\ shown' = s
    BY <1>2 DEF Overview!Settle
  <2>2. Overview!TypeOK'
    BY <2>1 DEF Overview!TypeOK, OverviewFlight, OverviewShown
  <2>3. Overview!OverviewIsReal'
    BY <1>2, <2>1 DEF Overview!OverviewIsReal, Overview!Awaited, Overview!At, OverviewFlight,
       Overview!Accepted
  <2> QED BY <1>2, <2>1, <2>2, <2>3 DEF OverviewInv
<1> QED BY <1>1, <1>2

LEMMA OverviewNet ==
  ASSUME OverviewInv, NEW n \in Overview!Networks, Overview!NetChanges(n)
  PROVE  OverviewInv'
<1>1. calls' \in 0..MaxPanelCalls
  BY OverviewAssumed DEF OverviewInv, Overview!TypeOK, Overview!NetChanges, Overview!Counted
<1>2. Overview!Settle(shown, net', line) /\ flights' = flights /\ net' = n
  BY DEF Overview!NetChanges
<1>3. shown.status \in Overview!Busy =>
        \E f \in flights : Overview!Accepted(f, line) \/ (Overview!Current(f, line) /\ f.stage = "read")
  BY DEF OverviewInv, Overview!OverviewIsReal, Overview!Awaited, Overview!At
<1> QED BY <1>1, <1>2, <1>3, OverviewSettles DEF OverviewInv, Overview!TypeOK

(* A flight that nobody heeds lands.                                       *)
LEMMA OverviewUnheeded ==
  ASSUME OverviewInv, NEW f \in flights, Overview!Landed(f), UNCHANGED <<shown, line, net, calls>>,
         ~Overview!Accepted(f, line), f.stage = "read" => ~Overview!Current(f, line)
  PROVE  OverviewInv'
<1>1. flights' = flights \ {f}
  BY DEF Overview!Landed
<1>2. Overview!Awaited(line)' <=> Overview!Awaited(line)
  BY <1>1 DEF Overview!Awaited, Overview!At, Overview!Accepted, Overview!Current
<1>3. Overview!TypeOK' /\ Overview!OverviewIsReal'
  BY <1>1, <1>2 DEF OverviewInv, Overview!TypeOK, Overview!OverviewIsReal
<1> QED BY <1>1, <1>3 DEF OverviewInv, Overview!Current

LEMMA OverviewReads ==
  ASSUME OverviewInv, NEW f \in Overview!At("read"), NEW found \in BOOLEAN, NEW fresh \in BOOLEAN,
         Overview!ReadLands(f, found, fresh)
  PROVE  OverviewInv'
<1> DEFINE View(stands) == [status |-> stands, data |-> found, complete |-> TRUE]
<1>1. f \in flights /\ f.stage = "read" /\ f \in OverviewFlight /\ UNCHANGED <<net, calls>>
  BY DEF Overview!At, OverviewInv, Overview!ReadLands
<1>2. line \in Overview!Line /\ net \in Overview!Networks /\ calls \in 0..MaxPanelCalls
  BY DEF OverviewInv, Overview!TypeOK
<1>3. CASE ~Overview!Current(f, line)
  BY <1>1, <1>3, OverviewUnheeded DEF Overview!ReadLands, Overview!Accepted
<1>4. CASE Overview!Current(f, line)
  <2>1. CASE /\ f.net = "offline" /\ Overview!Landed(f)
             /\ Overview!Settle(View(IF found THEN "offline-stale" ELSE "empty-offline"), net, line)
    <3>1. View(IF found THEN "offline-stale" ELSE "empty-offline") \in OverviewShown
      BY DEF OverviewShown, Overview!Offline
    <3>2. flights' \subseteq flights
      BY <2>1 DEF Overview!Landed
    <3> QED BY <1>1, <1>2, <2>1, <3>1, <3>2, OverviewSettles DEF OverviewInv, Overview!Busy
  <2>2. CASE /\ f.net # "offline" /\ found /\ fresh /\ Overview!Landed(f)
             /\ Overview!Settle(View("fresh"), net, line)
    <3>1. View("fresh") \in OverviewShown
      BY DEF OverviewShown
    <3>2. flights' \subseteq flights
      BY <2>2 DEF Overview!Landed
    <3> QED BY <1>1, <1>2, <2>2, <3>1, <3>2, OverviewSettles DEF OverviewInv, Overview!Busy
  <2>3. CASE /\ f.net # "offline" /\ ~(found /\ fresh)
             /\ LET l == Overview!NextRun(line) IN
                  /\ flights' = (flights \ {f}) \cup
                       {[f EXCEPT !.stage = "live", !.run = l.run, !.prior = found]}
                  /\ Overview!Settle(View(IF found THEN "stale-refreshing" ELSE "loading"), net, l)
    <3> DEFINE l == Overview!NextRun(line)
               g == [f EXCEPT !.stage = "live", !.run = l.run, !.prior = found]
    <3>1. l \in Overview!Line /\ l.generation = line.generation /\ l.run \in Nat
      BY <1>2 DEF Overview!NextRun, Overview!Line
    <3>2. View(IF found THEN "stale-refreshing" ELSE "loading") \in OverviewShown
      BY DEF OverviewShown, Overview!Busy
    <3>3. g \in OverviewFlight /\ g.generation = f.generation /\ g.run = l.run
      BY <1>1, <3>1 DEF OverviewFlight
    <3> HIDE DEF l
    <3>4. Overview!Accepted(g, l)
      BY <1>4, <3>1, <3>3 DEF Overview!Accepted, Overview!Current
    <3>5. flights' = (flights \ {f}) \cup {g} /\ g \in flights'
      BY <2>3 DEF l
    <3>6. flights' \subseteq OverviewFlight /\ \A k \in flights' : k.generation <= l.generation
      BY <1>1, <3>1, <3>3, <3>5 DEF OverviewInv
    <3>7. Overview!Settle(View(IF found THEN "stale-refreshing" ELSE "loading"), net, l)
      BY <2>3 DEF l
    <3> HIDE DEF g
    <3> QED BY <1>1, <1>2, <3>1, <3>2, <3>4, <3>5, <3>6, <3>7, OverviewSettles
  <2> QED BY <1>4, <2>1, <2>2, <2>3 DEF Overview!ReadLands
<1> QED BY <1>3, <1>4

LEMMA OverviewEnds ==
  ASSUME OverviewInv, NEW f \in Overview!At("live"), Overview!Answers(f) \/ Overview!Rejects(f)
  PROVE  OverviewInv'
<1>1. f \in flights /\ f.stage = "live" /\ f \in OverviewFlight /\ UNCHANGED <<line, net, calls>>
  BY DEF Overview!At, OverviewInv, Overview!Answers, Overview!Rejects
<1>2. \/ shown' = shown /\ ~Overview!Accepted(f, line)
      \/ /\ Overview!Current(f, line) /\ shown' \in OverviewShown /\ shown'.complete = shown.complete
         /\ \/ shown'.status \in {"fresh", "partial"} /\ shown'.data
            \/ shown'.status = "error"
  BY <1>1 DEF Overview!Answers, Overview!Rejects, Overview!Accepted, OverviewInv, OverviewShown, OverviewFlight
<1>3. CASE shown' = shown /\ ~Overview!Accepted(f, line)
  BY <1>1, <1>3, OverviewUnheeded DEF Overview!Answers, Overview!Rejects
<1>4. CASE /\ Overview!Current(f, line) /\ shown' \in OverviewShown /\ shown'.complete = shown.complete
           /\ \/ shown'.status \in {"fresh", "partial"} /\ shown'.data
              \/ shown'.status = "error"
  <2>1. ~(shown.complete /\ net = "offline")
    BY <1>1, <1>4 DEF OverviewInv
  <2>2. flights' = flights \ {f}
    BY DEF Overview!Answers, Overview!Rejects, Overview!Landed
  <2>3. Overview!TypeOK'
    BY <1>1, <1>4, <2>2 DEF OverviewInv, Overview!TypeOK, OverviewShown
  <2>4. Overview!OverviewIsReal'
    BY <1>1, <1>4, <2>1 DEF Overview!OverviewIsReal, Overview!Busy
  <2> QED BY <1>1, <1>4, <2>1, <2>2, <2>3, <2>4 DEF OverviewInv
<1> QED BY <1>2, <1>3, <1>4

LEMMA OverviewRetries ==
  ASSUME OverviewInv, Overview!Retry
  PROVE  OverviewInv'
<1> DEFINE f == [stage |-> "live", generation |-> line'.generation, run |-> line'.run, net |-> net,
                 prior |-> shown.data]
<1>1. line \in Overview!Line /\ net \in Overview!Networks /\ net' = net /\ net # "offline"
  BY DEF OverviewInv, Overview!TypeOK, Overview!Retry
<1>2. line' = [generation |-> line.generation + 1, run |-> line.run + 1]
  BY <1>1 DEF Overview!Retry, Overview!NextRun, Overview!NextRead, Overview!Line
<1>3. line' \in Overview!Line /\ line'.generation > line.generation /\ line.generation \in Nat
  BY <1>1, <1>2 DEF Overview!Line
<1>4. flights' = flights \cup {f} /\ f \in OverviewFlight
  BY <1>1, <1>3 DEF Overview!Retry, OverviewFlight, OverviewInv, OverviewShown, Overview!Line
<1>5. /\ shown' \in OverviewShown /\ shown'.data = shown.data /\ shown'.complete = shown.complete
      /\ shown'.status = IF shown.data THEN "stale-refreshing" ELSE "loading"
  BY DEF Overview!Retry, OverviewInv, OverviewShown, Overview!Busy
<1>6. \A k \in flights' : k.generation <= line'.generation
  BY <1>3, <1>4 DEF OverviewInv, OverviewFlight
<1>7. Overview!Accepted(f, line') /\ f \in Overview!At("live")'
  BY <1>4 DEF Overview!Accepted, Overview!Current, Overview!At
<1>8. calls' \in 0..MaxPanelCalls
  BY OverviewAssumed DEF OverviewInv, Overview!TypeOK, Overview!Retry, Overview!Counted
<1>9. Overview!TypeOK'
  BY <1>1, <1>3, <1>4, <1>5, <1>8 DEF Overview!TypeOK, OverviewInv, OverviewFlight, OverviewShown
<1>10. Overview!OverviewIsReal'
  BY <1>1, <1>7 DEF Overview!OverviewIsReal, Overview!Awaited
<1> QED BY <1>1, <1>4, <1>5, <1>6, <1>9, <1>10 DEF OverviewInv

LEMMA OverviewStep ==
  ASSUME OverviewInv, [Overview!Next]_(Overview!vars)
  PROVE  OverviewInv'
<1>1. CASE UNCHANGED Overview!vars
  BY <1>1 DEF Overview!vars, OverviewInv, Overview!TypeOK, Overview!OverviewIsReal, Overview!Awaited,
     Overview!At, Overview!Accepted, Overview!Current
<1> QED BY <1>1, OverviewNet, OverviewReads, OverviewEnds, OverviewRetries DEF Overview!Next

(* The overview that loads waits for a request that will be heeded, and    *)
(* one without a network says so and waits for nothing, for any number of  *)
(* changes of the network and retries.                                     *)
THEOREM OverviewKept == Overview!Spec => [](Overview!TypeOK /\ Overview!OverviewIsReal)
<1>1. OverviewInv => Overview!TypeOK /\ Overview!OverviewIsReal
  BY DEF OverviewInv
<1> QED BY <1>1, OverviewStart, OverviewStep, PTL DEF Overview!Spec

-----------------------------------------------------------------------------
(* The chart: what will be heeded is of the chart that is chosen, on the   *)
(* network as it is, and while a read will be heeded nothing else will.    *)
Chart == INSTANCE ChartPanel WITH Opening <- ChartOpening, MaxCalls <- MaxChartCalls

ASSUME ChartParameters == Chart!ChartAssumption

ChartData == [of : Chart!Choices, response : Nat] \cup {Chart!Nothing}

ChartShown ==
  [period : Chart!Periods, interval : Intervals, data : ChartData, warned : Nat,
   status : Chart!Busy \cup Chart!Offline \cup {"fresh", "error"}]

ChartFlight ==
  [stage : {"read", "live", "write"}, generation : Nat, run : Nat, net : Chart!Networks,
   of : Chart!Choices, prior : ChartData]

ChartHeeded(f, s, n) ==
  /\ f.of = Chart!Chosen(s) /\ f.net = n
  /\ f.prior # Chart!Nothing => f.prior.of = Chart!Chosen(s)

ChartInv ==
  /\ shown \in ChartShown /\ flights \subseteq ChartFlight
  /\ Chart!TypeOK
  /\ \A f \in flights :
       /\ f.generation <= line.generation
       /\ f.stage # "read" => f.net # "offline" /\ f.run # 0
       /\ Chart!Current(f, line) => ChartHeeded(f, shown, net)
       /\ f.stage = "read" /\ Chart!Current(f, line) =>
            shown.warned = 0 /\ \A g \in flights : Chart!Current(g, line) => g = f
  /\ Chart!ChartIsChosen /\ Chart!LoadingIsReal

LEMMA ChartAssumed ==
  /\ MaxChartCalls \in Nat /\ None \notin Chart!Choices
  /\ Daily \in Intervals /\ ChartOpening \subseteq Intervals
  /\ \A i \in Intervals : PeriodOf[i] \in Chart!Periods
BY ChartParameters DEF Chart!ChartAssumption, Chart!ScreenAssumption, Chart!Periods

LEMMA ChartNothing ==
  /\ Chart!Nothing \in ChartData /\ Chart!Nothing.response = 0
  /\ \A d \in [of : Chart!Choices, response : Nat] : d # Chart!Nothing
BY ChartAssumed DEF ChartData, Chart!Nothing

(* A chart that was begun: no flight of before will be heeded.             *)
LEMMA ChartBegins ==
  ASSUME line' \in Chart!Line, net' \in Chart!Networks, calls' \in 0..MaxChartCalls,
         flights \subseteq ChartFlight,
         \A f \in flights : /\ f.generation < line'.generation
                            /\ f.stage # "read" => f.net # "offline" /\ f.run # 0,
         shown' \in ChartShown, shown'.status = "loading", shown'.data = Chart!Nothing,
         shown'.warned = 0, flights' = flights \cup {Chart!Read(shown', line', net')}
  PROVE  ChartInv'
<1> DEFINE r == Chart!Read(shown', line', net')
<1>1. /\ r \in ChartFlight /\ r.stage = "read" /\ r.generation = line'.generation
      /\ r.of = Chart!Chosen(shown') /\ r.net = net' /\ r.prior = Chart!Nothing
  BY ChartNothing DEF Chart!Read, ChartFlight, ChartShown, Chart!Line, Chart!Chosen, Chart!Choices
<1> HIDE DEF r
<1>2. flights' = flights \cup {r}
  BY DEF r
<1>3. \A f \in flights : ~Chart!Current(f, line')
  BY DEF Chart!Current, ChartFlight, Chart!Line
<1>4. Chart!TypeOK'
  BY <1>1, <1>2 DEF Chart!TypeOK, ChartShown, ChartFlight
<1>5. Chart!ChartIsChosen' /\ Chart!LoadingIsReal'
  BY <1>1, <1>2 DEF Chart!ChartIsChosen, Chart!LoadingIsReal, Chart!Busy, Chart!Offline, Chart!Awaited,
     Chart!At, Chart!Current
<1>6. \A f \in flights' :
        /\ f.generation <= line'.generation
        /\ f.stage # "read" => f.net # "offline" /\ f.run # 0
        /\ Chart!Current(f, line') => f = r
  BY <1>1, <1>2, <1>3 DEF ChartFlight, Chart!Line
<1>7. ChartHeeded(r, shown', net')
  BY <1>1 DEF ChartHeeded
<1>8. flights' \subseteq ChartFlight
  BY <1>1, <1>2
<1> QED BY <1>4, <1>5, <1>6, <1>7, <1>8 DEF ChartInv, Chart!Current

LEMMA ChartStart ==
  ASSUME Chart!Init
  PROVE  ChartInv
<1>1. PICK i \in ChartOpening, n \in Chart!Networks :
        /\ net = n
        /\ shown = [period |-> PeriodOf[i], interval |-> i, status |-> "loading",
                    data |-> Chart!Nothing, warned |-> 0]
  BY DEF Chart!Init
<1>2. shown \in ChartShown /\ net \in Chart!Networks
  BY <1>1, ChartAssumed, ChartNothing DEF ChartShown, Chart!Busy
<1> DEFINE r == Chart!Read(shown, line, net)
<1>3. line = [generation |-> 1, run |-> 0] /\ flights = {r} /\ calls = 0
  BY DEF Chart!Init, Chart!NextRead, Chart!NewLine
<1>4. /\ r \in ChartFlight /\ r.stage = "read" /\ r.generation = line.generation
      /\ r.of = Chart!Chosen(shown) /\ r.net = net /\ r.prior = Chart!Nothing
  BY <1>2, <1>3, ChartNothing DEF Chart!Read, ChartFlight, ChartShown, Chart!Chosen, Chart!Choices
<1> HIDE DEF r
<1>5. Chart!TypeOK
  BY <1>1, <1>2, <1>3, <1>4, ChartAssumed DEF Chart!TypeOK, ChartShown, ChartFlight, Chart!Line
<1>6. Chart!ChartIsChosen /\ Chart!LoadingIsReal
  BY <1>1, <1>3, <1>4 DEF Chart!ChartIsChosen, Chart!LoadingIsReal, Chart!Busy, Chart!Offline,
     Chart!Awaited, Chart!At, Chart!Current
<1>7. ChartHeeded(r, shown, net)
  BY <1>4 DEF ChartHeeded
<1> QED BY <1>1, <1>2, <1>3, <1>4, <1>5, <1>6, <1>7 DEF ChartInv

LEMMA ChartRestarts ==
  ASSUME ChartInv, NEW s, s \in ChartShown, net' \in Chart!Networks, Chart!Restart(s, net')
  PROVE  ChartInv'
<1>1. line' = [generation |-> line.generation + 1, run |-> line.run + 1]
  BY DEF Chart!Restart, Chart!Cancelled
<1>2. line' \in Chart!Line /\ line.generation \in Nat /\ line'.generation = line.generation + 1
  BY <1>1 DEF ChartInv, Chart!TypeOK, Chart!Line
<1>3. calls' \in 0..MaxChartCalls
  BY ChartAssumed DEF Chart!Restart, Chart!Counted, ChartInv, Chart!TypeOK
<1>4. /\ shown' \in ChartShown /\ shown'.status = "loading" /\ shown'.data = Chart!Nothing
      /\ shown'.warned = 0 /\ Chart!Chosen(shown') = Chart!Chosen(s)
  BY ChartNothing DEF Chart!Restart, ChartShown, Chart!Busy, Chart!Chosen
<1>5. flights' = flights \cup {Chart!Read(shown', line', net')}
  BY <1>4 DEF Chart!Restart, Chart!Read
<1>6. \A f \in flights : f.generation < line'.generation
  BY <1>2 DEF ChartInv, ChartFlight
<1> QED BY <1>2, <1>3, <1>4, <1>5, <1>6, ChartBegins DEF ChartInv

LEMMA ChartChooses ==
  ASSUME ChartInv,
         \/ \E p \in Ranges : Chart!ChoosePeriod(p)
         \/ \E i \in Intervals : Chart!ChooseInterval(i)
         \/ \E n \in Chart!Networks : Chart!NetChanges(n)
  PROVE  ChartInv'
<1>0. shown \in ChartShown /\ net \in Chart!Networks
  BY DEF ChartInv, Chart!TypeOK
<1>1. ASSUME NEW p \in Ranges, Chart!ChoosePeriod(p)
      PROVE  ChartInv'
  <2> DEFINE s == [shown EXCEPT !.period = p]
  <2>1. s \in ChartShown
    BY <1>0 DEF ChartShown, Chart!Periods
  <2> QED BY <1>0, <1>1, <2>1, ChartRestarts DEF Chart!ChoosePeriod
<1>2. ASSUME NEW i \in Intervals, Chart!ChooseInterval(i)
      PROVE  ChartInv'
  <2> DEFINE s == [shown EXCEPT !.interval = i, !.period = IF i = Daily THEN @ ELSE PeriodOf[i]]
  <2>1. s \in ChartShown
    BY <1>0, ChartAssumed DEF ChartShown
  <2> QED BY <1>0, <1>2, <2>1, ChartRestarts DEF Chart!ChooseInterval
<1>3. ASSUME NEW n \in Chart!Networks, Chart!NetChanges(n)
      PROVE  ChartInv'
  BY <1>0, <1>3, ChartRestarts DEF Chart!NetChanges
<1> QED BY <1>1, <1>2, <1>3

(* A flight lands that nothing waits for, and all the screen takes from it *)
(* is a warning.                                                           *)
LEMMA ChartUnheeded ==
  ASSUME ChartInv, NEW f \in flights, Chart!Landed(f), UNCHANGED <<line, net, calls>>,
         \/ shown' = shown
         \/ /\ shown' = [shown EXCEPT !.warned = f.run] /\ shown.data.response = f.run
            /\ f.stage = "write" /\ Chart!Current(f, line),
         f.stage = "live" => ~Chart!Accepted(f, line),
         f.stage = "read" => ~Chart!Current(f, line)
  PROVE  ChartInv'
<1>1. flights' = flights \ {f} /\ f \in ChartFlight /\ line' = line /\ net' = net
  BY DEF Chart!Landed, ChartInv
<1>2. /\ shown' \in ChartShown /\ shown' = [shown EXCEPT !.warned = shown'.warned]
      /\ shown'.warned # 0 => shown'.warned = shown.warned \/ shown'.warned = shown.data.response
  BY <1>1 DEF ChartInv, ChartShown, ChartFlight
<1>3. Chart!Awaited(line)' <=> Chart!Awaited(line)
  BY <1>1 DEF Chart!Awaited, Chart!At, Chart!Accepted, Chart!Current, ChartFlight
<1>4. Chart!TypeOK' /\ Chart!ChartIsChosen' /\ Chart!LoadingIsReal'
  BY <1>1, <1>2, <1>3 DEF ChartInv, Chart!TypeOK, Chart!ChartIsChosen, Chart!LoadingIsReal, ChartShown,
     Chart!Chosen
<1>5. Chart!Chosen(shown') = Chart!Chosen(shown)
  BY <1>2 DEF Chart!Chosen, ChartInv, ChartShown
<1>6. \A g \in flights' : g.stage = "read" /\ Chart!Current(g, line) => shown'.warned = 0
  <2> SUFFICES ASSUME NEW g \in flights', g.stage = "read", Chart!Current(g, line)
               PROVE  shown'.warned = 0
    OBVIOUS
  <2>1. shown.warned = 0 /\ \A k \in flights : Chart!Current(k, line) => k = g
    BY <1>1 DEF ChartInv
  <2> QED BY <1>1, <2>1
<1>7. \A g \in flights' :
       /\ g.generation <= line'.generation
       /\ g.stage # "read" => g.net # "offline" /\ g.run # 0
       /\ Chart!Current(g, line') => ChartHeeded(g, shown', net')
       /\ g.stage = "read" /\ Chart!Current(g, line') =>
            shown'.warned = 0 /\ \A k \in flights' : Chart!Current(k, line') => k = g
  BY <1>1, <1>5, <1>6 DEF ChartInv, ChartHeeded
<1> QED BY <1>1, <1>2, <1>4, <1>7 DEF ChartInv, Chart!Current

(* A flight that is heeded leaves what the screen then shows, of the chart *)
(* that is chosen, and perhaps another flight in its place.                *)
LEMMA ChartHeeds ==
  ASSUME ChartInv, NEW f \in flights, Chart!Current(f, line), UNCHANGED <<net, calls>>,
         line' \in Chart!Line, line'.generation = line.generation,
         shown' \in ChartShown, Chart!Chosen(shown') = Chart!Chosen(shown), Chart!TypeOK',
         Chart!ChartIsChosen', Chart!LoadingIsReal',
         flights' \subseteq ChartFlight,
         \A g \in flights' : \/ g \in flights \ {f}
                             \/ /\ g.stage # "read" /\ g.generation = line.generation
                                /\ g.net # "offline" /\ g.run # 0 /\ ChartHeeded(g, shown', net'),
         f.stage = "read" \/ shown'.warned = 0
  PROVE  ChartInv'
<1>1. \A g : Chart!Current(g, line') <=> Chart!Current(g, line)
  BY DEF Chart!Current
<1>2. \A g \in flights' : g.stage = "read" /\ Chart!Current(g, line) => FALSE
  <2> SUFFICES ASSUME NEW g \in flights', g.stage = "read", Chart!Current(g, line) PROVE FALSE
    OBVIOUS
  <2>1. g \in flights /\ g # f
    OBVIOUS
  <2> QED BY <2>1 DEF ChartInv
<1>3. \A g \in flights' : g.generation <= line'.generation
  BY DEF ChartInv, Chart!Line
<1>4. \A g \in flights' : g.stage # "read" => g.net # "offline" /\ g.run # 0
  BY DEF ChartInv
<1>5. \A g \in flights' : Chart!Current(g, line) => ChartHeeded(g, shown', net')
  BY DEF ChartInv, ChartHeeded
<1> QED BY <1>1, <1>2, <1>3, <1>4, <1>5 DEF ChartInv, Chart!Current

LEMMA ChartRequests ==
  ASSUME ChartInv, NEW f, NEW l \in Chart!Line, NEW prior \in ChartData, Chart!Request(f, l, prior),
         net # "offline", prior # Chart!Nothing => prior.of = Chart!Chosen(shown)
  PROVE  \E g \in ChartFlight :
           /\ g.stage = "live" /\ g.generation = l.generation /\ g.net = net /\ g.run # 0
           /\ ChartHeeded(g, shown, net) /\ g.of = Chart!Chosen(shown) /\ g.prior = prior
           /\ flights' = (flights \ {f}) \cup {g}
           /\ line' \in Chart!Line /\ line'.generation = l.generation /\ Chart!Accepted(g, line')
<1> DEFINE g == [stage |-> "live", generation |-> line'.generation, run |-> line'.run, net |-> net,
                 of |-> Chart!Chosen(shown), prior |-> prior]
<1>1. line' = [generation |-> l.generation, run |-> l.run + 1]
  BY DEF Chart!Request, Chart!NextRun, Chart!Line
<1>2. line' \in Chart!Line /\ line'.generation = l.generation /\ line'.run # 0
  BY <1>1 DEF Chart!Line
<1>3. g \in ChartFlight
  BY <1>2 DEF ChartFlight, ChartInv, ChartShown, Chart!Line, Chart!Chosen, Chart!Choices, Chart!TypeOK
<1>4. flights' = (flights \ {f}) \cup {g}
  BY DEF Chart!Request
<1>5. Chart!Accepted(g, line')
  BY DEF Chart!Accepted, Chart!Current
<1> QED BY <1>2, <1>3, <1>4, <1>5 DEF ChartHeeded

LEMMA ChartReads ==
  ASSUME ChartInv, NEW f \in Chart!At("read"), NEW found \in BOOLEAN, NEW fresh \in BOOLEAN,
         Chart!ReadLands(f, found, fresh)
  PROVE  ChartInv'
<1> DEFINE data == IF found THEN [of |-> f.of, response |-> 0] ELSE Chart!Nothing
           Show(stands) == shown' = [shown EXCEPT !.status = stands, !.data = data]
<1>1. f \in flights /\ f.stage = "read" /\ f \in ChartFlight /\ UNCHANGED <<net, calls>>
  BY DEF Chart!At, ChartInv, Chart!ReadLands
<1>2. line \in Chart!Line /\ net \in Chart!Networks /\ calls \in 0..MaxChartCalls /\ shown \in ChartShown
  BY DEF ChartInv, Chart!TypeOK
<1>3. CASE ~Chart!Current(f, line)
  BY <1>1, <1>3, ChartUnheeded DEF Chart!ReadLands
<1>4. CASE Chart!Current(f, line)
  <2>1. ChartHeeded(f, shown, net) /\ shown.warned = 0
    BY <1>1, <1>4 DEF ChartInv
  <2>2. /\ data \in ChartData /\ (data # Chart!Nothing <=> found) /\ data.response = 0
        /\ data # Chart!Nothing => data.of = Chart!Chosen(shown)
    BY <1>1, <2>1, ChartNothing DEF ChartData, ChartFlight, ChartHeeded
  <2> HIDE DEF data
  <2>3. ASSUME NEW stands \in Chart!Busy \cup Chart!Offline \cup {"fresh", "error"}, Show(stands)
        PROVE  /\ shown' \in ChartShown /\ shown'.status = stands /\ shown'.data = data
               /\ shown'.warned = 0 /\ Chart!Chosen(shown') = Chart!Chosen(shown)
    BY <1>2, <2>1, <2>2, <2>3 DEF ChartShown, Chart!Chosen
  <2>4. CASE /\ f.net = "offline" /\ Chart!Landed(f) /\ UNCHANGED line
             /\ Show(IF found THEN "offline" ELSE "empty-offline")
    <3>1. /\ shown' \in ChartShown /\ shown'.status = (IF found THEN "offline" ELSE "empty-offline")
          /\ shown'.data = data /\ shown'.warned = 0 /\ Chart!Chosen(shown') = Chart!Chosen(shown)
      BY <2>3, <2>4 DEF Chart!Offline
    <3>2. flights' = flights \ {f} /\ net = "offline"
      BY <2>1, <2>4 DEF Chart!Landed, ChartHeeded
    <3>3. Chart!TypeOK'
      BY <1>1, <1>2, <2>2, <2>4, <3>1, <3>2 DEF Chart!TypeOK, ChartInv, ChartShown
    <3>4. Chart!ChartIsChosen' /\ Chart!LoadingIsReal'
      BY <1>1, <2>2, <3>1, <3>2 DEF Chart!ChartIsChosen, Chart!LoadingIsReal, Chart!Busy
    <3> QED BY <1>1, <1>2, <1>4, <2>4, <3>1, <3>2, <3>3, <3>4, ChartHeeds DEF ChartInv
  <2>5. CASE /\ f.net # "offline" /\ found /\ fresh /\ Chart!Landed(f) /\ UNCHANGED line
             /\ Show("fresh")
    <3>1. /\ shown' \in ChartShown /\ shown'.status = "fresh"
          /\ shown'.data = data /\ shown'.warned = 0 /\ Chart!Chosen(shown') = Chart!Chosen(shown)
      BY <2>3, <2>5
    <3>2. flights' = flights \ {f}
      BY <2>5 DEF Chart!Landed
    <3>3. Chart!TypeOK'
      BY <1>1, <1>2, <2>2, <2>5, <3>1, <3>2 DEF Chart!TypeOK, ChartInv, ChartShown
    <3>4. Chart!ChartIsChosen' /\ Chart!LoadingIsReal'
      BY <1>1, <2>2, <3>1, <3>2 DEF Chart!ChartIsChosen, Chart!LoadingIsReal, Chart!Busy, Chart!Offline
    <3> QED BY <1>1, <1>2, <1>4, <2>5, <3>1, <3>2, <3>3, <3>4, ChartHeeds DEF ChartInv
  <2>6. CASE /\ f.net # "offline" /\ ~(found /\ fresh)
             /\ Show(IF found THEN "refreshing" ELSE "loading")
             /\ Chart!Request(f, line, data)
    <3>1. /\ shown' \in ChartShown /\ shown'.status = (IF found THEN "refreshing" ELSE "loading")
          /\ shown'.data = data /\ shown'.warned = 0 /\ Chart!Chosen(shown') = Chart!Chosen(shown)
      BY <2>3, <2>6 DEF Chart!Busy
    <3>2. net # "offline"
      BY <2>1, <2>6 DEF ChartHeeded
    <3>3. PICK g \in ChartFlight :
           /\ g.stage = "live" /\ g.generation = line.generation /\ g.net = net /\ g.run # 0
           /\ ChartHeeded(g, shown, net) /\ g.of = Chart!Chosen(shown) /\ g.prior = data
           /\ flights' = (flights \ {f}) \cup {g}
           /\ line' \in Chart!Line /\ line'.generation = line.generation /\ Chart!Accepted(g, line')
      BY <1>2, <2>2, <2>6, <3>2, ChartRequests
    <3>4. Chart!TypeOK'
      BY <1>1, <1>2, <2>2, <3>1, <3>3 DEF Chart!TypeOK, ChartInv, ChartShown, ChartFlight
    <3>5. Chart!ChartIsChosen' /\ Chart!LoadingIsReal'
      BY <1>1, <2>2, <3>1, <3>3 DEF Chart!ChartIsChosen, Chart!LoadingIsReal, Chart!Busy, Chart!Offline,
         Chart!Awaited, Chart!At
    <3>6. ChartHeeded(g, shown', net')
      BY <1>1, <2>2, <3>1, <3>3 DEF ChartHeeded
    <3> QED BY <1>1, <1>2, <1>4, <3>1, <3>2, <3>3, <3>4, <3>5, <3>6, ChartHeeds DEF ChartInv
  <2> QED BY <1>4, <2>4, <2>5, <2>6 DEF Chart!ReadLands, data
<1> QED BY <1>3, <1>4

LEMMA ChartEnds ==
  ASSUME ChartInv, NEW f \in Chart!At("live"), Chart!Answers(f) \/ Chart!Rejects(f)
  PROVE  ChartInv'
<1>1. f \in flights /\ f.stage = "live" /\ f \in ChartFlight /\ UNCHANGED <<line, net, calls>>
  BY DEF Chart!At, ChartInv, Chart!Answers, Chart!Rejects
<1>2. f.net # "offline" /\ f.run # 0 /\ line \in Chart!Line /\ shown \in ChartShown
  BY <1>1 DEF ChartInv, Chart!TypeOK
<1>3. CASE Chart!Landed(f) /\ shown' = shown /\ ~Chart!Accepted(f, line)
  BY <1>1, <1>3, ChartUnheeded
<1>4. CASE Chart!Current(f, line) /\ Chart!Landed(f) /\ shown' = Chart!Failed(f)
  <2>1. ChartHeeded(f, shown, net) /\ flights' = flights \ {f}
    BY <1>1, <1>4 DEF ChartInv, Chart!Landed
  <2>2. /\ shown' \in ChartShown /\ shown'.status = "error" /\ shown'.data = f.prior
        /\ shown'.warned = 0 /\ Chart!Chosen(shown') = Chart!Chosen(shown)
    BY <1>1, <1>2, <1>4 DEF Chart!Failed, ChartShown, ChartFlight, Chart!Chosen
  <2>3. Chart!TypeOK'
    BY <1>1, <2>1, <2>2 DEF Chart!TypeOK, ChartInv, ChartShown
  <2>4. Chart!ChartIsChosen' /\ Chart!LoadingIsReal'
    BY <1>1, <1>2, <2>1, <2>2 DEF Chart!ChartIsChosen, Chart!LoadingIsReal, Chart!Busy, Chart!Offline,
       ChartHeeded
  <2> QED BY <1>1, <1>2, <1>4, <2>1, <2>2, <2>3, <2>4, ChartHeeds DEF ChartInv
<1>5. CASE /\ Chart!Accepted(f, line)
           /\ shown' = [shown EXCEPT !.status = "fresh", !.warned = 0,
                          !.data = [of |-> f.of, response |-> f.run]]
           /\ flights' = (flights \ {f}) \cup {[f EXCEPT !.stage = "write"]}
  <2> DEFINE g == [f EXCEPT !.stage = "write"]
             data == [of |-> f.of, response |-> f.run]
  <2>1. Chart!Current(f, line) /\ ChartHeeded(f, shown, net)
    BY <1>1, <1>5 DEF ChartInv, Chart!Accepted
  <2>2. data \in ChartData /\ data # Chart!Nothing /\ data.of = Chart!Chosen(shown)
    BY <1>1, <2>1, ChartNothing DEF ChartData, ChartFlight, ChartHeeded
  <2> HIDE DEF data
  <2>3. shown' = [shown EXCEPT !.status = "fresh", !.warned = 0, !.data = data]
    BY <1>5 DEF data
  <2>4. /\ shown' \in ChartShown /\ shown'.status = "fresh" /\ shown'.data = data
        /\ shown'.warned = 0 /\ Chart!Chosen(shown') = Chart!Chosen(shown)
    BY <1>2, <2>2, <2>3 DEF ChartShown, Chart!Chosen
  <2>5. /\ g \in ChartFlight /\ g.stage = "write" /\ g.generation = f.generation /\ g.net = f.net
        /\ g.of = f.of /\ g.prior = f.prior /\ g.run = f.run
    BY <1>1 DEF ChartFlight
  <2> HIDE DEF g
  <2>6. flights' = (flights \ {f}) \cup {g}
    BY <1>5 DEF g
  <2>7. Chart!TypeOK'
    BY <1>1, <2>2, <2>4, <2>5, <2>6 DEF Chart!TypeOK, ChartInv, ChartShown
  <2>8. Chart!ChartIsChosen' /\ Chart!LoadingIsReal'
    BY <2>2, <2>4 DEF Chart!ChartIsChosen, Chart!LoadingIsReal, Chart!Busy, Chart!Offline
  <2>9. ChartHeeded(g, shown', net')
    BY <1>1, <2>1, <2>4, <2>5 DEF ChartHeeded
  <2>10. g.generation = line.generation
    BY <2>1, <2>5 DEF Chart!Current
  <2> QED BY <1>1, <1>2, <2>1, <2>4, <2>5, <2>6, <2>7, <2>8, <2>9, <2>10, ChartHeeds DEF ChartInv
<1> QED BY <1>1, <1>3, <1>4, <1>5 DEF Chart!Answers, Chart!Rejects, Chart!Accepted

LEMMA ChartWrites ==
  ASSUME ChartInv, NEW f \in Chart!At("write"), NEW ok \in BOOLEAN, Chart!WriteLands(f, ok)
  PROVE  ChartInv'
BY ChartUnheeded DEF Chart!At, Chart!WriteLands

LEMMA ChartRetries ==
  ASSUME ChartInv, Chart!Retry
  PROVE  ChartInv'
<1>1. line \in Chart!Line /\ net \in Chart!Networks /\ shown \in ChartShown /\ net' = net /\ net # "offline"
  BY DEF ChartInv, Chart!TypeOK, Chart!Retry
<1>2. Chart!NextRead(line) \in Chart!Line /\ Chart!NextRead(line).generation = line.generation + 1
  BY <1>1 DEF Chart!NextRead, Chart!Line
<1>3. /\ shown' \in ChartShown /\ shown'.data = shown.data /\ shown'.warned = 0
      /\ shown'.status = IF shown.data = Chart!Nothing THEN "loading" ELSE "refreshing"
      /\ Chart!Chosen(shown') = Chart!Chosen(shown)
  BY <1>1 DEF Chart!Retry, ChartShown, Chart!Busy, Chart!Chosen
<1>4. shown.data \in ChartData /\ (shown.data # Chart!Nothing => shown.data.of = Chart!Chosen(shown))
  BY <1>1 DEF ChartInv, ChartShown, Chart!ChartIsChosen
<1>5. PICK g \in ChartFlight :
       /\ g.stage = "live" /\ g.generation = Chart!NextRead(line).generation /\ g.net = net /\ g.run # 0
       /\ ChartHeeded(g, shown, net) /\ g.of = Chart!Chosen(shown) /\ g.prior = shown.data
       /\ flights' = (flights \ {None}) \cup {g}
       /\ line' \in Chart!Line /\ line'.generation = Chart!NextRead(line).generation
       /\ Chart!Accepted(g, line')
  <2> DEFINE l == Chart!NextRead(line)
             prior == shown.data
  <2>1. Chart!Request(None, l, prior)
    BY DEF Chart!Retry
  <2>2. l \in Chart!Line /\ prior \in ChartData
    BY <1>2, <1>4
  <2>3. prior # Chart!Nothing => prior.of = Chart!Chosen(shown)
    BY <1>4
  <2> HIDE DEF l, prior
  <2>4. \E g \in ChartFlight :
          /\ g.stage = "live" /\ g.generation = l.generation /\ g.net = net /\ g.run # 0
          /\ ChartHeeded(g, shown, net) /\ g.of = Chart!Chosen(shown) /\ g.prior = prior
          /\ flights' = (flights \ {None}) \cup {g}
          /\ line' \in Chart!Line /\ line'.generation = l.generation /\ Chart!Accepted(g, line')
    <3>1. ChartInv /\ net # "offline"
      BY <1>1
    <3>2. ASSUME NEW f, Chart!Request(f, l, prior)
          PROVE  \E g \in ChartFlight :
           /\ g.stage = "live" /\ g.generation = l.generation /\ g.net = net /\ g.run # 0
           /\ ChartHeeded(g, shown, net) /\ g.of = Chart!Chosen(shown) /\ g.prior = prior
           /\ flights' = (flights \ {f}) \cup {g}
           /\ line' \in Chart!Line /\ line'.generation = l.generation /\ Chart!Accepted(g, line')
      BY <3>1, <3>2, <2>2, <2>3, ChartRequests
    <3> QED BY <3>2, <2>1
  <2> QED BY <2>4 DEF l, prior
<1>6. ChartHeeded(g, shown', net')
  BY <1>1, <1>3, <1>5 DEF ChartHeeded
<1>7. calls' \in 0..MaxChartCalls
  BY ChartAssumed DEF Chart!Retry, Chart!Counted, ChartInv, Chart!TypeOK
<1>8. Chart!TypeOK'
  BY <1>1, <1>3, <1>5, <1>7 DEF Chart!TypeOK, ChartInv, ChartShown
<1>9. Chart!ChartIsChosen' /\ Chart!LoadingIsReal'
  BY <1>3, <1>4, <1>5 DEF Chart!ChartIsChosen, Chart!LoadingIsReal, Chart!Busy, Chart!Offline,
     Chart!Awaited, Chart!At
<1>10. /\ line.generation \in Nat
       /\ \A k \in flights : k.generation <= line.generation /\ k.generation \in Nat
  BY <1>1 DEF ChartInv, ChartFlight, Chart!Line
<1>11. \A k \in flights' : /\ k.generation <= line'.generation
                           /\ k # g => k \in flights /\ ~Chart!Current(k, line')
  <2>1. line'.generation = line.generation + 1 /\ g.generation = line'.generation
    BY <1>2, <1>5
  <2>2. \A k \in flights : k.generation <= line'.generation /\ k.generation # line'.generation
    BY <1>10, <2>1
  <2>3. line'.generation <= line'.generation
    BY <1>10, <2>1
  <2> QED BY <1>5, <2>1, <2>2, <2>3 DEF Chart!Current
<1> QED BY <1>1, <1>3, <1>5, <1>6, <1>8, <1>9, <1>11 DEF ChartInv, Chart!Current

LEMMA ChartStep ==
  ASSUME ChartInv, [Chart!Next]_(Chart!vars)
  PROVE  ChartInv'
<1>1. CASE UNCHANGED Chart!vars
  BY <1>1 DEF Chart!vars, ChartInv, Chart!TypeOK, Chart!ChartIsChosen, Chart!LoadingIsReal,
     Chart!Awaited, Chart!At, Chart!Accepted, Chart!Current, ChartHeeded
<1> QED BY <1>1, ChartChooses, ChartReads, ChartEnds, ChartWrites, ChartRetries DEF Chart!Next

(* A chart that is drawn is of the period and interval chosen now, and one *)
(* that loads is being loaded, for any rails, preferences and number of    *)
(* choices, however late the answers come.                                 *)
THEOREM ChartKept == Chart!Spec => [](Chart!TypeOK /\ Chart!ChartIsChosen /\ Chart!LoadingIsReal)
<1>1. ChartInv => Chart!TypeOK /\ Chart!ChartIsChosen /\ Chart!LoadingIsReal
  BY DEF ChartInv
<1> QED BY <1>1, ChartStart, ChartStep, PTL DEF Chart!Spec

-----------------------------------------------------------------------------
(* The lens: of the panels that an open depth shows none is idle, and what *)
(* will be heeded for a panel with a time axis is of the rail's interval.  *)
Lens == INSTANCE LensPanels WITH Opening <- LensOpening, MaxCalls <- MaxPanelCalls

ASSUME LensParameters == Lens!PanelsAssumption

LensPanel == [status : Lens!Statuses, of : Intervals \cup {"always", None}]

LensShown ==
  [selected : Lens!Depths, opened : Lens!Depths \cup {None}, interval : Intervals,
   panel : [Lens!Panels -> LensPanel]]

LensFlight ==
  [stage : {"live"}, panel : Lens!Panels, of : Intervals \cup {"always"}, generation : Nat, run : Nat]

LensOpens(depth) ==
  IF depth \in {None, "deep-dive"} THEN {}
  ELSE {p \in Lens!Panels : p \in Deep => depth = "diagnose"}

LensAwaits(p) == \E f \in flights : f.panel = p /\ Lens!Accepted(f, line[p])

LensInv ==
  /\ shown \in LensShown /\ flights \subseteq LensFlight /\ line \in [Lens!Panels -> Lens!Line]
  /\ Lens!TypeOK
  /\ \A f \in flights :
       /\ f.generation <= line[f.panel].generation
       /\ f.panel \in Timed /\ Lens!Current(f, line[f.panel]) => f.of = shown.interval
  /\ \A p \in Lens!Panels : shown.panel[p].status = "loading" => LensAwaits(p)
  /\ \A p \in LensOpens(shown.opened) : shown.panel[p].status # "idle"
  /\ Lens!PanelsFollowRail

LEMMA LensAssumed ==
  /\ MaxPanelCalls \in Nat /\ Forecast \notin Timed \cup Deep
  /\ LensOpening \subseteq Lens!Depths \X Intervals
  /\ None \notin Intervals /\ None \notin Lens!Depths /\ None # "always"
  /\ Lens!Panels = Timed \cup Deep \cup {Forecast}
BY LensParameters DEF Lens!PanelsAssumption, Lens!ScreenAssumption, Lens!Panels

LEMMA LensStart ==
  ASSUME Lens!Init
  PROVE  LensInv
<1>1. PICK o \in LensOpening :
        shown = [selected |-> o[1], opened |-> None, interval |-> o[2],
                 panel |-> [p \in Lens!Panels |-> [status |-> "idle", of |-> None]]]
  BY DEF Lens!Init
<1>2. o[1] \in Lens!Depths /\ o[2] \in Intervals
  BY LensAssumed
<1>3. [p \in Lens!Panels |-> [status |-> "idle", of |-> None]] \in [Lens!Panels -> LensPanel]
  BY DEF LensPanel, Lens!Statuses
<1>4. shown \in LensShown
  BY <1>1, <1>2, <1>3 DEF LensShown
<1>5. line = [p \in Lens!Panels |-> Lens!NewLine] /\ Lens!NewLine \in Lens!Line /\ flights = {} /\ calls = 0
  BY DEF Lens!Init, Lens!NewLine, Lens!Line
<1>6. \A p \in Lens!Panels : shown.panel[p] = [status |-> "idle", of |-> None]
  BY <1>1
<1>7. Lens!TypeOK
  BY <1>1, <1>2, <1>5, <1>6, LensAssumed DEF Lens!TypeOK, Lens!Statuses
<1>8. LensOpens(shown.opened) = {}
  BY <1>1 DEF LensOpens
<1>9. Lens!PanelsFollowRail
  BY <1>6, LensAssumed DEF Lens!PanelsFollowRail
<1> QED BY <1>4, <1>5, <1>6, <1>7, <1>8, <1>9 DEF LensInv

(* Panels begin anew, those with a time axis among them if the rail moved. *)
LEMMA LensLoads ==
  ASSUME LensInv, NEW begun, begun \subseteq Lens!Panels, NEW s, s \in LensShown, Lens!Load(begun, s),
         calls' \in 0..MaxPanelCalls, s.panel = shown.panel,
         s.interval = shown.interval \/ Timed \subseteq begun,
         \A p \in LensOpens(s.opened) : p \in begun \/ shown.panel[p].status # "idle"
  PROVE  LensInv'
<1> DEFINE Begun(p) == Lens!Request(p, s.interval)
<1>0. shown \in LensShown /\ flights \subseteq LensFlight /\ line \in [Lens!Panels -> Lens!Line] /\ Lens!TypeOK
  BY DEF LensInv
<1>1. line' \in [Lens!Panels -> Lens!Line]
      /\ \A p \in Lens!Panels :
           /\ p \in begun => line'[p] = [generation |-> line[p].generation + 1, run |-> line[p].run + 1]
           /\ p \notin begun => line'[p] = line[p]
  <2>1. \A l \in Lens!Line : Lens!Cancelled(l) \in Lens!Line
    BY DEF Lens!Cancelled, Lens!Line
  <2> QED BY <1>0, <2>1 DEF Lens!Load, Lens!Cancelled
<1>2. \A p \in Lens!Panels :
        /\ p \in begun => shown'.panel[p] = [status |-> "loading", of |-> None]
        /\ p \notin begun => shown'.panel[p] = shown.panel[p]
  BY DEF Lens!Load, LensShown
<1>3. shown'.selected = s.selected /\ shown'.opened = s.opened /\ shown'.interval = s.interval
  BY DEF Lens!Load, LensShown
<1>4. shown' \in LensShown
  <2> DEFINE panel == [p \in Lens!Panels |->
                         IF p \in begun THEN [status |-> "loading", of |-> None] ELSE s.panel[p]]
  <2>1. panel \in [Lens!Panels -> LensPanel]
    BY DEF LensPanel, Lens!Statuses, LensShown
  <2>2. shown' = [s EXCEPT !.panel = panel]
    BY DEF Lens!Load
  <2> HIDE DEF panel
  <2> QED BY <2>1, <2>2 DEF LensShown
<1>5. /\ flights' = flights \cup {Begun(p) : p \in begun}
      /\ \A p \in begun : /\ Begun(p) \in LensFlight /\ Begun(p).panel = p
                          /\ Lens!Accepted(Begun(p), line'[p])
                          /\ p \in Timed => Begun(p).of = s.interval
  <2>1. ASSUME NEW p \in begun
        PROVE  /\ Begun(p) \in LensFlight /\ Begun(p).panel = p
               /\ Begun(p).generation = line'[p].generation /\ Begun(p).run = line'[p].run
               /\ p \in Timed => Begun(p).of = s.interval
    <3>1. line[p].generation \in Nat /\ line[p].run \in Nat
      BY <1>0 DEF Lens!Line
    <3> QED BY <1>1, <3>1 DEF Lens!Request, LensFlight, LensShown
  <2> QED BY <2>1 DEF Lens!Load, Lens!Accepted, Lens!Current
<1> HIDE DEF Begun
<1>6. \A f \in flights : f.panel \in Lens!Panels /\ f.generation \in Nat /\ f.generation <= line[f.panel].generation
  BY <1>0 DEF LensInv, LensFlight
<1>7. \A p \in Lens!Panels : line[p].generation \in Nat
  BY <1>0 DEF Lens!Line
<1>8. \A f \in flights : f.panel \in begun =>
        f.generation <= line'[f.panel].generation /\ ~Lens!Current(f, line'[f.panel])
  BY <1>1, <1>6, <1>7 DEF Lens!Current
<1>9. \A f \in flights' :
        /\ f.generation <= line'[f.panel].generation
        /\ f.panel \in Timed /\ Lens!Current(f, line'[f.panel]) => f.of = shown'.interval
  <2> SUFFICES ASSUME NEW f \in flights'
               PROVE  /\ f.generation <= line'[f.panel].generation
                      /\ f.panel \in Timed /\ Lens!Current(f, line'[f.panel]) => f.of = shown'.interval
    OBVIOUS
  <2>1. CASE f \in flights /\ f.panel \in begun
    BY <1>8, <2>1
  <2>2. CASE f \in flights /\ f.panel \notin begun
    BY <1>1, <1>3, <1>6, <2>2 DEF LensInv
  <2>3. CASE f \notin flights
    <3>1. PICK p \in begun : f = Begun(p)
      BY <1>5, <2>3
    <3>2. line'[p].generation \in Nat
      BY <1>1, <1>7
    <3> QED BY <1>3, <1>5, <3>1, <3>2 DEF Lens!Accepted, Lens!Current
  <2> QED BY <2>1, <2>2, <2>3
<1>10. \A p \in Lens!Panels : shown'.panel[p].status = "loading" =>
         \E f \in flights' : f.panel = p /\ Lens!Accepted(f, line'[p])
  BY <1>1, <1>2, <1>5 DEF LensInv, LensAwaits
<1>11. \A p \in LensOpens(shown'.opened) : shown'.panel[p].status # "idle"
  BY <1>2, <1>3 DEF LensOpens
<1>12. Lens!PanelsFollowRail'
  BY <1>2, <1>3, LensAssumed DEF Lens!PanelsFollowRail, LensInv
<1>13. Lens!TypeOK'
  <2>1. \A p \in Lens!Panels :
          /\ shown'.panel[p].status \in Lens!Statuses \ (IF p = Forecast THEN {} ELSE {"hidden"})
          /\ shown'.panel[p].of # None <=> shown'.panel[p].status = "ready"
    BY <1>0, <1>2 DEF Lens!TypeOK, Lens!Statuses
  <2>2. \A f \in flights' : f.stage = "live" /\ f.panel \in Lens!Panels
    BY <1>0, <1>5 DEF LensFlight
  <2> QED BY <1>1, <1>4, <2>1, <2>2 DEF Lens!TypeOK, LensShown
<1>14. flights' \subseteq LensFlight
  BY <1>0, <1>5
<1> QED BY <1>1, <1>4, <1>9, <1>10, <1>11, <1>12, <1>13, <1>14 DEF LensInv, LensAwaits

LEMMA LensCounts ==
  ASSUME LensInv, Lens!Counted
  PROVE  calls' \in 0..MaxPanelCalls
BY LensAssumed DEF LensInv, Lens!TypeOK, Lens!Counted

LEMMA LensSelects ==
  ASSUME LensInv, NEW depth \in Lens!Depths, Lens!Select(depth)
  PROVE  LensInv'
<1>1. /\ shown' \in LensShown /\ shown'.opened = shown.opened /\ shown'.interval = shown.interval
      /\ shown'.panel = shown.panel
  BY DEF Lens!Select, LensInv, LensShown
<1>2. UNCHANGED <<line, flights>> /\ calls' \in 0..MaxPanelCalls
  BY LensCounts DEF Lens!Select
<1>3. Lens!TypeOK' /\ Lens!PanelsFollowRail'
  BY <1>1, <1>2 DEF LensInv, Lens!TypeOK, Lens!PanelsFollowRail, LensShown
<1> QED BY <1>1, <1>2, <1>3 DEF LensInv, LensAwaits, Lens!Accepted, Lens!Current

LEMMA LensBegins ==
  ASSUME LensInv,
         \/ Lens!Open
         \/ \E i \in Intervals : Lens!ChooseInterval(i)
         \/ \E p \in Lens!Panels : Lens!Retry(p)
  PROVE  LensInv'
<1>0. shown \in LensShown
  BY DEF LensInv
<1>1. CASE Lens!Open
  <2> DEFINE depth == shown.selected
             force == shown.opened = depth
             opens == IF depth = "deep-dive" THEN {}
                      ELSE Timed \cup {Forecast} \cup IF depth = "diagnose" THEN Deep ELSE {}
             begun == {p \in opens : Lens!Needs(p, force)}
             s == [shown EXCEPT !.opened = depth]
  <2>1. /\ s \in LensShown /\ s.panel = shown.panel /\ s.interval = shown.interval
        /\ s.opened = depth
    BY <1>0 DEF LensShown
  <2>2. begun \subseteq Lens!Panels
    BY LensAssumed
  <2>3. \A p \in LensOpens(depth) : p \in begun \/ shown.panel[p].status # "idle"
    BY LensAssumed DEF LensOpens, Lens!Needs
  <2>4. Lens!Load(begun, s) /\ calls' \in 0..MaxPanelCalls
    BY <1>1, LensCounts DEF Lens!Open
  <2> HIDE DEF begun, s, depth
  <2> QED BY <2>1, <2>2, <2>3, <2>4, LensLoads
<1>2. ASSUME NEW i \in Intervals, Lens!ChooseInterval(i)
      PROVE  LensInv'
  <2> DEFINE s == [shown EXCEPT !.interval = i]
  <2>1. s \in LensShown /\ s.panel = shown.panel /\ s.opened = shown.opened
    BY <1>0 DEF LensShown
  <2>2. Timed \subseteq Lens!Panels
    BY LensAssumed
  <2>3. Lens!Load(Timed, s) /\ calls' \in 0..MaxPanelCalls
    BY <1>2, LensCounts DEF Lens!ChooseInterval
  <2>4. \A p \in LensOpens(s.opened) : shown.panel[p].status # "idle"
    BY <2>1 DEF LensInv
  <2> HIDE DEF s
  <2> QED BY <2>1, <2>2, <2>3, <2>4, LensLoads
<1>3. ASSUME NEW p \in Lens!Panels, Lens!Retry(p)
      PROVE  LensInv'
  <2>1. Lens!Load({p}, shown) /\ calls' \in 0..MaxPanelCalls /\ {p} \subseteq Lens!Panels
    BY <1>3, LensCounts DEF Lens!Retry
  <2>2. \A q \in LensOpens(shown.opened) : shown.panel[q].status # "idle"
    BY DEF LensInv
  <2> QED BY <1>0, <2>1, <2>2, LensLoads
<1> QED BY <1>1, <1>2, <1>3

LEMMA LensLands ==
  ASSUME LensInv, NEW f \in flights, NEW b \in BOOLEAN, Lens!Answers(f, b) \/ Lens!Rejects(f, b)
  PROVE  LensInv'
<1> DEFINE p == f.panel
<1>0. shown \in LensShown /\ flights \subseteq LensFlight /\ line \in [Lens!Panels -> Lens!Line] /\ Lens!TypeOK
  BY DEF LensInv
<1>1. flights' = flights \ {f} /\ line' = line /\ calls' = calls /\ f \in LensFlight /\ p \in Lens!Panels
  BY DEF Lens!Answers, Lens!Rejects, Lens!Landed, LensInv, LensFlight
<1>2. CASE shown' = shown /\ ~Lens!Accepted(f, line[p])
  <2>1. \A q \in Lens!Panels : LensAwaits(q)' <=> LensAwaits(q)
    BY <1>1, <1>2 DEF LensAwaits, Lens!Accepted, Lens!Current
  <2>2. Lens!TypeOK' /\ Lens!PanelsFollowRail'
    BY <1>1, <1>2 DEF LensInv, Lens!TypeOK, Lens!PanelsFollowRail
  <2> QED BY <1>0, <1>1, <1>2, <2>1, <2>2 DEF LensInv, Lens!Current
<1>3. ASSUME NEW stands, NEW of, shown' = Lens!Becomes(p, stands, of),
             \/ stands = "ready" /\ of = f.of /\ Lens!Current(f, line[p])
             \/ stands \in {"unavailable", "error"} /\ of = None
             \/ stands = "hidden" /\ of = None /\ p = Forecast
      PROVE  LensInv'
  <2> DEFINE k == [status |-> stands, of |-> of]
  <2>1. /\ k \in LensPanel /\ k.status = stands /\ k.of = of /\ stands \notin {"idle", "loading"}
        /\ of # None <=> stands = "ready"
        /\ stands \in Lens!Statuses \ (IF p = Forecast THEN {} ELSE {"hidden"})
    BY <1>1, <1>3, LensAssumed DEF LensPanel, Lens!Statuses, LensFlight
  <2>2. shown' = [shown EXCEPT !.panel = [shown.panel EXCEPT ![p] = k]]
    BY <1>3 DEF Lens!Becomes
  <2> HIDE DEF k
  <2>3. [shown.panel EXCEPT ![p] = k] \in [Lens!Panels -> LensPanel]
    BY <1>0, <2>1 DEF LensShown
  <2>4. /\ shown' \in LensShown /\ shown'.opened = shown.opened /\ shown'.interval = shown.interval
        /\ shown'.selected = shown.selected
    BY <1>0, <2>2, <2>3 DEF LensShown
  <2>5. shown'.panel[p] = k /\ \A q \in Lens!Panels : q # p => shown'.panel[q] = shown.panel[q]
    BY <1>0, <1>1, <2>2 DEF LensShown
  <2>6. \A q \in Lens!Panels : q # p /\ LensAwaits(q) => LensAwaits(q)'
    BY <1>1 DEF LensAwaits, Lens!Accepted, Lens!Current
  <2>7. \A q \in Lens!Panels : shown'.panel[q].status = "loading" => LensAwaits(q)'
    BY <2>1, <2>5, <2>6 DEF LensInv
  <2>8. \A q \in LensOpens(shown'.opened) : shown'.panel[q].status # "idle"
    BY <2>1, <2>4, <2>5 DEF LensInv, LensOpens
  <2>9. Lens!PanelsFollowRail'
    <3>1. p \in Timed /\ stands = "ready" => of = shown.interval
      BY <1>3, <2>1 DEF LensInv
    <3> QED BY <2>1, <2>4, <2>5, <3>1, LensAssumed DEF Lens!PanelsFollowRail, LensInv
  <2>10. Lens!TypeOK'
    <3>1. \A q \in Lens!Panels :
          /\ shown'.panel[q].status \in Lens!Statuses \ (IF q = Forecast THEN {} ELSE {"hidden"})
          /\ shown'.panel[q].of # None <=> shown'.panel[q].status = "ready"
      BY <1>0, <2>1, <2>5 DEF Lens!TypeOK
    <3> QED BY <1>0, <1>1, <2>4, <3>1 DEF Lens!TypeOK, LensShown
  <2> QED BY <1>0, <1>1, <2>4, <2>7, <2>8, <2>9, <2>10 DEF LensInv, Lens!Current
<1>4. \/ shown' = shown /\ ~Lens!Accepted(f, line[p])
      \/ Lens!Current(f, line[p]) /\ shown' = Lens!Becomes(p, "ready", f.of)
      \/ shown' = Lens!Becomes(p, "unavailable", None)
      \/ shown' = Lens!Becomes(p, "error", None)
      \/ p = Forecast /\ shown' = Lens!Becomes(p, "hidden", None)
  BY DEF Lens!Answers, Lens!Rejects, Lens!Accepted
<1> QED BY <1>2, <1>3, <1>4

LEMMA LensStep ==
  ASSUME LensInv, [Lens!Next]_(Lens!vars)
  PROVE  LensInv'
<1>1. CASE UNCHANGED Lens!vars
  BY <1>1 DEF Lens!vars, LensInv, Lens!TypeOK, Lens!PanelsFollowRail, LensAwaits, Lens!Accepted, Lens!Current
<1> QED BY <1>1, LensSelects, LensBegins, LensLands DEF Lens!Next

LEMMA LensPromised ==
  LensInv => Lens!TypeOK /\ Lens!PanelsFollowRail /\ Lens!PanelsLoad
<1> SUFFICES ASSUME LensInv
             PROVE  Lens!PanelsLoad
  BY DEF LensInv
<1>1. \A p \in Lens!Visible(shown.opened) : p \in LensOpens(shown.opened) /\ p \in Lens!Panels
  BY DEF Lens!Visible, LensOpens
<1> QED BY <1>1 DEF LensInv, Lens!PanelsLoad, LensAwaits

(* The panels follow the rail, and none on the screen says that it loads   *)
(* without a request that will be heeded, for any panels, intervals and    *)
(* opening, however often depths are chosen and opened.                    *)
THEOREM LensKept == Lens!Spec => [](Lens!TypeOK /\ Lens!PanelsFollowRail /\ Lens!PanelsLoad)
BY LensPromised, LensStart, LensStep, PTL DEF Lens!Spec
=============================================================================
