------------------------------ MODULE ChatConsole ------------------------------
(***************************************************************************)
(* chat.js over chat-store.js: the browser's console and its               *)
(* conversations, in localStorage while the visitor is signed out and in   *)
(* Supabase after that, and the migration from the one to the other.       *)
(* Everything local is done at once; every request to Supabase is two      *)
(* steps, and whether the visitor is signed in is looked up again before   *)
(* each of them.  Articles are kept the same way as chats and left out.    *)
(*                                                                         *)
(* A turn is sendMessage and streamTurn: it may create a chat, saves the   *)
(* question, streams the answer and saves that.  It names no chat: what it *)
(* adds and saves goes to the chat that is open by then, and the visitor   *)
(* may have opened another one meanwhile.                                  *)
(***************************************************************************)
EXTENDS Naturals, Sequences, FiniteSets, SequencesExt

CONSTANTS
  MigrateLimit,   \* how many chats a migration copies (25)
  ChatLimit,      \* CHAT_LIMIT
  MaxTurns,       \* bound on questions
  MaxMessages,    \* bound on messages
  MaxCalls,       \* bound on sign-ins, sign-outs, failures, openings and deletions together
  None            \* no chat

ConversationAssumption ==
  /\ {MigrateLimit, ChatLimit} \subseteq Nat \ {0}
  /\ {MaxMessages, MaxCalls} \subseteq Nat
  /\ None \notin Nat

ConsoleAssumption == MaxTurns \in Nat /\ MaxMessages = 2 * MaxTurns

VARIABLES
  local,      \* LOCAL_CHATS: the chats in localStorage, newest first
  remote,     \* the rows of Supabase: chats with their messages
  born,       \* chats created so far: a chat's id is its number
  user,       \* state.user is set
  migrated,   \* MIGRATED_FLAG
  moves,      \* migrations in flight
  saves,      \* inserts of messages in flight
  acked,      \* history: messages whose append succeeded, of chats not deleted
  excused,    \* history: messages the code drops on purpose, or after a race
  unwritten,  \* history: messages whose append succeeded though the quota refused them
  raced,      \* history: the visitor signed out while a migration ran
  calls,      \* sign-ins, sign-outs, failures, openings and deletions so far
  view,      \* state of chat.js: the open chat, its messages, streaming, controller
  turns,     \* each turn: where it is, whether text came, whether it was aborted
  opening,   \* chats being loaded
  strayed    \* history: another chat was opened, or another turn begun, during a turn

stored == <<local, remote, born, user, migrated, moves, saves, acked, excused, unwritten, raced>>

Messages == 1..MaxMessages
Chat == [id : Nat \ {0}, topic : Nat, msgs : SUBSET Messages]

StoreTypeOK ==
  /\ local \in Seq(Chat) /\ Len(local) <= ChatLimit
  /\ remote \subseteq Chat
  /\ \A c \in ToSet(local) \cup remote : c.id <= born
  /\ {user, migrated, raced} \subseteq BOOLEAN
  /\ \A i \in DOMAIN moves :
       moves[i].rest \in Seq(Chat) /\ moves[i].rest # <<>> /\ moves[i].left \subseteq Messages
  /\ \A s \in saves : s.msg \in Messages
  /\ acked \cup excused \cup unwritten \subseteq Messages
  /\ calls \in 0..MaxCalls

StoreInit ==
  /\ local = <<>> /\ remote = {} /\ born = 0
  /\ user = FALSE /\ migrated = FALSE
  /\ moves = <<>> /\ saves = {}
  /\ acked = {} /\ excused = {} /\ unwritten = {} /\ raced = FALSE
  /\ calls = 0

(* The bound: one more of what the visitor and the network may do.         *)
Counted == calls < MaxCalls /\ calls' = calls + 1

In(chats, id) == \E c \in chats : c.id = id
Chats == IF user THEN remote ELSE ToSet(local)
MessagesOf(chats) == UNION {c.msgs : c \in chats}
Stored == MessagesOf(ToSet(local) \cup remote)

Added(c, id, m) == IF c.id = id THEN [c EXCEPT !.msgs = @ \cup {m}] ELSE c
-----------------------------------------------------------------------------
(* createChat without a user: the new chat goes first, the oldest beyond   *)
(* CHAT_LIMIT fall off.                                                    *)
Unshift(chat) == SubSeq(<<chat>> \o local, 1, IF Len(local) < ChatLimit THEN Len(local) + 1 ELSE ChatLimit)
FallenOff == IF Len(local) < ChatLimit THEN {} ELSE {local[ChatLimit]}

(* appendMessage, called with the local chats as they are by then: without *)
(* a user the message is stored at once, provided that its chat is there,  *)
(* and reported as stored also when the quota refuses it, which writeLocal *)
(* only logs; with one, an insert is sent.                                 *)
Append1(chats, id, m) ==
  IF user
  THEN /\ saves' = saves \cup {[msg |-> m, chat |-> id]}
       /\ local' = chats
       /\ UNCHANGED <<acked, unwritten, calls>>
  ELSE /\ UNCHANGED saves
       /\ acked' = IF In(ToSet(chats), id) THEN acked \cup {m} ELSE acked
       /\ \/ /\ local' = [i \in DOMAIN chats |-> Added(chats[i], id, m)]
             /\ UNCHANGED <<unwritten, calls>>
          \/ /\ In(ToSet(chats), id) /\ Counted
             /\ local' = chats
             /\ unwritten' = unwritten \cup {m}

(* The answer to an insert: the row is there and the caller told so, or    *)
(* there is no such chat (an id of the other backend, a deleted chat), or  *)
(* the request or only its answer was lost.                                *)
SaveAnswers(s) ==
  /\ saves' = saves \ {s}
  /\ \/ /\ remote' = {Added(c, s.chat, s.msg) : c \in remote}
        /\ acked' = IF In(remote, s.chat) THEN acked \cup {s.msg} ELSE acked
        /\ UNCHANGED calls
     \/ /\ Counted
        /\ remote' \in {remote, {Added(c, s.chat, s.msg) : c \in remote}}
        /\ UNCHANGED acked
  /\ UNCHANGED <<local, born, user, migrated, moves, excused, unwritten, raced>>

(* deleteChat of a chat the sidebar lists: no two local chats have one id, *)
(* so the filter takes one out.                                            *)
DeleteStored(id) ==
  /\ In(Chats, id)
  /\ IF user THEN remote' = {c \in remote : c.id # id} /\ UNCHANGED local
     ELSE UNCHANGED remote /\ \E k \in DOMAIN local : local[k].id = id /\ local' = RemoveAt(local, k)
  /\ acked' = acked \ MessagesOf({c \in Chats : c.id = id})
  /\ UNCHANGED <<born, user, migrated, moves, saves, excused, unwritten, raced>>
-----------------------------------------------------------------------------
(* The auth listener.  The first user after none starts a migration: each  *)
(* chat is created, then its messages are inserted one after another.      *)
SignIn ==
  /\ ~user /\ user' = TRUE
  /\ Counted
  /\ IF migrated \/ local = <<>>
     THEN migrated' = TRUE /\ UNCHANGED moves
     ELSE /\ UNCHANGED migrated
          /\ moves' = Append(moves,
               [rest |-> SubSeq(local, 1, IF Len(local) < MigrateLimit THEN Len(local) ELSE MigrateLimit),
                into |-> None, left |-> {}])
  /\ UNCHANGED <<local, remote, born, saves, acked, excused, unwritten, raced>>

SignOut ==
  /\ user /\ user' = FALSE
  /\ Counted
  /\ raced' = (raced \/ moves # <<>>)
  /\ UNCHANGED <<local, remote, born, migrated, moves, saves, acked, excused, unwritten>>

(* The last request of a migration was answered: local storage is cleared, *)
(* including the chats beyond the limit and, after a race, whatever had    *)
(* not been copied.                                                        *)
ClearLocal ==
  /\ local' = <<>> /\ migrated' = TRUE
  /\ excused' = excused \cup
       IF raced THEN MessagesOf(ToSet(local))
       ELSE MessagesOf({local[k] : k \in {n \in DOMAIN local : n > MigrateLimit}})

(* The message that a migration inserts next is the oldest that is left.   *)
IsNextMessage(m, move) == \A n \in move.left : m <= n

(* One answer in a migration and the code up to its next request: into the *)
(* chat's messages, then to the next chat.  Without a user everything that *)
(* remains is done locally and at once, where clearing takes it away.      *)
Onward(i, move) ==
  IF ~user \/ (move.left = {} /\ Len(move.rest) = 1)
  THEN ClearLocal /\ moves' = RemoveAt(moves, i)
  ELSE /\ moves' = [moves EXCEPT ![i] =
            IF move.left # {} THEN move
            ELSE [rest |-> Tail(move.rest), into |-> None, left |-> {}]]
       /\ UNCHANGED <<local, migrated, excused>>

MoveCreates(i) ==
  /\ moves[i].into = None
  /\ born' = born + 1
  /\ remote' = remote \cup {[id |-> born', topic |-> moves[i].rest[1].topic, msgs |-> {}]}
  /\ Onward(i, [moves[i] EXCEPT !.into = born', !.left = moves[i].rest[1].msgs])
  /\ UNCHANGED <<user, saves, acked, unwritten, raced, calls>>

MoveCopies(i) ==
  /\ moves[i].into # None /\ In(remote, moves[i].into)
  /\ \E m \in moves[i].left :
       /\ IsNextMessage(m, moves[i])
       /\ remote' = {Added(c, moves[i].into, m) : c \in remote}
       /\ Onward(i, [moves[i] EXCEPT !.left = @ \ {m}])
  /\ UNCHANGED <<born, user, saves, acked, unwritten, raced, calls>>

(* Mutation: local storage is cleared whether or not the copy succeeded.   *)
MoveFailsClears(i) ==
  /\ moves' = RemoveAt(moves, i)
  /\ local' = <<>>
  /\ \/ moves[i].into # None /\ ~In(remote, moves[i].into) /\ UNCHANGED calls
     \/ Counted
  /\ UNCHANGED <<remote, born, user, migrated, saves, acked, excused, unwritten, raced>>

(* A request of a migration fails, because its new chat was deleted or the *)
(* network did: the catch leaves local storage and the flag as they are.   *)
MoveFails(i) ==
  /\ moves' = RemoveAt(moves, i)
  /\ \/ moves[i].into # None /\ ~In(remote, moves[i].into) /\ UNCHANGED calls
     \/ Counted
  /\ UNCHANGED <<local, remote, born, user, migrated, saves, acked, excused, unwritten, raced>>

StoreStep ==
  \/ SignIn \/ SignOut
  \/ \E s \in saves : SaveAnswers(s)
  \/ \E i \in DOMAIN moves : MoveCreates(i) \/ MoveCopies(i) \/ MoveFails(i)
-----------------------------------------------------------------------------
vars == <<stored, calls, view, turns, opening, strayed>>

Question(t) == 2 * t - 1
Answer(t) == 2 * t
TurnOf(m) == (m + 1) \div 2
Places == {"none", "creating", "streaming", "done"}
NoTurn == [at |-> "none", topic |-> 0, heard |-> FALSE, aborted |-> FALSE]
Turns == 1..MaxTurns

TypeOK ==
  /\ StoreTypeOK
  /\ view.chat \in 1..born \cup {None} /\ view.shown \subseteq Messages
  /\ view.streaming \in BOOLEAN /\ view.controller \in Turns \cup {None}
  /\ \A t \in Turns : turns[t].at \in Places
  /\ opening \subseteq 1..born /\ strayed \in BOOLEAN

Init ==
  /\ StoreInit
  /\ view = [chat |-> None, topic |-> 0, shown |-> {}, streaming |-> FALSE, controller |-> None]
  /\ turns = [t \in Turns |-> NoTurn]
  /\ opening = {} /\ strayed = FALSE

Running == {t \in Turns : turns[t].at \in {"creating", "streaming"}}
At(t, place) == t \in Turns /\ turns[t].at = place
-----------------------------------------------------------------------------
(* persist(message): nothing when no chat is open.                         *)
Persist(chats, chat, m) ==
  IF chat = None THEN local' = chats /\ UNCHANGED <<saves, acked, unwritten, calls>>
  ELSE Append1(chats, chat, m)

Streaming(v, t) == [v EXCEPT !.streaming = TRUE, !.controller = t]

(* sendMessage, up to its first await: a new chat of a signed-in visitor   *)
(* is created by a request, in every other case the answer streams next,   *)
(* whether or not the quota lets a local chat be kept.                     *)
Send(t) ==
  /\ At(t, "none") /\ \A u \in Turns : u < t => turns[u].at # "none"
  /\ ~view.streaming
  /\ strayed' = (strayed \/ Running # {})
  /\ LET topic == IF view.topic = 0 THEN t ELSE view.topic
         asked == [view EXCEPT !.topic = topic, !.shown = @ \cup {Question(t)}]
         Becomes(place) == turns' = [turns EXCEPT ![t] = [NoTurn EXCEPT !.at = place, !.topic = topic]]
     IN  \/ /\ view.chat = None /\ user
            /\ view' = asked /\ Becomes("creating")
            /\ UNCHANGED <<local, saves, acked, unwritten, calls, born, excused>>
         \/ /\ view.chat = None /\ ~user
            /\ born' = born + 1
            /\ view' = [Streaming(asked, t) EXCEPT !.chat = born'] /\ Becomes("streaming")
            /\ \/ /\ Persist(Unshift([id |-> born', topic |-> topic, msgs |-> {}]), born', Question(t))
                  /\ excused' = excused \cup MessagesOf(FallenOff)
               \/ Counted /\ UNCHANGED <<local, saves, acked, unwritten, excused>>
         \/ /\ view.chat # None
            /\ view' = Streaming(asked, t) /\ Becomes("streaming")
            /\ Persist(local, view.chat, Question(t))
            /\ UNCHANGED <<born, excused>>
  /\ UNCHANGED <<remote, user, migrated, moves, raced, opening>>

(* createChat answers: the new chat becomes the open one, whichever is     *)
(* open now; when it fails the question is not saved unless one is.        *)
Created(t) ==
  /\ At(t, "creating")
  /\ \/ /\ born' = born + 1
        /\ remote' = remote \cup {[id |-> born', topic |-> turns[t].topic, msgs |-> {}]}
        /\ view' = [Streaming(view, t) EXCEPT !.chat = born']
        /\ Persist(local, born', Question(t))
     \/ /\ Counted
        /\ view' = Streaming(view, t)
        /\ UNCHANGED <<born, remote, local, acked, unwritten>>
        /\ saves' = IF view.chat = None \/ ~user THEN saves
                    ELSE saves \cup {[msg |-> Question(t), chat |-> view.chat]}
  /\ turns' = [turns EXCEPT ![t].at = "streaming"]
  /\ UNCHANGED <<user, migrated, moves, excused, raced, opening, strayed>>

(* A text event reaches the reader before it sees an abort.                *)
Hear(t) ==
  /\ At(t, "streaming") /\ ~turns[t].heard /\ ~turns[t].aborted
  /\ turns' = [turns EXCEPT ![t].heard = TRUE]
  /\ UNCHANGED <<stored, calls, view, opening, strayed>>

(* Mutation: the flag is reset on success alone, not in the finally.       *)
EndOnSuccess(t) ==
  /\ At(t, "streaming")
  /\ turns' = [turns EXCEPT ![t].at = "done"]
  /\ LET ended == IF turns[t].aborted THEN [view EXCEPT !.controller = None]
                  ELSE [view EXCEPT !.streaming = FALSE, !.controller = None] IN
       IF turns[t].heard
       THEN /\ view' = [ended EXCEPT !.shown = @ \cup {Answer(t)}]
            /\ Persist(local, view.chat, Answer(t))
       ELSE /\ view' = ended
            /\ UNCHANGED <<local, saves, acked, unwritten, calls>>
  /\ UNCHANGED <<remote, born, user, migrated, moves, excused, raced, opening, strayed>>

(* The stream ends: complete, broken off, refused or aborted.  What was    *)
(* heard by then is shown and saved.                                       *)
End(t) ==
  /\ At(t, "streaming")
  /\ turns' = [turns EXCEPT ![t].at = "done"]
  /\ LET ended == [view EXCEPT !.streaming = FALSE, !.controller = None] IN
       IF turns[t].heard
       THEN /\ view' = [ended EXCEPT !.shown = @ \cup {Answer(t)}]
            /\ Persist(local, view.chat, Answer(t))
       ELSE /\ view' = ended
            /\ UNCHANGED <<local, saves, acked, unwritten, calls>>
  /\ UNCHANGED <<remote, born, user, migrated, moves, excused, raced, opening, strayed>>

Aborted == IF view.controller = None THEN turns ELSE [turns EXCEPT ![view.controller].aborted = TRUE]

Stop ==
  /\ view.streaming /\ view.controller # None /\ ~turns[view.controller].aborted
  /\ turns' = Aborted
  /\ UNCHANGED <<stored, calls, view, opening, strayed>>
-----------------------------------------------------------------------------
(* Mutation: the thread of the chat before is not emptied.                 *)
FreshKeepsMessages == [view EXCEPT !.chat = None, !.topic = 0]

(* startNewChat: the running turn is aborted, the thread emptied.          *)
Fresh == [view EXCEPT !.chat = None, !.topic = 0, !.shown = {}]

StartNewChat ==
  /\ Counted /\ view # Fresh
  /\ turns' = IF view.streaming THEN Aborted ELSE turns
  /\ view' = Fresh
  /\ strayed' = (strayed \/ Running # {})
  /\ UNCHANGED <<stored, opening>>

(* openChat: loads, then shows what it loaded, whatever goes on meanwhile. *)
Opened(c) ==
  /\ view' = [view EXCEPT !.chat = c.id, !.topic = c.topic, !.shown = c.msgs]
  /\ strayed' = (strayed \/ Running # {})

OpenChat(id) ==
  /\ Counted /\ In(Chats, id)
  /\ IF user THEN opening' = opening \cup {id} /\ UNCHANGED <<view, strayed>>
     ELSE Opened(CHOOSE c \in Chats : c.id = id) /\ UNCHANGED opening
  /\ UNCHANGED <<stored, turns>>

Loaded(id) ==
  /\ id \in opening /\ opening' = opening \ {id}
  /\ IF In(remote, id) THEN Opened(CHOOSE c \in remote : c.id = id)
     ELSE UNCHANGED <<view, strayed>>
  /\ UNCHANGED <<stored, calls, turns>>

LoadFails(id) ==
  /\ id \in opening /\ opening' = opening \ {id}
  /\ Counted
  /\ UNCHANGED <<local, remote, born, user, migrated, moves, saves, acked, excused, unwritten, raced>>
  /\ UNCHANGED <<view, turns, strayed>>

Delete(id) ==
  /\ Counted /\ DeleteStored(id)
  /\ IF view.chat = id
     THEN /\ turns' = IF view.streaming THEN Aborted ELSE turns
          /\ view' = Fresh
          /\ strayed' = (strayed \/ Running # {})
     ELSE UNCHANGED <<turns, view, strayed>>
  /\ UNCHANGED opening

Next ==
  \/ StoreStep /\ UNCHANGED <<view, turns, opening, strayed>>
  \/ \E t \in Turns : Send(t) \/ Created(t) \/ Hear(t) \/ End(t)
  \/ Stop \/ StartNewChat
  \/ \E id \in 1..born : OpenChat(id) \/ Loaded(id) \/ LoadFails(id) \/ Delete(id)

Spec == Init /\ [][Next]_vars
-----------------------------------------------------------------------------
(* While the console says that it streams, a stream of its own is open and *)
(* Stop reaches it; while it takes questions, none is.  A question sent    *)
(* while an earlier one's chat is being created breaks that.               *)
StopReaches ==
  ~strayed =>
    IF view.streaming THEN view.controller # None /\ At(view.controller, "streaming")
    ELSE \A t \in Turns : ~At(t, "streaming")

(* A thread, on the screen or stored, is one conversation: question and    *)
(* answer stay together, unless another chat was opened during the turn.   *)
ThreadsUnmixed ==
  ~strayed =>
    /\ \A m \in view.shown : turns[TurnOf(m)].topic = view.topic
    /\ \A c \in ToSet(local) \cup remote : \A m \in c.msgs : turns[TurnOf(m)].topic = c.topic

(* A message whose append succeeded is in one of the stores, through       *)
(* sign-ins, failed and repeated migrations and lost answers, unless its   *)
(* chat was beyond a limit, the visitor signed out during a migration, or  *)
(* the browser refused to store it: then chat-store.js reports success and *)
(* drops the newest message, where its warning says that older             *)
(* conversations may be dropped.                                           *)
ConversationsKept == acked \subseteq Stored \cup excused \cup unwritten

(* What chat-store.js says of itself: a conversation is never lost just    *)
(* because someone has not clicked sign in, and signing in migrates        *)
(* whatever is in local storage.  Here: no acknowledged message is lost to *)
(* a visitor who stays signed in until the migration is over, but for what *)
(* never was in local storage.                                             *)
SignInForgetsNothing == ~raced => acked \subseteq Stored \cup unwritten
=============================================================================
