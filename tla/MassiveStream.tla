----------------------------- MODULE MassiveStream -----------------------------
(***************************************************************************)
(* One Server-Sent Events stream of market data: market_stream over        *)
(* MassiveStreamProvider.stream_events, which connects, authenticates,     *)
(* subscribes and reads, and reconnects a bounded number of times.         *)
(*                                                                         *)
(* External: the upstream socket, and a client that goes away, which       *)
(* closes the generator where it stands at its yield.                      *)
(***************************************************************************)
EXTENDS Naturals

CONSTANTS
  MaxReconnects,   \* max_reconnects, at most 3
  MaxEvents,       \* max_events of the request
  MaxFrame         \* bound on the messages of one frame

StreamAssumption ==
  /\ MaxReconnects \in 0..3 /\ {MaxEvents, MaxFrame} \subseteq Nat \ {0}

VARIABLES
  at,         \* where the generator is
  attempts, emitted,
  frame,      \* messages of the frame not looked at yet
  sockets,    \* connections opened and not closed
  refused,    \* history: connections refused for good by then
  sent        \* the last event of the response

vars == <<at, attempts, emitted, frame, sockets, refused, sent>>

TypeOK ==
  /\ at \in {"start", "connect", "auth", "subscribe", "read", "yield", "sleep", "done"}
  /\ attempts \in 0..MaxReconnects /\ emitted \in 0..MaxEvents
  /\ frame \in 0..MaxFrame /\ sockets \in Nat /\ refused \in BOOLEAN
  /\ sent \in {"nothing", "ready", "market_data", "not_entitled", "provider_error"}

Init ==
  /\ at = "start" /\ attempts = 0 /\ emitted = 0 /\ frame = 0 /\ sockets = 0
  /\ refused = FALSE /\ sent = "nothing"

Ready ==
  /\ at = "start" /\ at' = "connect" /\ sent' = "ready"
  /\ UNCHANGED <<attempts, emitted, frame, sockets, refused>>

Connect ==
  /\ at = "connect" /\ at' = "auth" /\ sockets' = sockets + 1
  /\ UNCHANGED <<attempts, emitted, frame, refused, sent>>

Authenticate ==
  /\ at = "auth" /\ at' = "subscribe"
  /\ UNCHANGED <<attempts, emitted, frame, sockets, refused, sent>>

Subscribe ==
  /\ at = "subscribe" /\ at' = "read"
  /\ UNCHANGED <<attempts, emitted, frame, sockets, refused, sent>>

Receive ==
  /\ at = "read" /\ frame = 0 /\ frame' \in 1..MaxFrame
  /\ UNCHANGED <<at, attempts, emitted, sockets, refused, sent>>

(* A status or an unwanted event is skipped, any other is yielded.         *)
Message ==
  /\ at = "read" /\ frame > 0 /\ frame' = frame - 1
  /\ \/ UNCHANGED <<at, emitted, sent>>
     \/ at' = "yield" /\ emitted' = emitted + 1 /\ sent' = "market_data"
  /\ UNCHANGED <<attempts, sockets, refused>>

(* finally: the connection is closed on every way out of the try.          *)
Close == sockets' = IF sockets > 0 THEN sockets - 1 ELSE 0

(* Mutation: the limit is only looked at between frames.                   *)
ResumeFrame ==
  /\ at = "yield"
  /\ IF emitted >= MaxEvents /\ frame = 0 THEN at' = "done" /\ Close ELSE at' = "read" /\ UNCHANGED sockets
  /\ UNCHANGED <<attempts, emitted, frame, refused, sent>>

Resume ==
  /\ at = "yield"
  /\ IF emitted >= MaxEvents THEN at' = "done" /\ Close ELSE at' = "read" /\ UNCHANGED sockets
  /\ UNCHANGED <<attempts, emitted, frame, refused, sent>>

(* The upstream rejects the key or the subscription: never tried again.    *)
Refused ==
  /\ at = "auth" \/ (at = "read" /\ frame > 0)
  /\ at' = "done" /\ refused' = TRUE /\ sent' = "not_entitled" /\ Close
  /\ UNCHANGED <<attempts, emitted, frame>>

(* Mutation: the connection before is forgotten, not closed.               *)
ReconnectAtOnce ==
  /\ at = "sleep" /\ at' = "connect"
  /\ UNCHANGED <<attempts, emitted, frame, sockets, refused, sent>>

(* An error the loop lists: the rest of the frame is lost.  While attempts *)
(* are left it sleeps where it caught the error, the connection still      *)
(* open; with none left it raises.  attempts is never reset.               *)
Fails ==
  /\ at \in {"connect", "auth", "subscribe", "read"}
  /\ frame' = 0
  /\ IF attempts >= MaxReconnects
     THEN at' = "done" /\ sent' = "provider_error" /\ Close /\ UNCHANGED attempts
     ELSE at' = "sleep" /\ attempts' = attempts + 1 /\ UNCHANGED <<sent, sockets>>
  /\ UNCHANGED <<emitted, refused>>

(* One it does not list, like those of the websocket library for a timeout *)
(* or a closed socket: it leaves the generator and the response ends.      *)
Escapes ==
  /\ at \in {"auth", "subscribe", "read"}
  /\ at' = "done" /\ Close /\ frame' = 0
  /\ UNCHANGED <<attempts, emitted, refused, sent>>

(* The sleep is over: the finally closes the connection, if there was one, *)
(* and the loop opens the next.                                            *)
Reconnect ==
  /\ at = "sleep" /\ at' = "connect" /\ Close
  /\ UNCHANGED <<attempts, emitted, frame, refused, sent>>

(* The client is gone: the server closes the generator at its yield.       *)
ClientGone ==
  /\ at = "yield" /\ at' = "done" /\ Close
  /\ UNCHANGED <<attempts, emitted, frame, refused, sent>>

Next ==
  \/ Ready \/ Connect \/ Authenticate \/ Subscribe \/ Receive \/ Message \/ Resume
  \/ Refused \/ Fails \/ Escapes \/ Reconnect \/ ClientGone

Spec == Init /\ [][Next]_vars
-----------------------------------------------------------------------------
(* At most one connection is open, also while the stream waits before it   *)
(* reconnects, and none once the next is asked for or the stream is over,  *)
(* whichever way it ended.                                                 *)
SocketsClosed == sockets <= 1 /\ (at \in {"start", "connect", "done"} => sockets = 0)

(* The client never gets more events than it asked for, over any number of *)
(* frames and reconnections.                                               *)
EventsBounded == emitted <= MaxEvents

(* A refusal for good is never followed by another connection.             *)
RefusalIsFinal == refused => at = "done" /\ sent = "not_entitled"
=============================================================================
