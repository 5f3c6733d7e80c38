------------------------------- MODULE ChatStore -------------------------------
(***************************************************************************)
(* The turns of one memo chat: append_chat and chat_history of PrismStore. *)
(* An append reads the conversation's file, rewrites it in place and       *)
(* inserts a row in Supabase; it holds a lock, but one of its own process, *)
(* and a history takes none.                                               *)
(***************************************************************************)
EXTENDS Integers, Sequences, FiniteSets, SequencesExt

CONSTANTS
  Threads, Processes, ProcessOf,   \* gunicorn's threads and workers
  MaxTurns,        \* MAX_CHAT_TURNS
  Limit,           \* how many turns a history asks for
  MaxCalls,        \* bound on appends and histories
  MaxFaults,       \* bound on failed writes and killed workers
  Torn             \* a file that does not parse

ChatAssumption ==
  /\ ProcessOf \in [Threads -> Processes]
  /\ {MaxTurns, Limit} \subseteq Nat \ {0} /\ {MaxCalls, MaxFaults} \subseteq Nat
  /\ Torn \notin Seq(Nat)

VARIABLES
  file,       \* the conversation's file: its turns (none: no file), or Torn
  remote,     \* Supabase: the rows in the order they were inserted
  task,       \* what each thread is doing
  calls, faults,
  kept        \* history: the newest turns a reader may count on

vars == <<file, remote, task, calls, faults, kept>>

Idle == [at |-> "idle", turn |-> 0, rows |-> <<>>, alone |-> FALSE, due |-> {}]
Appending == {"truncate", "write"}

Turns == 1..MaxCalls

TypeOK ==
  /\ file = Torn \/ (file \in Seq(Turns) /\ Len(file) <= MaxTurns)
  /\ remote \in Seq(Turns)
  /\ \A t \in Threads :
       /\ task[t].at \in {"idle", "insert", "ask", "answer"} \cup Appending
       /\ task[t].rows \in Seq(Turns) /\ task[t].due \subseteq Turns
  /\ calls \in 0..MaxCalls /\ faults \in 0..MaxFaults
  /\ kept \subseteq Turns

Init ==
  /\ file = <<>> /\ remote = <<>>
  /\ task = [t \in Threads |-> Idle]
  /\ calls = 0 /\ faults = 0 /\ kept = {}

At(t, place) == task[t].at = place
Step(t, place) == task' = [task EXCEPT ![t].at = place]
Locked(p) == \E t \in Threads : ProcessOf[t] = p /\ task[t].at \in Appending

First(s, n) == SubSeq(s, 1, IF Len(s) < n THEN Len(s) ELSE n)
Newest(s, n) == SubSeq(s, IF Len(s) < n THEN 1 ELSE Len(s) - n + 1, Len(s))
NewestOf(S, n) == {k \in S : Cardinality({j \in S : j >= k}) <= n}
Rows == IF file = Torn THEN <<>> ELSE file

(* Nothing is promised of turns that may be lost: the file of two workers' *)
(* overlapping appends, or one left truncated.                             *)
Withdrawn == [u \in Threads |-> [task[u] EXCEPT !.alone = FALSE, !.due = {}]]
-----------------------------------------------------------------------------
(* Mutation: the turns are read before the lock is taken.                  *)
AppendUnlocked(t) ==
  /\ At(t, "idle")
  /\ calls < MaxCalls /\ calls' = calls + 1
  /\ task' = [task EXCEPT ![t] = [Idle EXCEPT !.at = "truncate", !.turn = calls + 1,
                                              !.rows = Rows, !.alone = TRUE]]
  /\ UNCHANGED <<file, remote, faults, kept>>

(* append_chat takes the lock and reads the turns there are.               *)
AppendTurn(t) ==
  /\ At(t, "idle") /\ ~Locked(ProcessOf[t])
  /\ calls < MaxCalls /\ calls' = calls + 1
  /\ LET racing == \E u \in Threads : task[u].at \in Appending IN
       /\ task' = [(IF racing THEN Withdrawn ELSE task) EXCEPT ![t] =
            [Idle EXCEPT !.at = "truncate", !.turn = calls + 1, !.rows = Rows, !.alone = ~racing]]
       /\ kept' = IF racing THEN {} ELSE kept
  /\ UNCHANGED <<file, remote, faults>>

Truncate(t) ==
  /\ At(t, "truncate")
  /\ file' = Torn
  /\ Step(t, "write")
  /\ UNCHANGED <<remote, calls, faults, kept>>

(* Over the turns another worker has written since, which may show         *)
(* through; a lone append finds the file as it truncated it.               *)
Write(t) ==
  /\ At(t, "write")
  /\ LET turns == Newest(Append(task[t].rows, task[t].turn), MaxTurns) IN
       /\ file' \in IF file = Torn THEN {turns} ELSE {turns, Torn}
       /\ kept' = IF task[t].alone THEN NewestOf(kept \cup {task[t].turn}, MaxTurns) ELSE kept
  /\ Step(t, "insert")
  /\ UNCHANGED <<remote, calls, faults>>

(* The insert, whose failure is only noted.                                *)
Insert(t) ==
  /\ At(t, "insert")
  /\ \/ remote' = Append(remote, task[t].turn)
     \/ UNCHANGED remote
  /\ task' = [task EXCEPT ![t] = Idle]
  /\ UNCHANGED <<file, calls, faults, kept>>

(* An OSError while opening the file or, with the file truncated, while    *)
(* writing it.                                                             *)
FileFails(t) ==
  /\ task[t].at \in Appending
  /\ faults < MaxFaults /\ faults' = faults + 1
  /\ task' = [(IF At(t, "write") THEN Withdrawn ELSE task) EXCEPT ![t].at = "insert"]
  /\ kept' = IF At(t, "write") THEN {} ELSE kept
  /\ UNCHANGED <<file, remote, calls>>
-----------------------------------------------------------------------------
(* chat_history: the newest turns of the file; when it has none, the rows  *)
(* of Supabase, oldest first, up to the limit.  Histories are answered     *)
(* what was kept when they began unless an append is under way.            *)
History(t) ==
  /\ At(t, "idle")
  /\ calls < MaxCalls /\ calls' = calls + 1
  /\ task' = [task EXCEPT ![t] =
       [Idle EXCEPT !.at = IF Rows = <<>> THEN "ask" ELSE "answer", !.rows = Newest(Rows, Limit),
                    !.due = IF \E u \in Threads : At(u, "write") THEN {}
                            ELSE NewestOf(kept, Limit)]]
  /\ UNCHANGED <<file, remote, faults, kept>>

Ask(t) ==
  /\ At(t, "ask")
  /\ \E rows \in {<<>>, First(remote, Limit)} :
       task' = [task EXCEPT ![t].at = "answer", ![t].rows = rows]
  /\ UNCHANGED <<file, remote, calls, faults, kept>>

Return(t) ==
  /\ At(t, "answer")
  /\ task' = [task EXCEPT ![t] = Idle]
  /\ UNCHANGED <<file, remote, calls, faults, kept>>

(* A worker is killed; what it was writing stays as it is.                 *)
Kill(p) ==
  /\ faults < MaxFaults /\ faults' = faults + 1
  /\ \E t \in Threads : ProcessOf[t] = p /\ ~At(t, "idle")
  /\ LET hurt == \E t \in Threads : ProcessOf[t] = p /\ At(t, "write")
         left == IF hurt THEN Withdrawn ELSE task
     IN  /\ task' = [t \in Threads |-> IF ProcessOf[t] = p THEN Idle ELSE left[t]]
         /\ kept' = IF hurt THEN {} ELSE kept
  /\ UNCHANGED <<file, remote, calls>>

Next ==
  \/ \E t \in Threads :
       \/ AppendTurn(t) \/ Truncate(t) \/ Write(t) \/ Insert(t) \/ FileFails(t)
       \/ History(t) \/ Ask(t) \/ Return(t)
  \/ \E p \in Processes : Kill(p)

Spec == Init /\ [][Next]_vars
-----------------------------------------------------------------------------
Increasing(s) == \A i, j \in DOMAIN s : i < j => s[i] < s[j]

(* The file holds turns in the order they were appended and never one      *)
(* twice, whatever races or fails.                                         *)
FileInOrder == file # Torn => Increasing(file)

(* A turn whose append no other worker disturbed is in the file until      *)
(* MaxTurns newer ones are, whenever no append is rewriting it.            *)
TurnsKept ==
  (\A t \in Threads : ~At(t, "write")) => kept \subseteq ToSet(Rows)

(* A history that begins while no append is rewriting the file has the     *)
(* newest of those turns.                                                  *)
HistoryIsCurrent == \A t \in Threads : At(t, "answer") => task[t].due \subseteq ToSet(task[t].rows)
=============================================================================
