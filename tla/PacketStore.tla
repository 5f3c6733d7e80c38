------------------------------ MODULE PacketStore ------------------------------
(***************************************************************************)
(* The packets of one ticker: save_packet and load_packet of PrismStore.   *)
(* Several gunicorn workers share one directory; the store's lock is of    *)
(* one process only.  A save writes the day's file, rewrites latest.json   *)
(* in place and upserts the packet in Supabase; a load follows             *)
(* latest.json, then tries the dated files, then Supabase.  A packet is    *)
(* numbered by the save that stores it.                                    *)
(***************************************************************************)
EXTENDS TempFiles, FiniteSets

CONSTANTS
  Threads, Processes, ProcessOf,   \* gunicorn's threads and workers
  MaxFaults,       \* bound on failed operations and killed workers
  None             \* no date

Days == Places     \* as_of dates, as numbers

PacketAssumption ==
  /\ ProcessOf \in [Threads -> Processes]
  /\ Days \subseteq Nat \ {0} /\ IsFiniteSet(Days) /\ None \notin Days
  /\ {MaxCalls, MaxFaults} \subseteq Nat
  /\ {Empty, Torn} \cap (Nat \cup {None}) = {} /\ Empty # Torn

VARIABLES
  pointer,    \* latest.json: None, Torn or a day
  remote,     \* Supabase: the packet of each day (0: none)
  task,       \* what each thread is doing
  calls, faults,
  kept        \* history: per day, the newest save a reader may count on

files == <<tmp, file, content, pointer, remote>>
vars == <<files, task, calls, faults, kept>>

Idle == [op |-> "idle", day |-> None, number |-> 0, at |-> "idle", handle |-> 0,
         ok |-> FALSE, alone |-> FALSE, about |-> None, first |-> None, todo |-> {}, due |-> 0, answer |-> 0]

Writing == {"write", "rename", "truncate", "point"}
Held == {"write", "rename"}

TypeOK ==
  /\ FilesTyped
  /\ pointer \in Days \cup {None, Torn}
  /\ remote \in [Days -> 0..MaxCalls]
  /\ \A t \in Threads :
       /\ task[t].op \in {"idle", "save", "load"}
       /\ task[t].at \in {"idle", "upsert", "pointer", "read", "answer"} \cup Writing
       /\ {task[t].day, task[t].about, task[t].first} \subseteq Days \cup {None} /\ task[t].todo \subseteq Days
       /\ task[t].at \in Held => task[t].handle \in Numbers
  /\ calls \in 0..MaxCalls /\ faults \in 0..MaxFaults
  /\ kept \in [Days -> 0..MaxCalls]

Init ==
  /\ NoFiles
  /\ pointer = None /\ remote = [d \in Days |-> 0]
  /\ task = [t \in Threads |-> Idle]
  /\ calls = 0 /\ faults = 0 /\ kept = [d \in Days |-> 0]

At(t, place) == task[t].at = place
Step(t, place) == task' = [task EXCEPT ![t].at = place]
Locked(p) == \E t \in Threads : ProcessOf[t] = p /\ task[t].at \in Writing
-----------------------------------------------------------------------------
(* save_packet takes the lock and opens the temporary file.  Two saves of  *)
(* one day in two processes share it, and nothing is promised of that day  *)
(* until another save has it for itself.                                   *)
Racing(d) == \E t \in Threads : task[t].day = d /\ task[t].op = "save" /\ task[t].at \in Held

Withdrawn(d) ==
  [u \in Threads |->
     IF task[u].op = "save" /\ task[u].day = d THEN [task[u] EXCEPT !.alone = FALSE]
     ELSE IF task[u].op = "load" /\ task[u].about \in {d, None} THEN [task[u] EXCEPT !.due = 0]
     ELSE task[u]]

Save(t, d) ==
  /\ At(t, "idle") /\ ~Locked(ProcessOf[t])
  /\ calls < MaxCalls /\ calls' = calls + 1
  /\ Open(d, calls + 1)
  /\ LET racing == Racing(d) IN
       /\ task' = [(IF racing THEN Withdrawn(d) ELSE task) EXCEPT ![t] =
            [Idle EXCEPT !.op = "save", !.day = d, !.number = calls + 1, !.at = "write",
                         !.handle = Handle(d, calls + 1), !.alone = ~racing]]
       /\ kept' = [kept EXCEPT ![d] = IF racing THEN 0 ELSE @]
  /\ UNCHANGED <<file, pointer, remote, faults>>

Write(t) ==
  /\ At(t, "write")
  /\ Fill(task[t].handle, task[t].number)
  /\ Step(t, "rename")
  /\ UNCHANGED <<tmp, file, pointer, remote, calls, faults, kept>>

(* Without the temporary name the rename raises, and the save goes on to   *)
(* Supabase.                                                               *)
Rename(t) ==
  /\ At(t, "rename")
  /\ IF tmp[task[t].day] = 0
     THEN Step(t, "upsert") /\ UNCHANGED <<tmp, file>>
     ELSE Replace(task[t].day) /\ Step(t, "truncate")
  /\ UNCHANGED <<content, pointer, remote, calls, faults, kept>>

Truncate(t) ==
  /\ At(t, "truncate")
  /\ pointer' = Torn
  /\ Step(t, "point")
  /\ UNCHANGED <<tmp, file, content, remote, calls, faults, kept>>

Point(t) ==
  /\ At(t, "point")
  /\ pointer' = task[t].day
  /\ task' = [task EXCEPT ![t].at = "upsert", ![t].ok = TRUE]
  /\ UNCHANGED <<tmp, file, content, remote, calls, faults, kept>>

(* The upsert, whose failure is only noted, and the record for the caller: *)
(* with a local_path the packet counts as stored.                          *)
Upsert(t) ==
  /\ At(t, "upsert")
  /\ LET d == task[t].day
         n == task[t].number
     IN  /\ \/ remote' = [remote EXCEPT ![d] = n]
            \/ UNCHANGED remote
         /\ kept' = IF task[t].ok /\ task[t].alone /\ n > kept[d]
                    THEN [kept EXCEPT ![d] = n] ELSE kept
  /\ task' = [task EXCEPT ![t] = Idle]
  /\ UNCHANGED <<tmp, file, content, pointer, calls, faults>>

(* An OSError of any file operation (a full disk), possibly after part of  *)
(* it was done.                                                            *)
FileFails(t) ==
  /\ task[t].at \in Writing
  /\ faults < MaxFaults /\ faults' = faults + 1
  /\ \/ UNCHANGED <<content, pointer>>
     \/ At(t, "write") /\ content' = [content EXCEPT ![task[t].handle] = Torn] /\ UNCHANGED pointer
     \/ At(t, "point") /\ pointer' = Torn /\ UNCHANGED content
  /\ Step(t, "upsert")
  /\ UNCHANGED <<tmp, file, remote, calls, kept>>
-----------------------------------------------------------------------------
Dated == {d \in Days : file[d] # 0}
Newest(S) == {d \in S : \A e \in S : e <= d}

(* load_packet of one day, or of the latest.  What its answer may not be   *)
(* older than is fixed when it starts: for the latest, that there is one.  *)
LoadDay(t, d) ==
  /\ At(t, "idle")
  /\ calls < MaxCalls /\ calls' = calls + 1
  /\ task' = [task EXCEPT ![t] = [Idle EXCEPT !.op = "load", !.about = d, !.at = "read",
                                              !.todo = {d}, !.due = kept[d]]]
  /\ UNCHANGED <<files, faults, kept>>

LoadLatest(t) ==
  /\ At(t, "idle")
  /\ calls < MaxCalls /\ calls' = calls + 1
  /\ task' = [task EXCEPT ![t] =
       [Idle EXCEPT !.op = "load", !.at = "pointer", !.todo = Dated,
                    !.due = IF \E d \in Days : kept[d] # 0 THEN 1 ELSE 0]]
  /\ UNCHANGED <<files, faults, kept>>

Follow(t) ==
  /\ At(t, "pointer")
  /\ task' = [task EXCEPT ![t].at = "read", ![t].first = IF pointer \in Dated THEN pointer ELSE None]
  /\ UNCHANGED <<files, calls, faults, kept>>

(* The next candidate, the day latest.json names or the newest one left;   *)
(* one that is missing or does not parse is skipped.                       *)
Tried(t, n) == [task[t] EXCEPT !.answer = n, !.at = IF n # 0 THEN "answer" ELSE "read"]

Read(t) ==
  /\ At(t, "read")
  /\ \/ /\ task[t].first # None
        /\ task' = [task EXCEPT ![t] = [Tried(t, Parsed(task[t].first)) EXCEPT !.first = None]]
     \/ /\ task[t].first = None
        /\ \E d \in Newest(task[t].todo) :
             task' = [task EXCEPT ![t] = [Tried(t, Parsed(d)) EXCEPT !.todo = @ \ {d}]]
  /\ UNCHANGED <<files, calls, faults, kept>>

(* Supabase: the row of the day, or of the newest one; a failure is None.  *)
Fetch(t) ==
  /\ At(t, "read") /\ task[t].first = None /\ task[t].todo = {}
  /\ LET asked == IF task[t].about = None THEN Days ELSE {task[t].about}
         rows == {d \in asked : remote[d] # 0}
     IN  \E n \in {0} \cup {remote[d] : d \in Newest(rows)} :
           task' = [task EXCEPT ![t].at = "answer", ![t].answer = n]
  /\ UNCHANGED <<files, calls, faults, kept>>

Return(t) ==
  /\ At(t, "answer")
  /\ task' = [task EXCEPT ![t] = Idle]
  /\ UNCHANGED <<files, calls, faults, kept>>

(* A worker is killed: its threads are gone, its files stay as they are.   *)
Kill(p) ==
  /\ faults < MaxFaults /\ faults' = faults + 1
  /\ \E t \in Threads : ProcessOf[t] = p /\ ~At(t, "idle")
  /\ task' = [t \in Threads |-> IF ProcessOf[t] = p THEN Idle ELSE task[t]]
  /\ UNCHANGED <<files, calls, kept>>

Next ==
  \/ \E t \in Threads :
       \/ \E d \in Days : Save(t, d) \/ LoadDay(t, d)
       \/ Write(t) \/ Rename(t) \/ Truncate(t) \/ Point(t) \/ Upsert(t) \/ FileFails(t)
       \/ LoadLatest(t) \/ Follow(t) \/ Read(t) \/ Fetch(t) \/ Return(t)
  \/ \E p \in Processes : Kill(p)

Spec == Init /\ [][Next]_vars
-----------------------------------------------------------------------------
(* A save acknowledged with a local path is readable from then on, or a    *)
(* newer one of its day is, across failed writes, killed workers and saves *)
(* of other days, as long as no two workers save the same day at once.     *)
AckedIsReadable == \A d \in Days : kept[d] # 0 => Parsed(d) >= kept[d]

(* A load answers with nothing older than what was acknowledged when it    *)
(* began, whatever is written meanwhile: a latest.json or a day that does  *)
(* not parse only sends it to the next candidate.                          *)
LoadsAreCurrent ==
  \A t \in Threads : At(t, "answer") => task[t].answer >= task[t].due
=============================================================================
