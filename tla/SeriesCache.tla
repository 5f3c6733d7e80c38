------------------------------ MODULE SeriesCache ------------------------------
(***************************************************************************)
(* One entry of the Prism cache: get and set of PrismCache over a local    *)
(* file and a row of Supabase.  Every build has a PrismCache of its own,   *)
(* so no lock orders two builds that use the entry, in one worker or in    *)
(* two.  An entry is numbered by the set that made it; age() is what       *)
(* _is_fresh compares with the TTL.                                        *)
(***************************************************************************)
EXTENDS TempFiles, FiniteSets

CONSTANTS
  Threads,         \* builds
  Entry,           \* the local path of the entry
  Ttl,             \* in ticks of the clock
  MaxClock,        \* bound on the clock
  MaxFaults        \* bound on failed local writes and killed builds

SeriesAssumption ==
  /\ Places = {Entry}
  /\ Ttl \in Nat /\ {MaxCalls, MaxClock, MaxFaults} \subseteq Nat
  /\ {Empty, Torn} \cap Nat = {} /\ Empty # Torn

VARIABLES
  remote,     \* Supabase: the entry of the row (0: none)
  clock,
  stamp,      \* cached_at of each entry
  task,       \* what each build is doing
  calls, faults,
  kept        \* history: the newest set a get may count on

vars == <<tmp, file, content, remote, clock, stamp, task, calls, faults, kept>>

Idle == [op |-> "idle", at |-> "idle", entry |-> 0, handle |-> 0, ok |-> FALSE,
         alone |-> FALSE, due |-> 0, since |-> 0]

Writing == {"open", "write", "rename"}

TypeOK ==
  /\ FilesTyped
  /\ remote \in 0..MaxCalls /\ clock \in 0..MaxClock
  /\ stamp \in [Numbers -> 0..MaxClock]
  /\ \A t \in Threads :
       /\ task[t].at \in {"idle", "read", "fetch", "upsert", "answer"} \cup Writing
       /\ task[t].at \in {"write", "rename"} => task[t].handle \in Numbers
       /\ task[t].at \in Writing => task[t].entry \in Numbers
  /\ calls \in 0..MaxCalls /\ faults \in 0..MaxFaults /\ kept \in 0..MaxCalls

Init ==
  /\ NoFiles
  /\ remote = 0 /\ clock = 0 /\ stamp = [n \in Numbers |-> 0]
  /\ task = [t \in Threads |-> Idle]
  /\ calls = 0 /\ faults = 0 /\ kept = 0

At(t, place) == task[t].at = place
Step(t, place) == task' = [task EXCEPT ![t].at = place]

Fresh(n) == n # 0 /\ clock - stamp[n] <= Ttl
FreshOr0(n) == IF Fresh(n) THEN n ELSE 0
-----------------------------------------------------------------------------
(* A set, and a get that found no local entry, may write one: two of them  *)
(* at once, one being a set, and nothing is promised until the next set.   *)
MayWrite == {u \in Threads : task[u].at \in {"fetch", "upsert"} \cup Writing}
Withdrawn == [u \in Threads |-> [task[u] EXCEPT !.alone = FALSE, !.due = 0]]

Set(t) ==
  /\ At(t, "idle")
  /\ calls < MaxCalls /\ calls' = calls + 1
  /\ stamp' = [stamp EXCEPT ![calls + 1] = clock]
  /\ LET racing == MayWrite # {} IN
       /\ task' = [(IF racing THEN Withdrawn ELSE task) EXCEPT ![t] =
            [Idle EXCEPT !.op = "set", !.at = "open", !.entry = calls + 1, !.handle = calls + 1,
                         !.alone = ~racing]]
       /\ kept' = IF racing THEN 0 ELSE kept
  /\ UNCHANGED <<tmp, file, content, remote, clock, faults>>

Get(t) ==
  /\ At(t, "idle")
  /\ calls < MaxCalls /\ calls' = calls + 1
  /\ task' = [task EXCEPT ![t] = [Idle EXCEPT !.op = "get", !.at = "read", !.handle = calls + 1,
                                              !.due = kept, !.since = clock]]
  /\ UNCHANGED <<tmp, file, content, remote, clock, stamp, faults, kept>>

(* Mutation: a stale local entry is served all the same.                   *)
ReadLocalStale(t) ==
  /\ At(t, "read")
  /\ task' = [task EXCEPT ![t].entry = Parsed(Entry),
                          ![t].at = IF Parsed(Entry) # 0 THEN "answer" ELSE "fetch"]
  /\ UNCHANGED <<tmp, file, content, remote, clock, stamp, calls, faults, kept>>

(* A local entry that is missing, stale or does not parse sends the get to *)
(* Supabase.                                                               *)
ReadLocal(t) ==
  /\ At(t, "read")
  /\ LET n == FreshOr0(Parsed(Entry))
         racing == n = 0 /\ \E u \in MayWrite : task[u].op = "set"
     IN  /\ task' = [(IF racing THEN Withdrawn ELSE task) EXCEPT
                       ![t].entry = n, ![t].at = IF n # 0 THEN "answer" ELSE "fetch"]
         /\ kept' = IF racing THEN 0 ELSE kept
  /\ UNCHANGED <<tmp, file, content, remote, clock, stamp, calls, faults>>

(* A fresh row is written to the local file before it is answered; a       *)
(* failed request counts as no row.                                        *)
Fetch(t) ==
  /\ At(t, "fetch")
  /\ \E n \in {0, FreshOr0(remote)} :
       task' = [task EXCEPT ![t].entry = n, ![t].at = IF n # 0 THEN "open" ELSE "answer"]
  /\ UNCHANGED <<tmp, file, content, remote, clock, stamp, calls, faults, kept>>

AfterWrite(t) == IF task[t].op = "set" THEN "upsert" ELSE "answer"

OpenLocal(t) ==
  /\ At(t, "open")
  /\ Open(Entry, task[t].handle)
  /\ task' = [task EXCEPT ![t].at = "write", ![t].handle = Handle(Entry, @)]
  /\ UNCHANGED <<file, remote, clock, stamp, calls, faults, kept>>

FillLocal(t) ==
  /\ At(t, "write")
  /\ Fill(task[t].handle, task[t].entry)
  /\ Step(t, "rename")
  /\ UNCHANGED <<tmp, file, remote, clock, stamp, calls, faults, kept>>

(* Without the temporary name the rename raises, which is only noted.      *)
RenameLocal(t) ==
  /\ At(t, "rename")
  /\ IF tmp[Entry] = 0
     THEN Step(t, AfterWrite(t)) /\ UNCHANGED <<tmp, file>>
     ELSE /\ Replace(Entry)
          /\ task' = [task EXCEPT ![t].at = AfterWrite(t), ![t].ok = TRUE]
  /\ UNCHANGED <<content, remote, clock, stamp, calls, faults, kept>>

WriteFails(t) ==
  /\ task[t].at \in Writing
  /\ faults < MaxFaults /\ faults' = faults + 1
  /\ \/ UNCHANGED content
     \/ At(t, "write") /\ content' = [content EXCEPT ![task[t].handle] = Torn]
  /\ Step(t, AfterWrite(t))
  /\ UNCHANGED <<tmp, file, remote, clock, stamp, calls, kept>>

Upsert(t) ==
  /\ At(t, "upsert")
  /\ \/ remote' = task[t].entry
     \/ UNCHANGED remote
  /\ kept' = IF task[t].ok /\ task[t].alone THEN task[t].entry ELSE kept
  /\ task' = [task EXCEPT ![t] = Idle]
  /\ UNCHANGED <<tmp, file, content, clock, stamp, calls, faults>>

Return(t) ==
  /\ At(t, "answer")
  /\ task' = [task EXCEPT ![t] = Idle]
  /\ UNCHANGED <<tmp, file, content, remote, clock, stamp, calls, faults, kept>>

Kill(t) ==
  /\ ~At(t, "idle")
  /\ faults < MaxFaults /\ faults' = faults + 1
  /\ task' = [task EXCEPT ![t] = Idle]
  /\ UNCHANGED <<tmp, file, content, remote, clock, stamp, calls, kept>>

Tick ==
  /\ clock < MaxClock /\ clock' = clock + 1
  /\ UNCHANGED <<tmp, file, content, remote, stamp, task, calls, faults, kept>>

Next ==
  \/ \E t \in Threads :
       \/ Set(t) \/ Get(t) \/ ReadLocal(t) \/ Fetch(t) \/ Return(t) \/ Kill(t)
       \/ OpenLocal(t) \/ FillLocal(t) \/ RenameLocal(t) \/ WriteFails(t) \/ Upsert(t)
  \/ Tick

Spec == Init /\ [][Next]_vars
-----------------------------------------------------------------------------
Answered(t) == At(t, "answer") /\ task[t].op = "get"

(* Nothing older than the TTL when the get began is answered, however long *)
(* an entry took to come back from Supabase and be written locally.        *)
AnswersAreFresh ==
  \A t \in Threads : Answered(t) /\ task[t].entry # 0 => task[t].since - stamp[task[t].entry] <= Ttl

(* A set that nothing overlapped is what later gets answer, or a newer     *)
(* one, for as long as it is fresh: no late warming of the local file      *)
(* brings an older entry back.                                             *)
SetIsServed ==
  \A t \in Threads : Answered(t) /\ Fresh(task[t].due) => task[t].entry >= task[t].due
=============================================================================
