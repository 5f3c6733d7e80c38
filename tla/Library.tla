-------------------------------- MODULE Library --------------------------------
(***************************************************************************)
(* The mobile research library: LibraryStore over AsyncStorage.  Every     *)
(* public call goes through one promise queue, so its storage requests do  *)
(* not interleave with those of another call; what remains hard is a       *)
(* request that fails, the app being killed between two requests, and a    *)
(* clock that moves back between two sessions.                             *)
(*                                                                         *)
(* A run of reads (getAllKeys and the getItem loop) changes nothing and    *)
(* nobody writes in between, so it is part of the step that writes.        *)
(***************************************************************************)
EXTENDS Integers, Sequences, FiniteSets

CONSTANTS
  Ids,             \* record ids createId may draw
  Size,            \* bytes of each record
  KeyOrder,        \* rank of each key in getAllKeys, which a stable sort keeps
  MaxEntries, MaxTotalBytes,   \* LIBRARY_LIMITS
  MaxClock,        \* bound on Date.now()
  MaxCalls,        \* bound on calls
  MaxQueue,        \* bound on calls waiting at once
  MaxFaults,       \* bound on failed requests and kills
  None, Corrupt    \* no item; an item parseRecord rejects

LibraryAssumption ==
  /\ IsFiniteSet(Ids)
  /\ Size \in [Ids -> Nat \ {0}]
  /\ KeyOrder \in [Ids -> Nat]
  /\ \A i, j \in Ids : KeyOrder[i] = KeyOrder[j] => i = j
  /\ MaxEntries \in Nat \ {0} /\ MaxTotalBytes \in Nat
  /\ \A i \in Ids : Size[i] <= MaxTotalBytes    \* maxEntryBytes < maxTotalBytes
  /\ {MaxClock, MaxCalls, MaxQueue, MaxFaults} \subseteq Nat

Record == [accessed : Nat, cached : Nat]
Requests ==
  {<<"list", None>>, <<"clear", None>>} \cup ({"read", "save", "delete"} \X Ids)
Call == [op : {"list", "read", "save", "delete", "clear"}, id : Ids \cup {None}, number : Nat]

NotRecords == {None, Corrupt} \cap (Record \cup Ids) = {} /\ None # Corrupt

VARIABLES
  disk,        \* AsyncStorage: the item under each record's key
  clock,       \* Date.now()
  lastAccessAt,
  queue,       \* calls not settled yet; the head is running
  stage,       \* how far the head has got
  calls,       \* history: calls made so far
  saved,       \* history: the call that wrote each record
  cleared,     \* history: the newest clear that has settled
  acked,       \* history: saves acknowledged and not removed by a later call
  torn,        \* history: saves that ended after setItem without a full prune
  faults,
  moved        \* history: the clock was set back

vars == <<disk, clock, lastAccessAt, queue, stage, calls, saved, cleared, acked, torn, faults, moved>>

TypeOK ==
  /\ disk \in [Ids -> Record \cup {None, Corrupt}]
  /\ clock \in Nat /\ lastAccessAt \in Nat
  /\ queue \in Seq(Call)
  /\ stage \in {"start", "prune", "rollback"}
  /\ stage # "start" => queue # <<>> /\ Head(queue).op = "save"
  /\ calls \in 0..MaxCalls
  /\ saved \in [Ids -> 0..calls] /\ cleared \in 0..calls
  /\ acked \subseteq Ids
  /\ torn \in Nat /\ faults \in 0..MaxFaults /\ moved \in BOOLEAN

Present == {i \in Ids : disk[i] # None}
Valid == {i \in Ids : disk[i] \in Record}

Init ==
  /\ disk \in {d \in [Ids -> {None, Corrupt}] : Cardinality({i \in Ids : d[i] = Corrupt}) <= 1}
  /\ clock = 1 /\ lastAccessAt = 0
  /\ queue = <<>> /\ stage = "start"
  /\ calls = 0 /\ cleared = 0
  /\ saved = [i \in Ids |-> 0]
  /\ acked = {} /\ torn = 0 /\ faults = 0 /\ moved = FALSE

-----------------------------------------------------------------------------
(* timestamp(): strictly increasing within a session.                      *)
Stamp == IF clock > lastAccessAt THEN clock ELSE lastAccessAt + 1

(* Mutations of the definitions below: bugs the properties must catch.     *)

(* prune() sorts least recently used first.                                *)
BeforeReversed(i, j) ==
  \/ disk[i].accessed < disk[j].accessed
  \/ disk[i].accessed = disk[j].accessed /\ KeyOrder[i] < KeyOrder[j]

(* The order prune() sorts by: most recently used first.                   *)
Before(i, j) ==
  \/ disk[i].accessed > disk[j].accessed
  \/ /\ disk[i].accessed = disk[j].accessed
     /\ \/ disk[i].cached > disk[j].cached
        \/ disk[i].cached = disk[j].cached /\ KeyOrder[i] < KeyOrder[j]

Bytes(S) == Cardinality(UNION {{i} \X (1..Size[i]) : i \in S})

(* What the forEach of prune() keeps: an entry that fits beside the more   *)
(* recent ones already kept, in number and in bytes.                       *)
IsKept(K) ==
  \A i \in Valid :
    LET ahead == {j \in K : Before(j, i)}
    IN  i \in K <=> /\ Cardinality(ahead) < MaxEntries
                    /\ Bytes(ahead) + Size[i] <= MaxTotalBytes
-----------------------------------------------------------------------------
Forget(S) == acked' = acked \ S

(* Storage writes of each operation, whether or not their answer arrives.  *)
WriteList ==
  /\ disk' = [i \in Ids |-> IF disk[i] = Corrupt THEN None ELSE disk[i]]
  /\ UNCHANGED <<saved, acked>>

WriteTouch(i) ==
  /\ disk' = [disk EXCEPT ![i] = IF @ \in Record THEN [@ EXCEPT !.accessed = Stamp] ELSE None]
  /\ UNCHANGED <<saved, acked>>

WriteRecord(i, n) ==
  /\ disk[i] \notin Record
  /\ disk' = [disk EXCEPT ![i] = [accessed |-> Stamp, cached |-> Stamp]]
  /\ saved' = [saved EXCEPT ![i] = n]
  /\ UNCHANGED acked

WritePrune(K) ==
  /\ disk' = [i \in Ids |-> IF i \in K THEN disk[i] ELSE None]
  /\ Forget(Valid \ K)
  /\ UNCHANGED saved

WriteDelete(S) ==
  /\ disk' = [i \in Ids |-> IF i \in S THEN None ELSE disk[i]]
  /\ Forget(S)
  /\ UNCHANGED saved

WriteRollback(i) == WriteDelete({i})

NoWrite == UNCHANGED <<disk, saved, acked>>
-----------------------------------------------------------------------------
(* Mutation: the stage of a settled save is left to the next call.         *)
SettleKeepsStage == queue' = Tail(queue) /\ stage' = stage

(* A call settles: the queue goes on with the next one, whatever came out. *)
Settle == queue' = Tail(queue) /\ stage' = "start"

Running(op) == queue # <<>> /\ Head(queue).op = op

(* Mutations: clear() does not wait for its turn; a rollback is forgotten.*)
EnqueueClearAtOnce(op, i) ==
  /\ calls < MaxCalls /\ Len(queue) < MaxQueue
  /\ calls' = calls + 1
  /\ IF op = "clear"
     THEN WriteDelete(Present) /\ cleared' = calls + 1 /\ UNCHANGED queue
     ELSE /\ queue' = Append(queue, [op |-> op, id |-> i, number |-> calls + 1])
          /\ NoWrite /\ UNCHANGED cleared
  /\ UNCHANGED <<clock, lastAccessAt, stage, torn, faults, moved>>

RollbackForgotten ==
  /\ stage = "rollback"
  /\ NoWrite /\ Settle
  /\ UNCHANGED <<clock, lastAccessAt, calls, cleared, torn, faults, moved>>

(* enqueue(): the operation runs when everything before it has settled.    *)
Enqueue(op, i) ==
  /\ calls < MaxCalls /\ Len(queue) < MaxQueue
  /\ calls' = calls + 1
  /\ queue' = Append(queue, [op |-> op, id |-> i, number |-> calls + 1])
  /\ UNCHANGED <<disk, clock, lastAccessAt, stage, saved, cleared, acked, torn, faults, moved>>

List ==
  /\ Running("list")
  /\ WriteList /\ Settle
  /\ UNCHANGED <<clock, lastAccessAt, calls, cleared, torn, faults, moved>>

Read ==
  /\ Running("read")
  /\ LET i == Head(queue).id IN
       /\ WriteTouch(i)
       /\ lastAccessAt' = IF disk[i] \in Record THEN Stamp ELSE lastAccessAt
  /\ Settle
  /\ UNCHANGED <<clock, calls, cleared, torn, faults, moved>>

Delete ==
  /\ Running("delete")
  /\ WriteDelete({Head(queue).id}) /\ Settle
  /\ UNCHANGED <<clock, lastAccessAt, calls, cleared, torn, faults, moved>>

Clear ==
  /\ Running("clear")
  /\ WriteDelete(Present) /\ Settle
  /\ cleared' = Head(queue).number
  /\ UNCHANGED <<clock, lastAccessAt, calls, torn, faults, moved>>

(* save(): refuse an id in use; otherwise replace a corrupt item and write.*)
SaveRefused ==
  /\ Running("save") /\ stage = "start"
  /\ disk[Head(queue).id] \in Record
  /\ lastAccessAt' = Stamp
  /\ NoWrite /\ Settle
  /\ UNCHANGED <<clock, calls, cleared, torn, faults, moved>>

SaveWrites ==
  /\ Running("save") /\ stage = "start"
  /\ WriteRecord(Head(queue).id, Head(queue).number)
  /\ lastAccessAt' = Stamp
  /\ stage' = "prune"
  /\ UNCHANGED <<clock, queue, calls, cleared, torn, faults, moved>>

SavePrunes ==
  /\ Running("save") /\ stage = "prune"
  /\ \E K \in SUBSET Valid :
       /\ IsKept(K)
       /\ disk' = [i \in Ids |-> IF i \in K THEN disk[i] ELSE None]
       /\ acked' = (acked \ (Valid \ K)) \cup {Head(queue).id}
  /\ torn' = 0
  /\ Settle
  /\ UNCHANGED <<clock, lastAccessAt, calls, saved, cleared, faults, moved>>

(* The rollback's own failure is swallowed.                                *)
Rollback ==
  /\ stage = "rollback"
  /\ \/ WriteRollback(Head(queue).id) /\ UNCHANGED <<torn, faults>>
     \/ /\ faults < MaxFaults /\ faults' = faults + 1
        /\ NoWrite /\ torn' = torn + 1
  /\ Settle
  /\ UNCHANGED <<clock, lastAccessAt, calls, cleared, moved>>

(* save() takes its time before its first request, read() before its last. *)
StampsTaken ==
  IF Running("save") THEN {Stamp}
  ELSE IF Running("read") /\ disk[Head(queue).id] \in Record THEN {lastAccessAt, Stamp}
  ELSE {lastAccessAt}

(* A storage request of the running call is rejected.  A save may have     *)
(* removed the corrupt item before; a failed prune is followed by the      *)
(* rollback; any other call rejects and the queue goes on.                 *)
RequestFails ==
  /\ queue # <<>> /\ stage # "rollback"
  /\ faults < MaxFaults /\ faults' = faults + 1
  /\ IF stage = "prune"
     THEN NoWrite /\ stage' = "rollback" /\ UNCHANGED <<queue, lastAccessAt>>
     ELSE /\ \/ NoWrite
             \/ Running("save") /\ disk[Head(queue).id] = Corrupt /\ WriteDelete({Head(queue).id})
          /\ lastAccessAt' \in StampsTaken
          /\ Settle
  /\ UNCHANGED <<clock, calls, cleared, torn, moved>>

(* The app is killed, possibly after the pending write was applied; the    *)
(* next session starts with an empty queue and lastAccessAt = 0, later     *)
(* than the times this session may have run ahead to.                      *)
HeadWrite ==
  LET head == Head(queue) IN
  \/ head.op = "list" /\ WriteList
  \/ head.op = "read" /\ WriteTouch(head.id)
  \/ head.op = "delete" /\ WriteDelete({head.id})
  \/ head.op = "clear" /\ WriteDelete(Present)
  \/ head.op = "save" /\ stage = "start" /\ WriteRecord(head.id, head.number)
  \/ head.op = "save" /\ stage = "start" /\ disk[head.id] = Corrupt /\ WriteDelete({head.id})
  \/ head.op = "save" /\ stage = "prune" /\ \E K \in SUBSET Valid : IsKept(K) /\ WritePrune(K)
  \/ head.op = "save" /\ stage = "rollback" /\ WriteRollback(head.id)

Kill ==
  /\ faults < MaxFaults /\ faults' = faults + 1
  /\ \/ NoWrite
     \/ queue # <<>> /\ HeadWrite
  /\ torn' = IF Running("save") THEN torn + 1 ELSE torn
  /\ queue' = <<>> /\ stage' = "start"
  /\ clock' = Stamp + 1 /\ lastAccessAt' = 0
  /\ UNCHANGED <<calls, cleared, moved>>

Tick == clock < MaxClock /\ clock' = clock + 1
        /\ UNCHANGED <<disk, lastAccessAt, queue, stage, calls, saved, cleared, acked, torn, faults, moved>>

(* The user or the network sets the clock back, once.                      *)
SetClockBack ==
  /\ ~moved
  /\ \E t \in 1..(clock - 1) : clock' = t
  /\ moved' = TRUE
  /\ UNCHANGED <<disk, lastAccessAt, queue, stage, calls, saved, cleared, acked, torn, faults>>

Work ==
  \/ List \/ Read \/ Delete \/ Clear
  \/ SaveRefused \/ SaveWrites \/ SavePrunes \/ Rollback

Next ==
  \/ \E r \in Requests : Enqueue(r[1], r[2])
  \/ Work \/ RequestFails \/ Kill \/ Tick \/ SetClockBack

Spec == Init /\ [][Next]_vars

-----------------------------------------------------------------------------
(* A save that was acknowledged is kept, across kills and failures, until  *)
(* a later call deletes it, clears the library or prunes it: in particular *)
(* its own prune never takes it, as long as the clock is not set back.     *)
SavedIsKept == ~moved => acked \subseteq Valid

(* Clear All is final: no record of a save called before it is there       *)
(* afterwards, whatever was in flight when it was called.                  *)
ClearIsFinal == \A i \in Valid : saved[i] > cleared

(* The library is over its limit only by the record being saved and by     *)
(* saves that were torn since the last full prune.                         *)
OverLimitOnlyByTornSaves ==
  Cardinality(Valid) <= MaxEntries + torn + (IF stage = "start" THEN 0 ELSE 1)
=============================================================================
