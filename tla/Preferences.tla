------------------------------ MODULE Preferences ------------------------------
(***************************************************************************)
(* The settings of the mobile app: PreferencesStore, one item of           *)
(* AsyncStorage and a copy in memory.  hydrate() and reset() go straight   *)
(* to storage, update() computes the whole new value when it is called and *)
(* queues the write of it.                                                 *)
(***************************************************************************)
EXTENDS Naturals, Sequences

CONSTANTS
  Fields, Values, Default,   \* DEFAULT_PREFERENCES
  Bad,           \* a stored field that is unknown or of the wrong type
  None,          \* no item, or one that is no envelope
  MaxCalls,      \* bound on updates and resets
  MaxFaults      \* bound on failed requests and kills

Prefs == [Fields -> Values]
Patches == [field : Fields, value : Values]

PreferencesAssumption ==
  /\ Default \in Prefs
  /\ Bad \notin Values /\ None \notin [Fields -> Values \cup {Bad}]
  /\ {MaxCalls, MaxFaults} \subseteq Nat

VARIABLES
  disk,        \* the stored item
  memory,      \* this.preferences
  hydration,   \* getItem of the running session: asked, answered or failed
  queue,       \* updates not settled; the head's setItem is under way
  resets,      \* resets whose removeItem is under way
  calls, faults,
  last,        \* history: the newest patch acknowledged, None after a reset
  kept,        \* history: each field's newest acknowledged or found value
  raced        \* history: an update was called beside another request

vars == <<disk, memory, hydration, queue, resets, calls, faults, last, kept, raced>>

Stored == [Fields -> Values \cup {Bad}] \cup {None}
Pending == [patch : Patches, next : Prefs]

TypeOK ==
  /\ disk \in Stored /\ memory \in Prefs
  /\ hydration \in {"asked", "done", "failed"}
  /\ queue \in Seq(Pending) /\ Len(queue) <= MaxCalls
  /\ resets \in 0..MaxCalls /\ calls \in 0..MaxCalls /\ faults \in 0..MaxFaults
  /\ last \in Patches \cup {None} /\ kept \in [Fields -> Values \cup {None}]
  /\ raced \in BOOLEAN

Init ==
  /\ disk \in Stored
  /\ memory = Default /\ hydration = "asked" /\ queue = <<>> /\ resets = 0
  /\ calls = 0 /\ faults = 0
  /\ last = None /\ raced = FALSE
  /\ kept = [f \in Fields |-> IF disk = None THEN None ELSE IF disk[f] = Bad THEN None ELSE disk[f]]

Nothing == [f \in Fields |-> None]

(* parsePreferences: what cannot be used falls back to its default.        *)
Parse(item) ==
  IF item = None THEN Default
  ELSE [f \in Fields |-> IF item[f] = Bad THEN Default[f] ELSE item[f]]
-----------------------------------------------------------------------------
(* Mutation: the stored item is used as it is.                             *)
HydrateUnparsed ==
  /\ hydration = "asked" /\ hydration' = "done"
  /\ memory' = disk
  /\ UNCHANGED <<disk, queue, resets, calls, faults, last, kept, raced>>

Hydrate ==
  /\ hydration = "asked" /\ hydration' = "done"
  /\ memory' = Parse(disk)
  /\ UNCHANGED <<disk, queue, resets, calls, faults, last, kept, raced>>

(* The provider shows the defaults: what was stored counts no longer.      *)
HydrateFails ==
  /\ hydration = "asked" /\ hydration' = "failed"
  /\ faults < MaxFaults /\ faults' = faults + 1
  /\ last' = None /\ kept' = Nothing
  /\ UNCHANGED <<disk, memory, queue, resets, calls, raced>>

(* update(): the next preferences come from memory as it is at the call.   *)
Update(p) ==
  /\ calls < MaxCalls /\ calls' = calls + 1
  /\ queue' = Append(queue, [patch |-> p, next |-> [memory EXCEPT ![p.field] = p.value]])
  /\ raced' = (raced \/ queue # <<>> \/ resets > 0 \/ hydration = "asked")
  /\ UNCHANGED <<disk, memory, hydration, resets, faults, last, kept>>

(* Mutation: the write takes the preferences that are in memory.           *)
PersistMemory ==
  /\ queue # <<>>
  /\ LET head == Head(queue) IN
       /\ disk' = memory /\ memory' = head.next
       /\ last' = head.patch
       /\ kept' = [kept EXCEPT ![head.patch.field] = head.patch.value]
  /\ queue' = Tail(queue)
  /\ UNCHANGED <<hydration, resets, calls, faults, raced>>

(* setItem of the head succeeded: memory follows, the caller is answered.  *)
Persist ==
  /\ queue # <<>>
  /\ LET head == Head(queue) IN
       /\ disk' = head.next /\ memory' = head.next
       /\ last' = head.patch
       /\ kept' = [kept EXCEPT ![head.patch.field] = head.patch.value]
  /\ queue' = Tail(queue)
  /\ UNCHANGED <<hydration, resets, calls, faults, raced>>

(* Mutation: memory changes although the write failed.                     *)
PersistFailsReplaces ==
  /\ queue # <<>> /\ queue' = Tail(queue)
  /\ faults < MaxFaults /\ faults' = faults + 1
  /\ memory' = Head(queue).next
  /\ UNCHANGED <<disk, hydration, resets, calls, last, kept, raced>>

PersistFails ==
  /\ queue # <<>> /\ queue' = Tail(queue)
  /\ faults < MaxFaults /\ faults' = faults + 1
  /\ UNCHANGED <<disk, memory, hydration, resets, calls, last, kept, raced>>

Reset ==
  /\ calls < MaxCalls /\ calls' = calls + 1
  /\ resets' = resets + 1
  /\ raced' = (raced \/ queue # <<>>)
  /\ UNCHANGED <<disk, memory, hydration, queue, faults, last, kept>>

ResetApplies ==
  /\ resets > 0 /\ resets' = resets - 1
  /\ disk' = None /\ memory' = Default
  /\ last' = None /\ kept' = Nothing
  /\ UNCHANGED <<hydration, queue, calls, faults, raced>>

ResetFails ==
  /\ resets > 0 /\ resets' = resets - 1
  /\ faults < MaxFaults /\ faults' = faults + 1
  /\ UNCHANGED <<disk, memory, hydration, queue, calls, last, kept, raced>>

(* The app is killed; the write under way may have been applied, without   *)
(* its caller being answered.                                              *)
Kill ==
  /\ faults < MaxFaults /\ faults' = faults + 1
  /\ \/ UNCHANGED <<disk, last, kept>>
     \/ /\ queue # <<>>
        /\ disk' = Head(queue).next
        /\ last' = None /\ kept' = [kept EXCEPT ![Head(queue).patch.field] = None]
     \/ resets > 0 /\ disk' = None /\ last' = None /\ kept' = Nothing
  /\ queue' = <<>> /\ resets' = 0
  /\ memory' = Default /\ hydration' = "asked"
  /\ UNCHANGED <<calls, raced>>

Next ==
  \/ Hydrate \/ HydrateFails
  \/ \E p \in Patches : Update(p)
  \/ Persist \/ PersistFails
  \/ Reset \/ ResetApplies \/ ResetFails
  \/ Kill

Spec == Init /\ [][Next]_vars
-----------------------------------------------------------------------------
(* Whatever the app shows and uses is what the next session will read.     *)
MemoryIsDurable == hydration = "done" => memory = Parse(disk)

(* The newest acknowledged change is in effect and stored, even when       *)
(* updates overlap.                                                        *)
LatestKept ==
  hydration # "asked" /\ last # None =>
    memory[last.field] = last.value /\ disk # None /\ disk[last.field] = last.value

(* update()'s comment: a patch is persisted, and a failed write changes    *)
(* nothing.  Every acknowledged patch is in effect and stored until a      *)
(* later one of its field, those of earlier sessions included.             *)
PatchKept ==
  \A f \in Fields :
    kept[f] # None =>
      /\ hydration # "asked" => memory[f] = kept[f]
      /\ disk # None /\ disk[f] = kept[f]

(* That holds, over failures and kills, as long as no update is called     *)
(* while another request is outstanding.                                   *)
UnracedPatchKept == ~raced => PatchKept
=============================================================================
