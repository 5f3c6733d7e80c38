------------------------------ MODULE DeviceCache ------------------------------
(***************************************************************************)
(* AsyncCache: the mobile cache of responses.  Every screen has an         *)
(* instance of its own over one storage and nothing queues their calls, so *)
(* the storage requests of several calls interleave.  One step is one      *)
(* storage request with the code up to the next await; a request that      *)
(* fails was not applied.  A kill of the app ends every call between two   *)
(* of its requests.                                                        *)
(***************************************************************************)
EXTENDS Integers, FiniteSets

CONSTANTS
  Keys,            \* cache keys in use
  Size,            \* bytes of the record under each key
  KeyOrder,        \* rank of each key in getAllKeys, which a stable sort keeps
  MaxEntries, MaxTotalBytes,   \* limits
  Found,           \* what may be under the keys at first: record, corrupt or none
  Ops,             \* operations the screens of this instance call
  MaxClock,        \* bound on Date.now()
  MaxCalls,        \* bound on calls
  MaxActive,       \* bound on calls in flight at once
  MaxFaults,       \* bound on failed requests and kills
  None, Corrupt    \* no item; an item parseRecord rejects

CacheAssumption ==
  /\ IsFiniteSet(Keys)
  /\ Size \in [Keys -> Nat \ {0}] /\ KeyOrder \in [Keys -> Nat]
  /\ \A i, j \in Keys : KeyOrder[i] = KeyOrder[j] => i = j
  /\ Found \subseteq [Keys -> {"record", "corrupt", "none"}]
  /\ Ops \subseteq {"read", "write", "remove", "clear"}
  /\ MaxEntries \in Nat \ {0} /\ MaxTotalBytes \in Nat
  /\ \A k \in Keys : Size[k] <= MaxTotalBytes    \* maxEntryBytes < maxTotalBytes
  /\ {MaxClock, MaxCalls, MaxActive, MaxFaults} \subseteq Nat

CallIds == 1..MaxCalls
Record == [at : Nat, by : Nat]    \* accessedAt; the write whose data it holds
Items == Record \cup {None, Corrupt}

NotRecords == {None, Corrupt} \cap Record = {} /\ None # Corrupt

VARIABLES
  disk,      \* AsyncStorage: the item under each key
  clock,     \* Date.now()
  started,   \* calls made so far: they are numbered in that order
  task,      \* each call: operation, key, next request and what it holds
  alone,     \* history: the running call, if no other ran beside it
  before,    \* history: the item under its key when that call started
  cleared,   \* history: the newest clear that has settled
  faults

vars == <<disk, clock, started, task, alone, before, cleared, faults>>

Stages ==
  {"done", "get", "set", "touch", "drop", "keys", "measure", "sweep", "evict", "undo", "wipe"}
NoTask == [op |-> "none", key |-> None, next |-> "done", new |-> None, old |-> None,
           left |-> {}, seen |-> <<>>]

TypeOK ==
  /\ disk \in [Keys -> Items]
  /\ clock \in Nat /\ started \in 0..MaxCalls
  /\ \A c \in CallIds :
       LET t == task[c] IN
       /\ t.op \in Ops \cup {"none"} /\ t.key \in Keys \cup {None} /\ t.next \in Stages
       /\ t.new \in Record \cup {None} /\ t.old \in Items
       /\ t.left \subseteq Keys
       /\ DOMAIN t.seen \subseteq Keys /\ \A k \in DOMAIN t.seen : t.seen[k] \in Items
       /\ t.next # "done" => c <= started
       /\ t.next \in {"set", "touch"} => t.new \in Record
  /\ alone \subseteq CallIds /\ before \in Items
  /\ cleared \in 0..started /\ faults \in 0..MaxFaults

Present == {k \in Keys : disk[k] # None}
Valid == {k \in Keys : disk[k] \in Record}
Active == {c \in CallIds : task[c].next # "done"}

Init ==
  /\ \E found \in Found : disk = [k \in Keys |-> IF found[k] = "record" THEN [at |-> 0, by |-> 0]
                                               ELSE IF found[k] = "corrupt" THEN Corrupt ELSE None]
  /\ clock = 1 /\ started = 0
  /\ task = [c \in CallIds |-> NoTask]
  /\ alone = {} /\ before = None /\ cleared = 0 /\ faults = 0
-----------------------------------------------------------------------------
(* prune(): sort what was measured, most recently used first, and remove   *)
(* from the entry that exceeds the number or the bytes on.                 *)
Measured(s) == {k \in DOMAIN s : s[k] \in Record}
Before(s, i, j) ==
  \/ s[i].at > s[j].at
  \/ s[i].at = s[j].at /\ KeyOrder[i] < KeyOrder[j]

Bytes(S) == Cardinality(UNION {{k} \X (1..Size[k]) : k \in S})

(* Mutation: the bytes are not counted.                                    *)
SurplusIgnoresBytes(s) ==
  {k \in Measured(s) : Cardinality({j \in Measured(s) : Before(s, j, k)}) >= MaxEntries}

Surplus(s) ==
  {k \in Measured(s) :
     LET ahead == {j \in Measured(s) : Before(s, j, k)}
     IN  Cardinality(ahead) >= MaxEntries \/ Bytes(ahead \cup {k}) > MaxTotalBytes}

Unusable(s) == DOMAIN s \ Measured(s)

AfterMeasure(s) ==
  IF Unusable(s) # {} THEN "sweep" ELSE IF Surplus(s) # {} THEN "evict" ELSE "done"
AfterSweep(s) == IF Surplus(s) # {} THEN "evict" ELSE "done"

Without(S) == disk' = [k \in Keys |-> IF k \in S THEN None ELSE disk[k]]
Step(c, t) == task' = [task EXCEPT ![c] = t]
Goto(c, stage) == Step(c, [task[c] EXCEPT !.next = stage])
Settle(c) == Step(c, [NoTask EXCEPT !.op = task[c].op])
At(c, stage) == c \in CallIds /\ task[c].next = stage
-----------------------------------------------------------------------------
(* Date.now() when a call reads it: later than before, or in the same      *)
(* millisecond.                                                            *)
Now(t) == t \in {clock, clock + 1} /\ t <= MaxClock /\ clock' = t

(* A screen calls read, write or remove, or the settings screen clears.    *)
Call(op, k) ==
  /\ IF op = "write" THEN \E t \in 1..MaxClock : Now(t) ELSE UNCHANGED clock
  /\ started < MaxCalls /\ Cardinality(Active) < MaxActive
  /\ started' = started + 1
  /\ task' = [task EXCEPT ![started'] =
       [NoTask EXCEPT
          !.op = op, !.key = k,
          !.next = CASE op = "clear" -> "keys" [] op = "remove" -> "drop" [] OTHER -> "get",
          !.new = IF op = "write" THEN [at |-> clock', by |-> started'] ELSE None]]
  /\ alone' = IF Active = {} THEN {started'} ELSE {}
  /\ before' = IF op = "clear" \/ Active # {} THEN None ELSE disk[k]
  /\ UNCHANGED <<disk, cleared, faults>>

(* The code between requests changes nothing but the call itself.          *)
Reads == UNCHANGED <<disk, clock, started, alone, before, cleared, faults>>
Writes == UNCHANGED <<clock, started, alone, before, cleared, faults>>

(* Mutation: a read writes back what it could not parse.                   *)
ReadGetsTouchesCorrupt(c) ==
  /\ At(c, "get") /\ task[c].op = "read"
  /\ IF disk[task[c].key] \in Record THEN \E t \in 1..MaxClock : Now(t) ELSE UNCHANGED clock
  /\ LET item == disk[task[c].key] IN
       CASE item = None -> Settle(c)
         [] item = Corrupt -> Goto(c, "touch")
         [] OTHER -> Step(c, [task[c] EXCEPT !.next = "touch", !.new = [item EXCEPT !.at = clock']])
  /\ UNCHANGED <<disk, started, alone, before, cleared, faults>>

(* getItem of a read: a miss, a corrupt item to remove, or a record to     *)
(* write back with a new access time.                                      *)
ReadGets(c) ==
  /\ At(c, "get") /\ task[c].op = "read"
  /\ IF disk[task[c].key] \in Record THEN \E t \in 1..MaxClock : Now(t) ELSE UNCHANGED clock
  /\ LET item == disk[task[c].key] IN
       CASE item = None -> Settle(c)
         [] item = Corrupt -> Goto(c, "drop")
         [] OTHER -> Step(c, [task[c] EXCEPT !.next = "touch", !.new = [item EXCEPT !.at = clock']])
  /\ UNCHANGED <<disk, started, alone, before, cleared, faults>>

WriteGets(c) ==
  /\ At(c, "get") /\ task[c].op = "write"
  /\ Step(c, [task[c] EXCEPT !.next = "set", !.old = disk[task[c].key]])
  /\ Reads

Touch(c) ==
  /\ At(c, "touch")
  /\ disk' = [disk EXCEPT ![task[c].key] = task[c].new]
  /\ Settle(c) /\ Writes

Drop(c) ==
  /\ At(c, "drop")
  /\ Without({task[c].key})
  /\ Settle(c) /\ Writes

Set(c) ==
  /\ At(c, "set")
  /\ disk' = [disk EXCEPT ![task[c].key] = task[c].new]
  /\ Goto(c, "keys") /\ Writes

(* getAllKeys of clear and of prune.                                       *)
ClearLists(c) ==
  /\ At(c, "keys") /\ task[c].op = "clear"
  /\ IF Present = {} THEN Settle(c) /\ cleared' = c
     ELSE Step(c, [task[c] EXCEPT !.next = "wipe", !.left = Present]) /\ UNCHANGED cleared
  /\ UNCHANGED <<disk, clock, started, alone, before, faults>>

Wipe(c) ==
  /\ At(c, "wipe")
  /\ Without(task[c].left)
  /\ Settle(c)
  /\ cleared' = IF c > cleared THEN c ELSE cleared
  /\ UNCHANGED <<clock, started, alone, before, faults>>

PruneLists(c) ==
  /\ At(c, "keys") /\ task[c].op = "write"
  /\ IF Present = {} THEN Settle(c)
     ELSE Step(c, [task[c] EXCEPT !.next = "measure", !.left = Present])
  /\ Reads

(* One getItem of prune, which goes through the keys in their order.       *)
IsFirst(k, S) == \A j \in S : KeyOrder[k] <= KeyOrder[j]

Measure(c) ==
  /\ At(c, "measure")
  /\ \E k \in task[c].left :
       LET left == task[c].left \ {k}
           seen == [i \in DOMAIN task[c].seen \cup {k} |->
                      IF i = k THEN disk[k] ELSE task[c].seen[i]]
           next == IF left = {} THEN AfterMeasure(seen) ELSE "measure"
       IN  /\ IsFirst(k, task[c].left)
           /\ IF next = "done" THEN Settle(c)
              ELSE Step(c, [task[c] EXCEPT !.left = left, !.seen = seen, !.next = next])
  /\ Reads

Sweep(c) ==
  /\ At(c, "sweep")
  /\ Without(Unusable(task[c].seen))
  /\ IF AfterSweep(task[c].seen) = "done" THEN Settle(c) ELSE Goto(c, "evict")
  /\ Writes

Evict(c) ==
  /\ At(c, "evict")
  /\ Without(Surplus(task[c].seen))
  /\ Settle(c) /\ Writes

(* The rollback of a write whose prune failed.                             *)
Undo(c) ==
  /\ At(c, "undo")
  /\ disk' = [disk EXCEPT ![task[c].key] = task[c].old]
  /\ Settle(c) /\ Writes

(* A request is rejected: within prune the write rolls back, anywhere else *)
(* the call rejects (the rollback's own failure is swallowed).             *)
Pruning(c) == task[c].op = "write" /\ task[c].next \in {"keys", "measure", "sweep", "evict"}

Fails(c) ==
  /\ c \in Active /\ faults < MaxFaults
  /\ faults' = faults + 1
  /\ IF Pruning(c) THEN Goto(c, "undo") ELSE Settle(c)
  /\ UNCHANGED <<disk, clock, started, alone, before, cleared>>

(* The app is killed: no call goes on.                                     *)
Kill ==
  /\ Active # {} /\ faults < MaxFaults
  /\ faults' = faults + 1
  /\ task' = [c \in CallIds |-> IF c \in Active THEN NoTask ELSE task[c]]
  /\ alone' = {}
  /\ UNCHANGED <<disk, clock, started, before, cleared>>

Request(c) ==
  \/ ReadGets(c) \/ WriteGets(c) \/ Touch(c) \/ Drop(c) \/ Set(c)
  \/ ClearLists(c) \/ Wipe(c)
  \/ PruneLists(c) \/ Measure(c) \/ Sweep(c) \/ Evict(c) \/ Undo(c)

Next ==
  \/ \E op \in Ops \ {"clear"}, k \in Keys : Call(op, k)
  \/ "clear" \in Ops /\ Call("clear", None)
  \/ \E c \in CallIds : Request(c) \/ Fails(c)
  \/ Kill

Spec == Init /\ [][Next]_vars
-----------------------------------------------------------------------------
Within(d) ==
  LET kept == {k \in Keys : d[k] \in Record}
  IN  Cardinality(kept) <= MaxEntries /\ Bytes(kept) <= MaxTotalBytes

Ends(c) == c \in Active /\ task'[c].next = "done" /\ task'[c].op # "none"

(* A write that runs with no other call beside it repairs what torn        *)
(* writes, late touches and corrupt items left: the cache is within both   *)
(* limits, nothing corrupt remains, and the fresh record is there unless   *)
(* another has the very same access time.  When its prune fails, it leaves *)
(* the item that was there before.                                         *)
WriteHealsStep ==
  \A c \in alone : Ends(c) /\ task[c].op = "write" /\ faults' = faults =>
    IF task[c].next = "undo" THEN disk'[task[c].key] = before
    ELSE /\ Within(disk') /\ \A k \in Keys : disk'[k] # Corrupt
         /\ \/ disk'[task[c].key] = task[c].new
            \/ \E k \in Keys \ {task[c].key} :
                 disk'[k] \in Record /\ disk'[k].at >= task[c].new.at

(* Whatever writers, removals and clears interleave, the cache is within   *)
(* its limits when all have settled, unless a request failed or a read     *)
(* wrote its touched copy back.                                            *)
LimitsAtRest ==
  /\ Active = {} /\ faults = 0
  /\ \E c \in CallIds : task[c].op = "write"
  /\ \A c \in CallIds : task[c].op # "read"
  => Within(disk)

(* Once Clear has reported success, nothing requested before it is left.   *)
ClearedStaysCleared ==
  cleared > 0 => \A k \in Valid : disk[k].by > cleared
=============================================================================
