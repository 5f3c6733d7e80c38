---------------------------- MODULE RecentSearches ----------------------------
(***************************************************************************)
(* The recent searches of the mobile app: RecentSearchStore, one item of   *)
(* AsyncStorage with a copy in memory.  A selection waits for the          *)
(* hydration under way, changes memory at once and queues the write of     *)
(* what memory then is.  It is stamped with the wall clock, which may be   *)
(* set back, and the next session reads the records in the order of their  *)
(* stamps, not in the order they were written.                             *)
(***************************************************************************)
EXTENDS Naturals, Sequences, FiniteSets, Functions

CONSTANTS
  Symbols,
  MaxRecent,     \* MAX_RECENT_SEARCHES
  Stored,        \* sequences of records the device may hold at first
  MaxStamp,      \* bound on selectedAt
  MaxCalls,      \* bound on selections
  MaxFaults,     \* bound on failed requests and kills
  None           \* no symbol: a write of the repair

Records == [symbol : Symbols, at : 0..MaxStamp]

RecentAssumption ==
  /\ IsFiniteSet(Symbols) /\ Stored \subseteq Seq(Records)
  /\ MaxRecent \in Nat \ {0} /\ {MaxCalls, MaxFaults, MaxStamp} \subseteq Nat

VARIABLES
  disk,        \* what the item holds: nothing, garbage, or records, some unusable
  memory,      \* this.records
  hydration,   \* asked, discard (removeItem), repair (persist), done or failed
  waiting,     \* selections waiting for the hydration
  queue,       \* writes not settled: what they write, for which selection
  calls, faults,
  chosen,      \* history: number of the last selection of each symbol
  acked,       \* history: number of its last acknowledged selection
  dirty,       \* history: the newest settled write failed
  setBack      \* history: a record was once stamped earlier than one behind it

vars == <<disk, memory, hydration, waiting, queue, calls, faults, chosen, acked, dirty, setBack>>

Nothing == [holds |-> "nothing"]
Garbage == [holds |-> "garbage"]
Item(records) == [holds |-> "records", records |-> records, unusable |-> FALSE]
OnDevice == IF disk.holds = "records" THEN disk.records ELSE <<>>

InTime(q) == \A i, j \in DOMAIN q : i < j => q[i].at >= q[j].at

TypeOK ==
  /\ disk \in {Nothing, Garbage} \cup [holds : {"records"}, records : Seq(Records), unusable : BOOLEAN]
  /\ memory \in Seq(Records)
  /\ IsInjective([i \in DOMAIN memory |-> memory[i].symbol]) /\ Len(memory) <= MaxRecent
  /\ hydration \in {"asked", "discard", "repair", "done", "failed"}
  /\ waiting \in Seq(Symbols)
  /\ queue \in Seq([records : Seq(Records), for : Symbols \cup {None}, number : 0..MaxCalls])
  /\ calls \in 0..MaxCalls /\ faults \in 0..MaxFaults
  /\ chosen \in [Symbols -> 0..MaxCalls] /\ acked \in [Symbols -> 0..MaxCalls]
  /\ {dirty, setBack} \subseteq BOOLEAN

Init ==
  /\ disk \in {Nothing, Garbage} \cup [holds : {"records"}, records : Stored, unusable : BOOLEAN]
  /\ memory = <<>> /\ hydration = "asked" /\ waiting = <<>> /\ queue = <<>>
  /\ calls = 0 /\ faults = 0
  /\ chosen = [s \in Symbols |-> 0] /\ acked = [s \in Symbols |-> 0] /\ dirty = FALSE
  /\ setBack = ~InTime(OnDevice)

(* Array.sort: newest first, and what is as new in the order it had.       *)
Before(q, i, j) == q[i].at > q[j].at \/ (q[i].at = q[j].at /\ i < j)
Sorted(q, S) ==
  {at \in [1..Cardinality(S) -> S] : \A i, j \in DOMAIN at : i < j => Before(q, at[i], at[j])}

(* Array.filter: the positions S in their order.                           *)
InOrder(S) == {at \in [1..Cardinality(S) -> S] : \A i, j \in DOMAIN at : i < j => at[i] < at[j]}

Picked(q, ats) == {[k \in DOMAIN at |-> q[at[k]]] : at \in ats}

First(s) == SubSeq(s, 1, IF Len(s) < MaxRecent THEN Len(s) ELSE MaxRecent)

(* parseEnvelope: the valid records by their stamps, the newest of each    *)
(* symbol, MaxRecent of them; repaired when it is fewer than the item held.*)
Newest(q) == {i \in DOMAIN q : ~\E j \in DOMAIN q : q[j].symbol = q[i].symbol /\ Before(q, j, i)}
Parsed(q) == {First(s) : s \in Picked(q, Sorted(q, Newest(q)))}
Repaired(item, records) == item.unusable \/ Len(records) # Len(item.records)

(* The selected symbol first, and what else there was, as it was.          *)
InFront(r) ==
  {First(<<r>> \o rest) :
     rest \in Picked(memory, InOrder({i \in DOMAIN memory : memory[i].symbol # r.symbol}))}

Persisting(rs, s, n) == Append(queue, [records |-> rs, for |-> s, number |-> n])
-----------------------------------------------------------------------------
(* load(): getItem.                                                        *)
Load ==
  /\ hydration = "asked"
  /\ CASE disk = Nothing -> hydration' = "done" /\ memory' = <<>> /\ UNCHANGED queue
       [] disk = Garbage -> hydration' = "discard" /\ UNCHANGED <<memory, queue>>
       [] OTHER ->
            \E records \in Parsed(disk.records) :
              /\ memory' = records
              /\ IF Repaired(disk, records)
                 THEN hydration' = "repair" /\ queue' = Persisting(records, None, 0)
                 ELSE hydration' = "done" /\ UNCHANGED queue
  /\ UNCHANGED <<disk, waiting, calls, faults, chosen, acked, dirty, setBack>>

Discard ==
  /\ hydration = "discard" /\ hydration' = "done"
  /\ disk' = Nothing /\ memory' = <<>>
  /\ UNCHANGED <<waiting, queue, calls, faults, chosen, acked, dirty, setBack>>

(* The screen goes on with no records: what was stored counts no longer.   *)
LoadFails ==
  /\ hydration \in {"asked", "discard"} /\ hydration' = "failed"
  /\ faults < MaxFaults /\ faults' = faults + 1
  /\ acked' = [s \in Symbols |-> 0]
  /\ UNCHANGED <<disk, memory, waiting, queue, calls, chosen, dirty, setBack>>

(* record(): the user opens a result.                                      *)
Select(s) ==
  /\ calls < MaxCalls /\ calls' = calls + 1
  /\ waiting' = Append(waiting, s)
  /\ UNCHANGED <<disk, memory, hydration, queue, faults, chosen, acked, dirty, setBack>>

(* Mutation: a selection does not wait for the hydration under way.        *)
RecordAtOnce ==
  /\ waiting # <<>>
  /\ LET s == Head(waiting)
     IN  /\ \E now \in 0..MaxStamp : memory' \in InFront([symbol |-> s, at |-> now])
         /\ queue' = Persisting(memory', s, calls)
         /\ chosen' = [chosen EXCEPT ![s] = calls]
  /\ waiting' = Tail(waiting) /\ setBack' = (setBack \/ ~InTime(memory'))
  /\ UNCHANGED <<disk, hydration, calls, faults, acked, dirty>>

(* ... and is recorded when no hydration is in flight, failed or not, at   *)
(* whatever the clock then says.                                           *)
Record ==
  /\ waiting # <<>> /\ hydration \in {"done", "failed"}
  /\ LET s == Head(waiting)
         number == calls - Len(waiting) + 1
     IN  /\ \E now \in 0..MaxStamp : memory' \in InFront([symbol |-> s, at |-> now])
         /\ queue' = Persisting(memory', s, number)
         /\ chosen' = [chosen EXCEPT ![s] = number]
  /\ waiting' = Tail(waiting) /\ setBack' = (setBack \/ ~InTime(memory'))
  /\ UNCHANGED <<disk, hydration, calls, faults, acked, dirty>>

(* The load that waits for its own repair ends with that write.            *)
AfterWrite(failed) ==
  hydration' = IF hydration = "repair" /\ Head(queue).for = None
               THEN (IF failed THEN "failed" ELSE "done") ELSE hydration

Persist ==
  /\ queue # <<>> /\ queue' = Tail(queue)
  /\ disk' = Item(Head(queue).records)
  /\ acked' = [s \in Symbols |-> IF s = Head(queue).for THEN Head(queue).number ELSE acked[s]]
  /\ AfterWrite(FALSE) /\ dirty' = FALSE
  /\ UNCHANGED <<memory, waiting, calls, faults, chosen, setBack>>

PersistFails ==
  /\ queue # <<>> /\ queue' = Tail(queue)
  /\ faults < MaxFaults /\ faults' = faults + 1
  /\ AfterWrite(TRUE) /\ dirty' = TRUE
  /\ UNCHANGED <<disk, memory, waiting, calls, chosen, acked, setBack>>

Kill ==
  /\ faults < MaxFaults /\ faults' = faults + 1
  /\ \/ UNCHANGED disk
     \/ queue # <<>> /\ disk' = Item(Head(queue).records)
     \/ hydration = "discard" /\ disk' = Nothing
  /\ memory' = <<>> /\ hydration' = "asked" /\ waiting' = <<>> /\ queue' = <<>>
  /\ dirty' = FALSE
  /\ UNCHANGED <<calls, chosen, acked, setBack>>

Next ==
  \/ Load \/ Discard \/ LoadFails
  \/ \E s \in Symbols : Select(s)
  \/ Record \/ Persist \/ PersistFails
  \/ Kill

Spec == Init /\ [][Next]_vars
-----------------------------------------------------------------------------
(* When nothing is under way and the last write went through, the next     *)
(* session reads the records this one shows, and in the order this one     *)
(* shows them unless one of them is stamped earlier than one behind it,    *)
(* which a clock set back between two selections does; a write that failed *)
(* is made up for by the next.                                             *)
MemoryIsDurable ==
  hydration = "done" /\ queue = <<>> /\ ~dirty =>
    \A read \in Parsed(OnDevice) :
      Range(read) = Range(memory) /\ (InTime(memory) => read = memory)

(* While the clock was not set back, a selection whose write was           *)
(* acknowledged is on the device until MaxRecent other symbols were        *)
(* selected after it, whatever failed.                                     *)
SelectionKept ==
  ~setBack =>
    \A s \in Symbols :
      acked[s] > 0 =>
        \/ \E i \in DOMAIN OnDevice : OnDevice[i].symbol = s
        \/ Cardinality({u \in Symbols \ {s} : chosen[u] > acked[s]}) >= MaxRecent
=============================================================================
