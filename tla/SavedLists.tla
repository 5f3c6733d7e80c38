------------------------------ MODULE SavedLists ------------------------------
(***************************************************************************)
(* The saved lists of the mobile app: WatchlistStore, one item of          *)
(* AsyncStorage with a copy in memory, and the provider that reads it at   *)
(* start, offers a retry when that fails and lets the screens change lists *)
(* only afterwards.  An operation computes the next lists when its turn    *)
(* comes and replaces memory after the write.                              *)
(***************************************************************************)
EXTENDS Naturals, Sequences, FiniteSets

CONSTANTS
  Ids, Names, Symbols, MaxSymbols,
  Stored,        \* lists the device may hold at first
  MaxCalls,      \* bound on operations
  MaxFaults      \* bound on failed requests and kills

VARIABLES
  disk,        \* what the item holds: nothing, garbage, or an envelope of lists, some corrupt
  memory,      \* this.lists
  hydration,   \* the provider: asked, repair, done or failed
  queue,       \* operations not settled; the head is next
  calls, faults

vars == <<disk, memory, hydration, queue, calls, faults>>

(* ValidLists: what a reader of the item gets.                             *)
ValidLists == IF disk.holds = "lists" THEN disk.lists ELSE <<>>

Promise == INSTANCE ListStore WITH lists <- ValidLists, asked <- queue

ListsAssumption ==
  /\ IsFiniteSet(Symbols) /\ MaxSymbols \in Nat \ {0} /\ {MaxCalls, MaxFaults} \subseteq Nat
  /\ \A ls \in Stored : ls \in Seq(Promise!List)

Nothing == [holds |-> "nothing"]
Garbage == [holds |-> "garbage"]
Envelope(ls) == [holds |-> "lists", lists |-> ls, corrupt |-> 0]

TypeOK ==
  /\ disk \in {Nothing, Garbage} \cup [holds : {"lists"}, lists : Seq(Promise!List), corrupt : Nat]
  /\ memory \in Seq(Promise!List)
  /\ hydration \in {"asked", "repair", "done", "failed"}
  /\ queue \in Seq(Promise!Ops) /\ (queue # <<>> => hydration = "done")
  /\ calls \in 0..MaxCalls /\ faults \in 0..MaxFaults

Init ==
  /\ disk \in {Nothing, Garbage} \cup [holds : {"lists"}, lists : Stored, corrupt : 0..1]
  /\ memory = <<>> /\ hydration = "asked" /\ queue = <<>>
  /\ calls = 0 /\ faults = 0
-----------------------------------------------------------------------------
(* hydrate(): getItem; an envelope with corrupt lists, or no envelope at   *)
(* all, is repaired in storage before memory takes what is valid.          *)
Hydrate ==
  /\ hydration = "asked"
  /\ IF disk = Nothing \/ (disk.holds = "lists" /\ disk.corrupt = 0)
     THEN hydration' = "done" /\ memory' = ValidLists
     ELSE hydration' = "repair" /\ UNCHANGED memory
  /\ UNCHANGED <<disk, queue, calls, faults>>

(* Mutation: the repair removes the item whatever is valid in it.          *)
RepairRemoves ==
  /\ hydration = "repair" /\ hydration' = "done"
  /\ disk' = Nothing /\ memory' = ValidLists
  /\ UNCHANGED <<queue, calls, faults>>

Repair ==
  /\ hydration = "repair" /\ hydration' = "done"
  /\ disk' = IF ValidLists = <<>> THEN Nothing ELSE Envelope(ValidLists)
  /\ memory' = ValidLists
  /\ UNCHANGED <<queue, calls, faults>>

HydrateFails ==
  /\ hydration \in {"asked", "repair"} /\ hydration' = "failed"
  /\ faults < MaxFaults /\ faults' = faults + 1
  /\ UNCHANGED <<disk, memory, queue, calls>>

RetryHydration ==
  /\ hydration = "failed" /\ hydration' = "asked"
  /\ UNCHANGED <<disk, memory, queue, calls, faults>>

(* A screen asks for a change; createId draws an id that is not in use.    *)
Ask(o) ==
  /\ hydration = "done"
  /\ calls < MaxCalls /\ calls' = calls + 1
  /\ o.op = "append" =>
       o.list.id \notin {memory[i].id : i \in DOMAIN memory}
                   \cup {q.list.id : q \in {queue[i] : i \in {j \in DOMAIN queue : queue[j].op = "append"}}}
  /\ queue' = Append(queue, o)
  /\ UNCHANGED <<disk, memory, hydration, faults>>

Settle == queue' = Tail(queue)
NextLists == Promise!Results(memory, Head(queue))

(* Mutation: memory is not replaced.                                       *)
PersistKeepsMemory ==
  /\ queue # <<>> /\ Promise!Possible(memory, Head(queue))
  /\ \E next \in NextLists : disk' = Envelope(next)
  /\ UNCHANGED memory
  /\ Settle
  /\ UNCHANGED <<hydration, calls, faults>>

Persist ==
  /\ queue # <<>> /\ Promise!Possible(memory, Head(queue))
  /\ \E next \in NextLists : disk' = Envelope(next) /\ memory' = next
  /\ Settle
  /\ UNCHANGED <<hydration, calls, faults>>

Refuse ==
  /\ queue # <<>> /\ ~Promise!Possible(memory, Head(queue))
  /\ Settle
  /\ UNCHANGED <<disk, memory, hydration, calls, faults>>

PersistFails ==
  /\ queue # <<>> /\ Promise!Possible(memory, Head(queue))
  /\ faults < MaxFaults /\ faults' = faults + 1
  /\ Settle
  /\ UNCHANGED <<disk, memory, hydration, calls>>

(* The app is killed; the write under way may have been applied.           *)
Kill ==
  /\ faults < MaxFaults /\ faults' = faults + 1
  /\ \/ UNCHANGED disk
     \/ /\ queue # <<>> /\ Promise!Possible(memory, Head(queue))
        /\ \E next \in NextLists : disk' = Envelope(next)
  /\ memory' = <<>> /\ hydration' = "asked" /\ queue' = <<>>
  /\ UNCHANGED calls

Next ==
  \/ Hydrate \/ Repair \/ HydrateFails \/ RetryHydration
  \/ \E o \in Promise!Ops : Ask(o)
  \/ Persist \/ Refuse \/ PersistFails
  \/ Kill

Spec == Init /\ [][Next]_vars

-----------------------------------------------------------------------------
(* The store keeps the promise of ListStore over failures, kills, retries  *)
(* and the repair of corrupt lists.                                        *)
KeepsLists == Promise!Spec

(* Once read, the lists on the screens are those the next session reads.   *)
MemoryIsDurable == hydration = "done" => memory = ValidLists
=============================================================================
