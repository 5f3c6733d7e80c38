---------------------------- MODULE StoreMachines ----------------------------
(***************************************************************************)
(* Nine of the smaller machines: five stores of the mobile app, the SEC    *)
(* client, the market data stream, the relay between MCP sites and the     *)
(* forecast budget, and what holds of each for every value of its          *)
(* parameters.                                                             *)
(***************************************************************************)
EXTENDS Machines, SequenceTheorems, FiniteSetTheorems, TLAPS

CONSTANTS
  Entries, Names,              \* of the stores: fields, lists and symbols; names and values
  Defaults, MaxSymbols, StoredLists, Searched, MaxRecent, MaxStamp, StoredRecents,
  Filers, Interval, Retries, PackTtl,
  MaxReconnects, MaxEvents, MaxFrame,
  Sites, Home, SiteThreads, SiteOf, Callers, Hops, MaxHop, PerIp, MaxAddresses, SiteCap, DayLength,
  Cap, ForecastTtl, MaxForecasts, LocalShift,
  MaxCalls, MaxSelections, MaxWriteFaults, MaxPackCalls, MaxSiteCalls, MaxMinutes, MaxHalfDays,
  RecordIds, RecordSize, RecordOrder, MaxRecords, MaxBytes, MaxRecordClock, MaxRecordCalls, MaxWaiting,
  CacheKeys, ItemSize, ItemOrder, MaxItems, MaxItemBytes, CacheFound, CacheOps, MaxCacheClock, MaxRequests, MaxActive,
  Bad

VARIABLES
  disk, memory, hydration, queue, resets, last,
  waiting, chosen, dirty, setBack,
  lastAccessAt, stage, saved, cleared, torn, moved,
  started, alone, before,
  packs, builder, work, responses, gate, nap, since, crowded, rebuilt,
  attempts, emitted, frame, sockets, refused, sent,
  wire, seen, day, admitted, granted

Settings == INSTANCE Preferences WITH
  Fields <- Entries, Values <- Names, Default <- Defaults

Lists == INSTANCE SavedLists WITH
  Ids <- Entries, Symbols <- Entries, Stored <- StoredLists

Recents == INSTANCE RecentSearches WITH
  Symbols <- Searched, Stored <- StoredRecents, MaxCalls <- MaxSelections, MaxFaults <- MaxWriteFaults

Sources == INSTANCE SourcePack WITH
  Symbols <- Filers, Ttl <- PackTtl, MaxCalls <- MaxPackCalls

Stream == INSTANCE MassiveStream

Site == INSTANCE Constellation WITH
  Threads <- SiteThreads, DailyCap <- SiteCap, MaxClock <- MaxMinutes, MaxCalls <- MaxSiteCalls

Forecasts == INSTANCE PeerForecast WITH
  Sectors <- Entries, Ttl <- ForecastTtl, MaxEntries <- MaxForecasts, MaxClock <- MaxHalfDays

ASSUME MachinesAssumption ==
  /\ Settings!PreferencesAssumption /\ Lists!ListsAssumption /\ Recents!RecentAssumption
  /\ Sources!SourceAssumption /\ Stream!StreamAssumption
  /\ Site!ConstellationAssumption /\ Forecasts!ForecastAssumption

-----------------------------------------------------------------------------
LEMMA HeadAndTail ==
  ASSUME NEW S, NEW q \in Seq(S), q # <<>>
  PROVE  /\ Head(q) \in S /\ Head(q) = q[1] /\ Tail(q) \in Seq(S)
         /\ Len(q) \in Nat \ {0} /\ Len(Tail(q)) = Len(q) - 1
         /\ \A k \in 1..Len(Tail(q)) : Tail(q)[k] = q[k + 1]
         /\ Tail(q) = <<>> <=> Len(q) = 1
<1>1. Len(Tail(q)) = Len(q) - 1 /\ Tail(q) \in Seq(S) /\ Len(q) \in Nat \ {0}
  OBVIOUS
<1>2. Len(Tail(q)) = 0 <=> Tail(q) = <<>>
  BY <1>1, EmptySeq
<1> QED BY <1>1, <1>2

LEMMA Appended ==
  ASSUME NEW S, NEW q \in Seq(S), NEW e \in S
  PROVE  /\ Append(q, e) \in Seq(S) /\ Append(q, e) # <<>>
         /\ Len(q) \in Nat /\ Len(Append(q, e)) = Len(q) + 1
         /\ Append(q, e)[Len(q) + 1] = e
         /\ \A k \in 1..Len(q) : Append(q, e)[k] = q[k]
OBVIOUS

(* A finite set in a strict total order has a last element.                *)
LEMMA HasLast ==
  ASSUME NEW S, IsFiniteSet(S), S # {}, NEW R,
         \A x \in S : <<x, x>> \notin R,
         \A x, y \in S : x # y => <<x, y>> \in R \/ <<y, x>> \in R,
         \A x, y, z \in S : <<x, y>> \in R /\ <<y, z>> \in R => <<x, z>> \in R
  PROVE  \E m \in S : \A x \in S : x # m => <<x, m>> \in R
<1> DEFINE behind == [x \in S |-> {y \in S : <<x, y>> \in R}]
           T == {behind[x] : x \in S}
<1>1. IsWellFoundedOn(StrictSubsetOrdering(S), FiniteSubsetsOf(S))
  BY FS_StrictSubsetOrderingWellFounded
<1>2. \A x \in S : behind[x] \in SUBSET S /\ behind[x] \in T
  OBVIOUS
<1>3. T \subseteq FiniteSubsetsOf(S) /\ T # {}
  <2>1. \A U \in SUBSET S : IsFiniteSet(U)
    BY FS_Subset
  <2> QED BY <1>2, <2>1 DEF FiniteSubsetsOf
<1>4. \E U \in T : \A V \in T : ~(<<V, U>> \in StrictSubsetOrdering(S))
  <2> HIDE DEF T, behind
  <2> QED BY <1>1, <1>3, WFMin
<1>5. PICK m \in S : \A V \in T : ~(<<V, behind[m]>> \in StrictSubsetOrdering(S))
  BY <1>4
<1>6. ASSUME NEW y \in S, <<m, y>> \in R
      PROVE  FALSE
  <2>1. behind[y] \in SUBSET behind[m] /\ y \in behind[m] /\ y \notin behind[y]
    BY <1>6
  <2>2. <<behind[y], behind[m]>> \in StrictSubsetOrdering(S)
    BY <1>2, <2>1 DEF StrictSubsetOrdering
  <2> QED BY <1>2, <1>5, <2>2
<1> QED BY <1>6

-----------------------------------------------------------------------------
(* The settings: memory and storage only change together, what update()    *)
(* computed stays the change it was asked for, and an update that nothing  *)
(* was beside still is one change away from memory when it is written.     *)
SettingsLoose ==
  last # None =>
    /\ disk # None /\ disk[last.field] = last.value
    /\ hydration # "asked" => memory[last.field] = last.value

SettingsUnraced ==
  ~raced =>
    /\ Settings!PatchKept
    /\ Len(queue) <= 1
    /\ queue # <<>> =>
         /\ resets = 0 /\ hydration # "asked"
         /\ queue[1].next = [memory EXCEPT ![queue[1].patch.field] = queue[1].patch.value]

SettingsInv ==
  /\ Settings!TypeOK /\ resets + Len(queue) <= calls
  /\ Settings!MemoryIsDurable
  /\ \A i \in 1..Len(queue) : queue[i].next[queue[i].patch.field] = queue[i].patch.value
  /\ SettingsLoose
  /\ SettingsUnraced

LEMMA SettingsAssumed == Settings!PreferencesAssumption
BY MachinesAssumption

LEMMA ParseOf ==
  /\ \A stored \in Settings!Stored : Settings!Parse(stored) \in Settings!Prefs
  /\ \A prefs \in Settings!Prefs :
       prefs \in Settings!Stored /\ prefs # None /\ Settings!Parse(prefs) = prefs
  /\ Settings!Parse(None) = Defaults /\ None \in Settings!Stored /\ Defaults \in Settings!Prefs
  /\ \A stored \in Settings!Stored, f \in Entries :
       stored # None /\ stored[f] # Bad => Settings!Parse(stored)[f] = stored[f]
BY SettingsAssumed DEF Settings!PreferencesAssumption, Settings!Parse, Settings!Stored, Settings!Prefs

LEMMA SettingsStart ==
  ASSUME Settings!Init
  PROVE  SettingsInv
<1> USE SettingsAssumed DEF Settings!Init, Settings!PreferencesAssumption
<1>1. kept \in [Entries -> Names \cup {None}]
  BY DEF Settings!Stored
<1>2. disk \in Settings!Stored /\ memory \in Settings!Prefs /\ queue \in Seq(Settings!Pending)
  BY DEF Settings!Prefs
<1>3. Settings!TypeOK
  <2>1. MaxCalls \in Nat /\ MaxFaults \in Nat
    OBVIOUS
  <2>2. Len(queue) = 0 /\ 0 \in 0..MaxCalls /\ 0 \in 0..MaxFaults
    BY <2>1
  <2>3. raced \in BOOLEAN /\ last \in Settings!Patches \cup {None}
    OBVIOUS
  <2> QED BY <1>1, <1>2, <2>1, <2>2, <2>3 DEF Settings!TypeOK
<1>4. Settings!PatchKept
  BY DEF Settings!PatchKept
<1> QED BY <1>3, <1>4 DEF SettingsInv, SettingsLoose, SettingsUnraced, Settings!MemoryIsDurable

LEMMA SettingsHydrate ==
  ASSUME SettingsInv, Settings!Hydrate \/ Settings!HydrateFails
  PROVE  SettingsInv'
<1> USE SettingsAssumed, ParseOf DEF SettingsInv, Settings!TypeOK, Settings!PreferencesAssumption
<1>1. CASE Settings!HydrateFails
  <2>1. Settings!TypeOK' /\ Settings!MemoryIsDurable' /\ SettingsLoose'
    BY <1>1 DEF Settings!HydrateFails, Settings!Nothing, Settings!MemoryIsDurable, SettingsLoose
  <2>2. SettingsUnraced'
    BY <1>1 DEF Settings!HydrateFails, Settings!Nothing, SettingsUnraced, Settings!PatchKept
  <2> QED BY <1>1, <2>1, <2>2 DEF Settings!HydrateFails
<1>2. CASE Settings!Hydrate
  <2>1. Settings!TypeOK' /\ Settings!MemoryIsDurable'
    BY <1>2 DEF Settings!Hydrate, Settings!MemoryIsDurable
  <2>2. SettingsLoose'
    BY <1>2 DEF Settings!Hydrate, SettingsLoose, Settings!Patches
  <2>3. SettingsUnraced'
    BY <1>2 DEF Settings!Hydrate, SettingsUnraced, Settings!PatchKept
  <2> QED BY <1>2, <2>1, <2>2, <2>3 DEF Settings!Hydrate
<1> QED BY <1>1, <1>2

LEMMA SettingsUpdate ==
  ASSUME SettingsInv, NEW p \in Settings!Patches, Settings!Update(p)
  PROVE  SettingsInv'
<1> DEFINE u == [patch |-> p, next |-> [memory EXCEPT ![p.field] = p.value]]
<1> USE DEF SettingsInv, Settings!TypeOK
<1>1. u \in Settings!Pending /\ u.next[u.patch.field] = u.patch.value
  BY DEF Settings!Pending, Settings!Prefs, Settings!Patches
<1>2. queue' = Append(queue, u) /\ calls < MaxCalls /\ calls' = calls + 1
      /\ UNCHANGED <<disk, memory, hydration, resets, faults, last, kept>>
      /\ raced' = (raced \/ queue # <<>> \/ resets > 0 \/ hydration = "asked")
  BY DEF Settings!Update
<1>3. queue' \in Seq(Settings!Pending) /\ Len(queue') = Len(queue) + 1 /\ Len(queue) \in Nat
      /\ queue'[Len(queue) + 1] = u /\ \A i \in 1..Len(queue) : queue'[i] = queue[i]
  BY <1>1, <1>2, Appended
<1>4. MaxCalls \in Nat /\ calls' + 0 \in 0..MaxCalls
  BY <1>2, SettingsAssumed DEF Settings!PreferencesAssumption
<1>5. Settings!TypeOK' /\ resets' + Len(queue') <= calls'
  <2>1. Len(queue') <= MaxCalls
    BY <1>2, <1>3, <1>4
  <2>2. raced' \in BOOLEAN
    BY <1>2
  <2> QED BY <1>2, <1>3, <1>4, <2>1, <2>2
<1>6. ASSUME NEW i \in 1..Len(queue')
      PROVE  queue'[i].next[queue'[i].patch.field] = queue'[i].patch.value
  <2>1. CASE i = Len(queue) + 1
    BY <1>1, <1>3, <2>1
  <2>2. CASE i \in 1..Len(queue)
    BY <1>3, <2>2
  <2> QED BY <1>3, <2>1, <2>2
<1>7. SettingsLoose' /\ Settings!MemoryIsDurable'
  BY <1>2 DEF SettingsLoose, Settings!MemoryIsDurable
<1>8. SettingsUnraced'
  <2>1. ASSUME ~raced' PROVE ~raced /\ queue = <<>> /\ resets = 0 /\ hydration # "asked"
    <3>1. ~raced /\ queue = <<>> /\ ~(resets > 0) /\ hydration # "asked"
      BY <1>2, <2>1
    <3>2. MaxCalls \in Nat /\ resets \in 0..MaxCalls
      BY <1>4
    <3> QED BY <3>1, <3>2
  <2>2. ASSUME ~raced' PROVE Len(queue') = 1 /\ queue'[1] = u
    BY <1>3, <2>1, <2>2
  <2> QED BY <1>2, <2>1, <2>2 DEF SettingsUnraced, Settings!PatchKept
<1> QED BY <1>5, <1>6, <1>7, <1>8

(* A write of the head leaves the tail, which is nothing while unraced.    *)
LEMMA SettingsTail ==
  ASSUME SettingsInv, queue # <<>>
  PROVE  /\ Head(queue) = queue[1] /\ queue[1] \in Settings!Pending
         /\ queue[1].next[queue[1].patch.field] = queue[1].patch.value
         /\ queue[1].next \in Settings!Prefs /\ queue[1].patch \in Settings!Patches
         /\ queue[1].patch.field \in Entries /\ queue[1].patch.value \in Names
         /\ Tail(queue) \in Seq(Settings!Pending) /\ Len(Tail(queue)) = Len(queue) - 1
         /\ Len(queue) \in Nat \ {0}
         /\ \A i \in 1..Len(Tail(queue)) : Tail(queue)[i] = queue[i + 1]
         /\ ~raced => Tail(queue) = <<>>
<1>1. queue \in Seq(Settings!Pending) /\ Len(queue) \in Nat \ {0}
  BY HeadAndTail DEF SettingsInv, Settings!TypeOK
<1>2. queue[1] \in Settings!Pending
  BY <1>1, HeadAndTail
<1>3. ASSUME ~raced PROVE Len(queue) = 1
  <2>1. Len(queue) <= 1
    BY <1>3 DEF SettingsInv, SettingsUnraced
  <2>2. Len(queue) \in Nat /\ Len(queue) # 0
    BY <1>1
  <2> QED BY <2>1, <2>2
<1> QED BY <1>1, <1>2, <1>3, HeadAndTail DEF SettingsInv, Settings!Pending, Settings!Patches

LEMMA SettingsPersist ==
  ASSUME SettingsInv, Settings!Persist
  PROVE  SettingsInv'
<1> DEFINE u == queue[1]
<1> USE DEF SettingsInv, Settings!TypeOK
<1>1. queue # <<>> /\ queue' = Tail(queue) /\ Head(queue) = u
  BY SettingsTail DEF Settings!Persist
<1>2. /\ disk' = u.next /\ memory' = u.next /\ last' = u.patch
      /\ kept' = [kept EXCEPT ![u.patch.field] = u.patch.value]
      /\ UNCHANGED <<hydration, resets, calls, faults, raced>>
  BY <1>1 DEF Settings!Persist
<1>3. /\ u.next \in Settings!Prefs /\ u.next \in Settings!Stored /\ u.next # None
      /\ Settings!Parse(u.next) = u.next
      /\ u.patch \in Settings!Patches /\ u.next[u.patch.field] = u.patch.value
  BY <1>1, SettingsTail, ParseOf
<1>4. Settings!TypeOK' /\ resets' + Len(queue') <= calls'
  <2>1. kept' \in [Entries -> Names \cup {None}]
    BY <1>2, <1>3 DEF Settings!Patches
  <2>2. /\ queue' \in Seq(Settings!Pending) /\ Len(queue') = Len(queue) - 1
        /\ Len(queue) \in Nat /\ MaxCalls \in Nat
    BY <1>1, SettingsTail, SettingsAssumed DEF Settings!PreferencesAssumption
  <2> QED BY <1>2, <1>3, <2>1, <2>2
<1>5. \A i \in 1..Len(queue') : queue'[i].next[queue'[i].patch.field] = queue'[i].patch.value
  BY <1>1, SettingsTail
<1>6. SettingsLoose' /\ Settings!MemoryIsDurable'
  BY <1>2, <1>3 DEF SettingsLoose, Settings!MemoryIsDurable
<1>7. SettingsUnraced'
  <2> SUFFICES ASSUME ~raced PROVE Settings!PatchKept' /\ queue' = <<>>
    BY <1>2, EmptySeq DEF SettingsUnraced
  <2>1. queue' = <<>>
    BY <1>1, SettingsTail
  <2>2. /\ u.next = [memory EXCEPT ![u.patch.field] = u.patch.value]
        /\ hydration # "asked" /\ Settings!PatchKept
    BY <1>1 DEF SettingsUnraced
  <2>3. ASSUME NEW f \in Entries, kept'[f] # None PROVE u.next[f] = kept'[f]
    BY <1>2, <1>3, <2>2, <2>3 DEF Settings!PatchKept, Settings!Prefs, Settings!Patches
  <2> QED BY <1>2, <1>3, <2>1, <2>3 DEF Settings!PatchKept
<1> QED BY <1>4, <1>5, <1>6, <1>7

LEMMA SettingsPersistFails ==
  ASSUME SettingsInv, Settings!PersistFails
  PROVE  SettingsInv'
<1> USE DEF SettingsInv, Settings!TypeOK
<1>1. /\ queue # <<>> /\ queue' = Tail(queue) /\ faults' \in 0..MaxFaults
      /\ UNCHANGED <<disk, memory, hydration, resets, calls, last, kept, raced>>
  BY SettingsAssumed DEF Settings!PersistFails, Settings!PreferencesAssumption
<1>2. Settings!TypeOK' /\ resets' + Len(queue') <= calls'
  <2>1. /\ queue' \in Seq(Settings!Pending) /\ Len(queue') = Len(queue) - 1
        /\ Len(queue) \in Nat /\ MaxCalls \in Nat
    BY <1>1, SettingsTail, SettingsAssumed DEF Settings!PreferencesAssumption
  <2> QED BY <1>1, <2>1
<1>3. \A i \in 1..Len(queue') : queue'[i].next[queue'[i].patch.field] = queue'[i].patch.value
  BY <1>1, SettingsTail
<1>4. SettingsLoose' /\ Settings!MemoryIsDurable'
  BY <1>1 DEF SettingsLoose, Settings!MemoryIsDurable
<1>5. SettingsUnraced'
  BY <1>1, SettingsTail, EmptySeq DEF SettingsUnraced, Settings!PatchKept
<1> QED BY <1>2, <1>3, <1>4, <1>5

LEMMA SettingsReset ==
  ASSUME SettingsInv, Settings!Reset \/ Settings!ResetApplies \/ Settings!ResetFails
  PROVE  SettingsInv'
<1> USE DEF SettingsInv, Settings!TypeOK
<1>1. MaxCalls \in Nat /\ MaxFaults \in Nat /\ Len(queue) \in Nat
  BY SettingsAssumed DEF Settings!PreferencesAssumption
<1>2. CASE Settings!Reset
  <2>1. /\ calls < MaxCalls /\ calls' = calls + 1 /\ resets' = resets + 1
        /\ raced' = (raced \/ queue # <<>>)
        /\ UNCHANGED <<disk, memory, hydration, queue, faults, last, kept>>
    BY <1>2 DEF Settings!Reset
  <2>2. Settings!TypeOK' /\ resets' + Len(queue') <= calls'
    <3>1. raced' \in BOOLEAN
      BY <2>1
    <3> QED BY <1>1, <2>1, <3>1
  <2>3. SettingsLoose' /\ Settings!MemoryIsDurable'
    BY <2>1 DEF SettingsLoose, Settings!MemoryIsDurable
  <2>4. ASSUME ~raced' PROVE ~raced /\ queue' = <<>>
    BY <2>1, <2>4
  <2>5. SettingsUnraced'
    BY <2>1, <2>4 DEF SettingsUnraced, Settings!PatchKept
  <2> QED BY <2>1, <2>2, <2>3, <2>5
<1>3. CASE Settings!ResetApplies
  <2>1. /\ resets > 0 /\ resets' = resets - 1 /\ disk' = None /\ memory' = Defaults
        /\ last' = None /\ kept' = [f \in Entries |-> None]
        /\ UNCHANGED <<hydration, queue, calls, faults, raced>>
    BY <1>3 DEF Settings!ResetApplies, Settings!Nothing
  <2>2. Settings!TypeOK' /\ resets' + Len(queue') <= calls'
    BY <1>1, <2>1, ParseOf
  <2>3. SettingsLoose' /\ Settings!MemoryIsDurable'
    BY <2>1, ParseOf DEF SettingsLoose, Settings!MemoryIsDurable
  <2>4. SettingsUnraced'
    BY <1>1, <2>1, EmptySeq DEF SettingsUnraced, Settings!PatchKept
  <2> QED BY <2>1, <2>2, <2>3, <2>4
<1>4. CASE Settings!ResetFails
  <2>1. /\ resets > 0 /\ resets' = resets - 1 /\ faults' \in 0..MaxFaults
        /\ UNCHANGED <<disk, memory, hydration, queue, calls, last, kept, raced>>
    BY <1>1, <1>4 DEF Settings!ResetFails
  <2>2. Settings!TypeOK' /\ resets' + Len(queue') <= calls'
    BY <1>1, <2>1
  <2>3. SettingsLoose' /\ Settings!MemoryIsDurable'
    BY <2>1 DEF SettingsLoose, Settings!MemoryIsDurable
  <2>4. SettingsUnraced'
    BY <1>1, <2>1 DEF SettingsUnraced, Settings!PatchKept
  <2> QED BY <2>1, <2>2, <2>3, <2>4
<1> QED BY <1>2, <1>3, <1>4

(* What a kill leaves on the device is what was there, or what was being   *)
(* written.                                                                *)
LEMMA SettingsKill ==
  ASSUME SettingsInv, Settings!Kill
  PROVE  SettingsInv'
<1> USE DEF SettingsInv, Settings!TypeOK
<1>1. /\ queue' = <<>> /\ resets' = 0 /\ memory' = Defaults /\ hydration' = "asked"
      /\ UNCHANGED <<calls, raced>> /\ faults' \in 0..MaxFaults /\ MaxCalls \in Nat
  BY SettingsAssumed DEF Settings!Kill, Settings!PreferencesAssumption
<1>2. Settings!MemoryIsDurable' /\ queue' \in Seq(Settings!Pending) /\ Len(queue') = 0
  BY <1>1 DEF Settings!MemoryIsDurable
<1>3. SUFFICES disk' \in Settings!Stored /\ last' \in Settings!Patches \cup {None}
               /\ kept' \in [Entries -> Names \cup {None}]
               /\ SettingsLoose' /\ (~raced => Settings!PatchKept')
  <2>1. Settings!TypeOK' /\ resets' + Len(queue') <= calls'
    BY <1>1, <1>2, <1>3, ParseOf
  <2> QED BY <1>1, <1>2, <1>3, <2>1 DEF SettingsUnraced
<1>4. CASE UNCHANGED <<disk, last, kept>>
  <2>1. ~raced => Settings!PatchKept
    BY DEF SettingsUnraced
  <2> QED BY <1>1, <1>4, <2>1 DEF SettingsLoose, Settings!PatchKept
<1>5. CASE queue # <<>> /\ disk' = Head(queue).next /\ last' = None
           /\ kept' = [kept EXCEPT ![Head(queue).patch.field] = None]
  <2> DEFINE u == queue[1]
  <2>1. /\ Head(queue) = u /\ u.next \in Settings!Prefs /\ u.next \in Settings!Stored
        /\ u.next # None /\ u.patch.field \in Entries
    BY <1>5, SettingsTail, ParseOf
  <2>2. ASSUME ~raced, NEW f \in Entries, kept'[f] # None PROVE u.next[f] = kept'[f]
    <3>1. /\ u.next = [memory EXCEPT ![u.patch.field] = u.patch.value]
          /\ hydration # "asked" /\ Settings!PatchKept
      BY <1>5, <2>2 DEF SettingsUnraced
    <3> QED BY <1>5, <2>1, <2>2, <3>1 DEF Settings!PatchKept, Settings!Prefs
  <2> QED BY <1>1, <1>5, <2>1, <2>2 DEF SettingsLoose, Settings!PatchKept
<1>6. CASE resets > 0 /\ disk' = None /\ last' = None /\ kept' = Settings!Nothing
  BY <1>1, <1>6, ParseOf DEF Settings!Nothing, SettingsLoose, Settings!PatchKept
<1> QED BY <1>4, <1>5, <1>6 DEF Settings!Kill

LEMMA SettingsStep ==
  ASSUME SettingsInv, [Settings!Next]_(Settings!vars)
  PROVE  SettingsInv'
<1>1. CASE UNCHANGED Settings!vars
  BY <1>1 DEF Settings!vars, SettingsInv, Settings!TypeOK, Settings!MemoryIsDurable, SettingsLoose,
              SettingsUnraced, Settings!PatchKept
<1> QED BY <1>1, SettingsHydrate, SettingsUpdate, SettingsPersist, SettingsPersistFails, SettingsReset,
           SettingsKill DEF Settings!Next

LEMMA SettingsPromised ==
  SettingsInv => /\ Settings!TypeOK /\ Settings!MemoryIsDurable
                 /\ Settings!LatestKept /\ Settings!UnracedPatchKept
BY DEF SettingsInv, SettingsLoose, SettingsUnraced, Settings!LatestKept, Settings!UnracedPatchKept

(* The settings' store holds its promises over overlapping updates and     *)
(* resets, failed writes and kills: what it shows is what the next session *)
(* reads, its newest acknowledged patch is in effect and stored, and so is *)
(* every field's as long as no update was called beside another request.   *)
THEOREM SettingsKept ==
  Settings!Spec => [](/\ Settings!TypeOK /\ Settings!MemoryIsDurable
                      /\ Settings!LatestKept /\ Settings!UnracedPatchKept)
<1> QED BY SettingsPromised, SettingsStart, SettingsStep, PTL DEF Settings!Spec
-----------------------------------------------------------------------------
(* The market data stream: a connection is open exactly where the          *)
(* generator is inside its try, or waits where it caught an error, and an  *)
(* event is only ever added below the limit.                               *)
Connected == {"auth", "subscribe", "read", "yield"}

StreamInv ==
  /\ Stream!TypeOK
  /\ IF at = "sleep" THEN sockets \in {0, 1} ELSE sockets = (IF at \in Connected THEN 1 ELSE 0)
  /\ at \notin {"yield", "done"} => emitted < MaxEvents
  /\ Stream!RefusalIsFinal

LEMMA StreamAssumed == Stream!StreamAssumption
BY MachinesAssumption

LEMMA StreamStart ==
  ASSUME Stream!Init
  PROVE  StreamInv
<1>1. /\ MaxReconnects \in Nat /\ MaxEvents \in Nat /\ MaxFrame \in Nat
      /\ MaxEvents # 0
  BY StreamAssumed DEF Stream!StreamAssumption
<1>2. 0 \in 0..MaxReconnects /\ 0 \in 0..MaxEvents /\ 0 \in 0..MaxFrame /\ 0 < MaxEvents
  BY <1>1
<1> QED BY <1>2 DEF Stream!Init, StreamInv, Stream!TypeOK, Connected, Stream!RefusalIsFinal

LEMMA StreamStep ==
  ASSUME StreamInv, [Stream!Next]_(Stream!vars)
  PROVE  StreamInv'
<1> USE StreamAssumed DEF Stream!StreamAssumption, StreamInv, Stream!TypeOK, Connected, Stream!RefusalIsFinal
<1>1. CASE UNCHANGED Stream!vars
  BY <1>1 DEF Stream!vars
<1>2. CASE Stream!Ready \/ Stream!Connect \/ Stream!Authenticate \/ Stream!Subscribe \/ Stream!Reconnect
  BY <1>2 DEF Stream!Ready, Stream!Connect, Stream!Authenticate, Stream!Subscribe, Stream!Reconnect, Stream!Close
<1>3. CASE Stream!Receive
  BY <1>3 DEF Stream!Receive
<1>4. CASE Stream!Message
  <2>1. frame' \in 0..MaxFrame /\ emitted < MaxEvents
    BY <1>4 DEF Stream!Message
  <2> QED BY <1>4, <2>1 DEF Stream!Message
<1>5. CASE Stream!Resume
  BY <1>5 DEF Stream!Resume, Stream!Close
<1>6. CASE Stream!Refused
  BY <1>6 DEF Stream!Refused, Stream!Close
<1>7. CASE Stream!Fails
  BY <1>7 DEF Stream!Fails, Stream!Close
<1>8. CASE Stream!Escapes \/ Stream!ClientGone
  BY <1>8 DEF Stream!Escapes, Stream!ClientGone, Stream!Close
<1> QED BY <1>1, <1>2, <1>3, <1>4, <1>5, <1>6, <1>7, <1>8 DEF Stream!Next

LEMMA StreamPromised ==
  StreamInv => /\ Stream!TypeOK /\ Stream!SocketsClosed
               /\ Stream!EventsBounded /\ Stream!RefusalIsFinal
BY StreamAssumed DEF Stream!StreamAssumption, StreamInv, Stream!TypeOK, Connected, Stream!SocketsClosed,
                     Stream!EventsBounded

(* The stream closes every connection it opened before it asks for the     *)
(* next, and on every way out, sends the client no more events than it     *)
(* asked for over any number of reconnections, and never connects again    *)
(* once it was refused for good.                                           *)
THEOREM StreamKept ==
  Stream!Spec => [](/\ Stream!TypeOK /\ Stream!SocketsClosed
                    /\ Stream!EventsBounded /\ Stream!RefusalIsFinal)
BY StreamPromised, StreamStart, StreamStep, PTL DEF Stream!Spec
-----------------------------------------------------------------------------
(* The SEC client: who is at the gate owns it and has slept, or will, for  *)
(* the rest of the interval; the lookup and the parts are never under way  *)
(* at once, and neither is without a builder.                              *)
SourcesTyped ==
  /\ Sources!TypeOK
  /\ task \in [Threads -> [at : {"idle", "wait", "build", "yahoo", "answer", "failed"},
                           symbol : Filers \cup {None}, by : {None, "edgar", "yahoo"}]]
  /\ \A w \in Sources!Work : work[w].at \in {"ready", "gate"} => work[w].sent <= Retries

GateHeld ==
  /\ \A w \in Sources!Work : work[w].at = "gate" => gate = w /\ since + nap >= Interval
  /\ ~crowded

OneStage ==
  /\ work[Sources!Lookup] # Sources!Off => \A w \in Sources!Parts : work[w] = Sources!Off
  /\ builder = None \/ task[builder].at = "yahoo" => \A w \in Sources!Work : work[w] = Sources!Off
  /\ ~rebuilt

SourcesInv == SourcesTyped /\ GateHeld /\ OneStage

LEMMA SourcesAssumed ==
  /\ Interval \in Nat /\ Interval # 0 /\ Retries \in Nat /\ PackTtl \in Nat /\ MaxPackCalls \in Nat
  /\ None \notin Threads /\ None \notin Sources!Work
  /\ Sources!Lookup \in Sources!Work /\ Sources!Lookup \notin Sources!Parts
  /\ Sources!Work = {Sources!Lookup} \cup Sources!Parts
BY MachinesAssumption DEF Sources!SourceAssumption, Sources!Work, Sources!Lookup, Sources!Parts

LEMMA SourcesStart ==
  ASSUME Sources!Init
  PROVE  SourcesInv
<1> USE SourcesAssumed DEF Sources!Init, Sources!Off, Sources!Idle
<1>1. SourcesTyped
  <2>1. /\ packs \in [Filers -> {None} \cup [by : {"edgar", "yahoo"}, age : 0..PackTtl]]
        /\ builder \in Threads \cup {None}
        /\ work \in [Sources!Work ->
                       [at : {"off", "ready", "gate", "send", "ok", "noted", "refused", "escaped"},
                        sent : 0..(Retries + 1)]]
        /\ responses \subseteq Filers \X Sources!Work
        /\ gate \in Sources!Work \cup {None} /\ nap \in 0..Interval /\ since \in 0..Interval
        /\ calls \in 0..MaxPackCalls
    OBVIOUS
  <2>2. task \in [Threads -> [at : {"idle", "wait", "build", "yahoo", "answer", "failed"},
                              symbol : Filers \cup {None}, by : {None, "edgar", "yahoo"}]]
    OBVIOUS
  <2>3. \A t \in Threads : task[t].at = "idle" /\ builder # t
    OBVIOUS
  <2> QED BY <2>1, <2>2, <2>3 DEF SourcesTyped, Sources!TypeOK
<1>2. GateHeld /\ OneStage
  BY DEF GateHeld, OneStage
<1> QED BY <1>1, <1>2 DEF SourcesInv

LEMMA SourcesCalls ==
  ASSUME SourcesInv, NEW t \in Threads,
         (\E s \in Filers : Sources!Ask(t, s)) \/ Sources!Lock(t) \/ Sources!Return(t)
  PROVE  SourcesInv'
<1> USE SourcesAssumed DEF SourcesInv, SourcesTyped, Sources!TypeOK, Sources!At, Sources!Good,
        Sources!Requests
<1>1. CASE \E s \in Filers : Sources!Ask(t, s)
  <2> PICK s \in Filers : Sources!Ask(t, s)
    BY <1>1
  <2>1. SourcesTyped'
    BY DEF Sources!Ask
  <2>2. GateHeld' /\ OneStage'
    BY DEF Sources!Ask, GateHeld, OneStage
  <2> QED BY <2>1, <2>2
<1>2. CASE Sources!Return(t)
  <2>1. SourcesTyped'
    BY <1>2 DEF Sources!Return, Sources!Idle
  <2>2. GateHeld' /\ OneStage'
    BY <1>2 DEF Sources!Return, GateHeld, OneStage
  <2> QED BY <2>1, <2>2
<1>3. CASE Sources!Lock(t) /\ Sources!Good(task[t].symbol)
  <2>1. SourcesTyped'
    BY <1>3 DEF Sources!Lock
  <2>2. GateHeld' /\ OneStage'
    BY <1>3 DEF Sources!Lock, GateHeld, OneStage
  <2> QED BY <2>1, <2>2
<1>4. CASE Sources!Lock(t) /\ ~Sources!Good(task[t].symbol)
  <2>1. /\ builder = None /\ builder' = t /\ task' = [task EXCEPT ![t].at = "build"]
        /\ work' = [work EXCEPT ![Sources!Lookup] = [at |-> "ready", sent |-> 0]]
        /\ rebuilt' = (rebuilt \/ FALSE) /\ task[t].at = "wait"
        /\ UNCHANGED <<packs, responses, gate, nap, since, calls, crowded>>
    BY <1>4 DEF Sources!Lock, Sources!Begin
  <2>2. SourcesTyped'
    <3>1. [at |-> "ready", sent |-> 0] \in
            [at : {"off", "ready", "gate", "send", "ok", "noted", "refused", "escaped"},
             sent : 0..(Retries + 1)]
      OBVIOUS
    <3>2. \A x \in Sources!Work : work'[x].at \in {"ready", "gate"} => work'[x].sent <= Retries
      BY <2>1
    <3>3. \A u \in Threads : /\ task'[u].at = (IF u = t THEN "build" ELSE task[u].at)
                             /\ task'[u].symbol = task[u].symbol
      BY <2>1
    <3>4. /\ task' \in [Threads -> [at : {"idle", "wait", "build", "yahoo", "answer", "failed"},
                                    symbol : Filers \cup {None}, by : {None, "edgar", "yahoo"}]]
          /\ work' \in [Sources!Work ->
                         [at : {"off", "ready", "gate", "send", "ok", "noted", "refused", "escaped"},
                          sent : 0..(Retries + 1)]]
      BY <2>1, <3>1
    <3>5. \A u \in Threads : /\ task'[u].at = "idle" \/ task'[u].symbol \in Filers
                             /\ task'[u].at \in {"build", "yahoo"} <=> builder' = u
      BY <2>1, <3>3
    <3>6. gate' # None => work'[gate'].at = "gate"
      BY <2>1 DEF OneStage, Sources!Off
    <3> QED BY <2>1, <3>2, <3>4, <3>5, <3>6
  <2>3. GateHeld'
    BY <2>1 DEF GateHeld
  <2>4. OneStage'
    BY <2>1 DEF OneStage
  <2> QED BY <2>2, <2>3, <2>4
<1> QED BY <1>1, <1>2, <1>3, <1>4

LEMMA SourcesFetches ==
  ASSUME SourcesInv, NEW w \in Sources!Work,
         Sources!Remembered(w) \/ Sources!EnterGate(w) \/ Sources!PassGate(w) \/ Sources!Response(w)
  PROVE  SourcesInv'
<1> USE SourcesAssumed DEF SourcesInv, SourcesTyped, Sources!TypeOK
(* A fetch is under way, so somebody builds and the other stage is off.    *)
<1>1. ASSUME work[w].at # "off"
      PROVE  /\ builder \in Threads /\ task[builder].at = "build" /\ task[builder].symbol \in Filers
             /\ w = Sources!Lookup \/ work[Sources!Lookup] = Sources!Off
  BY <1>1 DEF OneStage, Sources!Off
<1>2. ASSUME work[w].at # "off", \A x \in Sources!Work : x # w => work'[x] = work[x],
             UNCHANGED <<builder, task, rebuilt>>
      PROVE  OneStage'
  <2>1. work[w] # Sources!Off
    BY <1>2 DEF Sources!Off
  <2>2. ASSUME w = Sources!Lookup PROVE \A x \in Sources!Parts : work'[x] = Sources!Off
    BY <1>2, <2>1, <2>2 DEF OneStage
  <2>3. ASSUME w # Sources!Lookup PROVE work'[Sources!Lookup] = Sources!Off
    BY <1>1, <1>2, <2>3
  <2> QED BY <1>1, <1>2, <2>2, <2>3 DEF OneStage
<1>3. CASE Sources!Remembered(w)
  <2>1. SourcesTyped'
    BY <1>3 DEF Sources!Remembered
  <2>2. GateHeld'
    BY <1>3 DEF Sources!Remembered, GateHeld
  <2>3. OneStage'
    BY <1>3, <1>2 DEF Sources!Remembered
  <2> QED BY <2>1, <2>2, <2>3
<1>4. CASE Sources!EnterGate(w)
  <2>1. SourcesTyped'
    BY <1>4 DEF Sources!EnterGate
  <2>2. GateHeld'
    BY <1>4 DEF Sources!EnterGate, GateHeld
  <2>3. OneStage'
    BY <1>4, <1>2 DEF Sources!EnterGate
  <2> QED BY <2>1, <2>2, <2>3
<1>5. CASE Sources!PassGate(w)
  <2>1. gate = w /\ ~(since < Interval)
    BY <1>5 DEF Sources!PassGate, GateHeld
  <2>2. SourcesTyped'
    BY <1>5, <2>1 DEF Sources!PassGate
  <2>3. GateHeld'
    BY <1>5, <2>1 DEF Sources!PassGate, GateHeld
  <2>4. OneStage'
    BY <1>5, <1>2 DEF Sources!PassGate
  <2> QED BY <2>2, <2>3, <2>4
<1>6. CASE Sources!Response(w)
  <2>1. PICK at2 \in {"ok", "ready", "noted", "refused", "escaped"} :
          /\ work' = [work EXCEPT ![w].at = at2]
          /\ at2 = "ready" => work[w].sent <= Retries
    BY <1>6 DEF Sources!Response, Sources!Outcome
  <2>2. /\ work[w].at = "send" /\ responses' \subseteq Filers \X Sources!Work
        /\ UNCHANGED <<packs, builder, task, gate, nap, since, calls, crowded, rebuilt>>
    BY <1>1, <1>6 DEF Sources!Response, Sources!Outcome
  <2>3. SourcesTyped'
    BY <2>1, <2>2
  <2>4. GateHeld'
    BY <2>1, <2>2 DEF GateHeld
  <2>5. OneStage'
    BY <1>2, <2>1, <2>2
  <2> QED BY <2>3, <2>4, <2>5
<1> QED BY <1>3, <1>4, <1>5, <1>6
LEMMA SourcesStages ==
  ASSUME SourcesInv,
         Sources!StartParts \/ Sources!FinishParts \/ Sources!LookupFails \/ Sources!Yahoo
  PROVE  SourcesInv'
<1> USE SourcesAssumed DEF SourcesInv, SourcesTyped, Sources!TypeOK, Sources!At
<1>1. [at |-> "off", sent |-> 0] \in
        [at : {"off", "ready", "gate", "send", "ok", "noted", "refused", "escaped"}, sent : 0..(Retries + 1)]
  OBVIOUS
<1>2. /\ builder \in Threads /\ task[builder].symbol \in Filers
      /\ task[builder].at \in {"build", "yahoo"}
  BY DEF Sources!StartParts, Sources!FinishParts, Sources!LookupFails, Sources!Yahoo
(* A pack that is remembered, or the builder's leaving, keeps the types.   *)
<1>3. ASSUME NEW by2 \in {"edgar", "yahoo"}, Sources!Remember(by2)
      PROVE  packs' \in [Filers -> {None} \cup [by : {"edgar", "yahoo"}, age : 0..PackTtl]]
  BY <1>2, <1>3 DEF Sources!Remember
<1>4. ASSUME NEW at2 \in {"answer", "failed"}, NEW by2 \in {None, "edgar", "yahoo"},
             Sources!Release(at2, by2)
      PROVE  /\ builder' = None
             /\ task' \in [Threads -> [at : {"idle", "wait", "build", "yahoo", "answer", "failed"},
                                       symbol : Filers \cup {None}, by : {None, "edgar", "yahoo"}]]
             /\ \A t \in Threads : /\ task'[t].at = "idle" \/ task'[t].symbol \in Filers
                                   /\ task'[t].at \notin {"build", "yahoo"}
  <2>1. builder' = None /\ task' = [task EXCEPT ![builder].at = at2, ![builder].by = by2]
    BY <1>4 DEF Sources!Release
  <2>2. task' \in [Threads -> [at : {"idle", "wait", "build", "yahoo", "answer", "failed"},
                               symbol : Filers \cup {None}, by : {None, "edgar", "yahoo"}]]
    BY <1>2, <2>1
  <2>3. ASSUME NEW t \in Threads
        PROVE  /\ task'[t].at = "idle" \/ task'[t].symbol \in Filers
               /\ task'[t].at \notin {"build", "yahoo"}
    <3>1. CASE t = builder
      BY <1>2, <2>1, <3>1
    <3>2. CASE t # builder
      BY <2>1, <3>2
    <3> QED BY <3>1, <3>2
  <2> QED BY <2>1, <2>2, <2>3
<1>5. ASSUME task' = [task EXCEPT ![builder].at = "yahoo"], UNCHANGED builder
      PROVE  /\ task' \in [Threads -> [at : {"idle", "wait", "build", "yahoo", "answer", "failed"},
                                       symbol : Filers \cup {None}, by : {None, "edgar", "yahoo"}]]
             /\ \A t \in Threads : /\ task'[t].at = "idle" \/ task'[t].symbol \in Filers
                                   /\ task'[t].at \in {"build", "yahoo"} <=> builder' = t
  BY <1>2, <1>5
<1>6. CASE Sources!StartParts
  <2>1. PICK filed \in SUBSET {"filing", "event"} :
          work' = [w \in Sources!Work |->
                     IF w = Sources!Lookup THEN Sources!Off
                     ELSE [at |-> IF w \in filed \cup {"facts"} THEN "ready" ELSE "noted", sent |-> 0]]
    BY <1>6 DEF Sources!StartParts
  <2>2. /\ task[builder].at = "build" /\ work[Sources!Lookup].at = "ok"
        /\ UNCHANGED <<packs, builder, task, responses, gate, nap, since, calls, crowded, rebuilt>>
    BY <1>6 DEF Sources!StartParts
  <2>3. \A w \in Sources!Work : work[w].at # "gate"
    <3>1. work[Sources!Lookup] # Sources!Off
      BY <2>2 DEF Sources!Off
    <3>2. \A w \in Sources!Parts : work[w].at = "off"
      BY <3>1 DEF OneStage, Sources!Off
    <3> QED BY <2>2, <3>2
  <2>4. \A w \in Sources!Work : /\ work'[w].at \in {"off", "ready", "noted"} /\ work'[w].sent = 0
    BY <2>1 DEF Sources!Off
  <2>5. SourcesTyped'
    <3>1. work' \in [Sources!Work ->
                       [at : {"off", "ready", "gate", "send", "ok", "noted", "refused", "escaped"},
                        sent : 0..(Retries + 1)]]
      <4>1. 0 \in 0..(Retries + 1)
        OBVIOUS
      <4> QED BY <1>1, <2>1, <4>1 DEF Sources!Off
    <3>2. gate' = None
      BY <2>2, <2>3
    <3> QED BY <2>2, <2>4, <3>1, <3>2
  <2>6. GateHeld'
    BY <2>2, <2>4 DEF GateHeld
  <2>7. OneStage'
    BY <1>2, <2>1, <2>2 DEF OneStage
  <2> QED BY <2>5, <2>6, <2>7
<1>7. CASE Sources!FinishParts
  <2>1. /\ task[builder].at = "build" /\ \A w \in Sources!Work : work[w].at # "gate"
    <3>1. \A w \in Sources!Parts : work[w].at \in {"ok", "noted", "refused"}
      BY <1>7 DEF Sources!FinishParts, Sources!Settled
    <3>2. work[Sources!Lookup] = Sources!Off
      BY <3>1 DEF OneStage, Sources!Off, Sources!Parts
    <3> QED BY <1>7, <3>1, <3>2 DEF Sources!FinishParts, Sources!Off
  <2>2. /\ work' = [w \in Sources!Work |-> Sources!Off]
        /\ UNCHANGED <<responses, gate, nap, since, calls, crowded, rebuilt>> /\ gate = None
    BY <1>7, <2>1 DEF Sources!FinishParts
  <2>3. SourcesTyped'
    <3>1. work' \in [Sources!Work ->
                       [at : {"off", "ready", "gate", "send", "ok", "noted", "refused", "escaped"},
                        sent : 0..(Retries + 1)]]
      BY <1>1, <2>2 DEF Sources!Off
    <3>2. CASE task' = [task EXCEPT ![builder].at = "yahoo"] /\ UNCHANGED <<packs, builder>>
      BY <1>5, <2>2, <3>1, <3>2 DEF Sources!Off
    <3>3. CASE Sources!Remember("edgar") /\ Sources!Release("answer", "edgar")
      BY <1>3, <1>4, <2>2, <3>1, <3>3 DEF Sources!Off
    <3> QED BY <1>7, <3>2, <3>3 DEF Sources!FinishParts
  <2>4. GateHeld' /\ OneStage'
    BY <2>2 DEF GateHeld, OneStage, Sources!Off
  <2> QED BY <2>3, <2>4
<1>8. CASE Sources!LookupFails
  <2>1. work[Sources!Lookup].at \in {"refused", "escaped"} /\ task[builder].at = "build"
    BY <1>2, <1>8 DEF Sources!LookupFails, OneStage, Sources!Off
  <2>2. \A w \in Sources!Parts : work[w] = Sources!Off
    BY <2>1 DEF OneStage, Sources!Off
  <2>3. /\ work' = [w \in Sources!Work |-> Sources!Off] /\ gate = None
        /\ UNCHANGED <<packs, responses, gate, nap, since, calls, crowded, rebuilt>>
    <3>1. work' = [work EXCEPT ![Sources!Lookup] = Sources!Off]
          /\ UNCHANGED <<packs, responses, gate, nap, since, calls, crowded, rebuilt>>
      BY <1>8 DEF Sources!LookupFails
    <3>2. \A w \in Sources!Work : work'[w] = Sources!Off
      BY <2>2, <3>1
    <3>3. gate = None
      BY <2>1, <2>2 DEF Sources!Off
    <3> QED BY <3>1, <3>2, <3>3
  <2>4. SourcesTyped'
    <3>1. work' \in [Sources!Work ->
                       [at : {"off", "ready", "gate", "send", "ok", "noted", "refused", "escaped"},
                        sent : 0..(Retries + 1)]]
      BY <1>1, <2>3 DEF Sources!Off
    <3>2. CASE task' = [task EXCEPT ![builder].at = "yahoo"] /\ UNCHANGED builder
      BY <1>5, <2>3, <3>1, <3>2 DEF Sources!Off
    <3>3. CASE Sources!Release("failed", None)
      BY <1>4, <2>3, <3>1, <3>3 DEF Sources!Off
    <3> QED BY <1>8, <3>2, <3>3 DEF Sources!LookupFails
  <2>5. GateHeld' /\ OneStage'
    BY <2>3 DEF GateHeld, OneStage, Sources!Off
  <2> QED BY <2>4, <2>5
<1>9. CASE Sources!Yahoo
  <2>1. /\ task[builder].at = "yahoo"
        /\ UNCHANGED <<work, responses, gate, nap, since, crowded, calls, rebuilt>>
        /\ \/ Sources!Remember("yahoo") /\ Sources!Release("answer", "yahoo")
           \/ UNCHANGED packs /\ Sources!Release("failed", None)
    BY <1>9 DEF Sources!Yahoo, Sources!Requests
  <2>2. SourcesTyped'
    BY <1>3, <1>4, <2>1
  <2>3. GateHeld' /\ OneStage'
    BY <1>2, <2>1 DEF GateHeld, OneStage
  <2> QED BY <2>2, <2>3
<1> QED BY <1>6, <1>7, <1>8, <1>9

LEMMA SourcesTick ==
  ASSUME SourcesInv, Sources!Tick
  PROVE  SourcesInv'
<1> USE SourcesAssumed DEF SourcesInv, SourcesTyped, Sources!TypeOK
<1>1. /\ UNCHANGED <<builder, task, work, responses, gate, calls, crowded, rebuilt>>
      /\ since' = (IF since < Interval THEN since + 1 ELSE since)
      /\ nap' = (IF nap > 0 THEN nap - 1 ELSE 0)
  BY DEF Sources!Tick
<1>2. packs' \in [Filers -> {None} \cup [by : {"edgar", "yahoo"}, age : 0..PackTtl]]
  BY DEF Sources!Tick, Sources!Good
<1>3. since' \in 0..Interval /\ nap' \in 0..Interval
      /\ (since + nap >= Interval => since' + nap' >= Interval)
  BY <1>1
<1>4. SourcesTyped'
  BY <1>1, <1>2, <1>3
<1>5. GateHeld' /\ OneStage'
  BY <1>1, <1>3 DEF GateHeld, OneStage
<1> QED BY <1>4, <1>5

LEMMA SourcesStep ==
  ASSUME SourcesInv, [Sources!Next]_(Sources!vars)
  PROVE  SourcesInv'
<1>1. CASE UNCHANGED Sources!vars
  BY <1>1 DEF Sources!vars, SourcesInv, SourcesTyped, Sources!TypeOK, GateHeld, OneStage
<1> QED BY <1>1, SourcesCalls, SourcesFetches, SourcesStages, SourcesTick DEF Sources!Next

LEMMA SourcesPromised ==
  SourcesInv => /\ Sources!TypeOK /\ Sources!BuiltOnce /\ Sources!RequestsSpaced
                /\ Sources!NothingLeftBehind
BY SourcesAssumed DEF SourcesInv, SourcesTyped, Sources!TypeOK, GateHeld, OneStage, Sources!BuiltOnce,
                      Sources!RequestsSpaced, Sources!NothingLeftBehind, Sources!Off

(* The SEC client fetches a pack only when no remembered one is good,      *)
(* spaces its requests by the interval whatever its pool retries, and      *)
(* leaves no fetch behind and the gate free whichever way a build ended.   *)
THEOREM SourcesKept ==
  Sources!Spec => [](/\ Sources!TypeOK /\ Sources!BuiltOnce /\ Sources!RequestsSpaced
                     /\ Sources!NothingLeftBehind)
BY SourcesPromised, SourcesStart, SourcesStep, PTL DEF Sources!Spec
-----------------------------------------------------------------------------
(* The forecast budget: what was granted on the day of the budget is what  *)
(* was spent of it, and nothing was granted on a day still to come.        *)
ForecastTask ==
  [at : {"idle", "guard", "works", "answer"}, mcp : BOOLEAN, key : Forecasts!Keys \cup {None},
   by : {None, "cache", "model", "failed", "refused"}, on : Forecasts!Days \cup {None}]

ForecastsTyped ==
  /\ Forecasts!TypeOK /\ day \in [day : Forecasts!Days \cup {None}, spent : 0..Cap]
  /\ task \in [Threads -> ForecastTask]

BudgetTold ==
  /\ \A d \in Forecasts!Days :
       /\ d = day.day => granted[d] = day.spent
       /\ d > Forecasts!UtcDay => granted[d] = 0
       /\ granted[d] <= Cap
  /\ Forecasts!UtcDay # day.day => granted[Forecasts!UtcDay] = 0

RefusalsTold ==
  \A t \in Threads : task[t].by = "refused" => task[t].on \in Forecasts!Days /\ granted[task[t].on] = Cap

HeldIn(c) == {k \in Forecasts!Keys : c[k] # None}

CacheSmall == IsFiniteSet(HeldIn(cache)) /\ Cardinality(HeldIn(cache)) <= MaxForecasts

ForecastsInv == ForecastsTyped /\ BudgetTold /\ RefusalsTold /\ CacheSmall

LEMMA ForecastsAssumed ==
  /\ Cap \in Nat /\ MaxHalfDays \in Nat /\ MaxCalls \in Nat
  /\ ForecastTtl \in Nat /\ MaxForecasts \in Nat /\ MaxForecasts # 0
  /\ LocalShift \in {0, 1} /\ None # "refused"
BY MachinesAssumption DEF Forecasts!ForecastAssumption

(* Days go on, and today is one of them on either clock.                   *)
LEMMA Todays ==
  ASSUME clock \in 0..MaxHalfDays
  PROVE  /\ Forecasts!UtcDay \in Forecasts!Days /\ Forecasts!LocalDay \in Forecasts!Days
         /\ Forecasts!UtcDay \in Nat /\ Forecasts!Days \subseteq Nat
         /\ clock' = clock + 1 => Forecasts!UtcDay' \in {Forecasts!UtcDay, Forecasts!UtcDay + 1}
BY ForecastsAssumed DEF Forecasts!UtcDay, Forecasts!LocalDay, Forecasts!Days

(* The cardinality that the instance counts with is the library's.         *)
LEMMA SameCardinality ==
  ASSUME NEW S
  PROVE  Forecasts!Cardinality(S) = Cardinality(S)
BY DEF Forecasts!Cardinality, Cardinality

(* Fewer keys are held, or one of a full cache makes room for one.         *)
LEMMA FewerHeld ==
  ASSUME CacheSmall, HeldIn(cache)' \subseteq HeldIn(cache)
  PROVE  CacheSmall'
<1>1. /\ IsFiniteSet(HeldIn(cache)') /\ Cardinality(HeldIn(cache)') <= Cardinality(HeldIn(cache))
  BY FS_Subset DEF CacheSmall
<1>2. Cardinality(HeldIn(cache)') \in Nat /\ Cardinality(HeldIn(cache)) \in Nat
  BY <1>1, FS_CardinalityType DEF CacheSmall
<1> QED BY <1>1, <1>2, ForecastsAssumed DEF CacheSmall

LEMMA RoomMade ==
  ASSUME ForecastsTyped, CacheSmall, NEW k, cache' \in Forecasts!Stored(k)
  PROVE  cache' \in [Forecasts!Keys -> 0..ForecastTtl \cup {None}] /\ CacheSmall'
<1> DEFINE held == HeldIn(cache)
           oldest == {j \in held : \A i \in held : cache[i] >= cache[j]}
           n == Cardinality(held)
<1> USE ForecastsAssumed
<1>1. IsFiniteSet(held) /\ n \in Nat /\ n <= MaxForecasts
  BY FS_CardinalityType DEF CacheSmall
<1>2. PICK c \in (IF n >= MaxForecasts THEN {[cache EXCEPT ![j] = None] : j \in oldest} ELSE {cache}) :
        cache' = [c EXCEPT ![k] = ForecastTtl]
  BY SameCardinality DEF Forecasts!Stored, HeldIn, Forecasts!Cached
<1>3. /\ c \in [Forecasts!Keys -> 0..ForecastTtl \cup {None}]
      /\ IsFiniteSet(HeldIn(c)) /\ Cardinality(HeldIn(c)) < MaxForecasts
  <2>1. CASE n >= MaxForecasts
    <3>1. PICK j \in held : c = [cache EXCEPT ![j] = None]
      BY <1>2, <2>1
    <3>2. HeldIn(c) = held \ {j}
      BY <3>1 DEF HeldIn, ForecastsTyped, Forecasts!TypeOK
    <3>3. IsFiniteSet(held \ {j}) /\ Cardinality(held \ {j}) = n - 1
      BY <1>1, <3>1, FS_RemoveElement
    <3>4. c \in [Forecasts!Keys -> 0..ForecastTtl \cup {None}]
      BY <3>1 DEF ForecastsTyped, Forecasts!TypeOK
    <3> QED BY <1>1, <3>2, <3>3, <3>4
  <2>2. CASE ~(n >= MaxForecasts)
    <3>1. c = cache
      BY <1>2, <2>2
    <3> QED BY <1>1, <2>2, <3>1 DEF ForecastsTyped, Forecasts!TypeOK
  <2> QED BY <2>1, <2>2
<1>4. cache' \in [Forecasts!Keys -> 0..ForecastTtl \cup {None}]
  <2>1. ForecastTtl \in 0..ForecastTtl
    OBVIOUS
  <2> QED BY <1>2, <1>3, <2>1
<1>5. HeldIn(cache)' \subseteq HeldIn(c) \cup {k}
  BY <1>2, <1>3 DEF HeldIn
<1>6. IsFiniteSet(HeldIn(c) \cup {k}) /\ Cardinality(HeldIn(c) \cup {k}) <= MaxForecasts
  <2>1. /\ IsFiniteSet(HeldIn(c) \cup {k})
        /\ Cardinality(HeldIn(c) \cup {k}) \in {Cardinality(HeldIn(c)), Cardinality(HeldIn(c)) + 1}
    BY <1>3, FS_AddElement
  <2>2. Cardinality(HeldIn(c)) \in Nat
    BY <1>3, FS_CardinalityType
  <2> QED BY <1>3, <2>1, <2>2
<1>7. IsFiniteSet(HeldIn(cache)') /\ Cardinality(HeldIn(cache)') <= Cardinality(HeldIn(c) \cup {k})
  BY <1>5, <1>6, FS_Subset
<1>8. Cardinality(HeldIn(cache)') \in Nat /\ Cardinality(HeldIn(c) \cup {k}) \in Nat
  BY <1>6, <1>7, FS_CardinalityType
<1> QED BY <1>4, <1>6, <1>7, <1>8 DEF CacheSmall
LEMMA ForecastsStart ==
  ASSUME Forecasts!Init
  PROVE  ForecastsInv
<1> USE ForecastsAssumed DEF Forecasts!Init, Forecasts!Free
<1>1. 0 \in 0..MaxHalfDays /\ 0 \in 0..MaxCalls /\ 0 \in 0..Cap
  OBVIOUS
<1>2. Forecasts!UtcDay \in Forecasts!Days /\ Forecasts!Days \subseteq Nat
  BY <1>1, Todays
<1>3. ForecastsTyped
  <2>1. /\ cache \in [Forecasts!Keys -> 0..ForecastTtl \cup {None}]
        /\ granted \in [Forecasts!Days -> Nat]
    OBVIOUS
  <2>2. day \in [day : Forecasts!Days \cup {None}, spent : 0..Cap]
    BY <1>1
  <2>3. task \in [Threads -> ForecastTask]
    BY DEF ForecastTask
  <2> QED BY <1>1, <2>1, <2>2, <2>3 DEF ForecastsTyped, Forecasts!TypeOK
<1>4. BudgetTold /\ RefusalsTold
  BY <1>2 DEF BudgetTold, RefusalsTold
<1>5. CacheSmall
  <2>1. HeldIn(cache) = {}
    BY DEF HeldIn
  <2> QED BY <2>1, FS_EmptySet DEF CacheSmall
<1> QED BY <1>3, <1>4, <1>5 DEF ForecastsInv

LEMMA ForecastsAsk ==
  ASSUME ForecastsInv, NEW t \in Threads, NEW mcp \in BOOLEAN, NEW sector \in Entries,
         Forecasts!Ask(t, mcp, sector)
  PROVE  ForecastsInv'
<1> DEFINE k == <<sector, Forecasts!LocalDay>>
<1> USE ForecastsAssumed DEF ForecastsInv, ForecastsTyped, Forecasts!TypeOK
<1>1. k \in Forecasts!Keys
  BY Todays DEF Forecasts!Keys
<1>2. /\ cache' = cache \/ cache' = [cache EXCEPT ![k] = None]
      /\ calls < MaxCalls /\ calls' = calls + 1
      /\ \E at2 \in {"answer", "guard", "works"}, by2 \in {"cache", None} :
           task' = [task EXCEPT ![t] = [mcp |-> mcp, key |-> k, at |-> at2, by |-> by2, on |-> None]]
      /\ UNCHANGED <<day, clock, granted>>
  BY DEF Forecasts!Ask
<1>3. PICK at2 \in {"answer", "guard", "works"}, by2 \in {"cache", None} :
        task' = [task EXCEPT ![t] = [mcp |-> mcp, key |-> k, at |-> at2, by |-> by2, on |-> None]]
  BY <1>2
<1>4. ForecastsTyped'
  <2>1. cache' \in [Forecasts!Keys -> 0..ForecastTtl \cup {None}]
    BY <1>2
  <2>2. task' \in [Threads -> ForecastTask]
    BY <1>1, <1>3 DEF ForecastTask
  <2> QED BY <1>2, <2>1, <2>2
<1>5. BudgetTold'
  BY <1>2 DEF BudgetTold, Forecasts!UtcDay
<1>6. RefusalsTold'
  BY <1>2, <1>3 DEF RefusalsTold
<1>7. CacheSmall'
  BY <1>2, FewerHeld DEF HeldIn
<1> QED BY <1>4, <1>5, <1>6, <1>7

(* The budget of today, rolled over or not, is what today was granted.     *)
LEMMA ForecastsGuard ==
  ASSUME ForecastsInv, NEW t \in Threads, Forecasts!Guard(t)
  PROVE  ForecastsInv'
<1> DEFINE today == Forecasts!UtcDay
           budget == Forecasts!Rolled(today)
           left == Forecasts!Left(budget)
<1> USE ForecastsAssumed DEF ForecastsInv, ForecastsTyped, Forecasts!TypeOK
<1>1. today \in Forecasts!Days /\ Forecasts!Days \subseteq Nat /\ today \in Nat
  BY Todays
<1>2. budget \in [day : Forecasts!Days \cup {None}, spent : 0..Cap]
      /\ budget.day = today /\ granted[today] = budget.spent
  BY <1>1 DEF Forecasts!Rolled, BudgetTold
<1>3. /\ day' = (IF left THEN [budget EXCEPT !.spent = @ + 1] ELSE budget)
      /\ granted' = (IF left THEN [granted EXCEPT ![today] = @ + 1] ELSE granted)
      /\ task' = [task EXCEPT ![t].at = IF left THEN "works" ELSE "answer",
                              ![t].on = today, ![t].by = IF left THEN None ELSE "refused"]
      /\ UNCHANGED <<cache, clock, calls>>
  BY DEF Forecasts!Guard
<1>4. left <=> budget.spent < Cap
  BY DEF Forecasts!Left
<1>5. /\ day' \in [day : Forecasts!Days \cup {None}, spent : 0..Cap] /\ day'.day = today
      /\ granted' \in [Forecasts!Days -> Nat] /\ granted'[today] = day'.spent
      /\ \A d \in Forecasts!Days : d # today => granted'[d] = granted[d]
  <2>1. CASE left
    <3>1. day' = [day |-> today, spent |-> budget.spent + 1]
      BY <1>2, <1>3, <2>1
    <3>2. granted' = [granted EXCEPT ![today] = @ + 1]
      BY <1>3, <2>1
    <3>3. budget.spent + 1 \in 0..Cap
      BY <1>2, <1>4, <2>1
    <3> QED BY <1>1, <1>2, <3>1, <3>2, <3>3
  <2>2. CASE ~left
    BY <1>2, <1>3, <2>2
  <2> QED BY <2>1, <2>2
<1>6. ForecastsTyped'
  <2>1. task' \in [Threads -> ForecastTask]
    <3>1. PICK at2 \in {"works", "answer"}, by2 \in {None, "refused"} :
            task' = [task EXCEPT ![t] = [task[t] EXCEPT !.at = at2, !.on = today, !.by = by2]]
      BY <1>3
    <3>2. task[t] \in ForecastTask
      OBVIOUS
    <3>3. [task[t] EXCEPT !.at = at2, !.on = today, !.by = by2] \in ForecastTask
      BY <1>1, <3>2 DEF ForecastTask
    <3> QED BY <3>1, <3>3
  <2> QED BY <1>3, <1>5, <2>1
<1>7. BudgetTold'
  <2>1. Forecasts!UtcDay' = today
    BY <1>3 DEF Forecasts!UtcDay
  <2> QED BY <1>1, <1>5, <2>1 DEF BudgetTold
<1>8. RefusalsTold'
  <2> SUFFICES ASSUME NEW u \in Threads, task'[u].by = "refused"
               PROVE  task'[u].on \in Forecasts!Days /\ granted'[task'[u].on] = Cap
    BY DEF RefusalsTold
  <2>1. CASE u = t
    <3>1. ~left /\ task'[u].on = today
      BY <1>3, <2>1
    <3> QED BY <1>1, <1>2, <1>3, <1>4, <3>1
  <2>2. CASE u # t
    <3>1. task[u].on \in Forecasts!Days /\ granted[task[u].on] = Cap /\ task'[u] = task[u]
      BY <1>3, <2>2 DEF RefusalsTold
    <3>2. left => task[u].on # today
      BY <1>2, <1>4, <3>1
    <3> QED BY <1>3, <1>5, <3>1, <3>2
  <2> QED BY <2>1, <2>2
<1>9. CacheSmall'
  BY <1>3, FewerHeld DEF HeldIn
<1> QED BY <1>6, <1>7, <1>8, <1>9

LEMMA ForecastsWorks ==
  ASSUME ForecastsInv, NEW t \in Threads, Forecasts!Works(t) \/ Forecasts!Answer(t)
  PROVE  ForecastsInv'
<1> USE ForecastsAssumed DEF ForecastsInv, ForecastsTyped, Forecasts!TypeOK
<1>1. UNCHANGED <<day, clock, calls, granted>>
  BY DEF Forecasts!Works, Forecasts!Answer
<1>2. /\ cache' \in [Forecasts!Keys -> 0..ForecastTtl \cup {None}] /\ CacheSmall'
  <2>1. CASE UNCHANGED cache
    BY <2>1, FewerHeld DEF HeldIn
  <2>2. CASE cache' \in Forecasts!Stored(task[t].key)
    BY <2>2, RoomMade
  <2> QED BY <2>1, <2>2 DEF Forecasts!Works, Forecasts!Answer
<1>3. /\ task' \in [Threads -> ForecastTask]
      /\ \A u \in Threads : task'[u].by = "refused" => task[u].by = "refused" /\ task'[u].on = task[u].on
  <2>1. CASE task' = [task EXCEPT ![t] = Forecasts!Free]
    <3>1. Forecasts!Free \in ForecastTask /\ Forecasts!Free.by = None
      BY DEF Forecasts!Free, ForecastTask
    <3> QED BY <2>1, <3>1
  <2>2. CASE \E by2 \in {"model", "failed"} : task' = [task EXCEPT ![t].at = "answer", ![t].by = by2]
    <3>1. PICK by2 \in {"model", "failed"} : task' = [task EXCEPT ![t].at = "answer", ![t].by = by2]
      BY <2>2
    <3>2. /\ task'[t].by = by2 /\ by2 # "refused"
          /\ \A u \in Threads : u # t => task'[u] = task[u]
      BY <3>1
    <3>3. task[t] \in ForecastTask
      OBVIOUS
    <3>4. [task[t] EXCEPT !.at = "answer", !.by = by2] \in ForecastTask
      BY <3>3 DEF ForecastTask
    <3>5. task' \in [Threads -> ForecastTask]
      BY <3>1, <3>4
    <3> QED BY <3>2, <3>5
  <2> QED BY <2>1, <2>2 DEF Forecasts!Works, Forecasts!Answer
<1>4. ForecastsTyped'
  BY <1>1, <1>2, <1>3 DEF ForecastTask
<1>5. BudgetTold' /\ RefusalsTold'
  BY <1>1, <1>3 DEF BudgetTold, RefusalsTold, Forecasts!UtcDay
<1> QED BY <1>2, <1>4, <1>5

LEMMA ForecastsHalfDay ==
  ASSUME ForecastsInv, Forecasts!HalfDay
  PROVE  ForecastsInv'
<1> USE ForecastsAssumed DEF ForecastsInv, ForecastsTyped, Forecasts!TypeOK
<1>1. /\ clock < MaxHalfDays /\ clock' = clock + 1 /\ UNCHANGED <<day, task, calls, granted>>
      /\ cache' = [k \in Forecasts!Keys |->
                     IF cache[k] # None /\ cache[k] > 0 THEN cache[k] - 1 ELSE cache[k]]
  BY DEF Forecasts!HalfDay, Forecasts!Cached
<1>2. ForecastsTyped'
  <2>1. cache' \in [Forecasts!Keys -> 0..ForecastTtl \cup {None}]
    BY <1>1
  <2> QED BY <1>1, <2>1
<1>3. BudgetTold'
  <2>1. /\ Forecasts!UtcDay' \in {Forecasts!UtcDay, Forecasts!UtcDay + 1} /\ Forecasts!UtcDay \in Nat
        /\ Forecasts!Days \subseteq Nat
    BY <1>1, Todays
  <2>2. clock' \in 0..MaxHalfDays /\ Forecasts!UtcDay' \in Forecasts!Days
    BY <1>1, ForecastsAssumed DEF Forecasts!UtcDay, Forecasts!Days
  <2>3. \A d \in Forecasts!Days : d > Forecasts!UtcDay' => d > Forecasts!UtcDay
    BY <2>1
  <2>4. CASE Forecasts!UtcDay' = Forecasts!UtcDay
    BY <1>1, <2>3, <2>4 DEF BudgetTold
  <2>5. CASE Forecasts!UtcDay' = Forecasts!UtcDay + 1
    <3>1. granted[Forecasts!UtcDay'] = 0
      BY <2>1, <2>2, <2>5 DEF BudgetTold
    <3> QED BY <1>1, <2>3, <3>1 DEF BudgetTold
  <2> QED BY <2>1, <2>4, <2>5
<1>4. RefusalsTold'
  BY <1>1 DEF RefusalsTold
<1>5. CacheSmall'
  BY <1>1, FewerHeld DEF HeldIn
<1> QED BY <1>2, <1>3, <1>4, <1>5

LEMMA ForecastsStep ==
  ASSUME ForecastsInv, [Forecasts!Next]_(Forecasts!vars)
  PROVE  ForecastsInv'
<1>1. CASE UNCHANGED Forecasts!vars
  BY <1>1 DEF Forecasts!vars, ForecastsInv, ForecastsTyped, Forecasts!TypeOK, BudgetTold, RefusalsTold,
              CacheSmall, HeldIn, Forecasts!UtcDay, ForecastTask
<1> QED BY <1>1, ForecastsAsk, ForecastsGuard, ForecastsWorks, ForecastsHalfDay DEF Forecasts!Next

LEMMA ForecastsPromised ==
  ForecastsInv => /\ Forecasts!TypeOK /\ Forecasts!ForecastsCapped /\ Forecasts!RefusalsAreHonest
                  /\ Forecasts!CacheBounded
BY SameCardinality DEF ForecastsInv, ForecastsTyped, BudgetTold, RefusalsTold, CacheSmall, HeldIn,
     Forecasts!ForecastsCapped, Forecasts!RefusalsAreHonest, Forecasts!CacheBounded, Forecasts!Cached

(* The forecast budget grants no UTC day more than its cap and refuses     *)
(* only when it is spent, with its day and the cache's turning over at     *)
(* different hours, and the cache never holds more than its limit.         *)
THEOREM ForecastsKept ==
  Forecasts!Spec => [](/\ Forecasts!TypeOK /\ Forecasts!ForecastsCapped /\ Forecasts!RefusalsAreHonest
                       /\ Forecasts!CacheBounded)
BY ForecastsPromised, ForecastsStart, ForecastsStep, PTL DEF Forecasts!Spec
-----------------------------------------------------------------------------
(* The relay between sites: no request has come further than its hops say, *)
(* a thread calls out only for one that may, and where one thread at a     *)
(* time spends the day's budget, what was granted is what was spent.       *)
Fines ==
  {r \in [call : Nat, depth : Nat, to : Sites, from : Site!Addresses, kind : Site!Kinds, hop : Nat,
          by : SiteThreads \cup {None}] : r.depth <= r.hop /\ r.depth <= MaxHop}

Spending == {"reset", "check", "add", "store"}

SiteTask(S) ==
  [at : {"write", "roll", "waiting", "answer"} \cup Spending, request : Fines,
   outcome : {"ok", "limited", "spent"}, minute : Nat, list : S, mine : Nat]

SiteTyped ==
  /\ wire \subseteq Fines /\ raced \subseteq Sites /\ clock \in 0..MaxMinutes /\ calls \in Nat
  /\ day \in [Sites -> [day : Site!Days \cup {None}, spent : Nat, made : Nat]]
  /\ granted \in [Sites -> [Site!Days -> Nat]]
  /\ \E S : task \in [SiteThreads -> {Site!Free} \cup SiteTask(S)]

CallsFine ==
  \A t \in SiteThreads :
    /\ task[t].at \in {"roll"} \cup Spending => task[t].request.hop < MaxHop
    /\ task[t].at = "reset" => task[t].list \in Site!Days

SpendersOf(s) == {t \in SiteThreads : SiteOf[t] = s /\ task[t].at \in Spending}

DayFine(s) ==
  /\ \A d \in Site!Days : granted[s][d] <= SiteCap
  /\ IF day[s].day = None THEN \A d \in Site!Days : granted[s][d] = 0
     ELSE /\ day[s].day <= Site!Today /\ granted[s][day[s].day] = day[s].spent
          /\ \A d \in Site!Days : d > day[s].day => granted[s][d] = 0
  /\ \A t, u \in SpendersOf(s) : t = u
  /\ \A t \in SpendersOf(s) :
       IF task[t].at = "reset"
       THEN /\ task[t].list \in Site!Days /\ task[t].list <= Site!Today
            /\ day[s].day = None \/ day[s].day < task[t].list
       ELSE /\ day[s].day # None
            /\ task[t].at = "add" => day[s].spent < SiteCap
            /\ task[t].at = "store" =>
                 /\ task[t].mine = day[s].spent /\ day[s].spent < SiteCap
                 /\ task[t].list = [made |-> day[s].made, day |-> day[s].day]

SiteInv == SiteTyped /\ CallsFine /\ \A s \in Sites \ raced : DayFine(s)

LEMMA SiteAssumed ==
  /\ Home \in Sites /\ SiteOf \in [SiteThreads -> Sites] /\ Hops \subseteq Nat
  /\ MaxHop \in Nat /\ PerIp \in Nat /\ SiteCap \in Nat /\ MaxMinutes \in Nat /\ MaxSiteCalls \in Nat
  /\ DayLength \in Nat /\ DayLength > 0
  /\ None \notin SiteThreads /\ None \notin Nat
BY MachinesAssumption DEF Site!ConstellationAssumption

(* A later minute is on a later day, or on the same.                       *)
LEMMA LaterDay ==
  ASSUME NEW m \in Nat, NEW c \in 0..m
  PROVE  c \div DayLength \in Nat /\ m \div DayLength \in Nat
         /\ c \div DayLength <= m \div DayLength
<1> USE SiteAssumed
<1>1. c = DayLength * (c \div DayLength) + (c % DayLength) /\ 0 <= c % DayLength /\ c % DayLength < DayLength
  OBVIOUS
<1>2. m = DayLength * (m \div DayLength) + (m % DayLength) /\ 0 <= m % DayLength /\ m % DayLength < DayLength
  OBVIOUS
<1>3. c \div DayLength \in Nat /\ m \div DayLength \in Nat
  OBVIOUS
<1>4. ASSUME c \div DayLength >= m \div DayLength + 1
      PROVE  FALSE
  <2>1. DayLength * (c \div DayLength) >= DayLength * (m \div DayLength + 1)
    BY <1>3, <1>4
  <2>2. DayLength * (m \div DayLength + 1) = DayLength * (m \div DayLength) + DayLength
    BY <1>3
  <2> QED BY <1>1, <1>2, <1>3, <2>1, <2>2
<1> QED BY <1>3, <1>4

LEMMA SiteToday ==
  ASSUME clock \in 0..MaxMinutes
  PROVE  Site!Today \in Site!Days /\ Site!Today \in Nat /\ Site!Days \subseteq Nat
BY SiteAssumed, LaterDay DEF Site!Today, Site!Days

LEMMA SiteStart ==
  ASSUME Site!Init
  PROVE  SiteInv
<1> USE SiteAssumed DEF Site!Init
<1>1. SiteTyped
  <2>1. task \in [SiteThreads -> {Site!Free} \cup SiteTask({})]
    OBVIOUS
  <2>2. day \in [Sites -> [day : Site!Days \cup {None}, spent : Nat, made : Nat]]
        /\ granted \in [Sites -> [Site!Days -> Nat]]
    OBVIOUS
  <2> QED BY <2>1, <2>2 DEF SiteTyped
<1>2. \A t \in SiteThreads : task[t].at = "idle"
  BY DEF Site!Free
<1>3. CallsFine /\ \A s \in Sites : DayFine(s)
  BY <1>2 DEF CallsFine, DayFine, SpendersOf, Spending
<1> QED BY <1>1, <1>3 DEF SiteInv

(* What goes on elsewhere, or spends nothing, leaves a site's day alone.   *)
LEMMA DayUndisturbed ==
  ASSUME NEW s \in Sites, SiteTyped, DayFine(s), day'[s] = day[s], granted'[s] = granted[s],
         clock' \in Nat, clock \in 0..clock',
         \A t \in SiteThreads :
           SiteOf[t] = s /\ task'[t].at \in Spending => task'[t] = task[t]
  PROVE  DayFine(s)'
<1> USE DEF SiteTyped
<1>1. Site!Today \in Nat /\ Site!Today' \in Nat /\ Site!Today <= Site!Today'
  BY LaterDay DEF Site!Today
<1>2. Site!Days \subseteq Nat
  BY SiteToday
<1>3. \A t \in SpendersOf(s)' : t \in SpendersOf(s) /\ task'[t] = task[t]
  BY DEF SpendersOf
<1>4. day[s].day # None => day[s].day \in Nat
  BY <1>2
<1>5. \A t \in SpendersOf(s) :
        task[t].at = "reset" => task[t].list \in Nat /\ task[t].list <= Site!Today
  BY <1>2 DEF DayFine
<1>6. \A d \in Site!Days : granted'[s][d] <= SiteCap
  BY DEF DayFine
<1>7. IF day'[s].day = None THEN \A d \in Site!Days : granted'[s][d] = 0
      ELSE /\ day'[s].day <= Site!Today' /\ granted'[s][day'[s].day] = day'[s].spent
           /\ \A d \in Site!Days : d > day'[s].day => granted'[s][d] = 0
  BY <1>1, <1>4 DEF DayFine
<1>8. \A t, u \in SpendersOf(s)' : t = u
  BY <1>3 DEF DayFine
<1>9. ASSUME NEW t \in SpendersOf(s)'
      PROVE  IF task'[t].at = "reset"
             THEN /\ task'[t].list \in Site!Days /\ task'[t].list <= Site!Today'
                  /\ day'[s].day = None \/ day'[s].day < task'[t].list
             ELSE /\ day'[s].day # None
                  /\ task'[t].at = "add" => day'[s].spent < SiteCap
                  /\ task'[t].at = "store" =>
                       /\ task'[t].mine = day'[s].spent /\ day'[s].spent < SiteCap
                       /\ task'[t].list = [made |-> day'[s].made, day |-> day'[s].day]
  BY <1>1, <1>3, <1>5 DEF DayFine
<1> QED BY <1>6, <1>7, <1>8, <1>9 DEF DayFine
LEMMA TaskMoves ==
  ASSUME NEW S, task \in [SiteThreads -> {Site!Free} \cup SiteTask(S)],
         NEW t \in SiteThreads, NEW R, NEW k \in {Site!Free} \cup SiteTask(R),
         task' = [task EXCEPT ![t] = k]
  PROVE  \E Q : task' \in [SiteThreads -> {Site!Free} \cup SiteTask(Q)]
<1>1. SiteTask(S) \subseteq SiteTask(S \cup R) /\ SiteTask(R) \subseteq SiteTask(S \cup R)
  BY DEF SiteTask
<1>2. task' \in [SiteThreads -> {Site!Free} \cup SiteTask(S \cup R)]
  BY <1>1
<1> QED BY <1>2

LEMMA SiteArrives ==
  ASSUME SiteInv,
         (\E kind \in Site!Kinds, from \in Callers, hop \in Hops : Site!Arrive(kind, from, hop))
         \/ Site!MinutePasses
  PROVE  SiteInv'
<1> USE SiteAssumed DEF SiteInv, SiteTyped
<1>1. /\ UNCHANGED <<task, day, granted, raced>> /\ clock' \in 0..MaxMinutes /\ clock' \in Nat
      /\ clock \in 0..clock' /\ calls' \in Nat
  BY DEF Site!Arrive, Site!MinutePasses
<1>2. wire' \subseteq Fines
  <2>1. CASE UNCHANGED wire
    BY <2>1
  <2>2. ASSUME NEW kind \in Site!Kinds, NEW from \in Callers, NEW hop \in Hops,
               Site!Arrive(kind, from, hop)
        PROVE  wire' \subseteq Fines
    <3>1. [call |-> calls, depth |-> 0, to |-> Home, from |-> from, kind |-> kind, hop |-> hop,
           by |-> None]
            \in [call : Nat, depth : Nat, to : Sites, from : Site!Addresses, kind : Site!Kinds,
                 hop : Nat, by : SiteThreads \cup {None}]
      BY DEF Site!Addresses
    <3>2. hop \in Nat /\ 0 <= hop /\ 0 <= MaxHop
      OBVIOUS
    <3> QED BY <2>2, <3>1, <3>2 DEF Site!Arrive, Fines
  <2> QED BY <2>1, <2>2 DEF Site!MinutePasses
<1>3. CallsFine'
  BY <1>1 DEF CallsFine
<1>4. \A s \in Sites \ raced' : DayFine(s)'
  BY <1>1, DayUndisturbed
<1> QED BY <1>1, <1>2, <1>3, <1>4

LEMMA SiteTakes ==
  ASSUME SiteInv, NEW t \in SiteThreads, NEW r \in wire, Site!Take(t, r)
  PROVE  SiteInv'
<1> USE SiteAssumed DEF SiteInv, SiteTyped
<1>1. PICK S : task \in [SiteThreads -> {Site!Free} \cup SiteTask(S)]
  OBVIOUS
<1>2. PICK at2 \in {"write", "answer"} :
        \E x : task' = [task EXCEPT ![t] = [at |-> at2, request |-> r, outcome |-> "ok",
                                            minute |-> clock, list |-> x, mine |-> 0]]
  BY DEF Site!Take
<1>3. PICK x : task' = [task EXCEPT ![t] = [at |-> at2, request |-> r, outcome |-> "ok",
                                            minute |-> clock, list |-> x, mine |-> 0]]
  BY <1>2
<1>4. /\ wire' = wire \ {r} /\ raced \subseteq raced' /\ raced' \subseteq Sites
      /\ UNCHANGED <<day, clock, calls, granted>>
  <2>1. wire' = wire \ {r} /\ UNCHANGED <<day, clock, calls, granted>>
    BY DEF Site!Take
  <2>2. raced' = raced \/ raced' = raced \cup {SiteOf[t]}
    BY DEF Site!Take, Site!Overlap
  <2> QED BY <2>1, <2>2
<1>5. [at |-> at2, request |-> r, outcome |-> "ok", minute |-> clock, list |-> x, mine |-> 0]
        \in SiteTask({x})
  BY DEF SiteTask
<1>6. SiteTyped'
  BY <1>1, <1>3, <1>4, <1>5, TaskMoves
<1>7. CallsFine'
  BY <1>1, <1>3 DEF CallsFine, Spending
<1>8. \A u \in SiteThreads : task'[u].at \in Spending => task'[u] = task[u]
  BY <1>1, <1>3 DEF Spending
<1>9. \A s \in Sites \ raced' : DayFine(s)'
  BY <1>4, <1>8, DayUndisturbed
<1> QED BY <1>6, <1>7, <1>9

LEMMA SiteWrites ==
  ASSUME SiteInv, NEW t \in SiteThreads, Site!LimitWrites(t)
  PROVE  SiteInv'
<1> USE SiteAssumed DEF SiteInv, SiteTyped
<1>1. PICK S : task \in [SiteThreads -> {Site!Free} \cup SiteTask(S)]
  OBVIOUS
<1>2. task[t] \in SiteTask(S) /\ task[t].request \in Fines
  BY <1>1 DEF Site!LimitWrites, Site!At, Site!Free, SiteTask
<1>3. PICK at2 \in {"answer", "roll"}, o \in {"limited", "ok"}, m \in Nat :
        /\ task' = [task EXCEPT ![t] = [task[t] EXCEPT !.at = at2, !.outcome = o, !.list = 0,
                                                       !.minute = m]]
        /\ at2 = "roll" => task[t].request.hop < MaxHop
  <2>1. task' = [task EXCEPT
           ![t].at = IF Site!Limited(task[t].list) \/ task[t].request.kind = "tool" \/ Site!TooDeep(task[t].request)
                     THEN "answer" ELSE "roll",
           ![t].outcome = IF Site!Limited(task[t].list) THEN "limited" ELSE "ok",
           ![t].list = 0, ![t].minute = IF Site!Limited(task[t].list) THEN @ ELSE 0]
    BY DEF Site!LimitWrites
  <2>2. task[t].request.hop \in Nat /\ task[t].minute \in Nat
    BY <1>2 DEF SiteTask, Fines
  <2>3. ~Site!TooDeep(task[t].request) => task[t].request.hop < MaxHop
    BY <2>2 DEF Site!TooDeep
  <2>4. CASE Site!Limited(task[t].list)
    BY <1>1, <1>2, <2>1, <2>2, <2>4
  <2>5. CASE ~Site!Limited(task[t].list)
    BY <1>1, <1>2, <2>1, <2>2, <2>3, <2>5
  <2> QED BY <2>4, <2>5
<1>4. /\ raced \subseteq raced' /\ raced' \subseteq Sites
      /\ UNCHANGED <<wire, day, clock, calls, granted>>
  BY DEF Site!LimitWrites
<1>5. [task[t] EXCEPT !.at = at2, !.outcome = o, !.list = 0, !.minute = m] \in SiteTask({0})
  BY <1>2 DEF SiteTask
<1>6. SiteTyped'
  BY <1>1, <1>3, <1>4, <1>5, TaskMoves
<1>7. CallsFine'
  <2>1. task'[t].at = at2 /\ task'[t].request = task[t].request
    BY <1>1, <1>2, <1>3 DEF SiteTask
  <2>2. at2 \in {"roll"} \cup Spending => at2 = "roll"
    BY DEF Spending
  <2> QED BY <1>1, <1>3, <2>1, <2>2 DEF CallsFine
<1>8. \A u \in SiteThreads : task'[u].at \in Spending => task'[u] = task[u]
  BY <1>1, <1>2, <1>3 DEF Spending, SiteTask
<1>9. \A s \in Sites \ raced' : DayFine(s)'
  BY <1>4, <1>8, DayUndisturbed
<1> QED BY <1>6, <1>7, <1>9
(* A thread's step on its own site's day is no other site's.               *)
LEMMA DaySpent ==
  ASSUME SiteInv, NEW t \in SiteThreads, NEW k, task' = [task EXCEPT ![t] = k],
         clock' = clock, raced \subseteq raced',
         \A o \in Sites : o # SiteOf[t] => day'[o] = day[o] /\ granted'[o] = granted[o],
         SiteOf[t] \notin raced' => DayFine(SiteOf[t])'
  PROVE  \A o \in Sites \ raced' : DayFine(o)'
<1> USE SiteAssumed DEF SiteInv, SiteTyped
<1> SUFFICES ASSUME NEW o \in Sites, o \notin raced', o # SiteOf[t]
             PROVE  DayFine(o)'
  OBVIOUS
<1>1. \A u \in SiteThreads : SiteOf[u] = o => task'[u] = task[u]
  OBVIOUS
<1>2. clock' \in Nat /\ clock \in 0..clock'
  OBVIOUS
<1> QED BY <1>1, <1>2, DayUndisturbed

(* Once a site's only spender moves, nobody else spends there.             *)
LEMMA OnlySpender ==
  ASSUME SiteInv, NEW t \in SiteThreads, NEW k, task' = [task EXCEPT ![t] = k],
         SiteOf[t] \notin raced, SpendersOf(SiteOf[t]) \subseteq {t}
  PROVE  /\ SpendersOf(SiteOf[t])' \subseteq {t}
         /\ DayFine(SiteOf[t]) /\ task'[t] = k
<1>1. DayFine(SiteOf[t])
  BY SiteAssumed DEF SiteInv
<1>2. task'[t] = k /\ \A u \in SiteThreads : u # t => task'[u] = task[u]
  BY DEF SiteInv, SiteTyped
<1> QED BY <1>1, <1>2 DEF SpendersOf

LEMMA Alone ==
  ASSUME SiteInv, NEW t \in SiteThreads, SiteOf[t] \notin raced, task[t].at \in Spending
  PROVE  SpendersOf(SiteOf[t]) \subseteq {t} /\ t \in SpendersOf(SiteOf[t]) /\ DayFine(SiteOf[t])
<1>1. t \in SpendersOf(SiteOf[t])
  BY DEF SpendersOf
<1>2. DayFine(SiteOf[t])
  BY SiteAssumed DEF SiteInv
<1> QED BY <1>1, <1>2 DEF DayFine

LEMMA SiteRolls ==
  ASSUME SiteInv, NEW t \in SiteThreads, Site!Rolls(t)
  PROVE  SiteInv'
<1> DEFINE s == SiteOf[t]
           at2 == IF day[s].day = Site!Today THEN "check" ELSE "reset"
           k == [task[t] EXCEPT !.list = Site!Today, !.at = at2]
<1> USE SiteAssumed
<1>1. PICK S : task \in [SiteThreads -> {Site!Free} \cup SiteTask(S)]
  BY DEF SiteInv, SiteTyped
<1>2. task[t] \in SiteTask(S) /\ task[t].at = "roll" /\ s \in Sites
  BY <1>1 DEF Site!Rolls, Site!At, Site!Free
<1>3. /\ task' = [task EXCEPT ![t] = k] /\ UNCHANGED <<wire, day, clock, calls, granted>>
      /\ raced \subseteq raced' /\ raced' \subseteq Sites
      /\ s \notin raced' => \A u \in SiteThreads : u # t /\ SiteOf[u] = s => task[u].at \notin Spending
  <2>1. UNCHANGED <<wire, day, clock, calls, granted>>
    BY DEF Site!Rolls
  <2>2. task' = [task EXCEPT ![t] = k]
    BY <1>1, <1>2 DEF Site!Rolls
  <2>3. raced' = (IF \E u \in SiteThreads \ {t} : SiteOf[u] = s /\ task[u].at \in Spending
                  THEN raced \cup {s} ELSE raced)
    BY DEF Site!Rolls, Site!Overlap, Spending
  <2> QED BY <1>2, <2>1, <2>2, <2>3 DEF SiteInv, SiteTyped
<1>4. k \in SiteTask({Site!Today}) /\ k.at = at2 /\ k.list = Site!Today /\ k.request = task[t].request
  BY <1>2 DEF SiteTask, Spending
<1>5. Site!Today \in Site!Days /\ Site!Today \in Nat /\ Site!Days \subseteq Nat
  BY SiteToday DEF SiteInv, SiteTyped
<1> HIDE DEF k
<1>6. SiteTyped'
  BY <1>1, <1>3, <1>4, TaskMoves DEF SiteInv, SiteTyped
<1>7. CallsFine'
  <2>1. task[t].request.hop < MaxHop
    BY <1>2 DEF SiteInv, CallsFine
  <2> QED BY <1>1, <1>3, <1>4, <1>5, <2>1 DEF SiteInv, CallsFine
<1>8. ASSUME s \notin raced' PROVE DayFine(s)'
  <2>1. SpendersOf(s) \subseteq {t} /\ s \notin raced
    BY <1>3, <1>8 DEF SpendersOf
  <2>2. SpendersOf(s)' \subseteq {t} /\ DayFine(s) /\ task'[t] = k
    BY <1>3, <2>1, OnlySpender
  <2>3. Site!Today' = Site!Today
    BY <1>3 DEF Site!Today
  <2>4. day[s].day # None => day[s].day \in Nat
    BY <1>2, <1>5 DEF SiteInv, SiteTyped
  <2> QED BY <1>3, <1>4, <1>5, <2>2, <2>3, <2>4 DEF DayFine
<1>9. \A o \in Sites \ raced' : DayFine(o)'
  BY <1>3, <1>8, DaySpent
<1> QED BY <1>6, <1>7, <1>9 DEF SiteInv

LEMMA SiteResets ==
  ASSUME SiteInv, NEW t \in SiteThreads, Site!Resets(t)
  PROVE  SiteInv'
<1> DEFINE s == SiteOf[t]
           k == [task[t] EXCEPT !.at = "check"]
<1> USE SiteAssumed
<1>1. PICK S : task \in [SiteThreads -> {Site!Free} \cup SiteTask(S)]
  BY DEF SiteInv, SiteTyped
<1>2. task[t] \in SiteTask(S) /\ task[t].at = "reset" /\ s \in Sites
  BY <1>1 DEF Site!Resets, Site!At, Site!Free
<1>3. /\ task' = [task EXCEPT ![t] = k] /\ UNCHANGED <<wire, clock, calls, granted, raced>>
      /\ day' = [day EXCEPT ![s] = [day |-> task[t].list, spent |-> 0, made |-> day[s].made + 1]]
  <2>1. day' = [day EXCEPT ![s] = [day |-> task[t].list, spent |-> 0, made |-> day[s].made + 1]]
    BY <1>2 DEF Site!Resets, Site!NewList, SiteInv, SiteTyped
  <2> QED BY <1>1, <1>2, <2>1 DEF Site!Resets, Site!Goes
<1>4. k \in SiteTask(S) /\ k.at = "check" /\ k.request = task[t].request
  BY <1>2 DEF SiteTask, Spending
<1>5. Site!Today \in Nat /\ Site!Days \subseteq Nat
  BY SiteToday DEF SiteInv, SiteTyped
<1> HIDE DEF k
<1>6. task[t].list \in Site!Days
  BY <1>2 DEF SiteInv, CallsFine
<1>7. SiteTyped'
  <2>1. day' \in [Sites -> [day : Site!Days \cup {None}, spent : Nat, made : Nat]]
    BY <1>2, <1>3, <1>6 DEF SiteInv, SiteTyped
  <2> QED BY <1>1, <1>3, <1>4, <2>1, TaskMoves DEF SiteInv, SiteTyped
<1>8. CallsFine'
  <2>1. task[t].request.hop < MaxHop
    BY <1>2 DEF SiteInv, CallsFine, Spending
  <2> QED BY <1>1, <1>3, <1>4, <2>1 DEF SiteInv, CallsFine
<1>9. ASSUME s \notin raced' PROVE DayFine(s)'
  <2>1. SpendersOf(s) \subseteq {t}
    BY <1>2, <1>3, <1>9, Alone DEF Spending
  <2>2. SpendersOf(s)' \subseteq {t} /\ DayFine(s) /\ task'[t] = k
    BY <1>3, <1>9, <2>1, OnlySpender
  <2>3. Site!Today' = Site!Today
    BY <1>3 DEF Site!Today
  <2>4. day'[s] = [day |-> task[t].list, spent |-> 0, made |-> day[s].made + 1]
    BY <1>2, <1>3 DEF SiteInv, SiteTyped
  <2>5. /\ task[t].list \in Nat /\ task[t].list # None /\ task[t].list <= Site!Today
        /\ day[s].day = None \/ (day[s].day \in Nat /\ day[s].day < task[t].list)
    <3>1. t \in SpendersOf(s)
      BY <1>2 DEF SpendersOf, Spending
    <3>2. day[s].day # None => day[s].day \in Nat
      BY <1>2, <1>5 DEF SiteInv, SiteTyped
    <3> QED BY <1>2, <1>5, <1>6, <2>2, <3>1, <3>2 DEF DayFine
  <2>6. \A d \in Site!Days : d >= task[t].list => granted[s][d] = 0
    BY <1>5, <2>2, <2>5 DEF DayFine
  <2>7. \A d \in Site!Days : granted'[s][d] <= SiteCap
    BY <1>3, <2>2 DEF DayFine
  <2> QED BY <1>3, <1>4, <1>5, <1>6, <2>2, <2>3, <2>4, <2>5, <2>6, <2>7 DEF DayFine
<1>10. \A o \in Sites \ raced' : DayFine(o)'
  <2>1. \A o \in Sites : o # s => day'[o] = day[o] /\ granted'[o] = granted[o]
    BY <1>3 DEF SiteInv, SiteTyped
  <2> QED BY <1>3, <1>9, <2>1, DaySpent
<1> QED BY <1>7, <1>8, <1>10 DEF SiteInv
LEMMA SiteChecks ==
  ASSUME SiteInv, NEW t \in SiteThreads, Site!Checks(t)
  PROVE  SiteInv'
<1> DEFINE s == SiteOf[t]
           at2 == IF day[s].spent >= SiteCap THEN "answer" ELSE "add"
           o2 == IF day[s].spent >= SiteCap THEN "spent" ELSE "ok"
           k == [task[t] EXCEPT !.at = at2, !.outcome = o2, !.list = day[s].day]
<1> USE SiteAssumed
<1>1. PICK S : task \in [SiteThreads -> {Site!Free} \cup SiteTask(S)]
  BY DEF SiteInv, SiteTyped
<1>2. task[t] \in SiteTask(S) /\ task[t].at = "check" /\ s \in Sites
  BY <1>1 DEF Site!Checks, Site!At, Site!Free
<1>3. task' = [task EXCEPT ![t] = k] /\ UNCHANGED <<wire, day, clock, calls, granted, raced>>
  BY <1>1, <1>2 DEF Site!Checks, Site!Spent
<1>4. k \in SiteTask({day[s].day}) /\ k.at = at2 /\ k.request = task[t].request
  BY <1>2 DEF SiteTask, Spending
<1>5. day[s].spent \in Nat
  BY <1>2 DEF SiteInv, SiteTyped
<1> HIDE DEF k
<1>6. SiteTyped'
  BY <1>1, <1>3, <1>4, TaskMoves DEF SiteInv, SiteTyped
<1>7. CallsFine'
  <2>1. task[t].request.hop < MaxHop
    BY <1>2 DEF SiteInv, CallsFine, Spending
  <2> QED BY <1>1, <1>3, <1>4, <2>1 DEF SiteInv, CallsFine
<1>8. ASSUME s \notin raced' PROVE DayFine(s)'
  <2>1. SpendersOf(s) \subseteq {t} /\ t \in SpendersOf(s)
    BY <1>2, <1>3, <1>8, Alone DEF Spending
  <2>2. SpendersOf(s)' \subseteq {t} /\ DayFine(s) /\ task'[t] = k
    BY <1>3, <1>8, <2>1, OnlySpender
  <2>3. Site!Today' = Site!Today
    BY <1>3 DEF Site!Today
  <2>4. day[s].day # None
    BY <1>2, <2>1, <2>2 DEF DayFine
  <2> QED BY <1>3, <1>4, <1>5, <2>2, <2>3, <2>4 DEF DayFine
<1>9. \A o \in Sites \ raced' : DayFine(o)'
  BY <1>3, <1>8, DaySpent
<1> QED BY <1>6, <1>7, <1>9 DEF SiteInv

LEMMA SiteAdds ==
  ASSUME SiteInv, NEW t \in SiteThreads, Site!Adds(t)
  PROVE  SiteInv'
<1> DEFINE s == SiteOf[t]
           held == [made |-> day[s].made, day |-> day[s].day]
           k == [task[t] EXCEPT !.at = "store", !.mine = day[s].spent, !.list = held]
<1> USE SiteAssumed
<1>1. PICK S : task \in [SiteThreads -> {Site!Free} \cup SiteTask(S)]
  BY DEF SiteInv, SiteTyped
<1>2. task[t] \in SiteTask(S) /\ task[t].at = "add" /\ s \in Sites
  BY <1>1 DEF Site!Adds, Site!At, Site!Free
<1>3. task' = [task EXCEPT ![t] = k] /\ UNCHANGED <<wire, day, clock, calls, granted, raced>>
  BY <1>1, <1>2 DEF Site!Adds
<1>4. day[s].spent \in Nat
  BY <1>2 DEF SiteInv, SiteTyped
<1>5. /\ k \in SiteTask({held}) /\ k.at = "store" /\ k.request = task[t].request
      /\ k.mine = day[s].spent /\ k.list = held
  BY <1>2, <1>4 DEF SiteTask, Spending
<1> HIDE DEF k
<1>6. SiteTyped'
  BY <1>1, <1>3, <1>5, TaskMoves DEF SiteInv, SiteTyped
<1>7. CallsFine'
  <2>1. task[t].request.hop < MaxHop
    BY <1>2 DEF SiteInv, CallsFine, Spending
  <2> QED BY <1>1, <1>3, <1>5, <2>1 DEF SiteInv, CallsFine
<1>8. ASSUME s \notin raced' PROVE DayFine(s)'
  <2>1. SpendersOf(s) \subseteq {t} /\ t \in SpendersOf(s)
    BY <1>2, <1>3, <1>8, Alone DEF Spending
  <2>2. SpendersOf(s)' \subseteq {t} /\ DayFine(s) /\ task'[t] = k
    BY <1>3, <1>8, <2>1, OnlySpender
  <2>3. Site!Today' = Site!Today
    BY <1>3 DEF Site!Today
  <2>4. day[s].day # None /\ day[s].spent < SiteCap
    BY <1>2, <2>1, <2>2 DEF DayFine
  <2> QED BY <1>3, <1>5, <2>2, <2>3, <2>4 DEF DayFine
<1>9. \A o \in Sites \ raced' : DayFine(o)'
  BY <1>3, <1>8, DaySpent
<1> QED BY <1>6, <1>7, <1>9 DEF SiteInv

LEMMA SiteStores ==
  ASSUME SiteInv, NEW t \in SiteThreads, NEW to \in Sites, NEW kind \in Site!Kinds,
         Site!Stores(t, to, kind)
  PROVE  SiteInv'
<1> DEFINE s == SiteOf[t]
           r == task[t].request
           sent2 == [call |-> r.call, depth |-> r.depth + 1, to |-> to, from |-> s, kind |-> kind,
                     hop |-> r.hop + 1, by |-> t]
           k == [task[t] EXCEPT !.at = "waiting", !.list = None, !.mine = 0]
<1> USE SiteAssumed
<1>1. PICK S : task \in [SiteThreads -> {Site!Free} \cup SiteTask(S)]
  BY DEF SiteInv, SiteTyped
<1>2. task[t] \in SiteTask(S) /\ task[t].at = "store" /\ s \in Sites /\ r \in Fines
      /\ task[t].mine \in Nat
  <2>1. task[t] \in SiteTask(S) /\ task[t].at = "store" /\ s \in Sites
    BY <1>1 DEF Site!Stores, Site!At, Site!Free
  <2> QED BY <2>1 DEF SiteTask
<1>3. /\ task' = [task EXCEPT ![t] = k] /\ UNCHANGED <<clock, calls, raced>>
      /\ day' = (IF day[s].made = task[t].list.made THEN [day EXCEPT ![s].spent = task[t].mine + 1] ELSE day)
      /\ granted' = [granted EXCEPT ![s][task[t].list.day] = @ + 1]
      /\ wire' = wire \cup {sent2}
  <2>1. task' = [task EXCEPT ![t] = k]
    BY <1>1, <1>2 DEF Site!Stores
  <2> QED BY <2>1 DEF Site!Stores, Site!NextHop
<1>4. k \in SiteTask({None}) /\ k.at = "waiting" /\ k.request = r
  BY <1>2 DEF SiteTask, Spending
<1> HIDE DEF k
<1>5. sent2 \in Fines
  <2>1. r.hop < MaxHop
    BY <1>2 DEF SiteInv, CallsFine, Spending
  <2>2. /\ r.call \in Nat /\ r.depth \in Nat /\ r.hop \in Nat /\ r.depth <= r.hop
    BY <1>2 DEF Fines
  <2>3. r.depth + 1 <= r.hop + 1 /\ r.depth + 1 <= MaxHop /\ r.depth + 1 \in Nat /\ r.hop + 1 \in Nat
    BY <2>1, <2>2
  <2>4. s \in Site!Addresses
    BY <1>2 DEF Site!Addresses
  <2> QED BY <2>2, <2>3, <2>4 DEF Fines
<1>6. SiteTyped'
  <2>1. day' \in [Sites -> [day : Site!Days \cup {None}, spent : Nat, made : Nat]]
    <3>1. task[t].mine + 1 \in Nat
      BY <1>2
    <3> QED BY <1>2, <1>3, <3>1 DEF SiteInv, SiteTyped
  <2>2. granted' \in [Sites -> [Site!Days -> Nat]]
    <3>1. granted[s] \in [Site!Days -> Nat]
      BY <1>2 DEF SiteInv, SiteTyped
    <3>2. ASSUME NEW f \in [Site!Days -> Nat], NEW d
          PROVE  [f EXCEPT ![d] = @ + 1] \in [Site!Days -> Nat]
      <4>1. d \in Site!Days => f[d] + 1 \in Nat
        OBVIOUS
      <4> QED BY <4>1
    <3> QED BY <1>2, <1>3, <3>1, <3>2 DEF SiteInv, SiteTyped
  <2> HIDE DEF sent2
  <2>3. wire' \subseteq Fines
    BY <1>3, <1>5 DEF SiteInv, SiteTyped
  <2> QED BY <1>1, <1>3, <1>4, <2>1, <2>2, <2>3, TaskMoves DEF SiteInv, SiteTyped
<1>7. CallsFine'
  BY <1>1, <1>3, <1>4 DEF SiteInv, CallsFine, Spending
<1>8. ASSUME s \notin raced' PROVE DayFine(s)'
  <2>1. SpendersOf(s) \subseteq {t} /\ t \in SpendersOf(s)
    BY <1>2, <1>3, <1>8, Alone DEF Spending
  <2>2. SpendersOf(s)' = {} /\ DayFine(s)
    <3>1. SpendersOf(s)' \subseteq {t} /\ DayFine(s) /\ task'[t] = k
      BY <1>3, <1>8, <2>1, OnlySpender
    <3>2. t \notin SpendersOf(s)'
      BY <1>4, <3>1 DEF SpendersOf, Spending
    <3> QED BY <3>1, <3>2
  <2>3. /\ day[s].day # None /\ task[t].mine = day[s].spent /\ day[s].spent < SiteCap
        /\ task[t].list = [made |-> day[s].made, day |-> day[s].day]
    BY <1>2, <2>1, <2>2 DEF DayFine
  <2>4. day[s].day \in Site!Days /\ day[s].day \in Nat /\ Site!Days \subseteq Nat
    BY <1>2, <2>3, SiteToday DEF SiteInv, SiteTyped
  <2>5. /\ day'[s] = [day[s] EXCEPT !.spent = day[s].spent + 1]
        /\ day'[s].day = day[s].day /\ day'[s].spent = day[s].spent + 1
    BY <1>2, <1>3, <2>3 DEF SiteInv, SiteTyped
  <2>6. /\ granted'[s][day[s].day] = granted[s][day[s].day] + 1
        /\ \A d \in Site!Days : d # day[s].day => granted'[s][d] = granted[s][d]
    <3>1. granted[s] \in [Site!Days -> Nat] /\ granted \in [Sites -> [Site!Days -> Nat]]
      BY <1>2 DEF SiteInv, SiteTyped
    <3>2. granted'[s] = [granted[s] EXCEPT ![day[s].day] = @ + 1]
      BY <1>2, <1>3, <2>3, <3>1
    <3> QED BY <2>4, <3>1, <3>2
  <2>7. day[s].spent \in Nat /\ granted[s][day[s].day] = day[s].spent
    BY <1>2, <2>2, <2>3 DEF DayFine, SiteInv, SiteTyped
  <2>8. Site!Today' = Site!Today
    BY <1>3 DEF Site!Today
  <2>9. \A d \in Site!Days : granted'[s][d] <= SiteCap
    BY <2>2, <2>3, <2>6, <2>7 DEF DayFine
  <2>10. /\ day'[s].day <= Site!Today' /\ granted'[s][day'[s].day] = day'[s].spent
         /\ \A d \in Site!Days : d > day'[s].day => granted'[s][d] = 0
    BY <2>2, <2>3, <2>4, <2>5, <2>6, <2>7, <2>8 DEF DayFine
  <2> QED BY <2>2, <2>3, <2>5, <2>9, <2>10 DEF DayFine
<1>9. \A o \in Sites \ raced' : DayFine(o)'
  <2>1. \A o \in Sites : o # s => day'[o] = day[o] /\ granted'[o] = granted[o]
    BY <1>3 DEF SiteInv, SiteTyped
  <2> QED BY <1>3, <1>8, <2>1, DaySpent
<1> QED BY <1>6, <1>7, <1>9 DEF SiteInv
LEMMA SiteAnswers ==
  ASSUME SiteInv, NEW t \in SiteThreads, Site!Answers(t) \/ Site!TimesOut(t)
  PROVE  SiteInv'
<1> USE SiteAssumed DEF SiteInv, SiteTyped
<1>1. PICK S : task \in [SiteThreads -> {Site!Free} \cup SiteTask(S)]
  OBVIOUS
<1>2. UNCHANGED <<wire, day, clock, calls, granted, raced>>
  BY DEF Site!Answers, Site!TimesOut
(* Whoever gives up or is answered only goes on to its own answer.         *)
<1>3. ASSUME NEW u \in SiteThreads, task[u].at = "waiting"
      PROVE  [task[u] EXCEPT !.at = "answer"] \in SiteTask(S)
  <2>1. task[u] \in SiteTask(S)
    BY <1>1, <1>3 DEF Site!Free
  <2> QED BY <2>1 DEF SiteTask
<1>4. /\ task' \in [SiteThreads -> {Site!Free} \cup SiteTask(S)]
      /\ \A u \in SiteThreads : task'[u].at \notin {"idle", "answer"} => task'[u] = task[u]
  <2>1. CASE Site!TimesOut(t)
    <3>1. task[t].at = "waiting" /\ task' = [task EXCEPT ![t].at = "answer"]
      BY <2>1 DEF Site!TimesOut, Site!At, Site!Goes
    <3>2. task' = [task EXCEPT ![t] = [task[t] EXCEPT !.at = "answer"]]
      BY <1>1, <3>1
    <3>3. [task[t] EXCEPT !.at = "answer"].at = "answer"
      BY <1>3, <3>1, <1>1 DEF SiteTask, Site!Free
    <3> QED BY <1>1, <1>3, <3>1, <3>2, <3>3
  <2>2. CASE Site!Answers(t)
    <3> DEFINE r == task[t].request
               rest == [task EXCEPT ![t] = Site!Free]
    <3>1. /\ rest \in [SiteThreads -> {Site!Free} \cup SiteTask(S)]
          /\ \A u \in SiteThreads : u # t => rest[u] = task[u]
          /\ rest[t].at = "idle"
      BY <1>1 DEF Site!Free
    <3>2. CASE ~Site!WaitsFor(r.by, r)
      BY <2>2, <3>1, <3>2 DEF Site!Answers
    <3>3. CASE Site!WaitsFor(r.by, r)
      <4>1. task[t] \in SiteTask(S) /\ r \in Fines
        BY <1>1, <2>2 DEF Site!Answers, Site!At, Site!Free, SiteTask
      <4>2. r.by \in SiteThreads /\ task[r.by].at = "waiting" /\ r.by # t
        BY <2>2, <3>3, <4>1 DEF Site!Answers, Site!WaitsFor, Site!At, Fines
      <4>3. task' = [rest EXCEPT ![r.by] = [task[r.by] EXCEPT !.at = "answer"]]
        BY <2>2, <3>1, <3>3, <4>2 DEF Site!Answers
      <4>4. [task[r.by] EXCEPT !.at = "answer"].at = "answer"
        BY <1>1, <4>2 DEF SiteTask, Site!Free
      <4> HIDE DEF rest
      <4> QED BY <1>3, <3>1, <4>2, <4>3, <4>4
    <3> QED BY <3>2, <3>3
  <2> QED BY <2>1, <2>2
<1>5. SiteTyped'
  BY <1>2, <1>4
<1>6. CallsFine'
  BY <1>4 DEF CallsFine, Spending
<1>7. \A u \in SiteThreads : task'[u].at \in Spending => task'[u] = task[u]
  BY <1>4 DEF Spending
<1>8. \A s \in Sites \ raced' : DayFine(s)'
  <2>1. clock' \in Nat /\ clock \in 0..clock'
    BY <1>2
  <2> QED BY <1>2, <1>7, <2>1, DayUndisturbed
<1> QED BY <1>5, <1>6, <1>8

LEMMA SiteStep ==
  ASSUME SiteInv, [Site!Next]_(Site!vars)
  PROVE  SiteInv'
<1>1. CASE UNCHANGED Site!vars
  <2>1. SiteTyped' /\ CallsFine'
    BY <1>1 DEF Site!vars, SiteInv, SiteTyped, CallsFine
  <2>2. \A s \in Sites \ raced' : DayFine(s)'
    BY <1>1 DEF Site!vars, SiteInv, DayFine, SpendersOf, Site!Today
  <2> QED BY <2>1, <2>2 DEF SiteInv
<1> QED BY <1>1, SiteArrives, SiteTakes, SiteWrites, SiteRolls, SiteResets, SiteChecks, SiteAdds,
           SiteStores, SiteAnswers DEF Site!Next

LEMMA SitePromised == SiteInv => Site!HopsBounded /\ Site!BudgetHolds
<1>1. SiteInv => Site!HopsBounded
  <2> SUFFICES ASSUME SiteInv PROVE Site!HopsBounded
    OBVIOUS
  <2>1. \A r \in wire : r.depth <= MaxHop
    BY DEF SiteInv, SiteTyped, Fines
  <2>2. ASSUME NEW t \in SiteThreads, task[t].at # "idle" PROVE task[t].request \in Fines
    BY <2>2 DEF SiteInv, SiteTyped, SiteTask, Site!Free
  <2>3. \A t \in SiteThreads : task[t].at # "idle" => task[t].request.depth <= MaxHop
    BY <2>2 DEF Fines
  <2> QED BY <2>1, <2>3 DEF Site!HopsBounded, Site!At
<1>2. SiteInv => Site!BudgetHolds
  BY DEF SiteInv, DayFine, Site!BudgetHolds
<1> QED BY <1>1, <1>2

(* The counts, whoever races: no list holds more calls of its minute than  *)
(* were let in then, what a thread read is not above that either, and what *)
(* is spent of a day not above what was granted.                           *)
Minutes == 0..MaxMinutes
LetIn(t) == admitted[SiteOf[t]][task[t].request.from][task[t].minute]

AddressFine(s, a) ==
  /\ seen[s][a].minute <= clock /\ seen[s][a].calls <= admitted[s][a][seen[s][a].minute]
  /\ \A m \in Minutes : m > clock => admitted[s][a][m] = 0

CallerFine(t) ==
  /\ task[t].at = "write" => /\ task[t].list \in Nat /\ task[t].minute <= clock
                             /\ task[t].list <= LetIn(t)
  /\ task[t].at = "answer" /\ task[t].outcome = "limited" =>
       task[t].minute \in Minutes /\ LetIn(t) >= PerIp
  /\ task[t].at \notin {"idle", "answer"} => task[t].outcome = "ok"

SpenderFine(t) ==
  LET d == day[SiteOf[t]]
      h == task[t].list
      g == granted[SiteOf[t]]
  IN  /\ task[t].at \in {"check", "add", "store"} => d.day # None
      /\ task[t].at = "store" =>
           /\ h \in [made : Nat, day : Site!Days] /\ h.made <= d.made
           /\ h.made = d.made => h.day = d.day
           /\ task[t].mine <= g[h.day]
      /\ task[t].at = "answer" /\ task[t].outcome = "spent" => h \in Site!Days /\ g[h] >= SiteCap

ListFine(s) == day[s].day # None => day[s].spent <= granted[s][day[s].day]

(* Where no two threads counted at once, what the one that counts read is  *)
(* what was let in, and nobody was since.                                  *)
WritersOf(s) == {t \in SiteThreads : SiteOf[t] = s /\ task[t].at = "write"}
Recent(s, a) == IF seen[s][a].minute = clock THEN seen[s][a].calls ELSE 0

CountFine(s) ==
  /\ \A a \in Site!Addresses :
       /\ admitted[s][a][clock] = Recent(s, a)
       /\ \A m \in Minutes : admitted[s][a][m] <= PerIp
  /\ \A t \in WritersOf(s) :
       /\ \A u \in WritersOf(s) : t = u
       /\ task[t].list = LetIn(t)
       /\ \A a \in Site!Addresses, m \in Minutes : m > task[t].minute => admitted[s][a][m] = 0

CountsTyped ==
  /\ seen \in [Sites -> [Site!Addresses -> [minute : Minutes, calls : Nat]]]
  /\ admitted \in [Sites -> [Site!Addresses -> [Minutes -> Nat]]]
  /\ calls \in 0..MaxSiteCalls

CountsFine ==
  /\ \A s \in Sites : ListFine(s) /\ \A a \in Site!Addresses : AddressFine(s, a)
  /\ \A t \in SiteThreads : CallerFine(t) /\ SpenderFine(t)
  /\ \A s \in Sites \ raced : CountFine(s)

SiteCounts == SiteInv /\ CountsTyped /\ CountsFine

LEMMA CallFields ==
  ASSUME SiteInv, NEW t \in SiteThreads
  PROVE  /\ SiteOf[t] \in Sites
         /\ task[t].at \in {"idle", "write", "roll", "waiting", "answer"} \cup Spending
         /\ task[t].at # "idle" =>
              /\ \E S : task[t] \in SiteTask(S)
              /\ task[t].request \in Fines /\ task[t].request.from \in Site!Addresses
              /\ task[t].minute \in Nat /\ task[t].mine \in Nat
              /\ task[t].outcome \in {"ok", "limited", "spent"}
<1> USE SiteAssumed
<1>1. PICK S : task \in [SiteThreads -> {Site!Free} \cup SiteTask(S)]
  BY DEF SiteInv, SiteTyped
<1>2. task[t] = Site!Free \/ task[t] \in SiteTask(S)
  BY <1>1
<1>3. CASE task[t] = Site!Free
  BY <1>3 DEF Site!Free
<1>4. CASE task[t] \in SiteTask(S)
  <2>1. /\ task[t].at \in {"write", "roll", "waiting", "answer"} \cup Spending
        /\ task[t].request \in Fines /\ task[t].minute \in Nat /\ task[t].mine \in Nat
        /\ task[t].outcome \in {"ok", "limited", "spent"}
    BY <1>4 DEF SiteTask
  <2>2. task[t].request.from \in Site!Addresses
    BY <2>1 DEF Fines
  <2> QED BY <1>4, <2>1, <2>2
<1> QED BY <1>2, <1>3, <1>4

(* A thread moves alone.                                                   *)
LEMMA MovesAlone ==
  ASSUME SiteInv, NEW t \in SiteThreads, NEW k, task' = [task EXCEPT ![t] = k]
  PROVE  task'[t] = k /\ \A u \in SiteThreads \ {t} : task'[u] = task[u]
BY DEF SiteInv, SiteTyped

(* Calls that are let in meanwhile leave what a caller was told true.      *)
LEMMA CallerStands ==
  ASSUME SiteCounts, NEW t \in SiteThreads, task'[t] = task[t], clock' \in Nat, clock <= clock',
         \A s \in Sites, a \in Site!Addresses, m \in Minutes :
           admitted'[s][a][m] \in Nat /\ admitted[s][a][m] <= admitted'[s][a][m]
  PROVE  CallerFine(t)'
<1> USE SiteAssumed
<1>1. SiteInv /\ CallerFine(t) /\ clock \in Minutes /\ clock \in Nat
  BY DEF SiteCounts, CountsFine, SiteInv, SiteTyped, Minutes
<1>2. CASE task[t].at \in {"write", "answer"}
  <2>1. SiteOf[t] \in Sites /\ task[t].request.from \in Site!Addresses /\ task[t].minute \in Nat
    BY <1>1, <1>2, CallFields
  <2>2. task[t].minute <= clock => task[t].minute \in Minutes
    BY <1>1, <2>1 DEF Minutes
  <2>3. task[t].minute \in Minutes => LetIn(t) \in Nat /\ LetIn(t)' \in Nat /\ LetIn(t) <= LetIn(t)'
    <3>1. LetIn(t)' = admitted'[SiteOf[t]][task[t].request.from][task[t].minute]
      BY DEF LetIn
    <3>2. task[t].minute \in Minutes => LetIn(t) \in Nat
      BY <2>1 DEF LetIn, SiteCounts, CountsTyped
    <3> QED BY <2>1, <3>1, <3>2 DEF LetIn
  <2>4. task[t].at = "write" => /\ task[t].list \in Nat /\ task[t].minute <= clock' /\ task[t].list <= LetIn(t)'
    BY <1>1, <2>1, <2>2, <2>3 DEF CallerFine
  <2>5. task[t].at = "answer" /\ task[t].outcome = "limited" => task[t].minute \in Minutes /\ LetIn(t)' >= PerIp
    BY <1>1, <2>1, <2>2, <2>3 DEF CallerFine
  <2> QED BY <1>1, <2>4, <2>5 DEF CallerFine
<1>3. CASE task[t].at \notin {"write", "answer"}
  BY <1>1, <1>3 DEF CallerFine
<1> QED BY <1>2, <1>3

(* ... and so do the calls out that are granted.                           *)
LEMMA SpenderStands ==
  ASSUME SiteCounts, NEW t \in SiteThreads, task'[t] = task[t],
         \A s \in Sites, d \in Site!Days :
           granted'[s][d] \in Nat /\ granted[s][d] <= granted'[s][d],
         day'[SiteOf[t]].made \in Nat, day[SiteOf[t]].made <= day'[SiteOf[t]].made,
         day[SiteOf[t]].day # None => day'[SiteOf[t]].day # None,
         day'[SiteOf[t]].made = day[SiteOf[t]].made => day'[SiteOf[t]].day = day[SiteOf[t]].day
  PROVE  SpenderFine(t)'
<1> USE SiteAssumed
<1>1. SiteInv /\ SpenderFine(t) /\ SiteOf[t] \in Sites
  BY DEF SiteCounts, CountsFine
<1>2. day[SiteOf[t]].made \in Nat
  BY <1>1 DEF SiteInv, SiteTyped
<1>3. \A d \in Site!Days : granted[SiteOf[t]][d] \in Nat
  BY <1>1 DEF SiteInv, SiteTyped
<1>4. task[t].at \in {"check", "add", "store"} => day'[SiteOf[t]].day # None
  BY <1>1 DEF SpenderFine
<1>5. ASSUME task[t].at = "store"
      PROVE  /\ task[t].list \in [made : Nat, day : Site!Days]
             /\ task[t].list.made <= day'[SiteOf[t]].made
             /\ task[t].list.made = day'[SiteOf[t]].made => task[t].list.day = day'[SiteOf[t]].day
             /\ task[t].mine <= granted'[SiteOf[t]][task[t].list.day]
  <2>1. /\ task[t].list \in [made : Nat, day : Site!Days]
        /\ task[t].list.made <= day[SiteOf[t]].made
        /\ task[t].list.made = day[SiteOf[t]].made => task[t].list.day = day[SiteOf[t]].day
        /\ task[t].mine <= granted[SiteOf[t]][task[t].list.day]
    BY <1>1, <1>5 DEF SpenderFine
  <2>2. task[t].list.made \in Nat /\ task[t].list.day \in Site!Days
    BY <2>1
  <2>3. task[t].mine \in Nat
    BY <1>1, <1>5, CallFields
  <2> QED BY <1>1, <1>2, <1>3, <2>1, <2>2, <2>3
<1>6. task[t].at = "answer" /\ task[t].outcome = "spent" =>
        task[t].list \in Site!Days /\ granted'[SiteOf[t]][task[t].list] >= SiteCap
  BY <1>1, <1>3 DEF SpenderFine
<1> QED BY <1>4, <1>5, <1>6 DEF SpenderFine

(* Whoever moves without counting leaves the counts as they are.           *)
LEMMA CountsStand ==
  ASSUME SiteCounts, UNCHANGED <<seen, admitted, clock, calls>>, raced \subseteq raced',
         \A t \in SiteThreads : task'[t].at = "write" => task'[t] = task[t]
  PROVE  /\ CountsTyped'
         /\ \A s \in Sites, a \in Site!Addresses : AddressFine(s, a)'
         /\ \A s \in Sites \ raced' : CountFine(s)'
<1>1. CountsTyped'
  BY DEF SiteCounts, CountsTyped
<1>2. \A s \in Sites, a \in Site!Addresses : AddressFine(s, a)'
  BY DEF SiteCounts, CountsFine, AddressFine
<1>3. ASSUME NEW s \in Sites, s \notin raced'
      PROVE  CountFine(s)'
  <2>1. CountFine(s)
    BY <1>3 DEF SiteCounts, CountsFine
  <2>2. \A a \in Site!Addresses : Recent(s, a)' = Recent(s, a)
    BY DEF Recent
  <2>3. \A t \in WritersOf(s)' : t \in WritersOf(s) /\ task'[t] = task[t]
    BY DEF WritersOf
  <2>4. \A t \in WritersOf(s)' : LetIn(t)' = LetIn(t)
    BY <2>3 DEF LetIn
  <2> QED BY <2>1, <2>2, <2>3, <2>4 DEF CountFine
<1> QED BY <1>1, <1>2, <1>3

LEMMA CountsArrive ==
  ASSUME SiteCounts,
         \E kind \in Site!Kinds, from \in Callers, hop \in Hops : Site!Arrive(kind, from, hop)
  PROVE  CountsTyped' /\ CountsFine'
<1> USE SiteAssumed
<1>1. calls' \in 0..MaxSiteCalls /\ UNCHANGED <<task, seen, day, clock, admitted, granted, raced>>
  BY DEF Site!Arrive, SiteCounts, CountsTyped
<1>2. CountsTyped'
  BY <1>1 DEF SiteCounts, CountsTyped
<1>3. /\ \A s \in Sites : ListFine(s)' /\ \A a \in Site!Addresses : AddressFine(s, a)'
      /\ \A t \in SiteThreads : SpenderFine(t)'
  BY <1>1 DEF SiteCounts, CountsFine, ListFine, AddressFine, SpenderFine
<1>4. \A t \in SiteThreads : CallerFine(t)'
  BY <1>1 DEF SiteCounts, CountsFine, CallerFine, LetIn
<1>5. \A s \in Sites \ raced' : CountFine(s)'
  BY <1>1 DEF SiteCounts, CountsFine, CountFine, WritersOf, Recent, LetIn
<1> QED BY <1>2, <1>3, <1>4, <1>5 DEF CountsFine

LEMMA CountsMinutePasses ==
  ASSUME SiteCounts, Site!MinutePasses
  PROVE  CountsTyped' /\ CountsFine'
<1> USE SiteAssumed
<1>1. /\ clock' = clock + 1 /\ clock \in Minutes /\ clock' \in Minutes /\ clock \in Nat
      /\ UNCHANGED <<task, seen, day, calls, admitted, granted, raced>>
  BY DEF Site!MinutePasses, SiteCounts, SiteInv, SiteTyped, Minutes
<1>2. CountsTyped'
  BY <1>1 DEF SiteCounts, CountsTyped
<1>3. \A s \in Sites : ListFine(s)'
  BY <1>1 DEF SiteCounts, CountsFine, ListFine
<1>4. ASSUME NEW s \in Sites, NEW a \in Site!Addresses
      PROVE  /\ seen[s][a].minute \in Minutes /\ seen[s][a].minute <= clock
             /\ AddressFine(s, a)' /\ admitted[s][a][clock'] = 0
  <2>1. AddressFine(s, a) /\ seen[s][a].minute \in Minutes
    BY DEF SiteCounts, CountsFine, CountsTyped
  <2>2. \A m \in Minutes : m > clock' => m > clock
    BY <1>1 DEF Minutes
  <2> QED BY <1>1, <2>1, <2>2 DEF AddressFine, Minutes
<1>5. \A t \in SiteThreads : SpenderFine(t)'
  BY <1>1 DEF SiteCounts, CountsFine, SpenderFine
<1>6. \A t \in SiteThreads : CallerFine(t)'
  <2>1. \A s \in Sites, a \in Site!Addresses, m \in Minutes :
          admitted'[s][a][m] \in Nat /\ admitted[s][a][m] <= admitted'[s][a][m]
    BY <1>1 DEF SiteCounts, CountsTyped
  <2> QED BY <1>1, <2>1, CallerStands DEF Minutes
<1>7. ASSUME NEW s \in Sites, s \notin raced'
      PROVE  CountFine(s)'
  <2>1. CountFine(s)
    BY <1>1, <1>7 DEF SiteCounts, CountsFine
  <2>2. ASSUME NEW a \in Site!Addresses
        PROVE  /\ admitted'[s][a][clock'] = Recent(s, a)'
               /\ \A m \in Minutes : admitted'[s][a][m] <= PerIp
    <3>1. Recent(s, a)' = 0
      BY <1>1, <1>4 DEF Recent, Minutes
    <3> QED BY <1>1, <1>4, <2>1, <3>1 DEF CountFine
  <2>3. WritersOf(s)' = WritersOf(s) /\ \A t \in SiteThreads : LetIn(t)' = LetIn(t)
    BY <1>1 DEF WritersOf, LetIn
  <2>4. ASSUME NEW t \in WritersOf(s)'
        PROVE  /\ \A u \in WritersOf(s)' : t = u
               /\ task'[t].list = LetIn(t)'
               /\ \A a \in Site!Addresses, m \in Minutes : m > task'[t].minute => admitted'[s][a][m] = 0
    <3>1. t \in WritersOf(s) /\ t \in SiteThreads
      BY <2>3 DEF WritersOf
    <3> QED BY <1>1, <2>1, <2>3, <3>1 DEF CountFine
  <2> QED BY <2>2, <2>4 DEF CountFine
<1> QED BY <1>2, <1>3, <1>4, <1>5, <1>6, <1>7 DEF CountsFine

LEMMA CountsTake ==
  ASSUME SiteCounts, NEW t \in SiteThreads, NEW r \in wire, Site!Take(t, r)
  PROVE  CountsTyped' /\ CountsFine'
<1> DEFINE s == SiteOf[t]
           k == [at |-> IF r.kind # "other" THEN "write" ELSE "answer", request |-> r, outcome |-> "ok",
                 minute |-> clock, list |-> IF r.kind # "other" THEN Recent(s, r.from) ELSE 0, mine |-> 0]
<1> USE SiteAssumed
<1>1. SiteInv /\ CountsTyped /\ CountsFine
  BY DEF SiteCounts
<1>2. /\ task' = [task EXCEPT ![t] = k] /\ UNCHANGED <<seen, day, clock, calls, admitted, granted>>
      /\ r \in Fines /\ r.from \in Site!Addresses /\ s \in Sites
  <2>1. r \in Fines
    BY <1>1 DEF SiteInv, SiteTyped
  <2>2. r.from \in Site!Addresses
    BY <2>1 DEF Fines
  <2>3. task' = [task EXCEPT ![t] = k]
    BY DEF Site!Take, Recent
  <2> QED BY <2>1, <2>2, <2>3 DEF Site!Take
<1>3. raced \subseteq raced' /\ (k.at = "write" /\ s \notin raced' => WritersOf(s) \subseteq {t})
  <2>1. k.at = "write" => raced' = (IF \E u \in SiteThreads \ {t} : SiteOf[u] = s /\ task[u].at \in {"write"}
                                   THEN raced \cup {s} ELSE raced)
    BY DEF Site!Take, Site!Overlap
  <2>2. k.at # "write" => raced' = raced
    BY DEF Site!Take
  <2> QED BY <1>2, <2>1, <2>2 DEF WritersOf
<1>4. task'[t] = k /\ \A u \in SiteThreads \ {t} : task'[u] = task[u]
  BY <1>1, <1>2, MovesAlone
<1>5. clock \in Minutes /\ clock \in Nat
  BY <1>1 DEF SiteInv, SiteTyped, Minutes
<1>6. /\ Recent(s, r.from) \in Nat /\ Recent(s, r.from) <= admitted[s][r.from][clock]
      /\ admitted[s][r.from][clock] \in Nat
  <2>1. AddressFine(s, r.from) /\ seen[s][r.from] \in [minute : Minutes, calls : Nat]
        /\ admitted[s][r.from][clock] \in Nat
    BY <1>1, <1>2, <1>5 DEF CountsFine, CountsTyped
  <2> QED BY <1>5, <2>1 DEF Recent, AddressFine
<1>7. CountsTyped'
  BY <1>1, <1>2 DEF CountsTyped
<1>8. /\ \A o \in Sites : ListFine(o)' /\ \A a \in Site!Addresses : AddressFine(o, a)'
  BY <1>1, <1>2 DEF CountsFine, ListFine, AddressFine
<1>9. k.at \in {"write", "answer"} /\ k.outcome = "ok" /\ k.minute = clock /\ k.request = r
      /\ (k.at = "write" => k.list = Recent(s, r.from))
  OBVIOUS
<1> HIDE DEF k
<1>10. CallerFine(t)' /\ SpenderFine(t)'
  <2>1. LetIn(t)' = admitted[s][r.from][clock]
    BY <1>2, <1>4, <1>9 DEF LetIn
  <2>2. CallerFine(t)'
    BY <1>2, <1>4, <1>5, <1>6, <1>9, <2>1 DEF CallerFine
  <2> QED BY <1>4, <1>9, <2>2 DEF SpenderFine
<1>11. ASSUME NEW u \in SiteThreads \ {t}
       PROVE  CallerFine(u)' /\ SpenderFine(u)'
  <2>1. task'[u] = task[u] /\ CallerFine(u) /\ SpenderFine(u)
    BY <1>1, <1>4 DEF CountsFine
  <2>2. LetIn(u)' = LetIn(u)
    BY <1>2, <2>1 DEF LetIn
  <2> QED BY <1>2, <2>1, <2>2 DEF CallerFine, SpenderFine
<1>12. ASSUME NEW o \in Sites, o \notin raced'
       PROVE  CountFine(o)'
  <2>1. CountFine(o) /\ \A a \in Site!Addresses : Recent(o, a)' = Recent(o, a)
    BY <1>1, <1>2, <1>3, <1>12 DEF CountsFine, Recent
  <2>2. \A u \in WritersOf(o)' : u # t => u \in WritersOf(o) /\ task'[u] = task[u] /\ LetIn(u)' = LetIn(u)
    BY <1>2, <1>4 DEF WritersOf, LetIn
  <2>3. CASE t \notin WritersOf(o)'
    BY <1>2, <2>1, <2>2, <2>3 DEF CountFine
  <2>4. CASE t \in WritersOf(o)'
    <3>1. o = s /\ k.at = "write" /\ WritersOf(o)' = {t}
      BY <1>3, <1>4, <1>12, <2>2, <2>4 DEF WritersOf
    <3>2. LetIn(t)' = admitted[s][r.from][clock] /\ task'[t].list = Recent(s, r.from)
          /\ task'[t].minute = clock
      BY <1>2, <1>4, <1>9, <3>1 DEF LetIn
    <3>3. \A a \in Site!Addresses, m \in Minutes : m > clock => admitted[s][a][m] = 0
      BY <1>1, <1>2 DEF CountsFine, AddressFine
    <3> QED BY <1>2, <2>1, <3>1, <3>2, <3>3 DEF CountFine
  <2> QED BY <2>3, <2>4
<1> QED BY <1>7, <1>8, <1>10, <1>11, <1>12 DEF CountsFine

LEMMA CountsWrite ==
  ASSUME SiteCounts, NEW t \in SiteThreads, Site!LimitWrites(t)
  PROVE  CountsTyped' /\ CountsFine'
<1> DEFINE s == SiteOf[t]
           r == task[t].request
           n == task[t].list
           m == task[t].minute
           at2 == IF Site!Limited(n) \/ r.kind = "tool" \/ Site!TooDeep(r) THEN "answer" ELSE "roll"
           k == [task[t] EXCEPT !.at = at2, !.outcome = IF Site!Limited(n) THEN "limited" ELSE "ok",
                                !.list = 0, !.minute = IF Site!Limited(n) THEN m ELSE 0]
           mark == [minute |-> m, calls |-> IF Site!Limited(n) THEN n ELSE n + 1]
<1> USE SiteAssumed
<1>1. SiteInv /\ CountsTyped /\ CountsFine /\ clock \in Minutes /\ clock \in Nat
  BY DEF SiteCounts, SiteInv, SiteTyped, Minutes
<1>2. /\ task[t].at = "write" /\ task[t].outcome = "ok" /\ s \in Sites
      /\ r.from \in Site!Addresses /\ n \in Nat /\ m \in Minutes /\ m <= clock /\ m \in Nat
      /\ n <= LetIn(t) /\ LetIn(t) = admitted[s][r.from][m] /\ LetIn(t) \in Nat
  <2>1. task[t].at = "write" /\ CallerFine(t)
    BY <1>1 DEF Site!LimitWrites, Site!At, CountsFine
  <2>2. r.from \in Site!Addresses /\ m \in Nat /\ s \in Sites
    BY <1>1, <2>1, CallFields
  <2>3. m \in Minutes
    BY <1>1, <2>1, <2>2 DEF CallerFine, Minutes
  <2>4. LetIn(t) \in Nat
    BY <1>1, <2>2, <2>3 DEF LetIn, CountsTyped
  <2> QED BY <2>1, <2>2, <2>3, <2>4 DEF CallerFine, LetIn
<1>3. PICK S : task[t] \in SiteTask(S)
  BY <1>1, <1>2, CallFields
<1>4. task' = [task EXCEPT ![t] = k] /\ UNCHANGED <<wire, day, clock, calls, granted>>
  BY <1>1, <1>3 DEF Site!LimitWrites, SiteTask, SiteInv, SiteTyped
<1>5. /\ k.at = at2 /\ k.outcome = (IF Site!Limited(n) THEN "limited" ELSE "ok") /\ k.request = r
      /\ Site!Limited(n) => k.minute = m
  BY <1>3 DEF SiteTask
<1>6. /\ admitted' = (IF Site!Limited(n) THEN admitted ELSE [admitted EXCEPT ![s][r.from][m] = @ + 1])
      /\ \/ seen' = [seen EXCEPT ![s] = [seen[s] EXCEPT ![r.from] = mark]] /\ raced' = raced
         \/ seen' = [seen EXCEPT ![s] = [a \in Site!Addresses |-> Site!Forgotten]] /\ raced' = raced \cup {s}
  BY DEF Site!LimitWrites
<1> HIDE DEF k
<1>7. task'[t] = k /\ \A u \in SiteThreads \ {t} : task'[u] = task[u]
  BY <1>1, <1>4, MovesAlone
(* The counts that the write leaves.                                       *)
<1>8. /\ admitted' \in [Sites -> [Site!Addresses -> [Minutes -> Nat]]]
      /\ admitted'[s][r.from][m] = (IF Site!Limited(n) THEN LetIn(t) ELSE LetIn(t) + 1)
      /\ \A o \in Sites, b \in Site!Addresses, i \in Minutes :
           ~(o = s /\ b = r.from /\ i = m) => admitted'[o][b][i] = admitted[o][b][i]
  <2>1. CASE Site!Limited(n)
    BY <1>1, <1>2, <1>6, <2>1 DEF CountsTyped
  <2>2. CASE ~Site!Limited(n)
    <3>1. admitted' = [admitted EXCEPT ![s][r.from][m] = @ + 1]
      BY <1>6, <2>2
    <3>2. admitted \in [Sites -> [Site!Addresses -> [Minutes -> Nat]]]
      BY <1>1 DEF CountsTyped
    <3>3. /\ admitted' \in [Sites -> [Site!Addresses -> [Minutes -> Nat]]]
          /\ admitted'[s][r.from][m] = admitted[s][r.from][m] + 1
          /\ \A o \in Sites, b \in Site!Addresses, i \in Minutes :
               ~(o = s /\ b = r.from /\ i = m) => admitted'[o][b][i] = admitted[o][b][i]
      <4> DEFINE row == [admitted[s][r.from] EXCEPT ![m] = admitted[s][r.from][m] + 1]
                 sheet == [admitted[s] EXCEPT ![r.from] = row]
      <4>1. /\ admitted[s] \in [Site!Addresses -> [Minutes -> Nat]]
            /\ admitted[s][r.from] \in [Minutes -> Nat] /\ admitted[s][r.from][m] \in Nat
        BY <1>2, <3>2
      <4>2. admitted' = [admitted EXCEPT ![s] = sheet]
        BY <1>2, <3>1, <3>2
      <4>3. /\ row \in [Minutes -> Nat] /\ row[m] = admitted[s][r.from][m] + 1
            /\ \A i \in Minutes : i # m => row[i] = admitted[s][r.from][i]
        <5>1. admitted[s][r.from][m] + 1 \in Nat /\ m \in Minutes
          BY <1>2, <4>1
        <5>2. row \in [Minutes -> Nat]
          BY <4>1, <5>1
        <5> QED BY <4>1, <5>1, <5>2
      <4> HIDE DEF row
      <4>4. /\ sheet \in [Site!Addresses -> [Minutes -> Nat]] /\ sheet[r.from] = row
            /\ \A b \in Site!Addresses : b # r.from => sheet[b] = admitted[s][b]
        BY <1>2, <4>1, <4>3
      <4> HIDE DEF sheet
      <4>5. /\ admitted' \in [Sites -> [Site!Addresses -> [Minutes -> Nat]]] /\ admitted'[s] = sheet
            /\ \A o \in Sites : o # s => admitted'[o] = admitted[o]
        BY <1>2, <3>2, <4>2, <4>4
      <4> QED BY <4>3, <4>4, <4>5
    <3> QED BY <1>2, <2>2, <3>3
  <2> QED BY <2>1, <2>2
<1>9. \A o \in Sites, b \in Site!Addresses, i \in Minutes :
        admitted'[o][b][i] \in Nat /\ admitted[o][b][i] <= admitted'[o][b][i]
  <2>1. \A o \in Sites, b \in Site!Addresses, i \in Minutes : admitted[o][b][i] \in Nat
    BY <1>1 DEF CountsTyped
  <2>2. \A o \in Sites, b \in Site!Addresses, i \in Minutes : admitted'[o][b][i] \in Nat
    BY <1>8
  <2>3. LetIn(t) <= admitted'[s][r.from][m]
    BY <1>2, <1>8
  <2>4. ASSUME NEW o \in Sites, NEW b \in Site!Addresses, NEW i \in Minutes
        PROVE  admitted[o][b][i] <= admitted'[o][b][i]
    <3>1. CASE o = s /\ b = r.from /\ i = m
      BY <1>2, <2>3, <3>1
    <3>2. CASE ~(o = s /\ b = r.from /\ i = m)
      <4>1. admitted'[o][b][i] = admitted[o][b][i]
        BY <1>8, <3>2
      <4> QED BY <2>1, <4>1
    <3> QED BY <3>1, <3>2
  <2> QED BY <2>2, <2>4
<1>10. mark \in [minute : Minutes, calls : Nat] /\ Site!Forgotten \in [minute : Minutes, calls : Nat]
       /\ mark.calls <= admitted'[s][r.from][m] /\ mark.minute = m
  <2>1. n + 1 \in Nat /\ 0 \in Minutes
    BY <1>2, SiteAssumed DEF Minutes
  <2>2. mark.calls = (IF Site!Limited(n) THEN n ELSE n + 1) /\ mark.minute = m
    OBVIOUS
  <2>3. mark \in [minute : Minutes, calls : Nat]
    BY <1>2, <2>1
  <2>4. mark.calls <= admitted'[s][r.from][m]
    <3> HIDE DEF mark
    <3> QED BY <1>2, <1>8, <2>2
  <2> QED BY <2>1, <2>2, <2>3, <2>4 DEF Site!Forgotten
<1>11. /\ seen' \in [Sites -> [Site!Addresses -> [minute : Minutes, calls : Nat]]]
       /\ \A o \in Sites, b \in Site!Addresses :
            \/ seen'[o][b] = seen[o][b] /\ <<o, b>> # <<s, r.from>>
            \/ o = s /\ seen'[o][b] = Site!Forgotten /\ s \in raced'
            \/ o = s /\ b = r.from /\ seen'[o][b] = mark
  <2> HIDE DEF mark
  <2>1. seen \in [Sites -> [Site!Addresses -> [minute : Minutes, calls : Nat]]]
        /\ seen[s] \in [Site!Addresses -> [minute : Minutes, calls : Nat]]
    BY <1>1, <1>2 DEF CountsTyped
  <2>2. [seen[s] EXCEPT ![r.from] = mark] \in [Site!Addresses -> [minute : Minutes, calls : Nat]]
        /\ [a \in Site!Addresses |-> Site!Forgotten] \in [Site!Addresses -> [minute : Minutes, calls : Nat]]
    BY <1>2, <1>10, <2>1
  <2>3. seen' \in [Sites -> [Site!Addresses -> [minute : Minutes, calls : Nat]]]
    BY <1>2, <1>6, <2>1, <2>2
  <2>4. CASE seen' = [seen EXCEPT ![s] = [seen[s] EXCEPT ![r.from] = mark]]
    BY <1>2, <2>1, <2>3, <2>4
  <2>5. CASE seen' = [seen EXCEPT ![s] = [a \in Site!Addresses |-> Site!Forgotten]] /\ raced' = raced \cup {s}
    BY <1>2, <2>1, <2>3, <2>5
  <2> QED BY <1>6, <2>3, <2>4, <2>5
<1> HIDE DEF mark
<1>12. CountsTyped'
  BY <1>1, <1>4, <1>8, <1>11 DEF CountsTyped
<1>13. ASSUME NEW o \in Sites, NEW b \in Site!Addresses
       PROVE  AddressFine(o, b)'
  <2>1. AddressFine(o, b) /\ seen[o][b] \in [minute : Minutes, calls : Nat]
    BY <1>1 DEF CountsFine, CountsTyped
  <2>2. ASSUME NEW i \in Minutes, i > clock
        PROVE  admitted'[o][b][i] = 0
    <3>1. i # m
      BY <1>1, <1>2, <2>2 DEF Minutes
    <3> QED BY <1>8, <2>1, <2>2, <3>1 DEF AddressFine
  <2>3. seen'[o][b].minute <= clock /\ seen'[o][b].calls <= admitted'[o][b][seen'[o][b].minute]
    <3>1. CASE seen'[o][b] = seen[o][b]
      <4>1. seen[o][b].minute \in Minutes /\ seen[o][b].calls \in Nat
        BY <2>1
      <4>2. /\ admitted'[o][b][seen[o][b].minute] \in Nat
            /\ admitted[o][b][seen[o][b].minute] <= admitted'[o][b][seen[o][b].minute]
        BY <1>9, <4>1
      <4>3. admitted[o][b][seen[o][b].minute] \in Nat
        <5>1. admitted \in [Sites -> [Site!Addresses -> [Minutes -> Nat]]]
          BY <1>1 DEF CountsTyped
        <5>2. \A x \in Minutes : admitted[o][b][x] \in Nat
          BY <5>1
        <5> QED BY <4>1, <5>2
      <4> QED BY <2>1, <3>1, <4>1, <4>2, <4>3 DEF AddressFine
    <3>2. CASE seen'[o][b] = Site!Forgotten
      <4>1. 0 \in Minutes /\ admitted'[o][b][0] \in Nat
        BY <1>9 DEF Minutes
      <4> QED BY <1>1, <3>2, <4>1 DEF Site!Forgotten
    <3>3. CASE o = s /\ b = r.from /\ seen'[o][b] = mark
      BY <1>2, <1>10, <3>3
    <3> QED BY <1>11, <3>1, <3>2, <3>3
  <2> QED BY <1>4, <2>2, <2>3 DEF AddressFine
<1>14. \A o \in Sites : ListFine(o)'
  BY <1>1, <1>4 DEF CountsFine, ListFine
<1>15. ASSUME NEW u \in SiteThreads \ {t}
       PROVE  CallerFine(u)' /\ SpenderFine(u)'
  <2>1. CallerFine(u)'
    BY <1>1, <1>4, <1>7, <1>9, CallerStands
  <2>2. SpenderFine(u)'
    BY <1>1, <1>4, <1>7 DEF CountsFine, SpenderFine
  <2> QED BY <2>1, <2>2
<1>16. CallerFine(t)' /\ SpenderFine(t)'
  <2>1. Site!Limited(n) => k.at = "answer" /\ k.minute = m /\ LetIn(t)' = LetIn(t) /\ LetIn(t) >= PerIp
    BY <1>2, <1>5, <1>7, <1>8 DEF LetIn, Site!Limited
  <2>2. at2 \in {"answer", "roll"} /\ (k.outcome = "limited" => Site!Limited(n))
        /\ (at2 = "roll" => k.outcome = "ok") /\ k.outcome # "spent"
    BY <1>5
  <2> QED BY <1>2, <1>5, <1>7, <2>1, <2>2 DEF CallerFine, SpenderFine
<1>17. ASSUME NEW o \in Sites, o \notin raced'
       PROVE  CountFine(o)'
  <2>1. o \notin raced /\ CountFine(o)
    BY <1>1, <1>6, <1>17 DEF CountsFine
  <2>2. \A u \in WritersOf(o)' : u # t /\ u \in WritersOf(o) /\ task'[u] = task[u]
    BY <1>5, <1>7 DEF WritersOf
  <2>3. CASE o # s
    <3>1. \A b \in Site!Addresses : Recent(o, b)' = Recent(o, b)
      BY <1>4, <1>11, <2>3 DEF Recent
    <3>2. \A b \in Site!Addresses, i \in Minutes : admitted'[o][b][i] = admitted[o][b][i]
      BY <1>8, <2>3
    <3>3. ASSUME NEW u \in WritersOf(o)'
          PROVE  LetIn(u)' = LetIn(u)
      <4>1. u \in SiteThreads /\ SiteOf[u] = o /\ task[u].at = "write" /\ task'[u] = task[u]
        BY <2>2 DEF WritersOf
      <4>2. CallerFine(u) /\ task[u].request.from \in Site!Addresses /\ task[u].minute \in Nat
        BY <1>1, <4>1, CallFields DEF CountsFine
      <4>3. task[u].minute \in Minutes
        BY <1>1, <4>1, <4>2 DEF CallerFine, Minutes
      <4> QED BY <3>2, <4>1, <4>2, <4>3 DEF LetIn
    <3>4. \A b \in Site!Addresses : admitted'[o][b][clock'] = Recent(o, b)'
                                    /\ \A i \in Minutes : admitted'[o][b][i] <= PerIp
      BY <1>1, <1>4, <2>1, <3>1, <3>2 DEF CountFine
    <3>5. ASSUME NEW u \in WritersOf(o)'
          PROVE  /\ \A x \in WritersOf(o)' : u = x
                 /\ task'[u].list = LetIn(u)'
                 /\ \A b \in Site!Addresses, i \in Minutes : i > task'[u].minute => admitted'[o][b][i] = 0
      BY <2>1, <2>2, <3>2, <3>3 DEF CountFine
    <3> QED BY <3>4, <3>5 DEF CountFine
  <2>4. CASE o = s
    <3>1. t \in WritersOf(s)
      BY <1>2 DEF WritersOf
    <3>2. WritersOf(o)' = {}
      BY <2>1, <2>2, <2>4, <3>1 DEF CountFine
    <3>3. n = LetIn(t) /\ \A b \in Site!Addresses, i \in Minutes : i > m => admitted[s][b][i] = 0
      BY <2>1, <2>4, <3>1 DEF CountFine
    <3>4. ASSUME NEW b \in Site!Addresses, NEW i \in Minutes
          PROVE  admitted'[s][b][i] <= PerIp
      <4>1. ~Site!Limited(n) => n + 1 <= PerIp
        BY <1>2, SiteAssumed DEF Site!Limited
      <4>2. admitted[s][b][i] <= PerIp
        BY <2>1, <2>4 DEF CountFine
      <4>3. CASE b = r.from /\ i = m
        BY <1>2, <1>8, <3>3, <4>1, <4>2, <4>3
      <4>4. CASE ~(b = r.from /\ i = m)
        BY <1>2, <1>8, <4>2, <4>4
      <4> QED BY <4>3, <4>4
    <3>5. ASSUME NEW b \in Site!Addresses
          PROVE  admitted'[s][b][clock] = Recent(s, b)'
      <4>1. CASE b # r.from
        <5>1. seen'[s][b] = seen[s][b]
          BY <1>2, <1>11, <1>17, <2>4, <4>1
        <5>2. admitted[s][b][clock] = Recent(s, b)
          BY <2>1, <2>4 DEF CountFine
        <5>3. admitted'[s][b][clock] = admitted[s][b][clock]
          BY <1>1, <1>2, <1>8, <4>1
        <5>4. Recent(s, b)' = Recent(s, b)
          BY <1>4, <5>1 DEF Recent
        <5> QED BY <5>2, <5>3, <5>4
      <4>2. CASE b = r.from
        <5>1. seen'[s][b] = mark /\ mark.calls = admitted'[s][r.from][m] /\ mark.minute = m
          BY <1>2, <1>8, <1>11, <1>17, <2>4, <3>3, <4>2 DEF mark
        <5>2. CASE m = clock
          BY <1>4, <4>2, <5>1, <5>2 DEF Recent
        <5>3. CASE m # clock
          <6>1. admitted[s][b][clock] = 0 /\ admitted'[s][b][clock] = admitted[s][b][clock]
            <7>1. clock > m
              BY <1>1, <1>2, <5>3
            <7>2. admitted[s][b][clock] = 0
              BY <1>1, <1>2, <3>3, <4>2, <7>1
            <7>3. admitted'[s][b][clock] = admitted[s][b][clock]
              BY <1>1, <1>2, <1>8, <4>2, <5>3
            <7> QED BY <7>2, <7>3
          <6> QED BY <1>4, <5>1, <5>3, <6>1 DEF Recent
        <5> QED BY <5>2, <5>3
      <4> QED BY <4>1, <4>2
    <3> QED BY <1>4, <2>4, <3>2, <3>4, <3>5 DEF CountFine
  <2> QED BY <2>3, <2>4
<1> QED BY <1>12, <1>13, <1>14, <1>15, <1>16, <1>17 DEF CountsFine

(* A thread that spends goes on alone: what it leaves right for its site   *)
(* is right for all.                                                       *)
LEMMA SpenderMoves ==
  ASSUME SiteCounts, NEW t \in SiteThreads, NEW k, task' = [task EXCEPT ![t] = k], k.at # "write",
         UNCHANGED <<seen, admitted, clock, calls, day, granted>>, raced \subseteq raced',
         k.at = "answer" => k.outcome # "limited",
         k.at \notin {"idle", "answer"} => k.outcome = "ok",
         SpenderFine(t)'
  PROVE  CountsTyped' /\ CountsFine'
<1>1. task'[t] = k /\ \A u \in SiteThreads \ {t} : task'[u] = task[u]
  BY MovesAlone DEF SiteCounts
<1>2. \A u \in SiteThreads : task'[u].at = "write" => task'[u] = task[u]
  BY <1>1
<1>3. /\ CountsTyped'
      /\ \A s \in Sites, a \in Site!Addresses : AddressFine(s, a)'
      /\ \A s \in Sites \ raced' : CountFine(s)'
  BY <1>2, CountsStand
<1>4. \A s \in Sites : ListFine(s)'
  BY DEF SiteCounts, CountsFine, ListFine
<1>5. ASSUME NEW u \in SiteThreads \ {t}
      PROVE  CallerFine(u)' /\ SpenderFine(u)'
  <2>1. task'[u] = task[u] /\ CallerFine(u) /\ SpenderFine(u)
    BY <1>1 DEF SiteCounts, CountsFine
  <2>2. LetIn(u)' = LetIn(u)
    BY <2>1 DEF LetIn
  <2> QED BY <2>1, <2>2 DEF CallerFine, SpenderFine
<1>6. CallerFine(t)'
  BY <1>1 DEF CallerFine
<1> QED BY <1>3, <1>4, <1>5, <1>6 DEF CountsFine

LEMMA CountsRoll ==
  ASSUME SiteCounts, NEW t \in SiteThreads, Site!Rolls(t)
  PROVE  CountsTyped' /\ CountsFine'
<1> DEFINE s == SiteOf[t]
           at2 == IF day[s].day = Site!Today THEN "check" ELSE "reset"
           k == [task[t] EXCEPT !.list = Site!Today, !.at = at2]
<1> USE SiteAssumed
<1>1. SiteInv /\ CallerFine(t)
  BY DEF SiteCounts, CountsFine
<1>2. task[t].at = "roll" /\ task[t].outcome = "ok"
  BY <1>1 DEF Site!Rolls, Site!At, CallerFine
<1>3. PICK S : task[t] \in SiteTask(S)
  BY <1>1, <1>2, CallFields
<1>4. task' = [task EXCEPT ![t] = k]
  BY <1>1, <1>3 DEF Site!Rolls, SiteTask, SiteInv, SiteTyped
<1>5. k.at = at2 /\ k.outcome = "ok"
  BY <1>2, <1>3 DEF SiteTask
<1>6. UNCHANGED <<seen, admitted, clock, calls, day, granted>>
  BY DEF Site!Rolls
<1>7. raced \subseteq raced'
  <2>1. raced' = raced \/ raced' = raced \cup {s}
    BY DEF Site!Rolls, Site!Overlap
  <2> QED BY <2>1
<1> HIDE DEF k
<1>8. task'[t] = k
  BY <1>1, <1>4, MovesAlone
<1>9. SpenderFine(t)'
  <2>1. Site!Today # None
    BY <1>1, SiteToday DEF SiteInv, SiteTyped
  <2> QED BY <1>5, <1>6, <1>8, <2>1 DEF SpenderFine
<1> QED BY <1>4, <1>5, <1>6, <1>7, <1>9, SpenderMoves

LEMMA CountsCheck ==
  ASSUME SiteCounts, NEW t \in SiteThreads, Site!Checks(t)
  PROVE  CountsTyped' /\ CountsFine'
<1> DEFINE s == SiteOf[t]
           k == [task[t] EXCEPT !.at = IF Site!Spent(s) THEN "answer" ELSE "add",
                                !.outcome = IF Site!Spent(s) THEN "spent" ELSE "ok",
                                !.list = day[s].day]
<1> USE SiteAssumed
<1>1. SiteInv /\ CallerFine(t) /\ SpenderFine(t)
  BY DEF SiteCounts, CountsFine
<1>2. task[t].at = "check" /\ s \in Sites /\ ListFine(s)
  BY <1>1 DEF Site!Checks, Site!At, SiteCounts, CountsFine
<1>3. PICK S : task[t] \in SiteTask(S)
  BY <1>1, <1>2, CallFields
<1>4. task' = [task EXCEPT ![t] = k]
  BY <1>1, <1>3 DEF Site!Checks, SiteTask, SiteInv, SiteTyped
<1>5. /\ k.at = (IF Site!Spent(s) THEN "answer" ELSE "add")
      /\ k.outcome = (IF Site!Spent(s) THEN "spent" ELSE "ok") /\ k.list = day[s].day
  BY <1>3 DEF SiteTask
<1>6. UNCHANGED <<seen, admitted, clock, calls, day, granted, raced>>
  BY DEF Site!Checks
<1> HIDE DEF k
<1>7. task'[t] = k
  BY <1>1, <1>4, MovesAlone
<1>8. day[s].day # None /\ day[s].day \in Site!Days /\ day[s].spent \in Nat
      /\ granted[s][day[s].day] \in Nat /\ day[s].spent <= granted[s][day[s].day]
  BY <1>1, <1>2 DEF SpenderFine, ListFine, SiteInv, SiteTyped
<1>9. SpenderFine(t)'
  BY <1>5, <1>6, <1>7, <1>8 DEF SpenderFine, Site!Spent
<1> QED BY <1>4, <1>5, <1>6, <1>9, SpenderMoves

LEMMA CountsAdd ==
  ASSUME SiteCounts, NEW t \in SiteThreads, Site!Adds(t)
  PROVE  CountsTyped' /\ CountsFine'
<1> DEFINE s == SiteOf[t]
           held == [made |-> day[s].made, day |-> day[s].day]
           k == [task[t] EXCEPT !.at = "store", !.mine = day[s].spent, !.list = held]
<1> USE SiteAssumed
<1>1. SiteInv /\ CallerFine(t) /\ SpenderFine(t)
  BY DEF SiteCounts, CountsFine
<1>2. task[t].at = "add" /\ task[t].outcome = "ok" /\ s \in Sites /\ ListFine(s)
  BY <1>1 DEF Site!Adds, Site!At, CallerFine, SiteCounts, CountsFine
<1>3. PICK S : task[t] \in SiteTask(S)
  BY <1>1, <1>2, CallFields
<1>4. task' = [task EXCEPT ![t] = k]
  BY <1>1, <1>3 DEF Site!Adds, SiteTask, SiteInv, SiteTyped
<1>5. k.at = "store" /\ k.outcome = "ok" /\ k.list = held /\ k.mine = day[s].spent
  BY <1>2, <1>3 DEF SiteTask
<1>6. UNCHANGED <<seen, admitted, clock, calls, day, granted, raced>>
  BY DEF Site!Adds
<1> HIDE DEF k
<1>7. task'[t] = k
  BY <1>1, <1>4, MovesAlone
<1>8. day[s].day # None /\ day[s].day \in Site!Days /\ day[s].made \in Nat
      /\ day[s].spent <= granted[s][day[s].day]
  BY <1>1, <1>2 DEF SpenderFine, ListFine, SiteInv, SiteTyped
<1>9. held \in [made : Nat, day : Site!Days] /\ held.made = day[s].made /\ held.day = day[s].day
  BY <1>8
<1> HIDE DEF held
<1>10. SpenderFine(t)'
  BY <1>5, <1>6, <1>7, <1>8, <1>9 DEF SpenderFine
<1> QED BY <1>4, <1>5, <1>6, <1>10, SpenderMoves

(* A new list has a number of its own, so a thread that read the old one   *)
(* will not write to it.                                                   *)
LEMMA CountsReset ==
  ASSUME SiteCounts, NEW t \in SiteThreads, Site!Resets(t)
  PROVE  CountsTyped' /\ CountsFine'
<1> DEFINE s == SiteOf[t]
           k == [task[t] EXCEPT !.at = "check"]
           new == [day |-> task[t].list, spent |-> 0, made |-> day[s].made + 1]
<1> USE SiteAssumed
<1>1. SiteInv /\ CallerFine(t) /\ SpenderFine(t)
  BY DEF SiteCounts, CountsFine
<1>2. task[t].at = "reset" /\ task[t].outcome = "ok" /\ s \in Sites
      /\ task[t].list \in Site!Days /\ task[t].list # None
  <2>1. task[t].at = "reset" /\ task[t].outcome = "ok" /\ s \in Sites
    BY <1>1 DEF Site!Resets, Site!At, CallerFine
  <2>2. task[t].list \in Site!Days
    BY <1>1, <2>1 DEF SiteInv, CallsFine
  <2> QED BY <1>1, <2>1, <2>2, SiteToday DEF SiteInv, SiteTyped
<1>3. PICK S : task[t] \in SiteTask(S)
  BY <1>1, <1>2, CallFields
<1>4. task' = [task EXCEPT ![t] = k] /\ day' = [day EXCEPT ![s] = new]
      /\ UNCHANGED <<seen, admitted, clock, calls, granted, raced>>
  BY <1>1, <1>3 DEF Site!Resets, Site!Goes, Site!NewList, SiteTask, SiteInv, SiteTyped
<1>5. k.at = "check" /\ k.outcome = "ok"
  BY <1>2, <1>3 DEF SiteTask
<1> HIDE DEF k
<1>6. task'[t] = k /\ \A u \in SiteThreads \ {t} : task'[u] = task[u]
  BY <1>1, <1>4, MovesAlone
<1>7. day[s].made \in Nat /\ day'[s] = new /\ \A o \in Sites \ {s} : day'[o] = day[o]
  BY <1>1, <1>2, <1>4 DEF SiteInv, SiteTyped
<1>8. new.day = task[t].list /\ new.spent = 0 /\ new.made = day[s].made + 1
  OBVIOUS
<1> HIDE DEF new
<1>9. \A o \in Sites, d \in Site!Days : granted[o][d] \in Nat
  BY <1>1 DEF SiteInv, SiteTyped
<1>10. /\ CountsTyped'
       /\ \A o \in Sites, a \in Site!Addresses : AddressFine(o, a)'
       /\ \A o \in Sites \ raced' : CountFine(o)'
  BY <1>4, <1>5, <1>6, CountsStand
<1>11. ASSUME NEW o \in Sites
       PROVE  ListFine(o)'
  <2>1. ListFine(o)
    BY DEF SiteCounts, CountsFine
  <2>2. CASE o = s
    BY <1>2, <1>4, <1>7, <1>8, <1>9, <2>2 DEF ListFine
  <2>3. CASE o # s
    BY <1>4, <1>7, <2>1, <2>3 DEF ListFine
  <2> QED BY <2>2, <2>3
<1>12. ASSUME NEW u \in SiteThreads \ {t}
       PROVE  CallerFine(u)' /\ SpenderFine(u)'
  <2>1. task'[u] = task[u] /\ CallerFine(u)
    BY <1>6 DEF SiteCounts, CountsFine
  <2>2. LetIn(u)' = LetIn(u)
    BY <1>4, <2>1 DEF LetIn
  <2>3. CallerFine(u)'
    BY <1>4, <2>1, <2>2 DEF CallerFine
  <2>4. SiteOf[u] \in Sites /\ day[SiteOf[u]].made \in Nat
    BY <1>1 DEF SiteInv, SiteTyped
  <2>5. /\ day'[SiteOf[u]].made \in Nat /\ day[SiteOf[u]].made <= day'[SiteOf[u]].made
        /\ day[SiteOf[u]].day # None => day'[SiteOf[u]].day # None
        /\ day'[SiteOf[u]].made = day[SiteOf[u]].made => day'[SiteOf[u]].day = day[SiteOf[u]].day
    BY <1>2, <1>7, <1>8, <2>4
  <2>6. \A o \in Sites, d \in Site!Days : granted'[o][d] \in Nat /\ granted[o][d] <= granted'[o][d]
    BY <1>4, <1>9
  <2>7. SpenderFine(u)'
    BY <2>1, <2>5, <2>6, SpenderStands
  <2> QED BY <2>3, <2>7
<1>13. CallerFine(t)' /\ SpenderFine(t)'
  BY <1>2, <1>5, <1>6, <1>7, <1>8 DEF CallerFine, SpenderFine
<1> QED BY <1>10, <1>11, <1>12, <1>13 DEF CountsFine

LEMMA CountsStore ==
  ASSUME SiteCounts, NEW t \in SiteThreads, NEW to \in Sites, NEW kind \in Site!Kinds,
         Site!Stores(t, to, kind)
  PROVE  CountsTyped' /\ CountsFine'
<1> DEFINE s == SiteOf[t]
           h == task[t].list
           k == [task[t] EXCEPT !.at = "waiting", !.list = None, !.mine = 0]
<1> USE SiteAssumed
<1>1. SiteInv /\ CallerFine(t) /\ SpenderFine(t)
  BY DEF SiteCounts, CountsFine
<1>2. task[t].at = "store" /\ task[t].outcome = "ok" /\ s \in Sites /\ ListFine(s) /\ task[t].mine \in Nat
  <2>1. task[t].at = "store"
    BY DEF Site!Stores, Site!At
  <2> QED BY <1>1, <2>1, CallFields DEF CallerFine, SiteCounts, CountsFine
<1>3. PICK S : task[t] \in SiteTask(S)
  BY <1>1, <1>2, CallFields
<1>4. task' = [task EXCEPT ![t] = k] /\ UNCHANGED <<seen, admitted, clock, calls, raced>>
      /\ day' = (IF day[s].made = h.made THEN [day EXCEPT ![s].spent = task[t].mine + 1] ELSE day)
      /\ granted' = [granted EXCEPT ![s][h.day] = @ + 1]
  <2>1. task' = [task EXCEPT ![t] = k]
    BY <1>1, <1>3 DEF Site!Stores, SiteTask, SiteInv, SiteTyped
  <2> QED BY <2>1 DEF Site!Stores
<1>5. k.at = "waiting" /\ k.outcome = "ok"
  BY <1>2, <1>3 DEF SiteTask
<1> HIDE DEF k
<1>6. task'[t] = k /\ \A u \in SiteThreads \ {t} : task'[u] = task[u]
  BY <1>1, <1>4, MovesAlone
<1>7. /\ h.made \in Nat /\ h.day \in Site!Days /\ day[s].day # None
      /\ day[s].day \in Site!Days /\ day[s].made \in Nat /\ day[s].spent \in Nat
      /\ h.made = day[s].made => h.day = day[s].day
      /\ task[t].mine <= granted[s][h.day]
  <2>1. day[s].day # None /\ h \in [made : Nat, day : Site!Days]
        /\ (h.made = day[s].made => h.day = day[s].day) /\ task[t].mine <= granted[s][h.day]
    BY <1>1, <1>2 DEF SpenderFine
  <2>2. day[s] \in [day : Site!Days \cup {None}, spent : Nat, made : Nat]
    BY <1>1, <1>2 DEF SiteInv, SiteTyped
  <2>3. h.made \in Nat /\ h.day \in Site!Days
    BY <2>1
  <2> QED BY <2>1, <2>2, <2>3
<1>8. granted \in [Sites -> [Site!Days -> Nat]]
  BY <1>1 DEF SiteInv, SiteTyped
<1>9. /\ granted'[s][h.day] = granted[s][h.day] + 1 /\ granted[s][h.day] \in Nat
      /\ \A o \in Sites, d \in Site!Days : granted[o][d] \in Nat /\ granted'[o][d] \in Nat
                                          /\ granted[o][d] <= granted'[o][d]
  <2> DEFINE sheet == [granted[s] EXCEPT ![h.day] = granted[s][h.day] + 1]
  <2>1. granted[s] \in [Site!Days -> Nat] /\ granted[s][h.day] \in Nat
    BY <1>2, <1>7, <1>8
  <2>2. granted' = [granted EXCEPT ![s] = sheet]
    BY <1>2, <1>4, <1>8
  <2>3. granted[s][h.day] + 1 \in Nat /\ h.day \in Site!Days
    BY <1>7, <2>1
  <2>4. sheet \in [Site!Days -> Nat]
    BY <2>1, <2>3
  <2>5. sheet[h.day] = granted[s][h.day] + 1 /\ \A d \in Site!Days : d # h.day => sheet[d] = granted[s][d]
    BY <2>1, <2>3
  <2> HIDE DEF sheet
  <2>6. \A d \in Site!Days : granted[s][d] \in Nat /\ sheet[d] \in Nat /\ granted[s][d] <= sheet[d]
    BY <2>1, <2>3, <2>4, <2>5
  <2>7. granted'[s] = sheet /\ \A o \in Sites : o # s => granted'[o] = granted[o]
    BY <1>2, <1>8, <2>2
  <2> QED BY <1>8, <2>1, <2>5, <2>6, <2>7
<1>10. /\ \A o \in Sites : day'[o].made = day[o].made /\ day'[o].day = day[o].day
       /\ \A o \in Sites : o # s => day'[o] = day[o]
       /\ day'[s].spent = (IF day[s].made = h.made THEN task[t].mine + 1 ELSE day[s].spent)
  <2>1. day \in [Sites -> [day : Site!Days \cup {None}, spent : Nat, made : Nat]]
    BY <1>1 DEF SiteInv, SiteTyped
  <2>2. CASE day[s].made = h.made
    <3>1. day' = [day EXCEPT ![s] = [day[s] EXCEPT !.spent = task[t].mine + 1]]
      BY <1>2, <1>4, <2>1, <2>2
    <3> QED BY <1>2, <2>1, <2>2, <3>1
  <2>3. CASE day[s].made # h.made
    BY <1>4, <2>3
  <2> QED BY <2>2, <2>3
<1>11. /\ CountsTyped'
       /\ \A o \in Sites, a \in Site!Addresses : AddressFine(o, a)'
       /\ \A o \in Sites \ raced' : CountFine(o)'
  BY <1>4, <1>5, <1>6, CountsStand
<1>12. ASSUME NEW o \in Sites
       PROVE  ListFine(o)'
  <2>1. ListFine(o) /\ day[o] \in [day : Site!Days \cup {None}, spent : Nat, made : Nat]
    BY <1>1 DEF SiteCounts, CountsFine, SiteInv, SiteTyped
  <2>2. \/ o = s /\ day[s].made = h.made
        \/ day'[o].day = day[o].day /\ day'[o].spent = day[o].spent
    BY <1>10
  <2>3. CASE o = s /\ day[s].made = h.made
    BY <1>2, <1>7, <1>9, <1>10, <2>3 DEF ListFine
  <2>4. CASE day'[o].day = day[o].day /\ day'[o].spent = day[o].spent
    <3>1. ASSUME day[o].day # None
          PROVE  day[o].spent <= granted'[o][day[o].day]
      <4>1. day[o].day \in Site!Days /\ day[o].spent \in Nat /\ day[o].spent <= granted[o][day[o].day]
        BY <2>1, <3>1 DEF ListFine
      <4>2. granted[o][day[o].day] \in Nat /\ granted'[o][day[o].day] \in Nat
            /\ granted[o][day[o].day] <= granted'[o][day[o].day]
        BY <1>9, <4>1
      <4> QED BY <4>1, <4>2
    <3> QED BY <2>4, <3>1 DEF ListFine
  <2> QED BY <2>2, <2>3, <2>4
<1>13. ASSUME NEW u \in SiteThreads \ {t}
       PROVE  CallerFine(u)' /\ SpenderFine(u)'
  <2>1. task'[u] = task[u] /\ CallerFine(u)
    BY <1>6 DEF SiteCounts, CountsFine
  <2>2. LetIn(u)' = LetIn(u)
    BY <1>4, <2>1 DEF LetIn
  <2>3. CallerFine(u)'
    BY <1>4, <2>1, <2>2 DEF CallerFine
  <2>4. SiteOf[u] \in Sites /\ day[SiteOf[u]].made \in Nat
    BY <1>1 DEF SiteInv, SiteTyped
  <2>5. \A o \in Sites, d \in Site!Days : granted'[o][d] \in Nat /\ granted[o][d] <= granted'[o][d]
    BY <1>9
  <2>6. SpenderFine(u)'
    BY <1>10, <2>1, <2>4, <2>5, SpenderStands
  <2> QED BY <2>3, <2>6
<1>14. CallerFine(t)' /\ SpenderFine(t)'
  BY <1>5, <1>6 DEF CallerFine, SpenderFine
<1> QED BY <1>11, <1>12, <1>13, <1>14 DEF CountsFine

LEMMA CountsAnswer ==
  ASSUME SiteCounts, NEW t \in SiteThreads, Site!Answers(t) \/ Site!TimesOut(t)
  PROVE  CountsTyped' /\ CountsFine'
<1> USE SiteAssumed
<1>1. SiteInv /\ UNCHANGED <<seen, admitted, clock, calls, day, granted, raced>>
  BY DEF Site!Answers, Site!TimesOut, SiteCounts
<1>2. PICK S : task \in [SiteThreads -> {Site!Free} \cup SiteTask(S)]
  BY <1>1 DEF SiteInv, SiteTyped
<1>3. ASSUME NEW u \in SiteThreads, task[u].at = "waiting", NEW k, k = [task[u] EXCEPT !.at = "answer"]
      PROVE  k.at = "answer" /\ k.outcome = "ok"
  <2>1. task[u] \in SiteTask(S) /\ task[u].outcome = "ok"
    BY <1>2, <1>3 DEF Site!Free, SiteCounts, CountsFine, CallerFine
  <2> QED BY <1>3, <2>1 DEF SiteTask
<1>4. ASSUME NEW u \in SiteThreads
      PROVE  \/ task'[u] = task[u] \/ task'[u].at = "idle"
             \/ task'[u].at = "answer" /\ task'[u].outcome = "ok"
  <2>1. CASE Site!TimesOut(t)
    <3>1. task[t].at = "waiting" /\ task' = [task EXCEPT ![t] = [task[t] EXCEPT !.at = "answer"]]
      BY <1>2, <2>1 DEF Site!TimesOut, Site!At, Site!Goes
    <3>2. /\ task'[t] = [task[t] EXCEPT !.at = "answer"]
          /\ \A x \in SiteThreads \ {t} : task'[x] = task[x]
      BY <1>2, <3>1
    <3>3. task'[t].at = "answer" /\ task'[t].outcome = "ok"
      BY ONLY <1>3, <3>1, <3>2, t \in SiteThreads
    <3>4. CASE u = t
      BY <3>3, <3>4
    <3>5. CASE u # t
      BY <3>2, <3>5
    <3> QED BY <3>4, <3>5
  <2>2. CASE Site!Answers(t)
    <3> DEFINE r == task[t].request
               rest == [task EXCEPT ![t] = Site!Free]
    <3>1. DOMAIN rest = SiteThreads /\ rest[t] = Site!Free /\ \A x \in SiteThreads \ {t} : rest[x] = task[x]
      BY <1>2
    <3>2. CASE ~Site!WaitsFor(r.by, r)
      <4>1. task' = rest
        BY <2>2, <3>2 DEF Site!Answers
      <4> QED BY <3>1, <4>1 DEF Site!Free
    <3>3. CASE Site!WaitsFor(r.by, r)
      <4>1. r \in Fines
        BY <1>2, <2>2 DEF Site!Answers, Site!At, Site!Free, SiteTask
      <4>2. r.by \in SiteThreads /\ task[r.by].at = "waiting" /\ r.by # t
        BY <2>2, <3>3, <4>1 DEF Site!Answers, Site!WaitsFor, Site!At, Fines
      <4>3. task' = [rest EXCEPT ![r.by] = [task[r.by] EXCEPT !.at = "answer"]]
        BY <2>2, <3>1, <3>3, <4>2 DEF Site!Answers
      <4> HIDE DEF rest
      <4>4. /\ task'[r.by] = [task[r.by] EXCEPT !.at = "answer"] /\ task'[t] = Site!Free
            /\ \A x \in SiteThreads \ {t, r.by} : task'[x] = task[x]
        BY <3>1, <4>2, <4>3
      <4> QED BY <1>3, <4>2, <4>4 DEF Site!Free
    <3> QED BY <3>2, <3>3
  <2> QED BY <2>1, <2>2
<1>5. /\ CountsTyped'
      /\ \A o \in Sites, a \in Site!Addresses : AddressFine(o, a)'
      /\ \A o \in Sites \ raced' : CountFine(o)'
  <2>1. \A u \in SiteThreads : task'[u].at = "write" => task'[u] = task[u]
    BY <1>4
  <2> QED BY <1>1, <2>1, CountsStand
<1>6. \A o \in Sites : ListFine(o)'
  BY <1>1 DEF SiteCounts, CountsFine, ListFine
<1>7. ASSUME NEW u \in SiteThreads
      PROVE  CallerFine(u)' /\ SpenderFine(u)'
  <2>1. CallerFine(u) /\ SpenderFine(u)
    BY DEF SiteCounts, CountsFine
  <2>2. CASE task'[u] = task[u]
    <3>1. LetIn(u)' = LetIn(u)
      BY <1>1, <2>2 DEF LetIn
    <3> QED BY <1>1, <2>1, <2>2, <3>1 DEF CallerFine, SpenderFine
  <2>3. CASE task'[u].at = "idle" \/ (task'[u].at = "answer" /\ task'[u].outcome = "ok")
    BY <2>3 DEF CallerFine, SpenderFine
  <2> QED BY <1>4, <2>2, <2>3
<1> QED BY <1>5, <1>6, <1>7 DEF CountsFine

LEMMA CountsStart ==
  ASSUME Site!Init
  PROVE  SiteCounts
<1> USE SiteAssumed
<1>1. SiteInv
  BY SiteStart
<1>2. 0 \in Minutes /\ clock = 0 /\ \A t \in SiteThreads : task[t] = Site!Free
  BY DEF Site!Init, Minutes
<1>3. \A s \in Sites, a \in Site!Addresses : seen[s][a] = Site!Forgotten /\ admitted[s][a] = [m \in Minutes |-> 0]
  BY DEF Site!Init, Minutes
<1>4. CountsTyped
  <2>1. Site!Forgotten \in [minute : Minutes, calls : Nat]
    BY <1>2 DEF Site!Forgotten
  <2> QED BY <2>1 DEF Site!Init, CountsTyped, Minutes
<1>5. \A s \in Sites, a \in Site!Addresses, m \in Minutes : admitted[s][a][m] = 0
  BY <1>3
<1>6. \A t \in SiteThreads : CallerFine(t) /\ SpenderFine(t)
  BY <1>2 DEF CallerFine, SpenderFine, Site!Free
<1>7. \A s \in Sites : ListFine(s)
  BY DEF Site!Init, ListFine
<1>8. \A s \in Sites, a \in Site!Addresses : AddressFine(s, a)
  BY <1>2, <1>3, <1>5 DEF AddressFine, Site!Forgotten
<1>9. \A s \in Sites : CountFine(s)
  <2>1. \A s \in Sites : WritersOf(s) = {}
    BY <1>2 DEF WritersOf, Site!Free
  <2>2. \A s \in Sites, a \in Site!Addresses : Recent(s, a) = 0
    BY <1>3 DEF Recent, Site!Forgotten
  <2> QED BY <1>2, <1>5, <2>1, <2>2 DEF CountFine
<1> QED BY <1>1, <1>4, <1>6, <1>7, <1>8, <1>9 DEF SiteCounts, CountsFine

LEMMA CountsStep ==
  ASSUME SiteCounts, [Site!Next]_(Site!vars)
  PROVE  SiteCounts'
<1>1. SiteInv'
  BY SiteStep DEF SiteCounts
<1>2. CASE UNCHANGED Site!vars
  <2>1. UNCHANGED <<seen, admitted, clock, calls, raced, task, day, granted>>
    BY <1>2 DEF Site!vars
  <2>2. /\ CountsTyped'
        /\ \A o \in Sites, a \in Site!Addresses : AddressFine(o, a)'
        /\ \A o \in Sites \ raced' : CountFine(o)'
    BY <2>1, CountsStand
  <2>3. /\ \A o \in Sites : ListFine(o)'
        /\ \A u \in SiteThreads : CallerFine(u)' /\ SpenderFine(u)'
    BY <2>1 DEF SiteCounts, CountsFine, ListFine, CallerFine, SpenderFine, LetIn
  <2> QED BY <1>1, <2>2, <2>3 DEF SiteCounts, CountsFine
<1>3. CASE Site!Next
  BY <1>1, <1>3, CountsArrive, CountsMinutePasses, CountsTake, CountsWrite, CountsRoll, CountsReset,
     CountsCheck, CountsAdd, CountsStore, CountsAnswer DEF Site!Next, SiteCounts
<1> QED BY <1>2, <1>3

LEMMA CountsPromised ==
  SiteCounts => /\ Site!TypeOK /\ Site!HopsBounded /\ Site!CountsHold /\ Site!RefusalsAreHonest
<1> SUFFICES ASSUME SiteCounts PROVE Site!TypeOK /\ Site!HopsBounded /\ Site!CountsHold /\ Site!RefusalsAreHonest
  OBVIOUS
<1> USE SiteAssumed
<1>1. SiteInv /\ CountsTyped /\ CountsFine
  BY DEF SiteCounts
<1>2. Site!HopsBounded /\ Site!BudgetHolds
  BY <1>1, SitePromised
<1>3. Site!CountsHold
  BY <1>1, <1>2 DEF Site!CountsHold, CountsFine, CountFine, Minutes
<1>4. Site!RefusalsAreHonest
  BY <1>1 DEF Site!RefusalsAreHonest, Site!At, CountsFine, CallerFine, SpenderFine, LetIn
<1>5. Site!TypeOK
  <2>1. \A t \in SiteThreads : task[t].at \in {"idle", "write", "roll", "reset", "check", "add", "store", "waiting", "answer"}
    BY <1>1, CallFields DEF Spending
  <2>2. \A r \in wire : r.to \in Sites /\ r.kind \in Site!Kinds /\ r.hop \in Nat
    BY <1>1 DEF SiteInv, SiteTyped, Fines
  <2>3. \A s \in Sites : /\ \A a \in Site!Addresses : seen[s][a] \in [minute : Minutes, calls : Nat]
                         /\ day[s].day \in Site!Days \cup {None} /\ day[s].spent \in Nat
    BY <1>1 DEF SiteInv, SiteTyped, CountsTyped
  <2> QED BY <1>1, <2>1, <2>2, <2>3 DEF Site!TypeOK, SiteInv, SiteTyped, CountsTyped, Minutes
<1> QED BY <1>2, <1>3, <1>4, <1>5

(* However the sites call one another no call is relayed more than MaxHop  *)
(* times; a site where no two threads counted at once lets no address in   *)
(* more often a minute than the limit and grants a day no more calls out   *)
(* than its cap, though the minute or the day may end between two of a     *)
(* thread's steps; and wherever threads do count at once, whoever is       *)
(* refused is refused at the limit.                                        *)
THEOREM SiteKept ==
  Site!Spec => [](Site!TypeOK /\ Site!HopsBounded /\ Site!CountsHold /\ Site!RefusalsAreHonest)
BY CountsPromised, CountsStart, CountsStep, PTL DEF Site!Spec
-----------------------------------------------------------------------------
(* The saved lists: what the device and the screens hold are lists as      *)
(* isSavedList wants them, and once they are read, what an operation       *)
(* starts from is what the device holds.                                   *)
ListsInv == Lists!TypeOK /\ Lists!MemoryIsDurable

SavedList == Lists!Promise!List

LEMMA ListsAssumed ==
  /\ IsFiniteSet(Entries) /\ MaxSymbols \in Nat \ {0} /\ MaxCalls \in Nat /\ MaxFaults \in Nat
  /\ \A ls \in StoredLists : ls \in Seq(SavedList)
<1>1. Lists!IsFiniteSet(Entries) <=> IsFiniteSet(Entries)
  BY DEF Lists!IsFiniteSet, IsFiniteSet
<1> QED BY <1>1, MachinesAssumption DEF Lists!ListsAssumption, SavedList

LEMMA ListsSize ==
  ASSUME NEW S
  PROVE  Lists!Promise!Cardinality(S) = Cardinality(S)
BY DEF Lists!Promise!Cardinality, Cardinality

LEMMA SavedListIs ==
  SavedList = [id : Entries, name : Names, symbols : {s \in SUBSET Entries : s # {} /\ Cardinality(s) <= MaxSymbols}]
BY ListsSize DEF SavedList, Lists!Promise!List

(* One element more or less.                                               *)
LEMMA OneMore ==
  ASSUME NEW S, NEW x, IsFiniteSet(S)
  PROVE  /\ IsFiniteSet(S \cup {x}) /\ Cardinality(S \cup {x}) \in Nat
         /\ Cardinality(S \cup {x}) <= Cardinality(S) + 1
<1>1. Cardinality(S) \in Nat
  BY FS_CardinalityType
<1>2. IsFiniteSet(S \cup {x}) /\ Cardinality(S \cup {x}) = IF x \in S THEN Cardinality(S) ELSE Cardinality(S) + 1
  BY FS_AddElement
<1> QED BY <1>1, <1>2

LEMMA OneLess ==
  ASSUME NEW S, NEW x, IsFiniteSet(S)
  PROVE  /\ IsFiniteSet(S \ {x}) /\ Cardinality(S \ {x}) \in Nat
         /\ Cardinality(S \ {x}) <= Cardinality(S) /\ Cardinality(S \ {x}) >= Cardinality(S) - 1
<1>1. Cardinality(S) \in Nat
  BY FS_CardinalityType
<1>2. IsFiniteSet(S \ {x}) /\ Cardinality(S \ {x}) = IF x \in S THEN Cardinality(S) - 1 ELSE Cardinality(S)
  BY FS_RemoveElement
<1>3. Cardinality(S \ {x}) \in Nat
  BY <1>2, FS_CardinalityType
<1> QED BY <1>1, <1>2, <1>3

(* What a possible operation leaves are lists again: none too long, none   *)
(* empty.                                                                  *)
LEMMA ListsResult ==
  ASSUME NEW ls \in Seq(SavedList), NEW o \in Lists!Promise!Ops, Lists!Promise!Possible(ls, o),
         NEW next \in Lists!Promise!Results(ls, o)
  PROVE  next \in Seq(SavedList)
<1>1. DOMAIN ls = 1..Len(ls) /\ Len(ls) \in Nat /\ \A i \in 1..Len(ls) : ls[i] \in SavedList
  OBVIOUS
<1>2. \A n \in Nat : \A S : \A s \in [1..n -> S] : s \in Seq(S)
  OBVIOUS
<1>3. CASE o.op = "append"
  <2>1. o.list \in SavedList
    BY <1>3 DEF Lists!Promise!Ops, SavedList
  <2>2. next = Append(ls, o.list)
    BY <1>3 DEF Lists!Promise!Results
  <2> QED BY <2>1, <2>2, Appended
<1>4. CASE o.op = "remove"
  <2> DEFINE S == {i \in DOMAIN ls : ls[i].id # o.id}
  <2>1. PICK places \in Lists!Promise!InOrder(S) : next = [k \in DOMAIN places |-> ls[places[k]]]
    BY <1>4 DEF Lists!Promise!Results, Lists!Promise!Without
  <2>2. places \in [1..Cardinality(S) -> S] /\ S \subseteq DOMAIN ls
    BY <2>1, ListsSize DEF Lists!Promise!InOrder
  <2>3. Cardinality(S) \in Nat
    <3>1. IsFiniteSet(DOMAIN ls)
      BY <1>1, FS_Interval
    <3>2. IsFiniteSet(S)
      <4> HIDE DEF S
      <4> QED BY <2>2, <3>1, FS_Subset
    <3> HIDE DEF S
    <3> QED BY <3>2, FS_CardinalityType
  <2> HIDE DEF S
  <2>4. \A k \in 1..Cardinality(S) : ls[places[k]] \in SavedList
    BY <1>1, <2>2
  <2>5. next \in [1..Cardinality(S) -> SavedList]
    BY <2>1, <2>2, <2>4
  <2> QED BY <1>2, <2>3, <2>5
<1>5. CASE o.op \in {"rename", "add", "drop"}
  <2>1. PICK i \in Lists!Promise!Found(ls, o.id) : next = [ls EXCEPT ![i] = Lists!Promise!Changed(ls[i], o)]
    BY <1>5 DEF Lists!Promise!Results
  <2>2. i \in 1..Len(ls) /\ ls[i] \in SavedList
    BY <1>1, <2>1 DEF Lists!Promise!Found, Lists!Promise!Position
  <2>3. /\ o.op = "add" => Cardinality(ls[i].symbols) < MaxSymbols
        /\ o.op = "drop" => Cardinality(ls[i].symbols) > 1
    <3>1. PICK j \in Lists!Promise!Found(ls, o.id) :
            /\ o.op = "add" => Lists!Promise!Cardinality(ls[j].symbols) < MaxSymbols
            /\ o.op = "drop" => Lists!Promise!Cardinality(ls[j].symbols) > 1
      BY <1>5 DEF Lists!Promise!Possible
    <3>2. i <= j /\ j <= i /\ i \in Nat /\ j \in Nat
      BY <1>1, <2>1, <3>1 DEF Lists!Promise!Found, Lists!Promise!Position
    <3>3. i = j
      BY <3>2
    <3> QED BY <3>1, <3>3, ListsSize
  <2>4. Lists!Promise!Changed(ls[i], o) \in SavedList
    <3> DEFINE l == ls[i]
    <3>1. /\ l.id \in Entries /\ l.name \in Names /\ l.symbols \subseteq Entries
          /\ l.symbols # {} /\ Cardinality(l.symbols) <= MaxSymbols
          /\ l = [id |-> l.id, name |-> l.name, symbols |-> l.symbols]
      BY <2>2, SavedListIs
    <3>2. IsFiniteSet(l.symbols) /\ Cardinality(l.symbols) \in Nat
      BY <3>1, ListsAssumed, FS_Subset, FS_CardinalityType
    <3> HIDE DEF l
    <3>3. CASE o.op = "rename"
      <4>1. o.name \in Names
        BY <3>3 DEF Lists!Promise!Ops
      <4>2. Lists!Promise!Changed(l, o) = [id |-> l.id, name |-> o.name, symbols |-> l.symbols]
        BY <3>1, <3>3 DEF Lists!Promise!Changed
      <4> QED BY <3>1, <4>1, <4>2, SavedListIs DEF l
    <3>4. CASE o.op = "add"
      <4> DEFINE T == l.symbols \cup {o.symbol}
      <4>1. o.symbol \in Entries /\ Cardinality(l.symbols) < MaxSymbols
        BY <2>3, <3>4 DEF Lists!Promise!Ops, l
      <4>2. Cardinality(T) <= Cardinality(l.symbols) + 1 /\ Cardinality(T) \in Nat
        <5> DEFINE A == l.symbols
        <5>1. IsFiniteSet(A)
          BY <3>2
        <5> HIDE DEF A
        <5>2. Cardinality(A \cup {o.symbol}) <= Cardinality(A) + 1 /\ Cardinality(A \cup {o.symbol}) \in Nat
          BY <5>1, OneMore
        <5> QED BY <5>2 DEF A
      <4>3. T \in SUBSET Entries /\ T # {} /\ Cardinality(T) <= MaxSymbols
        BY <3>1, <3>2, <4>1, <4>2, ListsAssumed
      <4>4. Lists!Promise!Changed(l, o) = [id |-> l.id, name |-> l.name, symbols |-> T]
        BY <3>1, <3>4 DEF Lists!Promise!Changed
      <4> HIDE DEF T
      <4> QED BY <3>1, <4>3, <4>4, SavedListIs DEF l
    <3>5. CASE o.op = "drop"
      <4> DEFINE T == l.symbols \ {o.symbol}
      <4>1. Cardinality(l.symbols) > 1
        BY <2>3, <3>5 DEF l
      <4>2. IsFiniteSet(T) /\ Cardinality(T) \in Nat
            /\ Cardinality(T) <= Cardinality(l.symbols) /\ Cardinality(T) >= Cardinality(l.symbols) - 1
        <5> DEFINE A == l.symbols
        <5>1. IsFiniteSet(A)
          BY <3>2
        <5> HIDE DEF A
        <5>2. /\ IsFiniteSet(A \ {o.symbol}) /\ Cardinality(A \ {o.symbol}) \in Nat
              /\ Cardinality(A \ {o.symbol}) <= Cardinality(A)
              /\ Cardinality(A \ {o.symbol}) >= Cardinality(A) - 1
          BY <5>1, OneLess
        <5> QED BY <5>2 DEF A
      <4>3. T # {}
        <5>1. Cardinality({}) = 0
          BY FS_EmptySet
        <5>2. Cardinality(T) > 0
          <6> DEFINE n == Cardinality(T)
                     k == Cardinality(l.symbols)
          <6>1. n \in Nat /\ k \in Nat /\ k > 1 /\ n >= k - 1
            BY <3>2, <4>1, <4>2
          <6> HIDE DEF n, k
          <6>2. n > 0
            BY <6>1
          <6> QED BY <6>2 DEF n
        <5>3. Cardinality(T) # 0
          BY <4>2, <5>2
        <5> HIDE DEF T
        <5> QED BY <5>1, <5>3
      <4>4. T \in SUBSET Entries /\ Cardinality(T) <= MaxSymbols
        BY <3>1, <3>2, <4>2, ListsAssumed
      <4>5. Lists!Promise!Changed(l, o) = [id |-> l.id, name |-> l.name, symbols |-> T]
        BY <3>1, <3>5 DEF Lists!Promise!Changed
      <4> HIDE DEF T
      <4> QED BY <3>1, <4>3, <4>4, <4>5, SavedListIs DEF l
    <3> QED BY <1>5, <3>3, <3>4, <3>5 DEF l
  <2>5. next \in [1..Len(ls) -> SavedList]
    BY <1>1, <2>1, <2>2, <2>4
  <2> QED BY <1>1, <1>2, <2>5
<1>6. o.op \in {"append", "remove", "rename", "add", "drop"}
  BY DEF Lists!Promise!Ops
<1> QED BY <1>3, <1>4, <1>5, <1>6

LEMMA ListsStep ==
  ASSUME ListsInv, [Lists!Next]_(Lists!vars)
  PROVE  ListsInv' /\ [Lists!Promise!Next]_<<Lists!ValidLists, queue>>
<1> USE DEF Lists!MemoryIsDurable
<1>0. /\ ListsInv /\ MaxCalls \in Nat /\ MaxFaults \in Nat
      /\ disk \in {Lists!Nothing, Lists!Garbage} \cup [holds : {"lists"}, lists : Seq(SavedList), corrupt : Nat]
      /\ memory \in Seq(SavedList) /\ hydration \in {"asked", "repair", "done", "failed"}
      /\ queue \in Seq(Lists!Promise!Ops) /\ (queue # <<>> => hydration = "done")
      /\ calls \in 0..MaxCalls /\ faults \in 0..MaxFaults
      /\ Lists!MemoryIsDurable
  BY ListsAssumed DEF ListsInv, Lists!TypeOK, SavedList
<1>a. Lists!ValidLists \in Seq(SavedList)
  BY <1>0 DEF Lists!ValidLists, Lists!Nothing, Lists!Garbage
<1>b. \A ls \in Seq(SavedList) :
        /\ Lists!Envelope(ls) \in [holds : {"lists"}, lists : Seq(SavedList), corrupt : Nat]
        /\ Lists!Envelope(ls).holds = "lists" /\ Lists!Envelope(ls).lists = ls
  BY DEF Lists!Envelope
<1>c. queue # <<>> => Head(queue) \in Lists!Promise!Ops /\ Tail(queue) \in Seq(Lists!Promise!Ops)
  BY <1>0, HeadAndTail
<1>1. CASE UNCHANGED Lists!vars
  BY <1>0, <1>1 DEF Lists!vars, Lists!ValidLists, ListsInv, Lists!TypeOK
<1>2. CASE Lists!Hydrate \/ Lists!HydrateFails \/ Lists!RetryHydration
  <2>1. /\ disk' = disk /\ queue' = queue /\ calls' = calls /\ faults' \in 0..MaxFaults
        /\ hydration # "done" /\ hydration' \in {"asked", "repair", "done", "failed"}
        /\ memory' \in {memory, Lists!ValidLists} /\ (hydration' = "done" => memory' = Lists!ValidLists)
    BY <1>0, <1>2 DEF Lists!Hydrate, Lists!HydrateFails, Lists!RetryHydration
  <2>2. Lists!ValidLists' = Lists!ValidLists
    BY <2>1 DEF Lists!ValidLists
  <2> QED BY <1>0, <1>a, <2>1, <2>2 DEF ListsInv, Lists!TypeOK, SavedList
<1>3. CASE Lists!Repair
  <2>1. /\ hydration = "repair" /\ hydration' = "done" /\ memory' = Lists!ValidLists
        /\ UNCHANGED <<queue, calls, faults>>
        /\ disk' = (IF Lists!ValidLists = <<>> THEN Lists!Nothing ELSE Lists!Envelope(Lists!ValidLists))
    BY <1>3 DEF Lists!Repair
  <2>2. Lists!ValidLists' = Lists!ValidLists
    <3>1. CASE Lists!ValidLists = <<>>
      BY <2>1, <3>1 DEF Lists!ValidLists, Lists!Nothing
    <3>2. CASE Lists!ValidLists # <<>>
      BY <1>a, <1>b, <2>1, <3>2 DEF Lists!ValidLists
    <3> QED BY <3>1, <3>2
  <2>3. disk' \in {Lists!Nothing, Lists!Garbage} \cup [holds : {"lists"}, lists : Seq(SavedList), corrupt : Nat]
    BY <1>a, <1>b, <2>1
  <2> QED BY <1>0, <1>a, <2>1, <2>2, <2>3 DEF ListsInv, Lists!TypeOK, SavedList
<1>4. ASSUME NEW o \in Lists!Promise!Ops, Lists!Ask(o)
      PROVE  ListsInv' /\ [Lists!Promise!Next]_<<Lists!ValidLists, queue>>
  <2>1. /\ UNCHANGED <<disk, memory, hydration, faults>> /\ hydration = "done" /\ queue' = Append(queue, o)
        /\ calls' \in 0..MaxCalls
    BY <1>0, <1>4 DEF Lists!Ask
  <2>2. Lists!ValidLists' = Lists!ValidLists
    BY <2>1 DEF Lists!ValidLists
  <2>3. Lists!Promise!Next
    BY <2>1, <2>2 DEF Lists!Promise!Next, Lists!Promise!Ask
  <2>4. queue' \in Seq(Lists!Promise!Ops)
    BY <1>0, <2>1, Appended
  <2> QED BY <1>0, <2>1, <2>2, <2>3, <2>4 DEF ListsInv, Lists!TypeOK, SavedList
<1>5. ASSUME queue # <<>>, Lists!Promise!Possible(memory, Head(queue)), NEW next \in Lists!NextLists,
             disk' = Lists!Envelope(next)
      PROVE  /\ memory = Lists!ValidLists /\ Lists!ValidLists' = next /\ next \in Seq(SavedList)
             /\ disk' \in [holds : {"lists"}, lists : Seq(SavedList), corrupt : Nat]
             /\ Lists!ValidLists' \in Lists!Promise!Results(Lists!ValidLists, Head(queue))
             /\ Lists!Promise!Possible(Lists!ValidLists, Head(queue))
  <2>1. memory = Lists!ValidLists
    BY <1>0, <1>5
  <2>2. next \in Lists!Promise!Results(memory, Head(queue))
    BY <1>5 DEF Lists!NextLists
  <2>3. next \in Seq(SavedList)
    BY <1>0, <1>5, <1>c, <2>2, ListsResult
  <2>4. Lists!ValidLists' = next /\ disk' \in [holds : {"lists"}, lists : Seq(SavedList), corrupt : Nat]
    BY <1>5, <1>b, <2>3 DEF Lists!ValidLists
  <2> QED BY <1>5, <2>1, <2>2, <2>3, <2>4
<1>6. CASE Lists!Persist
  <2>1. /\ queue # <<>> /\ Lists!Promise!Possible(memory, Head(queue)) /\ queue' = Tail(queue)
        /\ UNCHANGED <<hydration, calls, faults>>
    BY <1>6 DEF Lists!Persist, Lists!Settle
  <2>2. PICK next \in Lists!NextLists : disk' = Lists!Envelope(next) /\ memory' = next
    BY <1>6 DEF Lists!Persist
  <2>3. /\ Lists!ValidLists' = next /\ next \in Seq(SavedList)
        /\ disk' \in [holds : {"lists"}, lists : Seq(SavedList), corrupt : Nat]
        /\ Lists!ValidLists' \in Lists!Promise!Results(Lists!ValidLists, Head(queue))
        /\ Lists!Promise!Possible(Lists!ValidLists, Head(queue))
    BY <1>5, <2>1, <2>2
  <2>4. Lists!Promise!Next
    BY <2>1, <2>3 DEF Lists!Promise!Next, Lists!Promise!Do
  <2> QED BY <1>0, <1>c, <2>1, <2>2, <2>3, <2>4 DEF ListsInv, Lists!TypeOK, SavedList
<1>7. CASE Lists!Refuse \/ Lists!PersistFails
  <2>1. /\ queue # <<>> /\ queue' = Tail(queue) /\ UNCHANGED <<disk, memory, hydration, calls>>
        /\ faults' \in 0..MaxFaults
    BY <1>0, <1>7 DEF Lists!Refuse, Lists!PersistFails, Lists!Settle
  <2>2. Lists!ValidLists' = Lists!ValidLists
    BY <2>1 DEF Lists!ValidLists
  <2>3. Lists!Promise!Next
    BY <2>1, <2>2 DEF Lists!Promise!Next, Lists!Promise!Drop
  <2> QED BY <1>0, <1>c, <2>1, <2>2, <2>3 DEF ListsInv, Lists!TypeOK, SavedList
<1>8. CASE Lists!Kill
  <2>1. /\ queue' = <<>> /\ hydration' = "asked" /\ memory' = <<>> /\ calls' = calls /\ faults' \in 0..MaxFaults
    BY <1>0, <1>8 DEF Lists!Kill
  <2>2. <<>> \in Seq(SavedList) /\ <<>> \in Seq(Lists!Promise!Ops)
    OBVIOUS
  <2>3. CASE UNCHANGED disk
    <3>1. Lists!ValidLists' = Lists!ValidLists
      BY <2>3 DEF Lists!ValidLists
    <3>2. Lists!Promise!Next
      BY <2>1, <3>1 DEF Lists!Promise!Next, Lists!Promise!Restart
    <3> QED BY <1>0, <2>1, <2>2, <2>3, <3>1, <3>2 DEF ListsInv, Lists!TypeOK, SavedList
  <2>4. CASE /\ queue # <<>> /\ Lists!Promise!Possible(memory, Head(queue))
             /\ \E next \in Lists!NextLists : disk' = Lists!Envelope(next)
    <3>1. PICK next \in Lists!NextLists : disk' = Lists!Envelope(next)
      BY <2>4
    <3>2. /\ disk' \in [holds : {"lists"}, lists : Seq(SavedList), corrupt : Nat]
          /\ Lists!ValidLists' \in Lists!Promise!Results(Lists!ValidLists, Head(queue))
          /\ Lists!Promise!Possible(Lists!ValidLists, Head(queue))
      BY <1>5, <2>4, <3>1
    <3>3. Lists!Promise!Next
      BY <2>1, <2>4, <3>2 DEF Lists!Promise!Next, Lists!Promise!Restart
    <3> QED BY <1>0, <2>1, <2>2, <3>2, <3>3 DEF ListsInv, Lists!TypeOK, SavedList
  <2> QED BY <1>8, <2>3, <2>4 DEF Lists!Kill
<1> QED BY <1>1, <1>2, <1>3, <1>4, <1>6, <1>7, <1>8 DEF Lists!Next

LEMMA ListsStart ==
  ASSUME Lists!Init
  PROVE  ListsInv /\ Lists!Promise!Init
<1>1. disk \in {Lists!Nothing, Lists!Garbage} \cup [holds : {"lists"}, lists : Seq(SavedList), corrupt : Nat]
  BY ListsAssumed DEF Lists!Init
<1>2. Lists!ValidLists \in Seq(SavedList)
  BY <1>1 DEF Lists!ValidLists, Lists!Nothing, Lists!Garbage
<1>3. ListsInv
  BY <1>1, ListsAssumed DEF Lists!Init, ListsInv, Lists!MemoryIsDurable, Lists!TypeOK, SavedList
<1> QED BY <1>2, <1>3 DEF Lists!Promise!Init, Lists!Init, SavedList

(* The saved lists implement ListStore: what is durable changes by whole   *)
(* operations in the order they were asked for, over hydration, repair of  *)
(* corrupt items, failed requests and kills; no list is ever empty or too  *)
(* long; and once read, what the screens show is what is durable.          *)
THEOREM ListsKept == Lists!Spec => Lists!KeepsLists /\ [](Lists!TypeOK /\ Lists!MemoryIsDurable)
<1>1. ListsInv => Lists!TypeOK /\ Lists!MemoryIsDurable
  BY DEF ListsInv
<1> QED BY <1>1, ListsStart, ListsStep, PTL DEF Lists!Spec, Lists!KeepsLists, Lists!Promise!Spec
-----------------------------------------------------------------------------
(* The recent searches: the newest write in the queue is of what memory    *)
(* is, and while the item is read nothing is queued but its own repair.    *)
(* What was acknowledged stands on the device and in everything that will  *)
(* be written over it, behind nothing but later selections, or was         *)
(* displaced by as many of them as are kept, while no record is stamped    *)
(* earlier than one behind it.                                             *)
NoTwice(q) == \A i, j \in 1..Len(q) : q[i].symbol = q[j].symbol => i = j

Writes == [records : Seq(Recents!Records), for : Searched \cup {None}, number : 0..MaxSelections]

Items == [holds : {"records"}, records : Seq(Recents!Records), unusable : BOOLEAN]

RecentsTypes ==
  /\ disk \in {Recents!Nothing, Recents!Garbage} \/ disk \in Items
  /\ memory \in Seq(Recents!Records) /\ NoTwice(memory) /\ Len(memory) <= MaxRecent
  /\ hydration \in {"asked", "discard", "repair", "done", "failed"}
  /\ waiting \in Seq(Searched) /\ queue \in Seq(Writes)
  /\ calls \in 0..MaxSelections /\ faults \in 0..MaxWriteFaults
  /\ chosen \in [Searched -> 0..MaxSelections] /\ acked \in [Searched -> 0..MaxSelections]
  /\ dirty \in BOOLEAN

RecentsTyped ==
  /\ Len(waiting) \in Nat /\ Len(queue) \in Nat /\ calls \in Nat
  /\ \A k \in 1..Len(queue) : /\ queue[k].records \in Seq(Recents!Records) /\ queue[k].number \in 0..MaxSelections
                              /\ queue[k].number \in Nat /\ queue[k].for \in Searched \cup {None}
  /\ chosen \in [Searched -> Nat] /\ acked \in [Searched -> Nat]
  /\ Recents!OnDevice \in Seq(Recents!Records)

RecentsQueued ==
  /\ hydration \in {"asked", "discard"} => queue = <<>>
  /\ hydration = "discard" => disk = Recents!Garbage
  /\ hydration = "repair" => Len(queue) = 1 /\ queue[1].for = None
  /\ queue # <<>> => queue[Len(queue)].records = memory

Recorded == calls - Len(waiting)

RecentsCounted ==
  /\ Len(waiting) <= calls
  /\ \A s \in Searched : chosen[s] <= Recorded /\ acked[s] <= Recorded
  /\ \A k \in 1..Len(queue) : queue[k].number <= Recorded

Displaced(c, f, n) == Cardinality({u \in Searched \ {f} : c[u] > n}) >= MaxRecent

Behind(c, q, f, n, p) ==
  q[p].symbol = f /\ \A i \in 1..p - 1 : q[i].symbol # f /\ c[q[i].symbol] > n

Stands(c, q, f, n) == Displaced(c, f, n) \/ \E p \in DOMAIN q : Behind(c, q, f, n, p)

AckStands(f) ==
  /\ Stands(chosen, Recents!OnDevice, f, acked[f])
  /\ \A j \in 1..Len(queue) : Stands(chosen, queue[j].records, f, acked[f])
  /\ hydration \notin {"asked", "discard"} => Stands(chosen, memory, f, acked[f])

WriteStands(k) ==
  /\ \A j \in k..Len(queue) : Stands(chosen, queue[j].records, queue[k].for, queue[k].number)
  /\ Stands(chosen, memory, queue[k].for, queue[k].number)

RecentsStand ==
  ~setBack =>
    /\ \A f \in Searched : acked[f] > 0 => AckStands(f)
    /\ \A k \in 1..Len(queue) : queue[k].number > 0 => WriteStands(k)

RecentsInTime ==
  /\ setBack \in BOOLEAN
  /\ ~setBack =>
       /\ Recents!InTime(Recents!OnDevice) /\ Recents!InTime(memory)
       /\ \A k \in 1..Len(queue) : Recents!InTime(queue[k].records)

RecentsInv ==
  /\ RecentsTypes /\ RecentsQueued /\ RecentsCounted
  /\ RecentsInTime /\ RecentsStand /\ Recents!MemoryIsDurable

LEMMA RecentsAssumed ==
  /\ IsFiniteSet(Searched) /\ StoredRecents \subseteq Seq(Recents!Records)
  /\ \A r \in Recents!Records : r.symbol \in Searched /\ r.at \in Nat
  /\ \A x \in Searched, n \in 0..MaxStamp : [symbol |-> x, at |-> n] \in Recents!Records
  /\ MaxRecent \in Nat \ {0} /\ MaxSelections \in Nat /\ MaxWriteFaults \in Nat
  /\ \A S : Recents!Cardinality(S) = Cardinality(S)
<1>1. \A S : Recents!IsFiniteSet(S) = IsFiniteSet(S)
  BY DEF Recents!IsFiniteSet, IsFiniteSet
<1>2. \A S : Recents!Cardinality(S) = Cardinality(S)
  BY DEF Recents!Cardinality, Cardinality
<1>3. /\ \A r \in Recents!Records : r.symbol \in Searched /\ r.at \in Nat
      /\ \A x \in Searched, n \in 0..MaxStamp : [symbol |-> x, at |-> n] \in Recents!Records
  BY MachinesAssumption DEF Recents!RecentAssumption, Recents!Records
<1> QED BY <1>1, <1>2, <1>3, MachinesAssumption DEF Recents!RecentAssumption

(* A later selection only displaces more.                                  *)
LEMMA DisplacedOnceMore ==
  ASSUME NEW c \in [Searched -> Nat], NEW d \in [Searched -> Nat], NEW f, NEW n \in Nat,
         \A u \in Searched : c[u] <= d[u], Displaced(c, f, n)
  PROVE  Displaced(d, f, n)
<1> DEFINE C == {u \in Searched \ {f} : c[u] > n}
           D == {u \in Searched \ {f} : d[u] > n}
<1>1. C \subseteq D /\ D \subseteq Searched
  OBVIOUS
<1>2. IsFiniteSet(D)
  BY <1>1, RecentsAssumed, FS_Subset
<1>3. IsFiniteSet(C) /\ Cardinality(C) <= Cardinality(D) /\ Cardinality(C) \in Nat /\ Cardinality(D) \in Nat
  BY <1>1, <1>2, FS_Subset, FS_CardinalityType
<1>4. Cardinality(C) >= MaxRecent
  BY DEF Displaced
<1> HIDE DEF C, D
<1>5. Cardinality(D) >= MaxRecent
  BY <1>3, <1>4, RecentsAssumed
<1> QED BY <1>5 DEF D, Displaced

LEMMA StandsOnceMore ==
  ASSUME NEW c \in [Searched -> Nat], NEW d \in [Searched -> Nat], NEW f, NEW n \in Nat,
         \A u \in Searched : c[u] <= d[u],
         NEW q \in Seq(Recents!Records), Stands(c, q, f, n)
  PROVE  Stands(d, q, f, n)
<1>1. CASE Displaced(c, f, n)
  BY <1>1, DisplacedOnceMore DEF Stands
<1>2. ASSUME NEW p \in DOMAIN q, Behind(c, q, f, n, p)
      PROVE  Behind(d, q, f, n, p)
  <2>1. p \in 1..Len(q)
    OBVIOUS
  <2>2. ASSUME NEW i \in 1..p - 1
        PROVE  q[i].symbol # f /\ d[q[i].symbol] > n
    <3>1. q[i] \in Recents!Records /\ q[i].symbol \in Searched
      BY <2>1, RecentsAssumed
    <3>2. q[i].symbol # f /\ c[q[i].symbol] > n
      BY <1>2 DEF Behind
    <3> QED BY <3>1, <3>2
  <2> QED BY <1>2, <2>2 DEF Behind
<1> QED BY <1>1, <1>2 DEF Stands

(* A list of n of the first n numbers that only rises is all of them.      *)
LEMMA RisingIsIdentity ==
  ASSUME NEW n \in Nat, NEW p \in [1..n -> 1..n], \A i, j \in 1..n : i < j => p[i] < p[j]
  PROVE  \A k \in 1..n : p[k] = k
<1>1. \A i, j \in 1..n : p[i] \in 1..n /\ (p[i] = p[j] => i = j) /\ (i <= j => p[i] <= p[j])
  <2>1. \A i, j \in 1..n : p[i] \in 1..n /\ p[j] \in 1..n /\ (i < j \/ i = j \/ j < i)
    OBVIOUS
  <2> QED BY <2>1
<1>2. ASSUME NEW lo \in 1..n, NEW hi \in 1..n, NEW x \in 1..n, NEW y \in 1..n, lo <= hi,
             \A i \in lo..hi : p[i] \in x..y
      PROVE  hi - lo + 1 <= y - x + 1
  <2> DEFINE g == [i \in lo..hi |-> p[i]]
  <2>1. g \in Injection(lo..hi, x..y)
    <3>1. g \in [lo..hi -> x..y]
      BY <1>2
    <3>2. \A i, j \in lo..hi : i \in 1..n /\ j \in 1..n /\ g[i] = p[i] /\ g[j] = p[j]
      OBVIOUS
    <3>3. \A i, j \in lo..hi : g[i] = g[j] => i = j
      BY <1>1, <3>2
    <3> HIDE DEF g
    <3> QED BY <3>1, <3>3 DEF Injection, IsInjective
  <2>2. IsFiniteSet(x..y) /\ Cardinality(lo..hi) <= Cardinality(x..y)
    BY <2>1, FS_Interval, FS_Injection
  <2>3. Cardinality(lo..hi) = hi - lo + 1
    BY <1>2, FS_Interval
  <2>4. x <= y
    <3>1. p[lo] \in x..y
      BY <1>2
    <3> QED BY <3>1
  <2>5. Cardinality(x..y) = y - x + 1
    BY <2>4, FS_Interval
  <2> QED BY <2>2, <2>3, <2>5
<1>3. ASSUME NEW k \in 1..n
      PROVE  p[k] = k
  <2>1. p[k] \in 1..n /\ 1 \in 1..n /\ n \in 1..n
    BY <1>1
  <2>2. \A i \in 1..k : p[i] \in 1..p[k]
    <3>1. \A i \in 1..k : i \in 1..n /\ i <= k /\ p[i] \in 1..n
      BY <1>1
    <3> QED BY <1>1, <2>1, <3>1
  <2>3. \A i \in k..n : p[i] \in p[k]..n
    <3>1. \A i \in k..n : i \in 1..n /\ k <= i /\ p[i] \in 1..n
      BY <1>1
    <3> QED BY <1>1, <2>1, <3>1
  <2>4. k - 1 + 1 <= p[k] - 1 + 1
    <3>1. 1 <= k
      OBVIOUS
    <3> QED BY <1>2, <2>1, <2>2, <3>1
  <2>5. n - k + 1 <= n - p[k] + 1
    <3>1. k <= n
      OBVIOUS
    <3> QED BY <1>2, <2>1, <2>3, <3>1
  <2> QED BY <2>1, <2>4, <2>5
<1> QED BY <1>3

LEMMA CardinalOf ==
  ASSUME NEW q \in Seq(Recents!Records), NEW S \in SUBSET DOMAIN q
  PROVE  IsFiniteSet(S) /\ Cardinality(S) \in Nat
<1>1. DOMAIN q = 1..Len(q) /\ Len(q) \in Nat
  OBVIOUS
<1>2. IsFiniteSet(DOMAIN q)
  BY <1>1, FS_Interval
<1> QED BY <1>2, FS_Subset, FS_CardinalityType

(* As many positions as there are, none twice, are all of them.            *)
LEMMA Covers ==
  ASSUME NEW n \in Nat, NEW S, IsFiniteSet(S), Cardinality(S) = n,
         NEW places \in [1..n -> S], \A i, j \in 1..n : i < j => places[i] # places[j]
  PROVE  \A x \in S : \E k \in 1..n : places[k] = x
<1>1. \A i, j \in 1..n : places[i] = places[j] => i = j
  OBVIOUS
<1>2. places \in Injection(1..n, S)
  BY <1>1 DEF Injection, IsInjective
<1>3. Cardinality(1..n) = n
  BY FS_Interval
<1>4. places \in Surjection(1..n, S)
  BY <1>2, <1>3, FS_Injection
<1> QED BY <1>4 DEF Surjection

(* What is filtered from a sequence is in its order, and all of it is      *)
(* there.                                                                  *)
LEMMA Filters ==
  ASSUME NEW q \in Seq(Recents!Records), NEW S \in SUBSET DOMAIN q, NEW t \in Recents!Picked(q, Recents!InOrder(S))
  PROVE  \E places \in [1..Len(t) -> S] :
           /\ t \in Seq(Recents!Records)
           /\ \A k \in 1..Len(t) : t[k] = q[places[k]]
           /\ \A i, j \in 1..Len(t) : i < j => places[i] < places[j]
           /\ \A x \in S : \E k \in 1..Len(t) : places[k] = x
<1>1. PICK places \in Recents!InOrder(S) : t = [k \in DOMAIN places |-> q[places[k]]]
  BY DEF Recents!Picked
<1> DEFINE n == Cardinality(S)
<1>2. n \in Nat /\ IsFiniteSet(S) /\ Cardinality(S) = n /\ n = Recents!Cardinality(S)
  BY CardinalOf, RecentsAssumed
<1> HIDE DEF n
<1>3. /\ places \in [1..n -> S]
      /\ \A i, j \in 1..n : i < j => places[i] < places[j]
  BY <1>1, <1>2 DEF Recents!InOrder
<1>4. \A x \in S : x \in DOMAIN q /\ x \in Nat
  OBVIOUS
<1>5. \A i, j \in 1..n : i < j => places[i] # places[j]
  BY <1>3, <1>4
<1>6. \A x \in S : \E k \in 1..n : places[k] = x
  BY <1>2, <1>3, <1>5, Covers
<1>7. t \in [1..n -> Recents!Records] /\ \A k \in 1..n : t[k] = q[places[k]]
  BY <1>1, <1>3, <1>4
<1>8. t \in Seq(Recents!Records) /\ Len(t) = n
  BY <1>2, <1>7
<1> QED BY <1>3, <1>6, <1>7, <1>8 DEF n

(* Before is an order of the positions, and theirs where the records are   *)
(* in the order of their stamps.                                           *)
LEMMA Orders ==
  ASSUME NEW q \in Seq(Recents!Records)
  PROVE  /\ \A x \in DOMAIN q : ~Recents!Before(q, x, x)
         /\ \A x, y \in DOMAIN q : Recents!Before(q, x, y) => q[x].at >= q[y].at /\ ~Recents!Before(q, y, x)
         /\ \A x, y \in DOMAIN q : x # y => Recents!Before(q, x, y) \/ Recents!Before(q, y, x)
         /\ Recents!InTime(q) => \A x, y \in DOMAIN q : Recents!Before(q, x, y) => x < y
<1>1. \A x \in DOMAIN q : x \in 1..Len(q) /\ q[x].at \in Nat /\ Len(q) \in Nat
  BY RecentsAssumed
<1> QED BY <1>1 DEF Recents!Before, Recents!InTime

(* What is sorted from a sequence is in the order of the stamps, and all   *)
(* of it is there.                                                         *)
LEMMA Sorts ==
  ASSUME NEW q \in Seq(Recents!Records), NEW S \in SUBSET DOMAIN q, NEW t \in Recents!Picked(q, Recents!Sorted(q, S))
  PROVE  \E places \in [1..Len(t) -> S] :
           /\ t \in Seq(Recents!Records) /\ Len(t) = Cardinality(S)
           /\ \A k \in 1..Len(t) : t[k] = q[places[k]]
           /\ \A i, j \in 1..Len(t) : i < j => Recents!Before(q, places[i], places[j])
           /\ \A x \in S : \E k \in 1..Len(t) : places[k] = x
<1>1. PICK places \in Recents!Sorted(q, S) : t = [k \in DOMAIN places |-> q[places[k]]]
  BY DEF Recents!Picked
<1> DEFINE n == Cardinality(S)
<1>2. n \in Nat /\ IsFiniteSet(S) /\ Cardinality(S) = n /\ n = Recents!Cardinality(S)
  BY CardinalOf, RecentsAssumed
<1> HIDE DEF n
<1>3. /\ places \in [1..n -> S]
      /\ \A i, j \in 1..n : i < j => Recents!Before(q, places[i], places[j])
  BY <1>1, <1>2 DEF Recents!Sorted
<1>4. \A x \in S : x \in DOMAIN q /\ x \in Nat
  OBVIOUS
<1>5. \A i, j \in 1..n : i < j => places[i] # places[j]
  BY <1>3, <1>4, Orders
<1>6. \A x \in S : \E k \in 1..n : places[k] = x
  BY <1>2, <1>3, <1>5, Covers
<1>7. t \in [1..n -> Recents!Records] /\ \A k \in 1..n : t[k] = q[places[k]]
  BY <1>1, <1>3, <1>4
<1>8. t \in Seq(Recents!Records) /\ Len(t) = n
  BY <1>2, <1>7
<1> QED BY <1>3, <1>6, <1>7, <1>8 DEF n

LEMMA SortedOnce ==
  ASSUME NEW q \in Seq(Recents!Records), NEW S \in SUBSET DOMAIN q,
         NEW t \in Recents!Picked(q, Recents!Sorted(q, S)), NEW u \in Recents!Picked(q, Recents!Sorted(q, S))
  PROVE  t = u
<1>1. PICK ts \in [1..Len(t) -> S] :
           /\ t \in Seq(Recents!Records) /\ Len(t) = Cardinality(S)
           /\ \A k \in 1..Len(t) : t[k] = q[ts[k]]
           /\ \A i, j \in 1..Len(t) : i < j => Recents!Before(q, ts[i], ts[j])
           /\ \A x \in S : \E k \in 1..Len(t) : ts[k] = x
  BY Sorts
<1>2. PICK us \in [1..Len(u) -> S] :
           /\ u \in Seq(Recents!Records) /\ Len(u) = Cardinality(S)
           /\ \A k \in 1..Len(u) : u[k] = q[us[k]]
           /\ \A i, j \in 1..Len(u) : i < j => Recents!Before(q, us[i], us[j])
           /\ \A x \in S : \E k \in 1..Len(u) : us[k] = x
  BY Sorts
<1> DEFINE n == Len(t)
           p == [k \in 1..n |-> CHOOSE m \in 1..n : us[m] = ts[k]]
<1>3. n \in Nat /\ Len(u) = n
  BY <1>1, <1>2
<1>4. \A k \in 1..n : ts[k] \in S /\ us[k] \in S
  BY <1>1, <1>2, <1>3
<1>5. \A k \in 1..n : p[k] \in 1..n /\ us[p[k]] = ts[k]
  <2>1. ASSUME NEW k \in 1..n
        PROVE  p[k] \in 1..n /\ us[p[k]] = ts[k]
    <3>1. \E m \in 1..n : us[m] = ts[k]
      BY <1>2, <1>3, <1>4
    <3> QED BY <3>1
  <2> QED BY <2>1
<1>6. p \in [1..n -> 1..n]
  BY <1>5
<1> HIDE DEF p
<1>7. ASSUME NEW i \in 1..n, NEW j \in 1..n, i < j
      PROVE  p[i] < p[j]
  <2>1. Recents!Before(q, us[p[i]], us[p[j]]) /\ us[p[i]] \in DOMAIN q /\ us[p[j]] \in DOMAIN q
    BY <1>1, <1>4, <1>5, <1>7
  <2>2. p[i] # p[j]
    BY <2>1, Orders
  <2>3. ~(p[j] < p[i])
    <3>1. p[j] < p[i] => Recents!Before(q, us[p[j]], us[p[i]])
      BY <1>2, <1>3, <1>5, <1>7
    <3> QED BY <2>1, <3>1, Orders
  <2>4. p[i] \in Nat /\ p[j] \in Nat
    BY <1>5
  <2> QED BY <2>2, <2>3, <2>4
<1> HIDE DEF n
<1>8. \A k \in 1..n : p[k] = k
  BY <1>3, <1>6, <1>7, RisingIsIdentity
<1>9. \A k \in 1..n : t[k] = u[k]
  BY <1>1, <1>2, <1>3, <1>5, <1>8 DEF n
<1> QED BY <1>1, <1>2, <1>3, <1>9 DEF n

(* What is in the order of its stamps is sorted as it is.                  *)
LEMMA SortedInTime ==
  ASSUME NEW q \in Seq(Recents!Records), NEW S \in SUBSET DOMAIN q, Recents!InTime(q),
         NEW t \in Recents!Picked(q, Recents!Sorted(q, S))
  PROVE  t \in Recents!Picked(q, Recents!InOrder(S))
<1>1. PICK places \in Recents!Sorted(q, S) : t = [k \in DOMAIN places |-> q[places[k]]]
  BY DEF Recents!Picked
<1>2. /\ places \in [1..Recents!Cardinality(S) -> S]
      /\ \A i, j \in DOMAIN places : i < j => Recents!Before(q, places[i], places[j])
  BY <1>1 DEF Recents!Sorted
<1>3. \A i, j \in DOMAIN places : i < j => places[i] < places[j]
  <2>1. \A i \in DOMAIN places : places[i] \in DOMAIN q
    BY <1>2
  <2> QED BY <1>2, <2>1, Orders
<1>4. places \in Recents!InOrder(S)
  BY <1>2, <1>3 DEF Recents!InOrder
<1> QED BY <1>1, <1>4 DEF Recents!Picked

(* Filtering leaves what stands where it stands, if it stays at all.       *)
LEMMA StandsInPick ==
  ASSUME NEW q \in Seq(Recents!Records), NEW S \in SUBSET DOMAIN q, NEW t \in Recents!Picked(q, Recents!InOrder(S)),
         NEW c \in [Searched -> Nat], NEW f, NEW n \in Nat, Stands(c, q, f, n),
         \A p \in DOMAIN q : q[p].symbol = f /\ (\A i \in 1..p - 1 : q[i].symbol # f) => p \in S
  PROVE  Stands(c, t, f, n)
<1>1. PICK places \in [1..Len(t) -> S] :
           /\ t \in Seq(Recents!Records)
           /\ \A k \in 1..Len(t) : t[k] = q[places[k]]
           /\ \A i, j \in 1..Len(t) : i < j => places[i] < places[j]
           /\ \A x \in S : \E k \in 1..Len(t) : places[k] = x
  BY Filters
<1>2. ASSUME NEW p \in DOMAIN q, Behind(c, q, f, n, p)
      PROVE  \E k \in DOMAIN t : Behind(c, t, f, n, k)
  <2>1. p \in S
    BY <1>2 DEF Behind
  <2>2. PICK k \in 1..Len(t) : places[k] = p
    BY <1>1, <2>1
  <2>3. t[k].symbol = f
    BY <1>1, <1>2, <2>2 DEF Behind
  <2>4. ASSUME NEW i \in 1..k - 1
        PROVE  t[i].symbol # f /\ c[t[i].symbol] > n
    <3>1. i \in 1..Len(t) /\ i < k
      BY <1>1
    <3>2. places[i] \in 1..Len(q) /\ places[i] < p /\ p \in 1..Len(q) /\ t[i] = q[places[i]]
      <4>1. i \in 1..Len(t) /\ k \in 1..Len(t) /\ places[k] = p
        BY <2>2, <3>1
      <4>2. places[i] \in S /\ t[i] = q[places[i]] /\ places[i] < p
        BY <1>1, <3>1, <4>1
      <4>3. \A x \in S : x \in 1..Len(q)
        OBVIOUS
      <4> QED BY <2>1, <4>2, <4>3
    <3>3. places[i] \in 1..p - 1
      BY <3>2
    <3> QED BY <1>2, <3>2, <3>3 DEF Behind
  <2>5. k \in DOMAIN t
    BY <1>1
  <2> QED BY <2>3, <2>4, <2>5 DEF Behind
<1> QED BY <1>2 DEF Stands

(* Keeping MaxRecent of them displaces only what MaxRecent others are      *)
(* before.                                                                 *)
LEMMA Shortened ==
  ASSUME NEW t \in Seq(Recents!Records), NoTwice(t)
  PROVE  /\ Recents!First(t) \in Seq(Recents!Records) /\ Len(Recents!First(t)) <= MaxRecent
         /\ Len(Recents!First(t)) <= Len(t)
         /\ Len(t) <= MaxRecent => Len(Recents!First(t)) = Len(t)
         /\ Len(t) > MaxRecent => Len(Recents!First(t)) = MaxRecent
         /\ \A k \in 1..Len(Recents!First(t)) : Recents!First(t)[k] = t[k]
         /\ NoTwice(Recents!First(t))
<1> DEFINE m == IF Len(t) < MaxRecent THEN Len(t) ELSE MaxRecent
           s == Recents!First(t)
<1>1. m \in 0..Len(t) /\ m \in Nat /\ s = SubSeq(t, 1, m)
  BY RecentsAssumed DEF Recents!First
<1>2. m <= MaxRecent /\ (Len(t) <= MaxRecent => m = Len(t)) /\ (Len(t) > MaxRecent => m = MaxRecent)
  BY RecentsAssumed
<1> HIDE DEF m
<1>3. s \in Seq(Recents!Records) /\ Len(s) = m /\ \A k \in 1..m : s[k] = t[k]
  BY <1>1
<1> HIDE DEF s
<1>4. NoTwice(s)
  BY <1>1, <1>3 DEF NoTwice
<1> QED BY <1>1, <1>2, <1>3, <1>4 DEF s

LEMMA StandsShortened ==
  ASSUME NEW t \in Seq(Recents!Records), NoTwice(t),
         NEW c \in [Searched -> Nat], NEW f, NEW n \in Nat, Stands(c, t, f, n)
  PROVE  Stands(c, Recents!First(t), f, n)
<1> DEFINE s == Recents!First(t)
<1>1. /\ s \in Seq(Recents!Records) /\ Len(s) \in Nat /\ Len(t) \in Nat
      /\ Len(t) <= MaxRecent => Len(s) = Len(t)
      /\ Len(t) > MaxRecent => Len(s) = MaxRecent
      /\ \A k \in 1..Len(s) : s[k] = t[k]
      /\ Len(s) <= Len(t)
  BY Shortened
<1> HIDE DEF s
<1>2. ASSUME NEW p \in DOMAIN t, Behind(c, t, f, n, p)
      PROVE  Stands(c, s, f, n)
  <2>1. p \in 1..Len(t)
    OBVIOUS
  <2>2. CASE p \in 1..Len(s)
    <3>1. s[p].symbol = f
      BY <1>1, <1>2, <2>2 DEF Behind
    <3>2. ASSUME NEW i \in 1..p - 1
          PROVE  s[i].symbol # f /\ c[s[i].symbol] > n
      <4>1. i \in 1..Len(s)
        BY <1>1, <2>2
      <4> QED BY <1>1, <1>2, <4>1 DEF Behind
    <3> QED BY <1>1, <2>2, <3>1, <3>2 DEF Behind, Stands
  <2>3. CASE p \notin 1..Len(s)
    <3>1. p > MaxRecent
      BY <1>1, <2>1, <2>3, RecentsAssumed
    <3> DEFINE D == {u \in Searched \ {f} : c[u] > n}
               g == [i \in 1..MaxRecent |-> t[i].symbol]
    <3>2. \A i \in 1..MaxRecent : t[i].symbol \in D /\ i \in 1..Len(t)
      <4>1. ASSUME NEW i \in 1..MaxRecent
            PROVE  t[i].symbol \in D /\ i \in 1..Len(t)
        <5>1. i \in 1..p - 1 /\ i \in 1..Len(t)
          BY <2>1, <3>1, RecentsAssumed
        <5>2. t[i].symbol \in Searched
          BY <5>1, RecentsAssumed
        <5>3. t[i].symbol # f /\ c[t[i].symbol] > n
          BY <1>2, <5>1 DEF Behind
        <5> QED BY <5>1, <5>2, <5>3
      <4> QED BY <4>1
    <3>3. IsFiniteSet(D)
      <4>1. D \subseteq Searched
        OBVIOUS
      <4> QED BY <4>1, RecentsAssumed, FS_Subset
    <3> HIDE DEF D
    <3>4. g \in Injection(1..MaxRecent, D)
      <4>1. g \in [1..MaxRecent -> D]
        BY <3>2
      <4>2. \A i, j \in 1..MaxRecent : g[i] = g[j] => i = j
        BY <3>2 DEF NoTwice
      <4> HIDE DEF g
      <4> QED BY <4>1, <4>2 DEF Injection, IsInjective
    <3>5. Cardinality(1..MaxRecent) <= Cardinality(D)
      BY <3>3, <3>4, FS_Injection
    <3>6. Cardinality(1..MaxRecent) = MaxRecent
      BY RecentsAssumed, FS_Interval
    <3>7. Cardinality(D) >= MaxRecent
      <4>1. Cardinality(D) \in Nat
        BY <3>3, FS_CardinalityType
      <4> QED BY <3>5, <3>6, <4>1, RecentsAssumed
    <3> QED BY <3>7 DEF D, Displaced, Stands
  <2> QED BY <2>2, <2>3
<1>3. CASE Displaced(c, f, n)
  BY <1>3 DEF Stands
<1> QED BY <1>2, <1>3 DEF s, Stands

(* The newest of each symbol.                                              *)
LEMMA TheNewest ==
  ASSUME NEW q \in Seq(Recents!Records)
  PROVE  /\ Recents!Newest(q) \in SUBSET DOMAIN q
         /\ \A x, y \in Recents!Newest(q) : q[x].symbol = q[y].symbol => x = y
         /\ NoTwice(q) => Recents!Newest(q) = DOMAIN q
         /\ Recents!InTime(q) =>
              \A p \in DOMAIN q : (\A i \in 1..p - 1 : q[i].symbol # q[p].symbol) => p \in Recents!Newest(q)
<1>1. Recents!Newest(q) \in SUBSET DOMAIN q /\ \A x, y \in Recents!Newest(q) : q[x].symbol = q[y].symbol => x = y
  BY Orders DEF Recents!Newest
<1>2. NoTwice(q) => Recents!Newest(q) = DOMAIN q
  <2>1. DOMAIN q = 1..Len(q)
    OBVIOUS
  <2>2. NoTwice(q) => \A i, j \in DOMAIN q : q[j].symbol = q[i].symbol => ~Recents!Before(q, j, i)
    BY <2>1, Orders DEF NoTwice
  <2> QED BY <2>2 DEF Recents!Newest
<1>3. ASSUME Recents!InTime(q), NEW p \in DOMAIN q, \A i \in 1..p - 1 : q[i].symbol # q[p].symbol
      PROVE  p \in Recents!Newest(q)
  <2>1. ASSUME NEW j \in DOMAIN q, q[j].symbol = q[p].symbol, Recents!Before(q, j, p)
        PROVE  FALSE
    <3>1. j < p
      BY <1>3, <2>1, Orders
    <3>2. j \in 1..p - 1
      BY <3>1
    <3> QED BY <1>3, <2>1, <3>2
  <2> QED BY <2>1 DEF Recents!Newest
<1> QED BY <1>1, <1>2, <1>3

(* What parseEnvelope keeps of an item: no symbol twice, in the order of   *)
(* the stamps, and always the same; and what stands on the device stands   *)
(* in it, if it is in that order there.                                    *)
LEMMA ParsedKeeps ==
  ASSUME NEW q \in Seq(Recents!Records), NEW r \in Recents!Parsed(q)
  PROVE  /\ r \in Seq(Recents!Records) /\ NoTwice(r) /\ Len(r) <= MaxRecent /\ Recents!InTime(r)
         /\ \A x \in Recents!Parsed(q) : x = r
         /\ Recents!InTime(q) =>
              \A c \in [Searched -> Nat], f \in Searched, n \in Nat :
                Stands(c, q, f, n) => Stands(c, r, f, n)
<1> DEFINE S == Recents!Newest(q)
<1>1. PICK t \in Recents!Picked(q, Recents!Sorted(q, S)) : r = Recents!First(t)
  BY DEF Recents!Parsed
<1>2. S \in SUBSET DOMAIN q /\ \A x, y \in S : q[x].symbol = q[y].symbol => x = y
  BY TheNewest
<1>3. \A x \in Recents!Parsed(q) : x = r
  <2>1. ASSUME NEW x \in Recents!Parsed(q)
        PROVE  x = r
    <3>1. PICK u \in Recents!Picked(q, Recents!Sorted(q, S)) : x = Recents!First(u)
      BY DEF Recents!Parsed
    <3>2. u = t
      BY <1>2, SortedOnce
    <3> QED BY <1>1, <3>1, <3>2
  <2> QED BY <2>1
<1> HIDE DEF S
<1>4. PICK places \in [1..Len(t) -> S] :
           /\ t \in Seq(Recents!Records) /\ Len(t) = Cardinality(S)
           /\ \A k \in 1..Len(t) : t[k] = q[places[k]]
           /\ \A i, j \in 1..Len(t) : i < j => Recents!Before(q, places[i], places[j])
           /\ \A x \in S : \E k \in 1..Len(t) : places[k] = x
  BY <1>2, Sorts
<1>5. /\ \A i, j \in 1..Len(t) : i < j => t[i].symbol # t[j].symbol /\ t[i].at >= t[j].at
      /\ Len(t) \in Nat
  <2>1. ASSUME NEW i \in 1..Len(t), NEW j \in 1..Len(t), i < j
        PROVE  t[i].symbol # t[j].symbol /\ t[i].at >= t[j].at
    <3>1. /\ places[i] \in S /\ places[j] \in S /\ places[i] \in DOMAIN q /\ places[j] \in DOMAIN q
          /\ t[i] = q[places[i]] /\ t[j] = q[places[j]] /\ Recents!Before(q, places[i], places[j])
      BY <1>2, <1>4, <2>1
    <3>2. places[i] # places[j] /\ q[places[i]].at >= q[places[j]].at
      BY <3>1, Orders
    <3> QED BY <1>2, <3>1, <3>2
  <2> QED BY <1>4, <2>1
<1>6. NoTwice(t)
  BY <1>5 DEF NoTwice
<1>7. r \in Seq(Recents!Records) /\ NoTwice(r) /\ Len(r) <= MaxRecent
      /\ Len(r) <= Len(t) /\ \A k \in 1..Len(r) : r[k] = t[k]
  BY <1>1, <1>4, <1>6, Shortened
<1>8. Recents!InTime(r)
  <2>1. \A k \in 1..Len(r) : k \in 1..Len(t) /\ r[k] = t[k]
    BY <1>4, <1>7
  <2>2. DOMAIN r = 1..Len(r)
    BY <1>7
  <2> QED BY <1>5, <2>1, <2>2 DEF Recents!InTime
<1>9. ASSUME Recents!InTime(q), NEW c \in [Searched -> Nat], NEW f \in Searched, NEW n \in Nat, Stands(c, q, f, n)
      PROVE  Stands(c, r, f, n)
  <2>1. \A p \in DOMAIN q : q[p].symbol = f /\ (\A i \in 1..p - 1 : q[i].symbol # f) => p \in S
    BY <1>9, TheNewest DEF S
  <2>2. t \in Recents!Picked(q, Recents!InOrder(S))
    BY <1>1, <1>2, <1>9, SortedInTime
  <2>3. Stands(c, t, f, n)
    BY <1>2, <1>9, <2>1, <2>2, StandsInPick
  <2> QED BY <1>1, <1>4, <1>6, <2>3, StandsShortened
<1> QED BY <1>3, <1>7, <1>8, <1>9

(* What was written by a session is read by the next: the same records,    *)
(* and as they were if they were in the order of their stamps.             *)
LEMMA ParsedAgain ==
  ASSUME NEW q \in Seq(Recents!Records), NoTwice(q), Len(q) <= MaxRecent, NEW r \in Recents!Parsed(q)
  PROVE  Recents!Range(r) = Recents!Range(q) /\ (Recents!InTime(q) => r = q)
<1>1. PICK t \in Recents!Picked(q, Recents!Sorted(q, DOMAIN q)) : r = Recents!First(t)
  BY TheNewest DEF Recents!Parsed
<1>2. PICK places \in [1..Len(t) -> DOMAIN q] :
           /\ t \in Seq(Recents!Records) /\ Len(t) = Cardinality(DOMAIN q)
           /\ \A k \in 1..Len(t) : t[k] = q[places[k]]
           /\ \A i, j \in 1..Len(t) : i < j => Recents!Before(q, places[i], places[j])
           /\ \A x \in DOMAIN q : \E k \in 1..Len(t) : places[k] = x
  BY Sorts
<1>3. DOMAIN q = 1..Len(q) /\ Len(q) \in Nat /\ Len(t) = Len(q)
  <2>1. DOMAIN q = 1..Len(q) /\ Len(q) \in Nat
    OBVIOUS
  <2>3. \A m \in Nat : Cardinality(1..m) = m
    BY FS_Interval
  <2>2. Cardinality(1..Len(q)) = Len(q)
    BY <2>1, <2>3
  <2> QED BY <1>2, <2>1, <2>2
<1>4. r = t
  <2>1. Len(t) <= MaxRecent
    BY <1>3
  <2>2. NoTwice(t)
    <3>1. ASSUME NEW i \in 1..Len(t), NEW j \in 1..Len(t), t[i].symbol = t[j].symbol
          PROVE  i = j
      <4>1. /\ t[i] = q[places[i]] /\ t[j] = q[places[j]] /\ places[i] \in 1..Len(q) /\ places[j] \in 1..Len(q)
        BY <1>2, <1>3
      <4>2. places[i] = places[j]
        BY <3>1, <4>1 DEF NoTwice
      <4>3. ~(i < j) /\ ~(j < i)
        BY <1>2, <1>3, <4>1, <4>2, Orders
      <4> QED BY <1>3, <4>3
    <3> QED BY <3>1 DEF NoTwice
  <2>3. r \in Seq(Recents!Records) /\ Len(r) = Len(t) /\ \A k \in 1..Len(r) : r[k] = t[k]
    BY <1>1, <1>2, <2>1, <2>2, Shortened
  <2> QED BY <1>2, <2>3
<1>5. Recents!Range(t) = Recents!Range(q)
  <2>1. \A k \in DOMAIN t : places[k] \in DOMAIN q /\ t[k] = q[places[k]]
    BY <1>2
  <2>2. \A x \in DOMAIN q : \E k \in DOMAIN t : t[k] = q[x]
    BY <1>2
  <2>3. \A z : z \in {t[k] : k \in DOMAIN t} <=> z \in {q[x] : x \in DOMAIN q}
    BY <2>1, <2>2
  <2> QED BY <2>3 DEF Recents!Range
<1>6. ASSUME Recents!InTime(q)
      PROVE  t = q
  <2>1. places \in [1..Len(q) -> 1..Len(q)]
    BY <1>3
  <2>2. \A i, j \in 1..Len(q) : i < j => places[i] < places[j]
    BY <1>2, <1>3, <1>6, <2>1, Orders
  <2>3. \A k \in 1..Len(q) : places[k] = k
    BY <1>3, <2>1, <2>2, RisingIsIdentity
  <2> QED BY <1>2, <1>3, <2>3
<1> QED BY <1>4, <1>5, <1>6

(* The selected symbol is first, and everything else stands behind it.     *)
LEMMA InFrontKeeps ==
  ASSUME memory \in Seq(Recents!Records), NoTwice(memory), NEW s \in Recents!Records, NEW r \in Recents!InFront(s)
  PROVE  /\ r \in Seq(Recents!Records) /\ NoTwice(r) /\ Len(r) <= MaxRecent /\ Len(r) >= 1 /\ r[1] = s
         /\ \A c \in [Searched -> Nat], f \in Searched \cup {None}, n \in Nat :
              f # s.symbol /\ c[s.symbol] > n /\ Stands(c, memory, f, n) => Stands(c, r, f, n)
<1> DEFINE S == {i \in DOMAIN memory : memory[i].symbol # s.symbol}
<1>1. PICK t \in Recents!Picked(memory, Recents!InOrder(S)) : r = Recents!First(<<s>> \o t)
  BY DEF Recents!InFront
<1>2. S \in SUBSET DOMAIN memory /\ \A p \in S : memory[p].symbol # s.symbol
  OBVIOUS
<1>3. \A p \in DOMAIN memory : memory[p].symbol # s.symbol => p \in S
  OBVIOUS
<1> HIDE DEF S
<1>4. PICK places \in [1..Len(t) -> S] :
           /\ t \in Seq(Recents!Records)
           /\ \A k \in 1..Len(t) : t[k] = memory[places[k]]
           /\ \A i, j \in 1..Len(t) : i < j => places[i] < places[j]
           /\ \A x \in S : \E k \in 1..Len(t) : places[k] = x
  BY <1>2, Filters
<1> DEFINE u == <<s>> \o t
<1>5. /\ u \in Seq(Recents!Records) /\ Len(u) = Len(t) + 1 /\ Len(t) \in Nat
      /\ u[1] = s /\ \A k \in 1..Len(t) : u[k + 1] = t[k]
  BY <1>4
<1> HIDE DEF u
<1>6. NoTwice(u)
  <2>1. \A i, j \in 1..Len(t) : i < j => t[i].symbol # t[j].symbol
    <3>1. ASSUME NEW i \in 1..Len(t), NEW j \in 1..Len(t), i < j
          PROVE  t[i].symbol # t[j].symbol
      <4>1. \A x \in S : x \in 1..Len(memory)
        BY <1>2
      <4>2. places[i] \in 1..Len(memory) /\ places[j] \in 1..Len(memory) /\ places[i] # places[j]
        BY <1>4, <3>1, <4>1
      <4> QED BY <1>4, <4>2 DEF NoTwice
    <3> QED BY <3>1
  <2>2. \A k \in 1..Len(t) : t[k].symbol # s.symbol
    BY <1>2, <1>4
  <2>3. ASSUME NEW i \in 1..Len(u), NEW j \in 1..Len(u), i < j
        PROVE  u[i].symbol # u[j].symbol
    <3>1. j - 1 \in 1..Len(t) /\ u[j] = t[j - 1]
      BY <1>5, <2>3
    <3>2. CASE i = 1
      BY <1>5, <2>2, <3>1, <3>2
    <3>3. CASE i # 1
      <4>1. i - 1 \in 1..Len(t) /\ u[i] = t[i - 1] /\ i - 1 < j - 1
        BY <1>5, <2>3, <3>3
      <4> QED BY <2>1, <3>1, <4>1
    <3> QED BY <3>2, <3>3
  <2> QED BY <1>5, <2>3 DEF NoTwice
<1>7. /\ r \in Seq(Recents!Records) /\ NoTwice(r) /\ Len(r) <= MaxRecent
      /\ Len(u) <= MaxRecent => Len(r) = Len(u)
      /\ Len(u) > MaxRecent => Len(r) = MaxRecent
      /\ \A k \in 1..Len(r) : r[k] = u[k]
  BY <1>1, <1>5, <1>6, Shortened DEF u
<1>8. Len(r) >= 1 /\ r[1] = s
  <2>1. Len(r) \in Nat /\ Len(r) >= 1
    BY <1>5, <1>7, RecentsAssumed
  <2> QED BY <1>5, <1>7, <2>1
<1>9. ASSUME NEW c \in [Searched -> Nat], NEW f \in Searched \cup {None}, NEW n \in Nat,
             f # s.symbol, c[s.symbol] > n, Stands(c, memory, f, n)
      PROVE  Stands(c, r, f, n)
  <2>1. \A p \in DOMAIN memory : memory[p].symbol = f /\ (\A i \in 1..p - 1 : memory[i].symbol # f) => p \in S
    BY <1>3, <1>9
  <2>2. Stands(c, t, f, n)
    BY <1>2, <1>9, <2>1, StandsInPick
  <2>3. ASSUME NEW p \in DOMAIN t, Behind(c, t, f, n, p)
        PROVE  Stands(c, u, f, n)
    <3>1. p \in 1..Len(t) /\ p + 1 \in 1..Len(u) /\ u[p + 1].symbol = f
      <4>1. p \in 1..Len(t) /\ t[p].symbol = f
        BY <1>4, <2>3 DEF Behind
      <4> QED BY <1>5, <4>1
    <3>2. ASSUME NEW i \in 1..p
          PROVE  u[i].symbol # f /\ c[u[i].symbol] > n
      <4>1. CASE i = 1
        BY <1>5, <1>9, <4>1
      <4>2. CASE i # 1
        <5>1. i - 1 \in 1..p - 1 /\ i - 1 \in 1..Len(t) /\ u[i] = t[i - 1]
          <6>1. i - 1 \in 1..p - 1 /\ i - 1 \in 1..Len(t)
            BY <3>1, <4>2, <1>5
          <6>2. u[(i - 1) + 1] = t[i - 1]
            BY <1>5, <6>1
          <6> QED BY <6>1, <6>2
        <5> QED BY <2>3, <5>1 DEF Behind
      <4> QED BY <4>1, <4>2
    <3>3. (p + 1) - 1 = p /\ p + 1 \in DOMAIN u
      BY <1>5, <3>1
    <3> QED BY <3>1, <3>2, <3>3 DEF Behind, Stands
  <2>4. CASE Displaced(c, f, n)
    BY <2>4 DEF Stands
  <2>5. Stands(c, u, f, n)
    BY <2>2, <2>3, <2>4 DEF Stands
  <2> QED BY <1>1, <1>5, <1>6, <2>5, StandsShortened DEF u
<1> QED BY <1>7, <1>8, <1>9

(* What the next session reads of an item this one parsed, wrote or        *)
(* emptied.                                                                *)
ReadsBack(d, m) ==
  \A read \in Recents!Parsed(d) :
    Recents!Range(read) = Recents!Range(m) /\ (Recents!InTime(m) => read = m)

LEMMA ReadsAgain ==
  /\ \A d \in Seq(Recents!Records) : \A m \in Recents!Parsed(d) : ReadsBack(d, m)
  /\ \A m \in Seq(Recents!Records) : NoTwice(m) /\ Len(m) <= MaxRecent => ReadsBack(m, m)
  /\ ReadsBack(<<>>, <<>>) /\ Recents!InTime(<<>>)
<1>1. \A d \in Seq(Recents!Records) : \A m \in Recents!Parsed(d) : ReadsBack(d, m)
  BY ParsedKeeps DEF ReadsBack
<1>2. \A m \in Seq(Recents!Records) : NoTwice(m) /\ Len(m) <= MaxRecent => ReadsBack(m, m)
  BY ParsedAgain DEF ReadsBack
<1>3. <<>> \in Seq(Recents!Records) /\ NoTwice(<<>>) /\ Len(<<>>) <= MaxRecent
  BY RecentsAssumed DEF NoTwice
<1>4. Recents!InTime(<<>>)
  BY DEF Recents!InTime
<1> QED BY <1>1, <1>2, <1>3, <1>4

LEMMA MemoryReads ==
  ASSUME hydration' # "done" \/ queue' # <<>> \/ dirty' \/ ReadsBack(Recents!OnDevice', memory')
  PROVE  Recents!MemoryIsDurable'
BY DEF Recents!MemoryIsDurable, ReadsBack

LEMMA RecentsFields ==
  ASSUME RecentsTypes
  PROVE  RecentsTyped
<1>1. \A k \in 1..Len(queue) : queue[k] \in Writes
  BY ElementOfSeq DEF RecentsTypes
<1>2. \A w \in Writes : /\ w.records \in Seq(Recents!Records) /\ w.number \in 0..MaxSelections
                         /\ w.number \in Nat /\ w.for \in Searched \cup {None}
  BY RecentsAssumed DEF Writes
<1>3. Recents!OnDevice \in Seq(Recents!Records)
  <2>1. CASE disk \in {Recents!Nothing, Recents!Garbage}
    BY <2>1 DEF Recents!OnDevice, Recents!Nothing, Recents!Garbage
  <2>2. CASE disk \in Items
    BY <2>2 DEF Recents!OnDevice, Items
  <2> QED BY <2>1, <2>2 DEF RecentsTypes
<1>4. /\ waiting \in Seq(Searched) /\ Len(waiting) \in Nat /\ queue \in Seq(Writes) /\ Len(queue) \in Nat
      /\ calls \in Nat
  BY RecentsAssumed DEF RecentsTypes
<1>5. chosen \in [Searched -> Nat] /\ acked \in [Searched -> Nat]
  BY RecentsAssumed DEF RecentsTypes
<1> QED BY <1>1, <1>2, <1>3, <1>4, <1>5 DEF RecentsTyped

LEMMA RecentsStart ==
  ASSUME Recents!Init
  PROVE  RecentsInv
<1>1. /\ memory = <<>> /\ waiting = <<>> /\ queue = <<>> /\ hydration = "asked"
      /\ calls = 0 /\ faults = 0 /\ dirty = FALSE
      /\ chosen = [s \in Searched |-> 0] /\ acked = [s \in Searched |-> 0]
      /\ setBack = ~Recents!InTime(Recents!OnDevice)
  BY DEF Recents!Init
<1>2. /\ <<>> \in Seq(Recents!Records) /\ <<>> \in Seq(Searched) /\ <<>> \in Seq(Writes) /\ Len(<<>>) = 0
      OBVIOUS
<1>3. disk \in {Recents!Nothing, Recents!Garbage} \/ disk \in Items
  BY RecentsAssumed DEF Recents!Init, Items
<1>4. chosen \in [Searched -> 0..MaxSelections] /\ acked \in [Searched -> 0..MaxSelections]
  BY <1>1, RecentsAssumed
<1>9. setBack \in BOOLEAN /\ (~setBack => Recents!InTime(Recents!OnDevice))
  BY <1>1 DEF Recents!InTime
<1>5. RecentsTypes
  <2>1. NoTwice(<<>>) /\ Len(<<>>) <= MaxRecent /\ 0 \in 0..MaxSelections /\ 0 \in 0..MaxWriteFaults
    BY RecentsAssumed DEF NoTwice
  <2> QED BY <1>1, <1>2, <1>3, <1>4, <2>1 DEF RecentsTypes
<1>6. RecentsCounted /\ RecentsQueued /\ Recents!MemoryIsDurable
  BY <1>1, <1>2 DEF RecentsCounted, Recorded, RecentsQueued, Recents!MemoryIsDurable
<1>7. RecentsStand
  BY <1>1, <1>2 DEF RecentsStand
<1>8. RecentsInTime
  BY <1>1, <1>2, <1>9, ReadsAgain DEF RecentsInTime
<1> QED BY <1>5, <1>6, <1>7, <1>8 DEF RecentsInv

LEMMA RecentsLoads ==
  ASSUME RecentsInv, Recents!Load
  PROVE  RecentsInv'
<1>1. /\ queue = <<>> /\ hydration = "asked"
      /\ UNCHANGED <<disk, waiting, calls, faults, chosen, acked, dirty, setBack>>
  BY DEF Recents!Load, RecentsInv, RecentsQueued
<1>2. Recents!OnDevice' = Recents!OnDevice /\ Recents!Nothing' = Recents!Nothing /\ Recents!Garbage' = Recents!Garbage
  BY <1>1 DEF Recents!OnDevice, Recents!Nothing, Recents!Garbage
<1>3. RecentsTyped
  BY RecentsFields DEF RecentsInv
<1>7. <<>> \in Seq(Recents!Records) /\ NoTwice(<<>>) /\ Len(<<>>) <= MaxRecent
  BY RecentsAssumed DEF NoTwice
<1>4. CASE disk = Recents!Nothing
  <2>1. hydration' = "done" /\ memory' = <<>> /\ queue' = queue
    BY <1>1, <1>4 DEF Recents!Load, Recents!Nothing, Recents!Garbage
  <2>2. Recents!OnDevice = <<>>
    BY <1>4 DEF Recents!OnDevice, Recents!Nothing
  <2>3. RecentsTypes'
    BY <1>1, <1>2, <1>7, <2>1 DEF RecentsInv, RecentsTypes
  <2>4. RecentsQueued' /\ RecentsCounted' /\ RecentsInTime'
    BY <1>1, <1>2, <2>1, <2>2, ReadsAgain
       DEF RecentsInv, RecentsQueued, RecentsCounted, Recorded, RecentsInTime
  <2>6. Recents!MemoryIsDurable'
    BY <1>2, <2>1, <2>2, MemoryReads, ReadsAgain
  <2>5. RecentsStand'
    BY <1>1, <1>2, <2>1, <2>2 DEF RecentsInv, RecentsStand, AckStands, WriteStands
  <2> QED BY <2>3, <2>4, <2>5, <2>6 DEF RecentsInv
<1>5. CASE disk = Recents!Garbage
  <2>1. hydration' = "discard" /\ memory' = memory /\ queue' = queue
    BY <1>1, <1>5 DEF Recents!Load, Recents!Nothing, Recents!Garbage
  <2>3. RecentsTypes'
    BY <1>1, <1>2, <2>1 DEF RecentsInv, RecentsTypes
  <2>4. RecentsQueued' /\ RecentsCounted' /\ RecentsInTime' /\ Recents!MemoryIsDurable'
    BY <1>1, <1>2, <1>5, <2>1, MemoryReads DEF RecentsInv, RecentsQueued, RecentsCounted, Recorded, RecentsInTime
  <2>5. RecentsStand'
    BY <1>1, <1>2, <2>1 DEF RecentsInv, RecentsStand, AckStands, WriteStands
  <2> QED BY <2>3, <2>4, <2>5 DEF RecentsInv
<1>6. CASE disk \notin {Recents!Nothing, Recents!Garbage}
  <2>1. disk \in Items /\ disk.records \in Seq(Recents!Records) /\ Recents!OnDevice = disk.records
    BY <1>6 DEF RecentsInv, RecentsTypes, Items, Recents!OnDevice
  <2>2. PICK r \in Recents!Parsed(disk.records) :
          /\ memory' = r
          /\ IF Recents!Repaired(disk, r)
             THEN hydration' = "repair" /\ queue' = Recents!Persisting(r, None, 0)
             ELSE hydration' = "done" /\ UNCHANGED queue
    BY <1>6 DEF Recents!Load
  <2>3. /\ r \in Seq(Recents!Records) /\ NoTwice(r) /\ Len(r) <= MaxRecent /\ Recents!InTime(r)
        /\ Recents!InTime(disk.records) =>
             \A c \in [Searched -> Nat], f \in Searched, n \in Nat :
               Stands(c, disk.records, f, n) => Stands(c, r, f, n)
    BY <2>1, <2>2, ParsedKeeps
  <2>7. setBack' = setBack /\ (~setBack => Recents!InTime(disk.records))
    BY <1>1, <2>1 DEF RecentsInv, RecentsInTime
  <2>4. ~setBack => \A f \in Searched : acked[f] > 0 =>
          Stands(chosen, Recents!OnDevice, f, acked[f]) /\ Stands(chosen, r, f, acked[f])
    BY <1>3, <2>1, <2>3, <2>7 DEF RecentsInv, RecentsStand, AckStands, RecentsTyped
  <2>5. CASE Recents!Repaired(disk, r)
    <3> DEFINE fresh == [records |-> r, for |-> None, number |-> 0]
    <3>1. hydration' = "repair" /\ queue' = Append(<<>>, fresh)
      BY <1>1, <2>2, <2>5 DEF Recents!Persisting
    <3>2. fresh \in Writes /\ fresh.records = r /\ fresh.for = None /\ fresh.number = 0 /\ <<>> \in Seq(Writes)
      BY <2>3, RecentsAssumed DEF Writes
    <3> HIDE DEF fresh
    <3>3. queue' \in Seq(Writes) /\ queue' # <<>> /\ Len(queue') = 1 /\ queue'[1] = fresh
      BY <3>1, <3>2, Appended
    <3>4. RecentsTypes'
      BY <1>1, <1>2, <2>2, <2>3, <3>1, <3>3 DEF RecentsInv, RecentsTypes
    <3>5. RecentsQueued' /\ Recents!MemoryIsDurable'
      BY <1>1, <1>2, <2>2, <3>1, <3>2, <3>3, MemoryReads DEF RecentsInv, RecentsQueued
    <3>8. RecentsInTime'
      BY <1>1, <1>2, <2>1, <2>2, <2>3, <2>7, <3>2, <3>3 DEF RecentsInv, RecentsInTime
    <3>7. RecentsCounted'
      <4>1. 0 <= Recorded /\ Recorded' = Recorded
        BY <1>1, <1>3 DEF RecentsTyped, Recorded, RecentsInv, RecentsCounted
      <4> HIDE DEF Recorded
      <4>2. \A k \in 1..Len(queue') : queue'[k].number = 0
        BY <3>2, <3>3
      <4> QED BY <1>1, <4>1, <4>2 DEF RecentsInv, RecentsCounted
    <3>6. RecentsStand'
      BY <1>1, <1>2, <2>2, <2>4, <3>2, <3>3 DEF RecentsStand, AckStands, WriteStands
    <3> QED BY <3>4, <3>5, <3>6, <3>7, <3>8 DEF RecentsInv
  <2>6. CASE ~Recents!Repaired(disk, r)
    <3>1. hydration' = "done" /\ queue' = queue
      BY <2>2, <2>6
    <3>4. RecentsTypes'
      BY <1>1, <1>2, <2>2, <2>3, <3>1 DEF RecentsInv, RecentsTypes
    <3>5. RecentsQueued' /\ RecentsCounted' /\ RecentsInTime'
      BY <1>1, <1>2, <2>1, <2>2, <2>3, <2>7, <3>1
         DEF RecentsInv, RecentsQueued, RecentsCounted, Recorded, RecentsInTime
    <3>7. Recents!MemoryIsDurable'
      BY <1>2, <2>1, <2>2, MemoryReads, ReadsAgain
    <3>6. RecentsStand'
      BY <1>1, <1>2, <2>2, <2>4, <3>1 DEF RecentsStand, AckStands, WriteStands
    <3> QED BY <3>4, <3>5, <3>6, <3>7 DEF RecentsInv
  <2> QED BY <2>5, <2>6
<1> QED BY <1>4, <1>5, <1>6

(* Whatever was read is given up: nothing that was acknowledged counts, or *)
(* nothing was.                                                            *)
LEMMA RecentsStops ==
  ASSUME RecentsInv, Recents!Discard \/ Recents!LoadFails
  PROVE  RecentsInv'
<1>1. /\ queue = <<>> /\ queue' = <<>> /\ hydration \in {"asked", "discard"} /\ UNCHANGED <<waiting, calls, chosen, dirty, setBack>>
      /\ hydration' \in {"done", "failed"}
  BY DEF Recents!Discard, Recents!LoadFails, RecentsInv, RecentsQueued
<1>2. RecentsTyped
  BY RecentsFields DEF RecentsInv
<1>3. Recents!Nothing' = Recents!Nothing /\ Recents!Garbage' = Recents!Garbage
  BY DEF Recents!Nothing, Recents!Garbage
<1>4. <<>> \in Seq(Recents!Records) /\ NoTwice(<<>>) /\ Len(<<>>) <= MaxRecent /\ Len(<<>>) = 0
  BY RecentsAssumed DEF NoTwice
<1>5. CASE Recents!Discard
  <2>1. disk = Recents!Garbage /\ disk' = Recents!Nothing /\ memory' = <<>> /\ UNCHANGED <<faults, acked>>
    BY <1>5 DEF Recents!Discard, RecentsInv, RecentsQueued
  <2>2. Recents!OnDevice = <<>> /\ Recents!OnDevice' = <<>>
    BY <2>1 DEF Recents!OnDevice, Recents!Nothing, Recents!Garbage
  <2>3. RecentsTypes'
    BY <1>1, <1>3, <1>4, <2>1 DEF RecentsInv, RecentsTypes
  <2>4. RecentsQueued' /\ RecentsCounted' /\ RecentsInTime'
    BY <1>1, <1>4, <2>1, <2>2, ReadsAgain DEF RecentsInv, RecentsQueued, RecentsCounted, Recorded, RecentsInTime
  <2>6. Recents!MemoryIsDurable'
    BY <2>1, <2>2, MemoryReads, ReadsAgain
  <2>5. RecentsStand'
    BY <1>1, <1>4, <2>1, <2>2 DEF RecentsInv, RecentsStand, AckStands, WriteStands
  <2> QED BY <2>3, <2>4, <2>5, <2>6 DEF RecentsInv
<1>6. CASE Recents!LoadFails
  <2>1. /\ UNCHANGED <<disk, memory>> /\ acked' = [s \in Searched |-> 0] /\ faults' = faults + 1
        /\ faults < MaxWriteFaults /\ hydration' = "failed"
    BY <1>6 DEF Recents!LoadFails
  <2>2. acked' \in [Searched -> 0..MaxSelections] /\ faults' \in 0..MaxWriteFaults
    BY <2>1, RecentsAssumed DEF RecentsInv, RecentsTypes
  <2>3. RecentsTypes'
    BY <1>1, <1>3, <2>1, <2>2 DEF RecentsInv, RecentsTypes
  <2>4. RecentsQueued' /\ RecentsInTime' /\ Recents!MemoryIsDurable'
    <3>1. Recents!OnDevice' = Recents!OnDevice
      BY <2>1 DEF Recents!OnDevice
    <3> QED BY <1>1, <1>4, <2>1, <3>1, MemoryReads DEF RecentsInv, RecentsQueued, RecentsInTime
  <2>5. RecentsCounted'
    BY <1>1, <1>2, <2>1 DEF RecentsInv, RecentsCounted, Recorded, RecentsTyped
  <2>6. RecentsStand'
    BY <1>1, <1>4, <2>1 DEF RecentsStand
  <2> QED BY <2>3, <2>4, <2>5, <2>6 DEF RecentsInv
<1> QED BY <1>5, <1>6

LEMMA RecentsSelect ==
  ASSUME RecentsInv, NEW s \in Searched, Recents!Select(s)
  PROVE  RecentsInv'
<1>1. /\ UNCHANGED <<disk, memory, hydration, queue, faults, chosen, acked, dirty, setBack>>
      /\ calls < MaxSelections /\ calls' = calls + 1 /\ waiting' = Append(waiting, s)
  BY DEF Recents!Select
<1>2. RecentsTyped /\ waiting \in Seq(Searched) /\ calls \in 0..MaxSelections
  BY RecentsFields DEF RecentsInv, RecentsTypes
<1>3. waiting' \in Seq(Searched) /\ Len(waiting') = Len(waiting) + 1 /\ calls' \in 0..MaxSelections
  BY <1>1, <1>2, RecentsAssumed DEF RecentsTyped
<1>4. Recorded' = Recorded /\ Len(waiting') <= calls'
  BY <1>1, <1>2, <1>3 DEF Recorded, RecentsTyped, RecentsInv, RecentsCounted
<1>5. Recents!OnDevice' = Recents!OnDevice /\ Recents!Nothing' = Recents!Nothing /\ Recents!Garbage' = Recents!Garbage
  BY <1>1 DEF Recents!OnDevice, Recents!Nothing, Recents!Garbage
<1>6. RecentsTypes'
  BY <1>1, <1>3, <1>5 DEF RecentsInv, RecentsTypes
<1>7. RecentsCounted'
  BY <1>1, <1>4 DEF RecentsInv, RecentsCounted
<1>8. RecentsQueued' /\ RecentsInTime' /\ RecentsStand'
  BY <1>1, <1>5 DEF RecentsInv, RecentsQueued, RecentsInTime, RecentsStand, AckStands, WriteStands
<1>9. Recents!MemoryIsDurable'
  BY <1>1, <1>5 DEF RecentsInv, Recents!MemoryIsDurable
<1> QED BY <1>6, <1>7, <1>8, <1>9 DEF RecentsInv

LEMMA RecentsRecord ==
  ASSUME RecentsInv, Recents!Record
  PROVE  RecentsInv'
<1> DEFINE s == Head(waiting)
           m == calls - Len(waiting) + 1
           fresh == [records |-> memory', for |-> s, number |-> m]
<1>1. /\ waiting # <<>> /\ waiting' = Tail(waiting) /\ hydration \in {"done", "failed"}
      /\ \E now \in 0..MaxStamp : memory' \in Recents!InFront([symbol |-> s, at |-> now])
      /\ setBack' = (setBack \/ ~Recents!InTime(memory')) /\ chosen' = [chosen EXCEPT ![s] = m]
      /\ queue' = Append(queue, fresh)
      /\ UNCHANGED <<disk, hydration, calls, faults, acked, dirty>>
  BY DEF Recents!Record, Recents!Persisting
<1>2. RecentsTyped /\ RecentsTypes
  BY RecentsFields DEF RecentsInv
<1>3. /\ s \in Searched /\ waiting' \in Seq(Searched) /\ Len(waiting) \in Nat \ {0}
      /\ Len(waiting') = Len(waiting) - 1
  <2>1. waiting \in Seq(Searched)
    BY <1>2 DEF RecentsTypes
  <2> QED BY <1>1, <2>1, HeadAndTail
<1>4. m \in 0..MaxSelections /\ m \in Nat /\ m > 0 /\ Recorded' = Recorded + 1 /\ m = Recorded' /\ Recorded \in Int
      /\ Len(waiting') <= calls'
  BY <1>1, <1>2, <1>3, RecentsAssumed DEF RecentsTyped, RecentsTypes, RecentsInv, RecentsCounted, Recorded
<1>5. /\ memory' \in Seq(Recents!Records) /\ NoTwice(memory') /\ Len(memory') <= MaxRecent
      /\ Len(memory') >= 1 /\ memory'[1].symbol = s
      /\ \A c \in [Searched -> Nat], f \in Searched \cup {None}, n \in Nat :
           f # s /\ c[s] > n /\ Stands(c, memory, f, n) => Stands(c, memory', f, n)
  <2>1. PICK now \in 0..MaxStamp : memory' \in Recents!InFront([symbol |-> s, at |-> now])
    BY <1>1
  <2> DEFINE new == [symbol |-> s, at |-> now]
  <2>2. new \in Recents!Records /\ new.symbol = s
    BY <1>3, RecentsAssumed
  <2> HIDE DEF new
  <2> QED BY <1>2, <2>1, <2>2, InFrontKeeps DEF RecentsTypes, new
<1>6. fresh \in Writes /\ fresh.records = memory' /\ fresh.for = s /\ fresh.number = m
  BY <1>3, <1>4, <1>5 DEF Writes
<1> HIDE DEF m, fresh, s
<1>7. /\ queue' \in Seq(Writes) /\ queue' # <<>> /\ Len(queue) \in Nat /\ Len(queue') = Len(queue) + 1
      /\ queue'[Len(queue) + 1] = fresh
      /\ \A k \in 1..Len(queue) : queue'[k] = queue[k]
  <2>1. queue \in Seq(Writes) /\ fresh \in Writes /\ queue' = Append(queue, fresh)
    BY <1>1, <1>2, <1>6 DEF RecentsTypes
  <2> QED BY <2>1, Appended
<1>8. \A k \in 1..Len(queue') : (k \in 1..Len(queue) /\ queue'[k] = queue[k]) \/ (k = Len(queue) + 1 /\ queue'[k] = fresh)
  <2>1. ASSUME NEW k \in 1..Len(queue')
        PROVE  (k \in 1..Len(queue) /\ queue'[k] = queue[k]) \/ (k = Len(queue) + 1 /\ queue'[k] = fresh)
    <3>1. CASE k \in 1..Len(queue)
      BY <1>7, <3>1
    <3>2. CASE k \notin 1..Len(queue)
      <4>1. k = Len(queue) + 1
        BY <1>7, <2>1, <3>2
      <4> QED BY <1>7, <4>1
    <3> QED BY <3>1, <3>2
  <2> QED BY <2>1
<1>9. /\ chosen' \in [Searched -> 0..MaxSelections] /\ chosen' \in [Searched -> Nat] /\ chosen'[s] = m
      /\ \A u \in Searched : chosen[u] <= chosen'[u] /\ chosen'[u] <= Recorded'
  <2>1. chosen' \in [Searched -> 0..MaxSelections] /\ chosen' \in [Searched -> Nat] /\ chosen'[s] = m
    BY <1>1, <1>2, <1>3, <1>4 DEF RecentsTypes, RecentsTyped
  <2>2. \A u \in Searched : chosen[u] <= Recorded /\ chosen[u] \in Nat
    BY <1>2 DEF RecentsInv, RecentsCounted, RecentsTyped
  <2>3. \A u \in Searched : chosen'[u] = IF u = s THEN m ELSE chosen[u]
    BY <1>1, <1>2 DEF RecentsTyped
  <2> QED BY <1>4, <2>1, <2>2, <2>3
<1>10. Recents!OnDevice' = Recents!OnDevice /\ Recents!Nothing' = Recents!Nothing /\ Recents!Garbage' = Recents!Garbage
  BY <1>1 DEF Recents!OnDevice, Recents!Nothing, Recents!Garbage
<1>11. RecentsTypes'
  BY <1>1, <1>2, <1>3, <1>5, <1>7, <1>9, <1>10 DEF RecentsTypes
<1>12. RecentsQueued'
  BY <1>1, <1>6, <1>7 DEF RecentsQueued
<1>13. Recents!MemoryIsDurable'
  BY <1>7, MemoryReads
<1>20. setBack' \in BOOLEAN /\ (~setBack' => ~setBack /\ Recents!InTime(memory'))
  BY <1>1 DEF RecentsInv, RecentsInTime
<1>21. RecentsInTime'
  BY <1>6, <1>8, <1>10, <1>20 DEF RecentsInv, RecentsInTime
<1>14. RecentsCounted'
  <2>1. \A u \in Searched : acked'[u] <= Recorded'
    BY <1>1, <1>2, <1>4 DEF RecentsInv, RecentsCounted, RecentsTyped
  <2>2. \A k \in 1..Len(queue) : queue[k].number <= Recorded /\ queue[k].number \in Nat
    BY <1>2 DEF RecentsInv, RecentsCounted, RecentsTyped
  <2>3. \A k \in 1..Len(queue') : queue'[k].number <= Recorded'
    BY <1>4, <1>6, <1>8, <2>2
  <2> QED BY <1>4, <1>9, <2>1, <2>3 DEF RecentsCounted
<1>15. \A q \in Seq(Recents!Records), f \in Searched \cup {None}, n \in Nat :
         Stands(chosen, q, f, n) => Stands(chosen', q, f, n)
  BY <1>2, <1>9, StandsOnceMore DEF RecentsTyped
<1>16. \A f \in Searched \cup {None}, n \in Nat : n <= Recorded /\ Stands(chosen, memory, f, n) => Stands(chosen', memory', f, n)
  <2>1. ASSUME NEW f \in Searched \cup {None}, NEW n \in Nat, n <= Recorded, Stands(chosen, memory, f, n)
        PROVE  Stands(chosen', memory', f, n)
    <3>1. CASE f = s
      <4>1. 1 \in DOMAIN memory' /\ \A i \in 1..0 : FALSE
        BY <1>5
      <4> QED BY <1>5, <3>1, <4>1 DEF Stands, Behind
    <3>2. CASE f # s
      <4>1. Stands(chosen', memory, f, n)
        BY <1>2, <1>15, <2>1 DEF RecentsTypes
      <4>2. chosen'[s] > n
        BY <1>4, <1>9, <2>1
      <4> QED BY <1>5, <1>9, <2>1, <3>2, <4>1, <4>2
    <3> QED BY <3>1, <3>2
  <2> QED BY <2>1
<1>17. ASSUME ~setBack', NEW f \in Searched, acked'[f] > 0
       PROVE  AckStands(f)'
  <2>1. AckStands(f) /\ acked'[f] = acked[f] /\ acked[f] \in Nat /\ acked[f] <= Recorded
    BY <1>1, <1>2, <1>17, <1>20 DEF RecentsInv, RecentsStand, RecentsTyped, RecentsCounted
  <2>2. Stands(chosen', Recents!OnDevice, f, acked[f])
    BY <1>2, <1>15, <2>1 DEF AckStands, RecentsTyped
  <2>3. Stands(chosen', memory', f, acked[f])
    BY <1>1, <1>16, <2>1 DEF AckStands
  <2>4. \A j \in 1..Len(queue) : Stands(chosen', queue[j].records, f, acked[f])
    BY <1>2, <1>15, <2>1 DEF AckStands, RecentsTyped
  <2>5. \A j \in 1..Len(queue') : Stands(chosen', queue'[j].records, f, acked[f])
    BY <1>6, <1>8, <2>3, <2>4
  <2> QED BY <1>10, <2>1, <2>2, <2>3, <2>5 DEF AckStands
<1>18. ASSUME ~setBack', NEW k \in 1..Len(queue'), queue'[k].number > 0
       PROVE  WriteStands(k)'
  <2>1. CASE k \in 1..Len(queue) /\ queue'[k] = queue[k]
    <3> DEFINE f == queue[k].for
               n == queue[k].number
    <3>1. f \in Searched \cup {None} /\ n \in Nat /\ n <= Recorded /\ WriteStands(k)
      BY <1>2, <1>18, <1>20, <2>1 DEF RecentsInv, RecentsStand, RecentsTyped, RecentsCounted
    <3> HIDE DEF f, n
    <3>2. \A j \in k..Len(queue) : Stands(chosen, queue[j].records, f, n) /\ j \in 1..Len(queue)
      BY <2>1, <3>1 DEF WriteStands, f, n
    <3>3. \A j \in k..Len(queue) : Stands(chosen', queue[j].records, f, n)
      BY <1>2, <1>15, <3>1, <3>2 DEF RecentsTyped
    <3>4. Stands(chosen', memory', f, n)
      BY <1>16, <3>1 DEF WriteStands, f, n
    <3>5. \A j \in k..Len(queue') : Stands(chosen', queue'[j].records, f, n)
      <4>1. ASSUME NEW j \in k..Len(queue')
            PROVE  Stands(chosen', queue'[j].records, f, n)
        <5>1. (j \in k..Len(queue) /\ queue'[j] = queue[j]) \/ (j = Len(queue) + 1 /\ queue'[j] = fresh)
          <6>1. j \in 1..Len(queue') /\ j \in k..Len(queue) + 1
            BY <1>7, <2>1
          <6>2. j \in 1..Len(queue) => j \in k..Len(queue)
            BY <6>1
          <6> QED BY <1>8, <6>1, <6>2
        <5> QED BY <1>6, <3>3, <3>4, <5>1
      <4> QED BY <4>1
    <3> QED BY <2>1, <3>4, <3>5 DEF WriteStands, f, n
  <2>2. CASE k = Len(queue) + 1 /\ queue'[k] = fresh
    <3>1. Stands(chosen', memory', s, m)
      <4>1. 1 \in DOMAIN memory' /\ \A i \in 1..0 : FALSE
        BY <1>5
      <4> QED BY <1>5, <4>1 DEF Stands, Behind
    <3>2. \A j \in k..Len(queue') : j = k
      BY <1>7, <2>2
    <3> QED BY <1>6, <2>2, <3>1, <3>2 DEF WriteStands
  <2> QED BY <1>8, <2>1, <2>2
<1>19. RecentsStand'
  BY <1>17, <1>18 DEF RecentsStand
<1> QED BY <1>11, <1>12, <1>13, <1>14, <1>19, <1>21 DEF RecentsInv

RecentsSettled ==
  /\ queue[1] = Head(queue) /\ queue[1] \in Writes /\ 1 \in 1..Len(queue)
  /\ queue' \in Seq(Writes) /\ Len(queue') \in Nat
  /\ \A k \in 1..Len(queue') : queue'[k] = queue[k + 1] /\ k + 1 \in 1..Len(queue)
  /\ queue' # <<>> => queue'[Len(queue')].records = memory' /\ hydration # "repair"
  /\ queue' = <<>> => queue[1].records = memory
  /\ hydration \notin {"asked", "discard"}
  /\ RecentsCounted /\ \A k \in 1..Len(queue') : queue'[k].number <= Recorded'
  /\ ~setBack => \A k \in 1..Len(queue') : queue'[k].number > 0 => WriteStands(k)'
  /\ RecentsInTime => \A k \in 1..Len(queue') : ~setBack => Recents!InTime(queue'[k].records)

(* A settled write leaves what stands in the writes behind it.             *)
LEMMA RecentsSettles ==
  ASSUME RecentsInv, queue # <<>>, queue' = Tail(queue), UNCHANGED <<memory, waiting, calls, chosen, setBack>>
  PROVE  RecentsSettled
<1>1. queue \in Seq(Writes) /\ RecentsTyped
  BY RecentsFields DEF RecentsInv, RecentsTypes
<1>2. /\ Head(queue) = queue[1] /\ queue[1] \in Writes /\ Tail(queue) \in Seq(Writes)
      /\ Len(queue) \in Nat \ {0} /\ Len(Tail(queue)) = Len(queue) - 1
      /\ \A k \in 1..Len(Tail(queue)) : Tail(queue)[k] = queue[k + 1]
      /\ Tail(queue) = <<>> <=> Len(queue) = 1
  BY <1>1, HeadAndTail
<1>3. \A k \in 1..Len(queue') : queue'[k] = queue[k + 1] /\ k + 1 \in 1..Len(queue)
  BY <1>2
<1>4. ASSUME queue' # <<>>
      PROVE  queue'[Len(queue')].records = memory' /\ hydration # "repair"
  <2>1. Len(queue) \in Nat /\ Len(queue) # 0 /\ Len(queue) # 1
    BY <1>2, <1>4
  <2>2. Len(queue') = Len(queue) - 1 /\ Len(queue') \in 1..Len(Tail(queue))
    BY <1>2, <2>1
  <2>3. queue'[Len(queue')] = queue[Len(queue)]
    BY <1>2, <2>1, <2>2
  <2> QED BY <2>1, <2>3 DEF RecentsInv, RecentsQueued
<1>5. (queue' = <<>> => queue[1].records = memory) /\ hydration \notin {"asked", "discard"}
  BY <1>2 DEF RecentsInv, RecentsQueued
<1>6. RecentsCounted /\ \A k \in 1..Len(queue') : queue'[k].number <= Recorded'
  BY <1>3 DEF RecentsInv, RecentsCounted, Recorded
<1>7. ASSUME ~setBack, NEW k \in 1..Len(queue'), queue'[k].number > 0
      PROVE  WriteStands(k)'
  <2>1. WriteStands(k + 1) /\ queue'[k] = queue[k + 1]
    BY <1>3, <1>7 DEF RecentsInv, RecentsStand
  <2>2. ASSUME NEW j \in k..Len(queue')
        PROVE  Stands(chosen, queue'[j].records, queue[k + 1].for, queue[k + 1].number)
    <3>1. j \in 1..Len(queue') /\ j + 1 \in k + 1..Len(queue)
      BY <1>2
    <3>2. queue'[j] = queue[j + 1]
      BY <1>3, <3>1
    <3> QED BY <2>1, <3>1, <3>2 DEF WriteStands
  <2> QED BY <2>1, <2>2 DEF WriteStands
<1>8. RecentsInTime => \A k \in 1..Len(queue') : ~setBack => Recents!InTime(queue'[k].records)
  BY <1>3 DEF RecentsInTime
<1> QED BY <1>2, <1>3, <1>4, <1>5, <1>6, <1>7, <1>8 DEF RecentsSettled

LEMMA RecentsPersist ==
  ASSUME RecentsInv, Recents!Persist
  PROVE  RecentsInv'
<1>1. /\ queue # <<>> /\ queue' = Tail(queue) /\ UNCHANGED <<memory, waiting, calls, faults, chosen, setBack>>
      /\ dirty' = FALSE
      /\ disk' = Recents!Item(Head(queue).records)
      /\ acked' = [s \in Searched |-> IF s = Head(queue).for THEN Head(queue).number ELSE acked[s]]
  BY DEF Recents!Persist
<1>2. RecentsSettled
  BY <1>1, RecentsSettles
<1>3. RecentsTyped /\ RecentsTypes
  BY RecentsFields DEF RecentsInv
<1>4. hydration' \notin {"asked", "discard", "repair"} /\ hydration' \in {"done", "failed"}
  BY <1>2, <1>3 DEF RecentsSettled, Recents!Persist, Recents!AfterWrite, RecentsTypes, RecentsInv, RecentsQueued
<1>5. queue[1].records \in Seq(Recents!Records) /\ queue[1].number \in 0..MaxSelections /\ queue[1].number <= Recorded
      /\ queue[1].number \in Nat
  BY <1>2, <1>3 DEF RecentsSettled, RecentsTyped, RecentsInv, RecentsCounted
<1>6. disk' \in Items /\ Recents!OnDevice' = queue[1].records
  BY <1>1, <1>2, <1>5 DEF RecentsSettled, Recents!Item, Items, Recents!OnDevice
<1>7. acked' \in [Searched -> 0..MaxSelections]
      /\ \A f \in Searched : IF f = queue[1].for THEN acked'[f] = queue[1].number ELSE acked'[f] = acked[f]
  <2> DEFINE h == Head(queue)
  <2>1. h = queue[1] /\ acked' = [s \in Searched |-> IF s = h.for THEN h.number ELSE acked[s]]
    BY <1>1, <1>2 DEF RecentsSettled
  <2> HIDE DEF h
  <2>2. h.number \in 0..MaxSelections /\ acked \in [Searched -> 0..MaxSelections]
    BY <1>3, <1>5, <2>1 DEF RecentsTypes
  <2> QED BY <2>1, <2>2
<1>8. RecentsTypes'
  BY <1>1, <1>2, <1>3, <1>4, <1>6, <1>7 DEF RecentsTypes, RecentsSettled
<1>9. RecentsQueued' /\ Recents!MemoryIsDurable'
  <2>1. queue' = <<>> => Recents!OnDevice' = memory'
    BY <1>1, <1>2, <1>6 DEF RecentsSettled
  <2>2. ReadsBack(memory, memory)
    BY <1>3, ReadsAgain DEF RecentsTypes
  <2>3. Recents!MemoryIsDurable'
    BY <1>1, <2>1, <2>2, MemoryReads
  <2> QED BY <1>1, <1>2, <1>4, <1>6, <2>3 DEF RecentsSettled, RecentsQueued
<1>13. RecentsInTime'
  <2>1. ~setBack => Recents!InTime(queue[1].records)
    BY <1>2 DEF RecentsSettled, RecentsInv, RecentsInTime
  <2> QED BY <1>1, <1>2, <1>6, <2>1 DEF RecentsSettled, RecentsInv, RecentsInTime
<1>10. RecentsCounted'
  <2>1. Recorded' = Recorded
    BY <1>1 DEF Recorded
  <2>2. \A f \in Searched : acked'[f] <= Recorded
    BY <1>5, <1>7 DEF RecentsInv, RecentsCounted
  <2> QED BY <1>1, <1>2, <2>1, <2>2 DEF RecentsSettled, RecentsCounted
<1>11. ASSUME ~setBack, NEW f \in Searched, acked'[f] > 0
       PROVE  AckStands(f)'
  <2>1. CASE f = queue[1].for
    <3>1. acked'[f] = queue[1].number /\ WriteStands(1)
      BY <1>2, <1>7, <1>11, <2>1 DEF RecentsInv, RecentsStand, RecentsSettled
    <3>2. \A j \in 1..Len(queue) : Stands(chosen, queue[j].records, f, acked'[f])
      BY <2>1, <3>1 DEF WriteStands
    <3>3. Stands(chosen, memory, f, acked'[f])
      BY <2>1, <3>1 DEF WriteStands
    <3> QED BY <1>1, <1>2, <1>6, <3>2, <3>3 DEF AckStands, RecentsSettled
  <2>2. CASE f # queue[1].for
    <3>1. acked'[f] = acked[f] /\ AckStands(f)
      BY <1>7, <1>11, <2>2 DEF RecentsInv, RecentsStand
    <3> QED BY <1>1, <1>2, <1>6, <3>1 DEF AckStands, RecentsSettled
  <2> QED BY <2>1, <2>2
<1>12. RecentsStand'
  BY <1>1, <1>2, <1>11 DEF RecentsStand, RecentsSettled
<1> QED BY <1>8, <1>9, <1>10, <1>12, <1>13 DEF RecentsInv

LEMMA RecentsPersistFails ==
  ASSUME RecentsInv, Recents!PersistFails
  PROVE  RecentsInv'
<1>1. /\ queue # <<>> /\ queue' = Tail(queue) /\ UNCHANGED <<memory, waiting, calls, chosen, setBack>>
      /\ faults < MaxWriteFaults /\ faults' = faults + 1
      /\ dirty' = TRUE /\ UNCHANGED <<disk, acked>>
  BY DEF Recents!PersistFails
<1>2. RecentsSettled
  BY <1>1, RecentsSettles
<1>3. RecentsTyped /\ RecentsTypes
  BY RecentsFields DEF RecentsInv
<1>4. hydration' \notin {"asked", "discard", "repair"} /\ hydration' \in {"done", "failed"}
  BY <1>2, <1>3 DEF RecentsSettled, Recents!PersistFails, Recents!AfterWrite, RecentsTypes, RecentsInv, RecentsQueued
<1>5. Recents!OnDevice' = Recents!OnDevice /\ Recents!Nothing' = Recents!Nothing /\ Recents!Garbage' = Recents!Garbage
  BY <1>1 DEF Recents!OnDevice, Recents!Nothing, Recents!Garbage
<1>6. faults' \in 0..MaxWriteFaults
  BY <1>1, <1>3, RecentsAssumed DEF RecentsTypes
<1>7. RecentsTypes'
  BY <1>1, <1>2, <1>3, <1>4, <1>5, <1>6 DEF RecentsTypes, RecentsSettled
<1>8. RecentsQueued' /\ RecentsInTime' /\ Recents!MemoryIsDurable'
  BY <1>1, <1>2, <1>4, <1>5, MemoryReads DEF RecentsSettled, RecentsQueued, RecentsInv, RecentsInTime
<1>9. RecentsCounted'
  BY <1>1, <1>2 DEF RecentsSettled, RecentsCounted, Recorded
<1>10. ASSUME ~setBack, NEW f \in Searched, acked'[f] > 0
       PROVE  AckStands(f)'
  <2>1. acked'[f] = acked[f] /\ AckStands(f)
    BY <1>1, <1>10 DEF RecentsInv, RecentsStand
  <2> QED BY <1>1, <1>2, <1>5, <2>1 DEF AckStands, RecentsSettled
<1>11. RecentsStand'
  BY <1>1, <1>2, <1>10 DEF RecentsStand, RecentsSettled
<1> QED BY <1>7, <1>8, <1>9, <1>11 DEF RecentsInv

LEMMA RecentsKill ==
  ASSUME RecentsInv, Recents!Kill
  PROVE  RecentsInv'
<1>1. /\ hydration' = "asked" /\ queue' = <<>> /\ memory' = <<>> /\ waiting' = <<>> /\ dirty' = FALSE
      /\ faults < MaxWriteFaults /\ faults' = faults + 1 /\ UNCHANGED <<calls, chosen, acked, setBack>>
      /\ \/ UNCHANGED disk
         \/ queue # <<>> /\ disk' = Recents!Item(Head(queue).records)
         \/ hydration = "discard" /\ disk' = Recents!Nothing
  BY DEF Recents!Kill
<1>2. RecentsTyped /\ RecentsTypes
  BY RecentsFields DEF RecentsInv
<1>3. Recents!Nothing' = Recents!Nothing /\ Recents!Garbage' = Recents!Garbage
  BY DEF Recents!Nothing, Recents!Garbage
<1>4. /\ <<>> \in Seq(Recents!Records) /\ <<>> \in Seq(Searched) /\ <<>> \in Seq(Writes) /\ Len(<<>>) = 0
      /\ NoTwice(<<>>) /\ Len(<<>>) <= MaxRecent /\ faults' \in 0..MaxWriteFaults
  BY <1>1, <1>2, RecentsAssumed DEF NoTwice, RecentsTypes
<1>5. /\ disk' \in {Recents!Nothing, Recents!Garbage} \/ disk' \in Items
      /\ ~setBack => \A f \in Searched : acked[f] > 0 => Stands(chosen, Recents!OnDevice', f, acked[f])
      /\ ~setBack => Recents!InTime(Recents!OnDevice')
  <2>1. ~setBack => RecentsInTime /\ \A f \in Searched : acked[f] > 0 => AckStands(f)
    BY DEF RecentsInv, RecentsStand
  <2>2. CASE UNCHANGED disk
    <3>1. Recents!OnDevice' = Recents!OnDevice
      BY <2>2 DEF Recents!OnDevice
    <3> QED BY <1>2, <2>1, <2>2, <3>1 DEF RecentsTypes, RecentsInTime, AckStands
  <2>3. CASE queue # <<>> /\ disk' = Recents!Item(Head(queue).records)
    <3>1. Head(queue) = queue[1] /\ Len(queue) \in Nat \ {0}
      BY <1>2, <2>3, HeadAndTail DEF RecentsTypes
    <3>2. queue[1].records \in Seq(Recents!Records) /\ 1 \in 1..Len(queue)
      BY <1>2, <3>1 DEF RecentsTyped
    <3>3. disk' \in Items /\ Recents!OnDevice' = queue[1].records
      BY <2>3, <3>1, <3>2 DEF Recents!Item, Items, Recents!OnDevice
    <3> QED BY <2>1, <3>2, <3>3 DEF RecentsInTime, AckStands
  <2>4. CASE hydration = "discard" /\ disk' = Recents!Nothing
    <3>1. Recents!OnDevice' = <<>> /\ Recents!OnDevice = <<>>
      BY <2>4 DEF RecentsInv, RecentsQueued, Recents!OnDevice, Recents!Nothing, Recents!Garbage
    <3> QED BY <2>1, <2>4, <3>1 DEF RecentsInTime, AckStands
  <2> QED BY <1>1, <2>2, <2>3, <2>4
<1>6. RecentsTypes'
  BY <1>1, <1>2, <1>3, <1>4, <1>5 DEF RecentsTypes
<1>7. RecentsQueued' /\ RecentsInTime' /\ Recents!MemoryIsDurable'
  BY <1>1, <1>4, <1>5, MemoryReads, ReadsAgain DEF RecentsInv, RecentsQueued, RecentsInTime
<1>8. RecentsCounted'
  <2>1. Recorded' = calls /\ Recorded <= calls
    BY <1>1, <1>2, <1>4 DEF Recorded, RecentsTyped
  <2>2. \A f \in Searched : chosen[f] <= calls /\ acked[f] <= calls
    BY <1>2, <2>1 DEF RecentsInv, RecentsCounted, RecentsTyped, Recorded
  <2> QED BY <1>1, <1>2, <1>4, <2>1, <2>2 DEF RecentsCounted, RecentsTyped
<1>9. RecentsStand'
  BY <1>1, <1>4, <1>5 DEF RecentsStand, AckStands
<1> QED BY <1>6, <1>7, <1>8, <1>9 DEF RecentsInv

LEMMA RecentsStep ==
  ASSUME RecentsInv, [Recents!Next]_(Recents!vars)
  PROVE  RecentsInv'
<1>1. CASE UNCHANGED Recents!vars
  <2>1. Recents!OnDevice' = Recents!OnDevice /\ Recents!Nothing' = Recents!Nothing /\ Recents!Garbage' = Recents!Garbage
    BY <1>1 DEF Recents!vars, Recents!OnDevice, Recents!Nothing, Recents!Garbage
  <2>2. RecentsTypes' /\ RecentsQueued' /\ RecentsCounted' /\ RecentsInTime'
    BY <1>1, <2>1 DEF Recents!vars, RecentsInv, RecentsTypes, RecentsQueued, RecentsCounted, Recorded, RecentsInTime
  <2>4. Recents!MemoryIsDurable'
    BY <1>1, <2>1 DEF Recents!vars, RecentsInv, Recents!MemoryIsDurable
  <2>3. RecentsStand'
    BY <1>1, <2>1 DEF Recents!vars, RecentsInv, RecentsStand, AckStands, WriteStands
  <2> QED BY <2>2, <2>3, <2>4 DEF RecentsInv
<1> QED BY <1>1, RecentsLoads, RecentsStops, RecentsSelect, RecentsRecord, RecentsPersist, RecentsPersistFails,
           RecentsKill DEF Recents!Next

LEMMA RecentsPromised ==
  ASSUME RecentsInv
  PROVE  Recents!TypeOK /\ Recents!MemoryIsDurable /\ Recents!SelectionKept
<1>1. RecentsTyped /\ RecentsTypes
  BY RecentsFields DEF RecentsInv
<1>2. Recents!TypeOK
  <2>1. DOMAIN memory = 1..Len(memory)
    BY <1>1 DEF RecentsTypes
  <2>2. Recents!IsInjective([i \in DOMAIN memory |-> memory[i].symbol])
    BY <1>1, <2>1 DEF RecentsTypes, NoTwice, Recents!IsInjective
  <2>3. disk \in {Recents!Nothing, Recents!Garbage} \cup [holds : {"records"}, records : Seq(Recents!Records), unusable : BOOLEAN]
    BY <1>1 DEF RecentsTypes, Items
  <2>4. queue \in Seq([records : Seq(Recents!Records), for : Searched \cup {None}, number : 0..MaxSelections])
    BY <1>1 DEF RecentsTypes, Writes
  <2>5. {dirty, setBack} \subseteq BOOLEAN
    BY <1>1 DEF RecentsTypes, RecentsInv, RecentsInTime
  <2> QED BY <1>1, <2>2, <2>3, <2>4, <2>5 DEF Recents!TypeOK, RecentsTypes
<1>3. ASSUME ~setBack, NEW s \in Searched, acked[s] > 0
      PROVE  \/ \E i \in DOMAIN Recents!OnDevice : Recents!OnDevice[i].symbol = s
             \/ Recents!Cardinality({u \in Searched \ {s} : chosen[u] > acked[s]}) >= MaxRecent
  <2>1. Stands(chosen, Recents!OnDevice, s, acked[s])
    BY <1>3 DEF RecentsInv, RecentsStand, AckStands
  <2> QED BY <2>1, RecentsAssumed DEF Stands, Behind, Displaced
<1> QED BY <1>2, <1>3 DEF RecentsInv, Recents!SelectionKept

(* The recent searches show the records the next session will read         *)
(* whenever nothing is under way and the last write went through, in the   *)
(* order it will show them if none is stamped earlier than one behind it;  *)
(* and while the clock is not set back, a selection that was acknowledged  *)
(* stays on the device until as many others as are kept were selected      *)
(* after it.  Repairs, writes queued behind one another, failures and      *)
(* kills in between change neither.                                        *)
THEOREM RecentsKept == Recents!Spec => [](Recents!TypeOK /\ Recents!MemoryIsDurable /\ Recents!SelectionKept)
<1> QED BY RecentsPromised, RecentsStart, RecentsStep, PTL DEF Recents!Spec
-----------------------------------------------------------------------------
(***************************************************************************)
(* The library: its calls wait in the order of their numbers, the record   *)
(* being saved is the freshest while the clock goes forward, and what a    *)
(* full prune leaves is within the limit.                                  *)
(***************************************************************************)
Library == INSTANCE Library WITH
  Ids <- RecordIds, Size <- RecordSize, KeyOrder <- RecordOrder,
  MaxEntries <- MaxRecords, MaxTotalBytes <- MaxBytes,
  MaxClock <- MaxRecordClock, MaxCalls <- MaxRecordCalls, MaxQueue <- MaxWaiting

ASSUME LibraryParameters == Library!LibraryAssumption /\ Library!NotRecords

LibItems == Library!Record \cup {None, Corrupt}

LibTyped ==
  /\ disk \in [RecordIds -> LibItems] /\ clock \in Nat /\ lastAccessAt \in Nat
  /\ stage \in {"start", "prune", "rollback"}
  /\ calls \in 0..MaxRecordCalls /\ saved \in [RecordIds -> 0..calls] /\ cleared \in 0..calls
  /\ acked \in SUBSET RecordIds /\ torn \in Nat /\ faults \in 0..MaxFaults /\ moved \in BOOLEAN

LibWaits(k) ==
  /\ queue[k].op \in {"read", "save", "delete"} => queue[k].id \in RecordIds
  /\ cleared < queue[k].number /\ queue[k].number <= calls

LibQueue ==
  /\ queue \in Seq(Library!Call)
  /\ \A k \in 1..Len(queue) : LibWaits(k)
  /\ \A j, k \in 1..Len(queue) : j < k => queue[j].number < queue[k].number

LibHead ==
  stage # "start" => queue # <<>> /\ queue[1].op = "save" /\ disk[queue[1].id] \in Library!Record

(* What was accessed lies behind, and what is being saved does not.        *)
LibFresh ==
  ~moved =>
    /\ \A i \in Library!Valid : disk[i].accessed <= lastAccessAt \/ disk[i].accessed < clock
    /\ stage = "prune" =>
         \A i \in Library!Valid : i # queue[1].id => disk[i].accessed < disk[queue[1].id].accessed

LibLimit == Cardinality(Library!Valid) <= MaxRecords + torn + (IF stage = "start" THEN 0 ELSE 1)

LibInv ==
  /\ LibTyped /\ LibQueue /\ LibHead /\ LibFresh /\ LibLimit
  /\ Library!SavedIsKept /\ Library!ClearIsFinal

LEMMA LibAssumed ==
  /\ IsFiniteSet(RecordIds) /\ MaxRecords \in Nat \ {0} /\ MaxBytes \in Nat
  /\ MaxRecordCalls \in Nat /\ MaxFaults \in Nat
  /\ None \notin Library!Record /\ Corrupt \notin Library!Record /\ None # Corrupt /\ None \notin RecordIds
  /\ RecordSize \in [RecordIds -> Nat \ {0}] /\ RecordOrder \in [RecordIds -> Nat]
  /\ \A i, j \in RecordIds : RecordOrder[i] = RecordOrder[j] => i = j
  /\ \A i \in RecordIds : RecordSize[i] <= MaxBytes
<1>1. \A S : Library!IsFiniteSet(S) <=> IsFiniteSet(S)
  BY DEF Library!IsFiniteSet, IsFiniteSet
<1> QED BY <1>1, LibraryParameters DEF Library!LibraryAssumption, Library!NotRecords

LEMMA LibFinite ==
  ASSUME NEW S \in SUBSET RecordIds
  PROVE  /\ IsFiniteSet(S) /\ Cardinality(S) \in Nat
         /\ \A T \in SUBSET S : Cardinality(T) <= Cardinality(S)
<1>1. IsFiniteSet(S)
  BY LibAssumed, FS_Subset
<1> QED BY <1>1, FS_Subset, FS_CardinalityType

LEMMA LibStamp ==
  ASSUME LibTyped
  PROVE  Library!Stamp \in Nat /\ Library!Stamp >= clock /\ Library!Stamp > lastAccessAt
BY DEF LibTyped, Library!Stamp

LEMMA LibRecords ==
  /\ \A x \in Library!Record : x.accessed \in Nat /\ x.cached \in Nat
  /\ \A x, y \in Nat : [accessed |-> x, cached |-> y] \in Library!Record
BY DEF Library!Record

LEMMA LibStart ==
  ASSUME Library!Init
  PROVE  LibInv
<1>1. /\ disk \in [RecordIds -> {None, Corrupt}] /\ clock = 1 /\ lastAccessAt = 0
      /\ queue = <<>> /\ stage = "start" /\ calls = 0 /\ cleared = 0
      /\ saved = [i \in RecordIds |-> 0] /\ acked = {} /\ torn = 0 /\ faults = 0 /\ moved = FALSE
  BY DEF Library!Init
<1>2. Library!Valid = {}
  BY <1>1, LibAssumed DEF Library!Valid
<1>3. LibTyped
  <2>1. 0 \in 0..MaxRecordCalls /\ 0 \in 0..MaxFaults /\ 0 \in 0..0 /\ 1 \in Nat /\ {} \in SUBSET RecordIds
    BY LibAssumed
  <2>2. disk \in [RecordIds -> LibItems]
    BY <1>1 DEF LibItems
  <2>3. saved \in [RecordIds -> 0..calls]
    BY <1>1, <2>1
  <2> QED BY <1>1, <2>1, <2>2, <2>3 DEF LibTyped
<1>4. LibQueue
  BY <1>1, EmptySeq DEF LibQueue
<1>5. LibLimit
  BY <1>1, <1>2, FS_EmptySet, LibAssumed DEF LibLimit
<1> QED BY <1>1, <1>2, <1>3, <1>4, <1>5 DEF LibInv, LibHead, LibFresh, Library!SavedIsKept, Library!ClearIsFinal

(* The queue without its head.                                             *)
LEMMA LibTail ==
  ASSUME LibQueue, queue # <<>>, queue' = Tail(queue), calls' = calls, cleared' \in {cleared, queue[1].number}
  PROVE  LibQueue'
<1>1. /\ Tail(queue) \in Seq(Library!Call) /\ Len(queue) \in Nat \ {0} /\ Len(Tail(queue)) = Len(queue) - 1
      /\ \A k \in 1..Len(Tail(queue)) : Tail(queue)[k] = queue[k + 1]
  BY HeadAndTail DEF LibQueue
<1>2. \A k \in 1..Len(queue') : k \in Int /\ k + 1 \in 1..Len(queue) /\ queue'[k] = queue[k + 1] /\ 1 < k + 1
  BY <1>1
<1>3. 1 \in 1..Len(queue)
  BY <1>1
<1>4. \A k \in 1..Len(queue') : queue[1].number < queue'[k].number
  BY <1>2, <1>3 DEF LibQueue
<1>5. \A k \in 1..Len(queue') : LibWaits(k)'
  BY <1>2, <1>4 DEF LibQueue, LibWaits
<1>6. \A j, k \in 1..Len(queue') : j < k => queue'[j].number < queue'[k].number
  BY <1>2 DEF LibQueue
<1> QED BY <1>1, <1>5, <1>6 DEF LibQueue

(* A write that leaves no record it did not find, of which it may have     *)
(* stamped one with x.                                                     *)
LibThins(x) ==
  /\ disk' \in [RecordIds -> LibItems] /\ saved' = saved
  /\ Library!Valid' \subseteq Library!Valid
  /\ \A i \in Library!Valid' : disk'[i] = disk[i] \/ disk'[i].accessed = x
  /\ acked' \in SUBSET RecordIds
  /\ ~moved /\ acked \subseteq Library!Valid => acked' \subseteq Library!Valid'

LEMMA LibList ==
  ASSUME LibTyped, Library!WriteList
  PROVE  LibThins(0)
<1>1. disk' = [i \in RecordIds |-> IF disk[i] = Corrupt THEN None ELSE disk[i]] /\ saved' = saved /\ acked' = acked
  BY DEF Library!WriteList
<1>2. disk' \in [RecordIds -> LibItems]
  BY <1>1 DEF LibTyped, LibItems
<1>3. Library!Valid' = Library!Valid /\ \A i \in Library!Valid : disk'[i] = disk[i]
  BY <1>1, LibAssumed DEF Library!Valid
<1> QED BY <1>1, <1>2, <1>3 DEF LibThins, LibTyped

LEMMA LibTouch ==
  ASSUME LibTyped, NEW i \in RecordIds, Library!WriteTouch(i)
  PROVE  LibThins(Library!Stamp)
<1> DEFINE x == Library!Stamp
<1>1. /\ disk' = [disk EXCEPT ![i] = IF disk[i] \in Library!Record THEN [disk[i] EXCEPT !.accessed = x] ELSE None]
      /\ saved' = saved /\ acked' = acked
  BY DEF Library!WriteTouch
<1>2. x \in Nat
  BY LibStamp
<1> HIDE DEF x
<1>3. \A r \in Library!Record : [r EXCEPT !.accessed = x] \in Library!Record /\ [r EXCEPT !.accessed = x].accessed = x
  BY <1>2 DEF Library!Record
<1>4. disk \in [RecordIds -> LibItems]
  BY DEF LibTyped
<1>5. /\ disk' \in [RecordIds -> LibItems] /\ \A j \in RecordIds : j # i => disk'[j] = disk[j]
      /\ disk[i] \in Library!Record => disk'[i] \in Library!Record /\ disk'[i].accessed = x
      /\ disk[i] \notin Library!Record => disk'[i] = None
  BY <1>1, <1>3, <1>4 DEF LibItems
<1>6. Library!Valid' = Library!Valid
  BY <1>5, LibAssumed DEF Library!Valid
<1>7. \A j \in Library!Valid' : disk'[j] = disk[j] \/ disk'[j].accessed = x
  BY <1>5, <1>6 DEF Library!Valid
<1>8. LibThins(x)
  BY <1>1, <1>5, <1>6, <1>7 DEF LibThins, LibTyped
<1> QED BY <1>8 DEF x

LEMMA LibDelete ==
  ASSUME LibTyped, NEW S, Library!WriteDelete(S)
  PROVE  LibThins(0) /\ Library!Valid' = Library!Valid \ S
<1>1. disk' = [i \in RecordIds |-> IF i \in S THEN None ELSE disk[i]] /\ saved' = saved /\ acked' = acked \ S
  BY DEF Library!WriteDelete, Library!Forget
<1>2. disk' \in [RecordIds -> LibItems]
  BY <1>1 DEF LibTyped, LibItems
<1>3. Library!Valid' = Library!Valid \ S /\ \A i \in Library!Valid' : disk'[i] = disk[i]
  BY <1>1, LibAssumed DEF Library!Valid
<1> QED BY <1>1, <1>2, <1>3 DEF LibThins, LibTyped

LEMMA LibPrune ==
  ASSUME LibTyped, NEW K \in SUBSET Library!Valid, Library!WritePrune(K)
  PROVE  LibThins(0) /\ Library!Valid' = K
<1>1. /\ disk' = [i \in RecordIds |-> IF i \in K THEN disk[i] ELSE None]
      /\ saved' = saved /\ acked' = acked \ (Library!Valid \ K)
  BY DEF Library!WritePrune, Library!Forget
<1>2. disk' \in [RecordIds -> LibItems]
  BY <1>1 DEF LibTyped, LibItems
<1>3. Library!Valid' = K /\ \A i \in K : disk'[i] = disk[i]
  BY <1>1, LibAssumed DEF Library!Valid
<1> QED BY <1>1, <1>2, <1>3 DEF LibThins, LibTyped

LEMMA LibNoWrite ==
  ASSUME LibTyped, Library!NoWrite
  PROVE  LibThins(0) /\ Library!Valid' = Library!Valid
<1>1. UNCHANGED <<disk, saved, acked>>
  BY DEF Library!NoWrite
<1>2. Library!Valid' = Library!Valid
  BY <1>1 DEF Library!Valid
<1> QED BY <1>1, <1>2 DEF LibThins, LibTyped

(* A call is over, or the session is.                                      *)
LEMMA LibEnds ==
  ASSUME LibInv, NEW x \in Nat, LibThins(x), stage' = "start", LibQueue', calls' = calls,
         cleared' = cleared \/ Library!Valid' = {}, cleared' \in 0..calls,
         lastAccessAt' \in Nat, clock' \in Nat, torn' \in Nat, faults' \in 0..MaxFaults, moved' = moved,
         clock' > lastAccessAt \/ lastAccessAt' >= lastAccessAt, clock' >= clock,
         x <= lastAccessAt' \/ x < clock',
         Cardinality(Library!Valid') <= MaxRecords + torn'
  PROVE  LibInv'
<1>0. LibTyped /\ LibFresh /\ Library!SavedIsKept /\ Library!ClearIsFinal
  BY DEF LibInv
<1>1. LibTyped'
  BY <1>0 DEF LibTyped, LibThins
<1>2. LibHead' /\ LibLimit'
  <2>1. MaxRecords + torn' = MaxRecords + torn' + 0
    BY LibAssumed
  <2> QED BY <2>1 DEF LibHead, LibLimit
<1>3. LibFresh'
  <2>1. ASSUME ~moved, NEW i \in Library!Valid'
        PROVE  disk'[i].accessed <= lastAccessAt' \/ disk'[i].accessed < clock'
    <3>1. CASE disk'[i] = disk[i]
      <4>1. i \in Library!Valid /\ (disk[i].accessed <= lastAccessAt \/ disk[i].accessed < clock)
        BY <1>0, <2>1 DEF LibThins, LibFresh
      <4>2. disk[i].accessed \in Nat
        BY <4>1, LibRecords DEF Library!Valid
      <4>3. lastAccessAt \in Nat /\ clock \in Nat
        BY <1>0 DEF LibTyped
      <4> QED BY <3>1, <4>1, <4>2, <4>3
    <3>2. CASE disk'[i].accessed = x
      BY <3>2
    <3> QED BY <2>1, <3>1, <3>2 DEF LibThins
  <2> QED BY <2>1 DEF LibFresh
<1>4. Library!SavedIsKept'
  BY <1>0 DEF Library!SavedIsKept, LibThins
<1>5. Library!ClearIsFinal'
  BY <1>0 DEF Library!ClearIsFinal, LibThins
<1> QED BY <1>1, <1>2, <1>3, <1>4, <1>5 DEF LibInv

LEMMA LibRunning ==
  ASSUME LibInv, queue # <<>>
  PROVE  /\ Head(queue) = queue[1] /\ Head(queue) \in Library!Call
         /\ Head(queue).op \in {"read", "save", "delete"} => Head(queue).id \in RecordIds
         /\ Head(queue).number \in Nat /\ Head(queue).number <= calls /\ cleared < Head(queue).number
         /\ queue[1].number \in 0..calls
         /\ \A j \in 1..Len(queue) : j > 1 => queue[1].number < queue[j].number
<1>1. queue \in Seq(Library!Call) /\ \A k \in 1..Len(queue) : LibWaits(k)
  BY DEF LibInv, LibQueue
<1>2. Head(queue) = queue[1] /\ Head(queue) \in Library!Call /\ 1 \in 1..Len(queue)
  BY <1>1, HeadAndTail
<1>3. LibWaits(1)
  BY <1>1, <1>2
<1>4. Head(queue).number \in Nat /\ calls \in Nat
  BY <1>2, LibAssumed DEF Library!Call, LibInv, LibTyped
<1>5. \A j \in 1..Len(queue) : j > 1 => queue[1].number < queue[j].number
  BY <1>2 DEF LibInv, LibQueue
<1> QED BY <1>2, <1>3, <1>4, <1>5 DEF LibWaits

LEMMA LibFewer ==
  ASSUME LibInv, Library!Valid' \subseteq Library!Valid
  PROVE  /\ Cardinality(Library!Valid') \in Nat /\ Cardinality(Library!Valid) \in Nat
         /\ Cardinality(Library!Valid') <= Cardinality(Library!Valid)
         /\ stage = "start" => Cardinality(Library!Valid') <= MaxRecords + torn
         /\ stage # "start" => Cardinality(Library!Valid') <= MaxRecords + (torn + 1)
<1>1. Library!Valid \in SUBSET RecordIds
  BY DEF Library!Valid
<1>2. Library!Valid' \in SUBSET Library!Valid /\ Library!Valid' \in SUBSET RecordIds
  BY <1>1
<1>3. /\ Cardinality(Library!Valid') \in Nat /\ Cardinality(Library!Valid) \in Nat
      /\ Cardinality(Library!Valid') <= Cardinality(Library!Valid)
  BY <1>1, <1>2, LibFinite
<1>4. LibLimit /\ torn \in Nat /\ MaxRecords \in Nat
  BY LibAssumed DEF LibInv, LibTyped
<1>5. stage = "start" => Cardinality(Library!Valid) <= MaxRecords + torn + 0
  BY <1>4 DEF LibLimit
<1>6. stage # "start" => Cardinality(Library!Valid) <= MaxRecords + torn + 1
  BY <1>4 DEF LibLimit
<1> QED BY <1>3, <1>4, <1>5, <1>6

(* A call of one write settles, as does one that fails before its last.    *)
LEMMA LibSettles ==
  ASSUME LibInv, NEW x \in Nat, LibThins(x), queue # <<>>, stage = "start", Library!Settle,
         calls' = calls, cleared' \in {cleared, queue[1].number}, cleared' = cleared \/ Library!Valid' = {},
         lastAccessAt' \in Nat, lastAccessAt' >= lastAccessAt, x <= lastAccessAt',
         clock' = clock, torn' = torn, faults' \in 0..MaxFaults, moved' = moved
  PROVE  LibInv'
<1>1. queue' = Tail(queue) /\ stage' = "start"
  BY DEF Library!Settle
<1>2. LibQueue'
  BY <1>1, LibTail DEF LibInv
<1>3. cleared' \in 0..calls
  BY LibRunning DEF LibInv, LibTyped
<1>4. Cardinality(Library!Valid') <= MaxRecords + torn'
  BY LibFewer DEF LibThins
<1>5. clock' \in Nat /\ clock' >= clock /\ torn' \in Nat
  BY DEF LibInv, LibTyped
<1> QED BY <1>1, <1>2, <1>3, <1>4, <1>5, LibEnds

LEMMA LibStage ==
  ASSUME LibInv, queue # <<>>, Head(queue).op # "save"
  PROVE  stage = "start"
BY LibRunning DEF LibInv, LibHead

LEMMA LibWorks ==
  ASSUME LibInv, Library!List \/ Library!Read \/ Library!Delete \/ Library!Clear \/ Library!SaveRefused
  PROVE  LibInv'
<1>0. LibTyped /\ lastAccessAt \in Nat
  BY DEF LibInv, LibTyped
<1>1. queue # <<>> /\ Library!Settle /\ UNCHANGED <<clock, calls, torn, faults, moved>>
  BY DEF Library!List, Library!Read, Library!Delete, Library!Clear, Library!SaveRefused, Library!Running
<1>2. stage = "start"
  <2>1. Head(queue).op # "save" \/ stage = "start"
    BY DEF Library!List, Library!Read, Library!Delete, Library!Clear, Library!SaveRefused, Library!Running
  <2> QED BY <1>1, <2>1, LibStage
<1>3. faults' \in 0..MaxFaults
  BY <1>0, <1>1 DEF LibTyped
<1>4. CASE Library!List
  <2>1. LibThins(0) /\ UNCHANGED <<cleared, lastAccessAt>>
    BY <1>0, <1>4, LibList DEF Library!List
  <2> QED BY <1>0, <1>1, <1>2, <1>3, <2>1, LibSettles
<1>5. CASE Library!Read
  <2>1. Head(queue).op = "read" /\ Library!WriteTouch(Head(queue).id) /\ cleared' = cleared
        /\ lastAccessAt' = IF disk[Head(queue).id] \in Library!Record THEN Library!Stamp ELSE lastAccessAt
    BY <1>5 DEF Library!Read, Library!Running
  <2>2. Head(queue).id \in RecordIds
    BY <1>1, <2>1, LibRunning
  <2>3. Library!Stamp \in Nat /\ Library!Stamp > lastAccessAt
    BY <1>0, LibStamp
  <2>4. CASE disk[Head(queue).id] \in Library!Record
    <3>1. lastAccessAt' = Library!Stamp
      BY <2>1, <2>4
    <3>2. LibThins(Library!Stamp)
      BY <1>0, <2>1, <2>2, LibTouch
    <3> QED BY <1>0, <1>1, <1>2, <1>3, <2>1, <2>3, <3>1, <3>2, LibSettles
  <2>5. CASE disk[Head(queue).id] \notin Library!Record
    <3>1. lastAccessAt' = lastAccessAt
      BY <2>1, <2>5
    <3>2. disk' = [disk EXCEPT ![Head(queue).id] = None] /\ saved' = saved /\ acked' = acked
      BY <2>1, <2>5 DEF Library!WriteTouch
    <3>3. Library!Valid' = Library!Valid /\ \A j \in Library!Valid : disk'[j] = disk[j]
      BY <1>0, <2>2, <2>5, <3>2, LibAssumed DEF LibTyped, Library!Valid
    <3>4. LibThins(0)
      BY <1>0, <3>2, <3>3 DEF LibThins, LibTyped, LibItems
    <3> QED BY <1>0, <1>1, <1>2, <1>3, <2>1, <3>1, <3>4, LibSettles
  <2> QED BY <2>4, <2>5
<1>6. CASE Library!Delete
  <2>1. LibThins(0) /\ UNCHANGED <<cleared, lastAccessAt>>
    BY <1>0, <1>6, LibDelete DEF Library!Delete
  <2> QED BY <1>0, <1>1, <1>2, <1>3, <2>1, LibSettles
<1>7. CASE Library!Clear
  <2>1. /\ LibThins(0) /\ Library!Valid' = Library!Valid \ Library!Present /\ lastAccessAt' = lastAccessAt
        /\ cleared' = queue[1].number
    BY <1>0, <1>1, <1>7, LibDelete, LibRunning DEF Library!Clear
  <2>2. Library!Valid \subseteq Library!Present
    BY LibAssumed DEF Library!Valid, Library!Present
  <2>3. Library!Valid' = {}
    BY <2>1, <2>2
  <2> QED BY <1>0, <1>1, <1>2, <1>3, <2>1, <2>3, LibSettles
<1>8. CASE Library!SaveRefused
  <2>1. LibThins(0) /\ cleared' = cleared /\ lastAccessAt' = Library!Stamp
    BY <1>0, <1>8, LibNoWrite DEF Library!SaveRefused
  <2>2. Library!Stamp \in Nat /\ Library!Stamp > lastAccessAt
    BY <1>0, LibStamp
  <2> QED BY <1>0, <1>1, <1>2, <1>3, <2>1, <2>2, LibSettles
<1> QED BY <1>4, <1>5, <1>6, <1>7, <1>8

LEMMA LibEnqueue ==
  ASSUME LibInv, NEW r \in Library!Requests, Library!Enqueue(r[1], r[2])
  PROVE  LibInv'
<1> DEFINE call == [op |-> r[1], id |-> r[2], number |-> calls + 1]
<1>0. LibTyped /\ LibQueue /\ LibHead /\ LibFresh /\ LibLimit /\ Library!SavedIsKept /\ Library!ClearIsFinal
  BY DEF LibInv
<1>1. /\ calls < MaxRecordCalls /\ calls' = calls + 1 /\ queue' = Append(queue, call)
      /\ UNCHANGED <<disk, clock, lastAccessAt, stage, saved, cleared, acked, torn, faults, moved>>
  BY DEF Library!Enqueue
<1>2. calls \in Nat /\ calls' \in 0..MaxRecordCalls /\ cleared \in 0..calls
  BY <1>0, <1>1, LibAssumed DEF LibTyped
<1>3. /\ r[1] \in {"list", "clear", "read", "save", "delete"} /\ r[2] \in RecordIds \cup {None}
      /\ r[1] \in {"read", "save", "delete"} => r[2] \in RecordIds
  BY DEF Library!Requests
<1>4. call \in Library!Call /\ call.op = r[1] /\ call.id = r[2] /\ call.number = calls + 1
  BY <1>2, <1>3 DEF Library!Call
<1> HIDE DEF call
<1>5. /\ queue' \in Seq(Library!Call) /\ queue' # <<>> /\ Len(queue) \in Nat /\ Len(queue') = Len(queue) + 1
      /\ queue'[Len(queue) + 1] = call /\ \A k \in 1..Len(queue) : queue'[k] = queue[k]
  BY <1>0, <1>1, <1>4, Appended DEF LibQueue
<1>6. \A k \in 1..Len(queue') : k \in 1..Len(queue) \/ k = Len(queue) + 1
  BY <1>5
<1>7. LibQueue'
  <2>1. \A k \in 1..Len(queue) : queue[k].number <= calls /\ queue[k].number \in Nat
    <3>1. \A k \in 1..Len(queue) : queue[k] \in Library!Call
      BY <1>0, ElementOfSeq DEF LibQueue
    <3> QED BY <1>0, <3>1 DEF LibQueue, LibWaits, Library!Call
  <2>2. ASSUME NEW k \in 1..Len(queue')
        PROVE  LibWaits(k)'
    <3>1. CASE k \in 1..Len(queue)
      <4>1. LibWaits(k) /\ queue'[k] = queue[k]
        BY <1>0, <1>5, <3>1 DEF LibQueue
      <4>2. queue[k].number <= calls'
        BY <1>1, <1>2, <2>1, <3>1
      <4> QED BY <1>1, <4>1, <4>2 DEF LibWaits
    <3>2. CASE k = Len(queue) + 1
      <4>1. cleared < calls + 1
        BY <1>2
      <4> QED BY <1>1, <1>2, <1>3, <1>4, <1>5, <3>2, <4>1 DEF LibWaits
    <3> QED BY <1>6, <3>1, <3>2
  <2>3. ASSUME NEW j \in 1..Len(queue'), NEW k \in 1..Len(queue'), j < k
        PROVE  queue'[j].number < queue'[k].number
    <3>1. j \in 1..Len(queue) /\ queue'[j] = queue[j]
      BY <1>5, <1>6, <2>3
    <3>2. CASE k \in 1..Len(queue)
      BY <1>0, <1>5, <2>3, <3>1, <3>2 DEF LibQueue
    <3>3. CASE k = Len(queue) + 1
      BY <1>2, <1>4, <1>5, <2>1, <3>1, <3>3
    <3> QED BY <1>6, <3>2, <3>3
  <2> QED BY <1>5, <2>2, <2>3 DEF LibQueue
<1>8. LibTyped'
  <2>1. saved \in [RecordIds -> 0..calls'] /\ cleared \in 0..calls'
    <3>1. 0..calls \subseteq 0..calls'
      BY <1>1, <1>2
    <3> QED BY <1>0, <3>1 DEF LibTyped
  <2> QED BY <1>0, <1>1, <1>2, <2>1 DEF LibTyped
<1>9. queue # <<>> => queue'[1] = queue[1]
  <2>1. queue # <<>> => 1 \in 1..Len(queue)
    BY <1>0, HeadAndTail DEF LibQueue
  <2> QED BY <1>5, <2>1
<1>10. Library!Valid' = Library!Valid
  BY <1>1 DEF Library!Valid
<1>11. LibHead'
  BY <1>0, <1>1, <1>5, <1>9 DEF LibHead
<1>12. LibFresh'
  BY <1>0, <1>1, <1>9, <1>10 DEF LibFresh, LibHead
<1>13. LibLimit' /\ Library!SavedIsKept' /\ Library!ClearIsFinal'
  BY <1>0, <1>1, <1>10 DEF LibLimit, Library!SavedIsKept, Library!ClearIsFinal
<1> QED BY <1>7, <1>8, <1>11, <1>12, <1>13 DEF LibInv

LEMMA LibTicks ==
  ASSUME LibInv, Library!Tick \/ Library!SetClockBack
  PROVE  LibInv'
<1>0. LibTyped /\ LibQueue /\ LibHead /\ LibFresh /\ LibLimit /\ Library!SavedIsKept /\ Library!ClearIsFinal
  BY DEF LibInv
<1>1. UNCHANGED <<disk, lastAccessAt, queue, stage, calls, saved, cleared, acked, torn, faults>>
  BY DEF Library!Tick, Library!SetClockBack
<1>2. (clock' = clock + 1 /\ moved' = moved) \/ (clock' \in Nat /\ moved' = TRUE)
  BY DEF Library!Tick, Library!SetClockBack
<1>3. clock' \in Nat /\ moved' \in BOOLEAN
  <2>1. clock \in Nat /\ moved \in BOOLEAN
    BY <1>0 DEF LibTyped
  <2>2. clock' \in Nat
    BY <1>2, <2>1
  <2>3. moved' = moved \/ moved' = TRUE
    BY <1>2, Zenon
  <2> QED BY <2>1, <2>2, <2>3, Zenon
<1>4. Library!Valid' = Library!Valid
  BY <1>1 DEF Library!Valid
<1>5. LibTyped'
  BY <1>0, <1>1, <1>3 DEF LibTyped
<1>6. LibFresh'
  <2>1. ASSUME ~moved', NEW i \in Library!Valid, ~(disk[i].accessed <= lastAccessAt)
        PROVE  disk[i].accessed < clock'
    <3>1. disk[i].accessed < clock /\ clock' = clock + 1 /\ clock \in Nat
      BY <1>0, <1>2, <2>1 DEF LibFresh, LibTyped
    <3>2. disk[i].accessed \in Nat
      BY LibRecords DEF Library!Valid
    <3> QED BY <3>1, <3>2
  <2>2. ~moved' => ~moved
    BY <1>2
  <2> QED BY <1>0, <1>1, <1>4, <2>1, <2>2 DEF LibFresh
<1>7. LibQueue' /\ LibHead' /\ LibLimit' /\ Library!SavedIsKept' /\ Library!ClearIsFinal'
  <2>1. \A k \in 1..Len(queue) : LibWaits(k) => LibWaits(k)'
    BY <1>1 DEF LibWaits
  <2>2. LibQueue'
    BY <1>0, <1>1, <2>1 DEF LibQueue
  <2>3. ~moved' => ~moved
    BY <1>2
  <2> QED BY <1>0, <1>1, <1>4, <2>2, <2>3 DEF LibHead, LibLimit, Library!SavedIsKept, Library!ClearIsFinal
<1> QED BY <1>5, <1>6, <1>7 DEF LibInv

LEMMA LibRecorded ==
  ASSUME LibInv, NEW i \in RecordIds, NEW n, Library!WriteRecord(i, n)
  PROVE  /\ disk' \in [RecordIds -> LibItems] /\ disk'[i] \in Library!Record /\ disk'[i].accessed = Library!Stamp
         /\ \A j \in RecordIds : j # i => disk'[j] = disk[j]
         /\ Library!Valid' = Library!Valid \cup {i}
         /\ saved' = [saved EXCEPT ![i] = n] /\ acked' = acked
         /\ Cardinality(Library!Valid') \in Nat /\ Cardinality(Library!Valid) \in Nat
         /\ Cardinality(Library!Valid') = Cardinality(Library!Valid) + 1
<1>1. /\ disk[i] \notin Library!Record /\ disk' = [disk EXCEPT ![i] = [accessed |-> Library!Stamp, cached |-> Library!Stamp]]
      /\ saved' = [saved EXCEPT ![i] = n] /\ acked' = acked
  BY DEF Library!WriteRecord
<1>2. Library!Stamp \in Nat /\ disk \in [RecordIds -> LibItems]
  BY LibStamp DEF LibInv, LibTyped
<1>3. [accessed |-> Library!Stamp, cached |-> Library!Stamp] \in Library!Record
  BY <1>2, LibRecords
<1>4. /\ disk' \in [RecordIds -> LibItems] /\ disk'[i] = [accessed |-> Library!Stamp, cached |-> Library!Stamp]
      /\ \A j \in RecordIds : j # i => disk'[j] = disk[j]
  BY <1>1, <1>2, <1>3 DEF LibItems
<1>5. Library!Valid' = Library!Valid \cup {i} /\ i \notin Library!Valid
  BY <1>1, <1>3, <1>4 DEF Library!Valid
<1>6. Library!Valid \in SUBSET RecordIds
  BY DEF Library!Valid
<1>7. IsFiniteSet(Library!Valid) /\ Cardinality(Library!Valid) \in Nat
  BY <1>6, LibFinite
<1>8. Cardinality(Library!Valid') = Cardinality(Library!Valid) + 1
  BY <1>5, <1>7, FS_AddElement
<1> QED BY <1>1, <1>3, <1>4, <1>5, <1>7, <1>8

LEMMA LibSaveWrites ==
  ASSUME LibInv, Library!SaveWrites
  PROVE  LibInv'
<1> DEFINE i == Head(queue).id
           n == Head(queue).number
<1>0. LibTyped /\ LibQueue /\ LibFresh /\ LibLimit /\ Library!SavedIsKept /\ Library!ClearIsFinal
  BY DEF LibInv
<1>1. /\ queue # <<>> /\ Head(queue).op = "save" /\ stage = "start" /\ Library!WriteRecord(i, n)
      /\ lastAccessAt' = Library!Stamp /\ stage' = "prune" /\ UNCHANGED <<clock, queue, calls, cleared, torn, faults, moved>>
  BY DEF Library!SaveWrites, Library!Running
<1>2. i \in RecordIds /\ n \in Nat /\ n \in 0..calls /\ cleared < n /\ queue[1].id = i /\ queue[1].op = "save"
  BY <1>1, LibRunning
<1> HIDE DEF i, n
<1>3. /\ disk' \in [RecordIds -> LibItems] /\ disk'[i] \in Library!Record /\ disk'[i].accessed = Library!Stamp
      /\ \A j \in RecordIds : j # i => disk'[j] = disk[j]
      /\ Library!Valid' = Library!Valid \cup {i}
      /\ saved' = [saved EXCEPT ![i] = n] /\ acked' = acked
      /\ Cardinality(Library!Valid') = Cardinality(Library!Valid) + 1 /\ Cardinality(Library!Valid) \in Nat
  BY <1>1, <1>2, LibRecorded
<1>4. Library!Stamp \in Nat /\ Library!Stamp >= clock /\ Library!Stamp > lastAccessAt /\ clock \in Nat /\ lastAccessAt \in Nat
  BY <1>0, LibStamp DEF LibTyped
<1>5. LibTyped'
  BY <1>0, <1>1, <1>2, <1>3, <1>4 DEF LibTyped
<1>6. LibQueue'
  <2>1. \A k \in 1..Len(queue) : LibWaits(k) => LibWaits(k)'
    BY <1>1 DEF LibWaits
  <2> QED BY <1>0, <1>1, <2>1 DEF LibQueue
<1>7. LibHead'
  BY <1>1, <1>2, <1>3 DEF LibHead
<1>8. LibFresh'
  <2>1. ASSUME ~moved, NEW j \in Library!Valid', j # i
        PROVE  disk'[j].accessed < Library!Stamp /\ disk'[j] = disk[j]
    <3>1. j \in Library!Valid /\ j \in RecordIds /\ disk'[j] = disk[j] /\ disk[j].accessed \in Nat
      BY <1>3, <2>1, LibRecords DEF Library!Valid
    <3>2. disk[j].accessed <= lastAccessAt \/ disk[j].accessed < clock
      BY <1>0, <2>1, <3>1 DEF LibFresh
    <3> QED BY <1>4, <3>1, <3>2
  <2>2. ASSUME ~moved, NEW j \in Library!Valid'
        PROVE  disk'[j].accessed <= lastAccessAt'
    <3>1. CASE j = i
      BY <1>1, <1>3, <1>4, <3>1
    <3>2. CASE j # i
      <4>1. disk'[j].accessed \in Nat
        BY LibRecords DEF Library!Valid
      <4> QED BY <1>1, <1>4, <2>1, <2>2, <3>2, <4>1
    <3> QED BY <3>1, <3>2
  <2> QED BY <1>1, <1>2, <1>3, <2>1, <2>2 DEF LibFresh
<1>9. LibLimit'
  <2>1. torn \in Nat /\ MaxRecords \in Nat
    BY <1>0, LibAssumed DEF LibTyped
  <2>2. Cardinality(Library!Valid) <= MaxRecords + torn + 0
    BY <1>0, <1>1, <2>1 DEF LibLimit
  <2>3. Cardinality(Library!Valid') <= MaxRecords + torn + 1
    BY <1>3, <2>1, <2>2
  <2> QED BY <1>1, <2>3 DEF LibLimit
<1>10. Library!SavedIsKept'
  BY <1>0, <1>1, <1>3 DEF Library!SavedIsKept
<1>11. Library!ClearIsFinal'
  <2>1. \A j \in Library!Valid : saved[j] > cleared /\ j \in RecordIds
    BY <1>0 DEF Library!ClearIsFinal, Library!Valid
  <2>2. saved'[i] = n /\ \A j \in RecordIds : j # i => saved'[j] = saved[j]
    BY <1>0, <1>2, <1>3 DEF LibTyped
  <2>3. cleared \in Int
    BY <1>0, LibAssumed DEF LibTyped
  <2>4. n > cleared
    BY <1>2, <2>3
  <2> QED BY <1>1, <1>3, <2>1, <2>2, <2>4 DEF Library!ClearIsFinal
<1> QED BY <1>5, <1>6, <1>7, <1>8, <1>9, <1>10, <1>11 DEF LibInv

(* What a full prune keeps: no more than the limit, and the freshest.      *)
LEMMA LibKeptFew ==
  ASSUME LibTyped, NEW K \in SUBSET Library!Valid, Library!IsKept(K)
  PROVE  Cardinality(K) <= MaxRecords
<1> DEFINE ahead(i) == {j \in K : Library!Before(j, i)}
           f == [i \in K |-> Cardinality(ahead(i))]
<1>1. \A i \in K : i \in RecordIds /\ disk[i].accessed \in Nat /\ disk[i].cached \in Nat /\ RecordOrder[i] \in Nat
  BY LibRecords, LibAssumed DEF Library!Valid
<1>2. \A i \in K : ~Library!Before(i, i)
  BY <1>1 DEF Library!Before
<1>3. ASSUME NEW i \in K, NEW j \in K, NEW k \in K, Library!Before(i, j), Library!Before(j, k)
      PROVE  Library!Before(i, k)
  BY <1>1, <1>3 DEF Library!Before
<1>4. ASSUME NEW i \in K, NEW j \in K, i # j
      PROVE  Library!Before(i, j) \/ Library!Before(j, i)
  <2>1. RecordOrder[i] # RecordOrder[j]
    BY <1>1, <1>4, LibAssumed
  <2> QED BY <1>1, <2>1 DEF Library!Before
<1>5. \A S : Library!Cardinality(S) = Cardinality(S)
  BY DEF Library!Cardinality, Cardinality
<1>6. IsFiniteSet(K) /\ K \in SUBSET RecordIds
  <2>1. K \in SUBSET RecordIds
    BY DEF Library!Valid
  <2> QED BY <2>1, LibFinite
<1>7. \A i \in K : IsFiniteSet(ahead(i)) /\ Cardinality(ahead(i)) \in Nat
  <2>1. \A i \in K : ahead(i) \in SUBSET RecordIds
    BY <1>6
  <2> QED BY <2>1, LibFinite
<1>8. \A i \in K : Cardinality(ahead(i)) < MaxRecords
  <2>1. \A i \in K : i \in Library!Valid
    OBVIOUS
  <2>2. \A i \in K : Library!Cardinality(ahead(i)) < MaxRecords
    BY <2>1 DEF Library!IsKept
  <2> HIDE DEF ahead
  <2> QED BY <1>5, <2>2
<1>9. f \in [K -> 0..(MaxRecords - 1)]
  <2>1. \A i \in K : Cardinality(ahead(i)) \in 0..(MaxRecords - 1)
    <3> HIDE DEF ahead
    <3> QED BY <1>7, <1>8, LibAssumed
  <2> QED BY <2>1
<1>10. ASSUME NEW i \in K, NEW j \in K, Library!Before(i, j)
       PROVE  Cardinality(ahead(i)) # Cardinality(ahead(j))
  <2>1. ahead(i) \in SUBSET ahead(j)
    BY <1>3, <1>10
  <2>2. i \in ahead(j) /\ i \notin ahead(i)
    BY <1>2, <1>10
  <2> HIDE DEF ahead
  <2>3. Cardinality(ahead(j)) = Cardinality(ahead(i)) => ahead(j) = ahead(i)
    BY <1>7, <2>1, FS_Subset
  <2> QED BY <2>2, <2>3
<1>11. \A i, j \in K : f[i] = f[j] => i = j
  <2>1. \A i \in K : f[i] = Cardinality(ahead(i))
    OBVIOUS
  <2> HIDE DEF f, ahead
  <2> QED BY <1>4, <1>10, <2>1
<1> HIDE DEF f
<1>12. f \in Injection(K, 0..(MaxRecords - 1))
  BY <1>9, <1>11 DEF Injection, IsInjective
<1>13. IsFiniteSet(0..(MaxRecords - 1)) /\ Cardinality(0..(MaxRecords - 1)) = MaxRecords
  BY FS_Interval, LibAssumed
<1> QED BY <1>12, <1>13, FS_Injection

LEMMA LibKeptFreshest ==
  ASSUME LibTyped, NEW K \in SUBSET Library!Valid, Library!IsKept(K), NEW i \in Library!Valid,
         \A j \in Library!Valid : j # i => disk[j].accessed < disk[i].accessed
  PROVE  i \in K
<1> DEFINE ahead == {j \in K : Library!Before(j, i)}
<1>1. \A j \in Library!Valid : disk[j].accessed \in Nat /\ disk[j].cached \in Nat /\ j \in RecordIds /\ RecordOrder[j] \in Nat
  BY LibRecords, LibAssumed DEF Library!Valid
<1>2. ASSUME NEW j \in K
      PROVE  ~Library!Before(j, i)
  <2>1. CASE j = i
    BY <1>1, <2>1 DEF Library!Before
  <2>2. CASE j # i
    <3>1. disk[j].accessed < disk[i].accessed
      BY <2>2
    <3> QED BY <1>1, <3>1 DEF Library!Before
  <2> QED BY <2>1, <2>2
<1>3. ahead = {}
  BY <1>2
<1>4. \A S : Library!Cardinality(S) = Cardinality(S)
  BY DEF Library!Cardinality, Cardinality
<1>5. i \in K <=> Library!Cardinality(ahead) < MaxRecords /\ Library!Bytes(ahead) + RecordSize[i] <= MaxBytes
  BY DEF Library!IsKept
<1> HIDE DEF ahead
<1>6. Library!Cardinality(ahead) = 0
  BY <1>3, <1>4, FS_EmptySet
<1>7. Library!Bytes(ahead) = 0
  <2>1. UNION {{k} \X (1..RecordSize[k]) : k \in ahead} = {}
    BY <1>3
  <2>2. Library!Bytes(ahead) = Library!Cardinality({})
    BY <2>1 DEF Library!Bytes
  <2> QED BY <1>4, <2>2, FS_EmptySet
<1>8. i \in RecordIds /\ RecordSize[i] \in Nat /\ RecordSize[i] <= MaxBytes /\ MaxBytes \in Nat
  BY <1>1, LibAssumed
<1>9. 0 < MaxRecords
  BY LibAssumed
<1> QED BY <1>5, <1>6, <1>7, <1>8, <1>9

LEMMA LibSavePrunes ==
  ASSUME LibInv, Library!SavePrunes
  PROVE  LibInv'
<1> DEFINE i == Head(queue).id
<1>0. LibTyped /\ LibHead /\ LibFresh /\ Library!SavedIsKept
  BY DEF LibInv
<1>1. PICK K \in SUBSET Library!Valid :
        /\ Library!IsKept(K)
        /\ disk' = [j \in RecordIds |-> IF j \in K THEN disk[j] ELSE None]
        /\ acked' = (acked \ (Library!Valid \ K)) \cup {i}
  BY DEF Library!SavePrunes
<1>2. /\ queue # <<>> /\ stage = "prune" /\ Head(queue).op = "save" /\ torn' = 0 /\ Library!Settle
      /\ UNCHANGED <<clock, lastAccessAt, calls, saved, cleared, faults, moved>>
  BY DEF Library!SavePrunes, Library!Running
<1>3. i \in RecordIds /\ queue[1].id = i /\ disk[i] \in Library!Record /\ i \in Library!Valid
  BY <1>0, <1>2, LibRunning DEF LibHead, Library!Valid
<1> HIDE DEF i
<1>4. ~moved => i \in K
  BY <1>0, <1>1, <1>2, <1>3, LibKeptFreshest DEF LibFresh
<1>5. disk' \in [RecordIds -> LibItems]
  BY <1>0, <1>1 DEF LibTyped, LibItems
<1>6. Library!Valid' = K /\ \A j \in K : disk'[j] = disk[j]
  BY <1>1, LibAssumed DEF Library!Valid
<1>7. LibThins(0)
  BY <1>0, <1>1, <1>2, <1>3, <1>4, <1>5, <1>6 DEF LibThins, LibTyped
<1>8. queue' = Tail(queue) /\ stage' = "start"
  BY <1>2 DEF Library!Settle
<1>9. LibQueue'
  BY <1>2, <1>8, LibTail DEF LibInv
<1>10. /\ cleared' \in 0..calls /\ lastAccessAt' \in Nat /\ clock' \in Nat /\ torn' \in Nat /\ faults' \in 0..MaxFaults
       /\ lastAccessAt' >= lastAccessAt /\ clock' >= clock /\ 0 <= lastAccessAt'
  BY <1>0, <1>2 DEF LibTyped
<1>11. Cardinality(Library!Valid') <= MaxRecords + torn'
  <2>1. Cardinality(K) <= MaxRecords
    BY <1>0, <1>1, LibKeptFew
  <2>2. MaxRecords + 0 = MaxRecords
    BY LibAssumed
  <2> QED BY <1>2, <1>6, <2>1, <2>2
<1> QED BY <1>2, <1>7, <1>8, <1>9, <1>10, <1>11, LibEnds

LEMMA LibRollback ==
  ASSUME LibInv, Library!Rollback
  PROVE  LibInv'
<1>0. LibTyped /\ LibHead
  BY DEF LibInv
<1>1. /\ stage = "rollback" /\ Library!Settle /\ UNCHANGED <<clock, lastAccessAt, calls, cleared, moved>>
      /\ \/ Library!WriteDelete({Head(queue).id}) /\ UNCHANGED <<torn, faults>>
         \/ faults < MaxFaults /\ faults' = faults + 1 /\ Library!NoWrite /\ torn' = torn + 1
  BY DEF Library!Rollback, Library!WriteRollback
<1>2. queue # <<>> /\ queue' = Tail(queue) /\ stage' = "start"
  BY <1>0, <1>1 DEF LibHead, Library!Settle
<1>3. LibQueue'
  BY <1>1, <1>2, LibTail DEF LibInv
<1>4. Head(queue).id \in Library!Valid
  BY <1>0, <1>1, <1>2, LibRunning DEF LibHead, Library!Valid
<1>5. /\ cleared' \in 0..calls /\ lastAccessAt' \in Nat /\ clock' \in Nat /\ torn' \in Nat /\ faults' \in 0..MaxFaults
      /\ lastAccessAt' >= lastAccessAt /\ clock' >= clock /\ 0 <= lastAccessAt'
  <2>1. MaxFaults \in Nat
    BY LibAssumed
  <2> QED BY <1>0, <1>1, <2>1 DEF LibTyped
<1>6. CASE Library!WriteDelete({Head(queue).id}) /\ UNCHANGED <<torn, faults>>
  <2>1. LibThins(0) /\ Library!Valid' = Library!Valid \ {Head(queue).id}
    BY <1>0, <1>6, LibDelete
  <2>2. Library!Valid \in SUBSET RecordIds
    BY DEF Library!Valid
  <2>3. IsFiniteSet(Library!Valid) /\ Cardinality(Library!Valid) \in Nat
    BY <2>2, LibFinite
  <2>4. Cardinality(Library!Valid') = Cardinality(Library!Valid) - 1
    BY <1>4, <2>1, <2>3, FS_RemoveElement
  <2>5. torn \in Nat /\ MaxRecords \in Nat
    BY <1>0, LibAssumed DEF LibTyped
  <2>6. Cardinality(Library!Valid) <= MaxRecords + torn + 1
    BY <1>1 DEF LibInv, LibLimit
  <2>7. Cardinality(Library!Valid') <= MaxRecords + torn'
    BY <1>6, <2>3, <2>4, <2>5, <2>6
  <2> QED BY <1>1, <1>2, <1>3, <1>5, <2>1, <2>7, LibEnds
<1>7. CASE faults < MaxFaults /\ faults' = faults + 1 /\ Library!NoWrite /\ torn' = torn + 1
  <2>1. LibThins(0)
    BY <1>0, <1>7, LibNoWrite
  <2>2. Cardinality(Library!Valid') <= MaxRecords + torn'
    BY <1>1, <1>7, <2>1, LibFewer DEF LibThins
  <2> QED BY <1>1, <1>2, <1>3, <1>5, <2>1, <2>2, LibEnds
<1> QED BY <1>1, <1>6, <1>7

LEMMA LibRequestFails ==
  ASSUME LibInv, Library!RequestFails
  PROVE  LibInv'
<1>0. LibTyped /\ LibQueue /\ LibHead /\ LibFresh /\ LibLimit /\ Library!SavedIsKept /\ Library!ClearIsFinal
  BY DEF LibInv
<1>1. /\ queue # <<>> /\ stage # "rollback" /\ faults < MaxFaults /\ faults' = faults + 1
      /\ UNCHANGED <<clock, calls, cleared, torn, moved>>
  BY DEF Library!RequestFails
<1>2. faults' \in 0..MaxFaults
  BY <1>0, <1>1, LibAssumed DEF LibTyped
<1>3. CASE stage = "prune"
  <2>1. Library!NoWrite /\ stage' = "rollback" /\ UNCHANGED <<queue, lastAccessAt>>
    BY <1>3 DEF Library!RequestFails
  <2>2. UNCHANGED <<disk, saved, acked>>
    BY <2>1 DEF Library!NoWrite
  <2>3. Library!Valid' = Library!Valid
    BY <2>2 DEF Library!Valid
  <2>4. LibTyped'
    BY <1>0, <1>1, <1>2, <2>1, <2>2 DEF LibTyped
  <2>5. LibQueue'
    <3>1. \A k \in 1..Len(queue) : LibWaits(k) => LibWaits(k)'
      BY <1>1, <2>1 DEF LibWaits
    <3> QED BY <1>0, <2>1, <3>1 DEF LibQueue
  <2>6. LibHead' /\ LibFresh' /\ LibLimit' /\ Library!SavedIsKept' /\ Library!ClearIsFinal'
    BY <1>0, <1>1, <1>3, <2>1, <2>2, <2>3
      DEF LibHead, LibFresh, LibLimit, Library!SavedIsKept, Library!ClearIsFinal
  <2> QED BY <2>4, <2>5, <2>6 DEF LibInv
<1>4. CASE stage = "start"
  <2>1. /\ Library!NoWrite \/ Library!WriteDelete({Head(queue).id})
        /\ lastAccessAt' \in Library!StampsTaken /\ Library!Settle
    BY <1>4 DEF Library!RequestFails
  <2>2. LibThins(0)
    BY <1>0, <2>1, LibNoWrite, LibDelete
  <2>3. Library!Stamp \in Nat /\ Library!Stamp > lastAccessAt /\ lastAccessAt \in Nat
    BY <1>0, LibStamp DEF LibTyped
  <2>4. lastAccessAt' = lastAccessAt \/ lastAccessAt' = Library!Stamp
    BY <2>1 DEF Library!StampsTaken
  <2>5. lastAccessAt' \in Nat /\ lastAccessAt' >= lastAccessAt /\ 0 <= lastAccessAt'
    BY <2>3, <2>4
  <2> QED BY <1>1, <1>2, <1>4, <2>1, <2>2, <2>5, LibSettles
<1> QED BY <1>0, <1>1, <1>3, <1>4 DEF LibTyped

LEMMA LibKill ==
  ASSUME LibInv, Library!Kill
  PROVE  LibInv'
<1>0. LibTyped /\ LibQueue /\ LibHead /\ LibFresh /\ LibLimit /\ Library!SavedIsKept /\ Library!ClearIsFinal
  BY DEF LibInv
<1>1. /\ faults < MaxFaults /\ faults' = faults + 1
      /\ torn' = IF Library!Running("save") THEN torn + 1 ELSE torn
      /\ queue' = <<>> /\ stage' = "start" /\ clock' = Library!Stamp + 1 /\ lastAccessAt' = 0
      /\ UNCHANGED <<calls, cleared, moved>>
      /\ Library!NoWrite \/ (queue # <<>> /\ Library!HeadWrite)
  BY DEF Library!Kill
<1>2. Library!Stamp \in Nat /\ Library!Stamp >= clock /\ Library!Stamp > lastAccessAt /\ clock \in Nat /\ lastAccessAt \in Nat
  BY <1>0, LibStamp DEF LibTyped
<1>3. torn \in Nat /\ MaxRecords \in Nat /\ torn' \in Nat
  BY <1>0, <1>1, LibAssumed DEF LibTyped
<1>4. faults' \in 0..MaxFaults
  BY <1>0, <1>1, LibAssumed DEF LibTyped
<1>5. LibQueue'
  BY <1>1, EmptySeq DEF LibQueue
<1>6. /\ cleared' \in 0..calls /\ lastAccessAt' \in Nat /\ clock' \in Nat
      /\ clock' > lastAccessAt /\ clock' >= clock /\ 0 <= lastAccessAt' /\ Library!Stamp < clock'
  BY <1>0, <1>1, <1>2 DEF LibTyped
<1>7. ASSUME NEW x \in {0, Library!Stamp}, LibThins(x)
      PROVE  LibInv'
  <2>1. x \in Nat /\ (x <= lastAccessAt' \/ x < clock')
    BY <1>2, <1>6
  <2>2. Cardinality(Library!Valid') <= MaxRecords + torn'
    <3>1. /\ Cardinality(Library!Valid') \in Nat
          /\ stage = "start" => Cardinality(Library!Valid') <= MaxRecords + torn
          /\ stage # "start" => Cardinality(Library!Valid') <= MaxRecords + (torn + 1)
      BY <1>7, LibFewer DEF LibThins
    <3>2. stage # "start" => Library!Running("save")
      BY <1>0, LibRunning DEF LibHead, Library!Running
    <3>3. stage # "start" => torn' = torn + 1
      BY <1>1, <3>2
    <3>4. torn' = torn \/ torn' = torn + 1
      BY <1>1
    <3> QED BY <1>3, <3>1, <3>3, <3>4
  <2> QED BY <1>1, <1>3, <1>4, <1>5, <1>6, <1>7, <2>1, <2>2, LibEnds
<1>8. CASE Library!NoWrite
  BY <1>0, <1>7, <1>8, LibNoWrite
<1>9. CASE queue # <<>> /\ Library!HeadWrite
  <2> DEFINE i == Head(queue).id
             n == Head(queue).number
  <2>1. /\ Head(queue).op \in {"read", "save", "delete"} => i \in RecordIds
        /\ n \in 0..calls /\ cleared < n
    BY <1>9, LibRunning
  <2>2. CASE Library!WriteList
    BY <1>0, <1>7, <2>2, LibList
  <2>3. CASE Head(queue).op = "read" /\ Library!WriteTouch(i)
    BY <1>0, <1>7, <2>1, <2>3, LibTouch
  <2>4. CASE Library!WriteDelete({i}) \/ Library!WriteDelete(Library!Present)
    BY <1>0, <1>7, <2>4, LibDelete
  <2>5. CASE \E K \in SUBSET Library!Valid : Library!WritePrune(K)
    BY <1>0, <1>7, <2>5, LibPrune
  <2>6. CASE Head(queue).op = "save" /\ stage = "start" /\ Library!WriteRecord(i, n)
    <3>1. i \in RecordIds
      BY <2>1, <2>6
    <3> HIDE DEF i, n
    <3>2. /\ disk' \in [RecordIds -> LibItems] /\ disk'[i] \in Library!Record /\ disk'[i].accessed = Library!Stamp
          /\ \A j \in RecordIds : j # i => disk'[j] = disk[j]
          /\ Library!Valid' = Library!Valid \cup {i}
          /\ saved' = [saved EXCEPT ![i] = n] /\ acked' = acked
          /\ Cardinality(Library!Valid') = Cardinality(Library!Valid) + 1 /\ Cardinality(Library!Valid) \in Nat
      BY <2>6, <3>1, LibRecorded
    <3>3. LibTyped'
      BY <1>0, <1>1, <1>3, <1>4, <1>6, <2>1, <3>1, <3>2 DEF LibTyped
    <3>4. LibFresh'
      <4>1. ASSUME ~moved, NEW j \in Library!Valid'
            PROVE  disk'[j].accessed < clock'
        <5>1. CASE j = i
          BY <1>1, <1>2, <3>2, <5>1
        <5>2. CASE j # i
          <6>1. j \in Library!Valid /\ disk'[j] = disk[j] /\ disk[j].accessed \in Nat
            BY <3>2, <4>1, <5>2, LibRecords DEF Library!Valid
          <6>2. disk[j].accessed <= lastAccessAt \/ disk[j].accessed < clock
            BY <1>0, <4>1, <6>1 DEF LibFresh
          <6> QED BY <1>1, <1>2, <6>1, <6>2
        <5> QED BY <5>1, <5>2
      <4> QED BY <1>1, <4>1 DEF LibFresh
    <3>5. LibLimit'
      <4>1. torn' = torn + 1
        BY <1>1, <1>9, <2>6 DEF Library!Running
      <4>2. Cardinality(Library!Valid) <= MaxRecords + torn + 0
        BY <1>0, <1>3, <2>6 DEF LibLimit
      <4>3. Cardinality(Library!Valid') <= MaxRecords + torn' + 0
        BY <1>3, <3>2, <4>1, <4>2
      <4> QED BY <1>1, <4>3 DEF LibLimit
    <3>6. Library!SavedIsKept'
      BY <1>0, <1>1, <3>2 DEF Library!SavedIsKept
    <3>7. Library!ClearIsFinal'
      <4>1. \A j \in Library!Valid : saved[j] > cleared /\ j \in RecordIds
        BY <1>0 DEF Library!ClearIsFinal, Library!Valid
      <4>2. saved'[i] = n /\ \A j \in RecordIds : j # i => saved'[j] = saved[j]
        BY <1>0, <3>1, <3>2 DEF LibTyped
      <4>3. n > cleared
        <5>1. cleared \in Int /\ n \in Int
          BY <1>0, <2>1, LibAssumed DEF LibTyped
        <5> QED BY <2>1, <5>1
      <4> QED BY <1>1, <3>2, <4>1, <4>2, <4>3 DEF Library!ClearIsFinal
    <3>8. LibHead'
      BY <1>1 DEF LibHead
    <3> QED BY <1>5, <3>3, <3>4, <3>5, <3>6, <3>7, <3>8 DEF LibInv
  <2> QED BY <1>9, <2>2, <2>3, <2>4, <2>5, <2>6 DEF Library!HeadWrite, Library!WriteRollback
<1> QED BY <1>1, <1>8, <1>9

LEMMA LibActs ==
  ASSUME LibInv, Library!Next
  PROVE  LibInv'
<1>1. \A r \in Library!Requests : Library!Enqueue(r[1], r[2]) => LibInv'
  BY LibEnqueue
<1> QED BY <1>1, LibWorks, LibSaveWrites, LibSavePrunes, LibRollback, LibRequestFails, LibKill, LibTicks
    DEF Library!Next, Library!Work

LEMMA LibStep ==
  ASSUME LibInv, [Library!Next]_(Library!vars)
  PROVE  LibInv'
<1>1. CASE UNCHANGED Library!vars
  <2>1. UNCHANGED <<disk, clock, lastAccessAt, queue, stage, calls, saved, cleared, acked, torn, faults, moved>>
    BY <1>1 DEF Library!vars
  <2>2. Library!Valid' = Library!Valid
    BY <2>1 DEF Library!Valid
  <2> QED BY <1>1, <2>1, <2>2 DEF LibInv, LibTyped, LibQueue, LibWaits, LibHead, LibFresh, LibLimit,
        Library!SavedIsKept, Library!ClearIsFinal
<1> QED BY <1>1, LibActs

LEMMA LibPromised ==
  ASSUME LibInv
  PROVE  Library!TypeOK /\ Library!SavedIsKept /\ Library!ClearIsFinal /\ Library!OverLimitOnlyByTornSaves
<1>1. LibTyped /\ LibQueue /\ LibHead /\ LibLimit
  BY DEF LibInv
<1>2. stage # "start" => queue # <<>> /\ Head(queue).op = "save"
  BY <1>1, LibRunning DEF LibHead
<1>3. Library!TypeOK
  BY <1>1, <1>2 DEF Library!TypeOK, LibTyped, LibItems, LibQueue
<1>4. \A S : Library!Cardinality(S) = Cardinality(S)
  BY DEF Library!Cardinality, Cardinality
<1>5. Library!OverLimitOnlyByTornSaves
  BY <1>1, <1>4 DEF LibLimit, Library!OverLimitOnlyByTornSaves
<1> QED BY <1>3, <1>5 DEF LibInv

(* The library: an acknowledged save stays until a later call removes it,  *)
(* a clear is final, and only torn saves take it over its limit.           *)
THEOREM LibraryKept ==
  Library!Spec => [](Library!TypeOK /\ Library!SavedIsKept /\ Library!ClearIsFinal /\ Library!OverLimitOnlyByTornSaves)
<1>1. Library!Init => LibInv
  BY LibStart
<1>2. LibInv /\ [Library!Next]_(Library!vars) => LibInv'
  BY LibStep
<1> QED BY <1>1, <1>2, LibPromised, PTL DEF Library!Spec

-----------------------------------------------------------------------------
(***************************************************************************)
(* The device cache, while nothing failed and nobody read: a write that is *)
(* under way has yet to see all that is there, or has seen it as it is.    *)
(***************************************************************************)
Cache == INSTANCE DeviceCache WITH
  Keys <- CacheKeys, Size <- ItemSize, KeyOrder <- ItemOrder,
  MaxEntries <- MaxItems, MaxTotalBytes <- MaxItemBytes, Found <- CacheFound, Ops <- CacheOps,
  MaxClock <- MaxCacheClock, MaxCalls <- MaxRequests

ASSUME CacheParameters == Cache!CacheAssumption /\ Cache!NotRecords

CacIds == 1..MaxRequests
CacItems == Cache!Record \cup {None, Corrupt}
CacSeen == UNION {[D -> CacItems] : D \in SUBSET CacheKeys}
CacTask ==
  [op : CacheOps \cup {"none"}, key : CacheKeys \cup {None}, next : Cache!Stages,
   new : Cache!Record \cup {None}, old : CacItems, left : SUBSET CacheKeys, seen : CacSeen]

CacTyped ==
  /\ disk \in [CacheKeys -> CacItems] /\ clock \in Nat /\ started \in 0..MaxRequests
  /\ task \in [CacIds -> CacTask]
  /\ alone \in SUBSET CacIds /\ before \in CacItems
  /\ cleared \in 0..started /\ faults \in 0..MaxFaults

CacStands(c) ==
  /\ task[c].next # "done" => c <= started
  /\ started < c => task[c].op = "none"
  /\ task[c].op = "none" => task[c].next = "done"
  /\ task[c].next # "done" /\ task[c].op # "clear" => task[c].key \in CacheKeys
  /\ task[c].next # "done" /\ task[c].op = "write" => task[c].new \in Cache!Record
  /\ task[c].next = "touch" => task[c].new \in Cache!Record
  /\ task[c].next = "get" => task[c].op \in {"read", "write"}
  /\ task[c].next = "touch" => task[c].op = "read"
  /\ task[c].next = "drop" => task[c].op \in {"read", "remove"}
  /\ task[c].next = "keys" => task[c].op \in {"write", "clear"}
  /\ task[c].next = "wipe" => task[c].op = "clear"
  /\ task[c].next \in {"set", "measure", "sweep", "evict", "undo"} => task[c].op = "write"
  /\ task[c].next = "undo" => faults # 0

(* A write that has yet to see what there is, or has seen it as it is.     *)
CacPending(c) ==
  /\ task[c].op = "write"
  /\ \/ task[c].next \in {"get", "set", "keys"}
     \/ /\ task[c].next \in {"measure", "sweep", "evict"}
        /\ \A k \in Cache!Valid :
             \/ task[c].next = "measure" /\ k \in task[c].left
             \/ k \in DOMAIN task[c].seen /\ task[c].seen[k] = disk[k]

CacCalm == faults = 0 /\ \A c \in CacIds : task[c].op # "read"

CacHeals ==
  CacCalm /\ (\E c \in CacIds : task[c].op = "write") =>
    Cache!Within(disk) \/ \E c \in CacIds : CacPending(c)

CacInv == CacTyped /\ CacHeals /\ \A c \in CacIds : CacStands(c)

LEMMA CacAssumed ==
  /\ IsFiniteSet(CacheKeys) /\ MaxItems \in Nat \ {0} /\ MaxItemBytes \in Nat
  /\ MaxRequests \in Nat /\ MaxFaults \in Nat /\ MaxCacheClock \in Nat
  /\ None \notin Cache!Record /\ Corrupt \notin Cache!Record /\ None # Corrupt
  /\ ItemSize \in [CacheKeys -> Nat \ {0}] /\ ItemOrder \in [CacheKeys -> Nat]
  /\ \A k \in CacheKeys : ItemSize[k] <= MaxItemBytes
  /\ \A i, j \in CacheKeys : ItemOrder[i] = ItemOrder[j] => i = j
  /\ CacheFound \subseteq [CacheKeys -> {"record", "corrupt", "none"}]
  /\ CacheOps \subseteq {"read", "write", "remove", "clear"}
<1>1. \A S : Cache!IsFiniteSet(S) <=> IsFiniteSet(S)
  BY DEF Cache!IsFiniteSet, IsFiniteSet
<1> QED BY <1>1, CacheParameters DEF Cache!CacheAssumption, Cache!NotRecords

LEMMA CacFields ==
  ASSUME CacTyped, NEW c \in CacIds
  PROVE  /\ task[c] \in CacTask
         /\ task[c].op \in CacheOps \cup {"none"} /\ task[c].key \in CacheKeys \cup {None}
         /\ task[c].next \in Cache!Stages /\ task[c].new \in Cache!Record \cup {None}
         /\ task[c].old \in CacItems /\ task[c].left \in SUBSET CacheKeys /\ task[c].seen \in CacSeen
<1>1. task[c] \in CacTask
  BY DEF CacTyped
<1> QED BY <1>1 DEF CacTask

LEMMA CacSeenTyped ==
  ASSUME NEW s \in CacSeen
  PROVE  DOMAIN s \in SUBSET CacheKeys /\ \A k \in DOMAIN s : s[k] \in CacItems
BY DEF CacSeen

LEMMA CacNoTask ==
  /\ Cache!NoTask \in CacTask /\ Cache!NoTask.op = "none" /\ Cache!NoTask.next = "done"
  /\ \A o \in CacheOps \cup {"none"} :
       /\ [Cache!NoTask EXCEPT !.op = o] \in CacTask
       /\ [Cache!NoTask EXCEPT !.op = o].op = o /\ [Cache!NoTask EXCEPT !.op = o].next = "done"
<1>1. <<>> \in [{} -> CacItems]
  <2>1. <<>> \in Seq(CacItems) /\ Len(<<>>) = 0
    BY EmptySeq
  <2>2. 1..0 = {}
    OBVIOUS
  <2> QED BY <2>1, <2>2, LenProperties
<1>2. <<>> \in CacSeen
  <2>1. {} \in SUBSET CacheKeys
    OBVIOUS
  <2> QED BY <1>1, <2>1 DEF CacSeen
<1>3. Cache!NoTask \in CacTask
  BY <1>2 DEF Cache!NoTask, CacTask, Cache!Stages, CacItems
<1>4. Cache!NoTask.op = "none" /\ Cache!NoTask.next = "done"
  BY DEF Cache!NoTask
<1> HIDE DEF Cache!NoTask
<1>5. \A o \in CacheOps \cup {"none"} :
       /\ [Cache!NoTask EXCEPT !.op = o] \in CacTask
       /\ [Cache!NoTask EXCEPT !.op = o].op = o /\ [Cache!NoTask EXCEPT !.op = o].next = "done"
  BY <1>3, <1>4 DEF CacTask
<1> QED BY <1>3, <1>4, <1>5

LEMMA CacBytes ==
  ASSUME NEW S \in SUBSET CacheKeys
  PROVE  /\ Cache!Bytes(S) \in Nat /\ (S = {} => Cache!Bytes(S) = 0)
         /\ \A T \in SUBSET S : Cache!Bytes(T) <= Cache!Bytes(S)
<1> DEFINE B(U) == UNION {{k} \X (1..ItemSize[k]) : k \in U}
<1>1. \A U : Cache!Bytes(U) = Cardinality(B(U))
  <2>1. \A U : Cache!Cardinality(U) = Cardinality(U)
    BY DEF Cache!Cardinality, Cardinality
  <2> QED BY <2>1 DEF Cache!Bytes
<1>2. \A k \in CacheKeys : IsFiniteSet({k} \X (1..ItemSize[k]))
  <2>1. \A k \in CacheKeys : IsFiniteSet(1..ItemSize[k])
    BY FS_Interval, CacAssumed
  <2>2. \A k \in CacheKeys : IsFiniteSet({k})
    BY FS_Singleton
  <2> QED BY <2>1, <2>2, FS_Product
<1>3. IsFiniteSet({{k} \X (1..ItemSize[k]) : k \in S})
  <2> DEFINE g == [k \in S |-> {k} \X (1..ItemSize[k])]
             T == {{k} \X (1..ItemSize[k]) : k \in S}
  <2>1. IsFiniteSet(S)
    BY CacAssumed, FS_Subset
  <2>2. \A t \in T : \E k \in S : g[k] = t
    OBVIOUS
  <2>3. g \in [S -> T]
    OBVIOUS
  <2> HIDE DEF g, T
  <2>4. g \in Surjection(S, T)
    BY <2>2, <2>3 DEF Surjection
  <2>5. IsFiniteSet(T)
    BY <2>1, <2>4, FS_Surjection
  <2> QED BY <2>5 DEF T
<1>4. IsFiniteSet(B(S))
  <2>1. \A T \in {{k} \X (1..ItemSize[k]) : k \in S} : IsFiniteSet(T)
    BY <1>2
  <2> QED BY <1>3, <2>1, FS_UNION
<1>5. \A T \in SUBSET S : B(T) \in SUBSET B(S)
  OBVIOUS
<1>6. S = {} => B(S) = {}
  OBVIOUS
<1> HIDE DEF B
<1>7. \A T \in SUBSET S : Cardinality(B(T)) <= Cardinality(B(S))
  BY <1>4, <1>5, FS_Subset
<1>8. Cardinality(B(S)) \in Nat /\ (S = {} => Cardinality(B(S)) = 0)
  BY <1>4, <1>6, FS_CardinalityType, FS_EmptySet
<1> QED BY <1>1, <1>7, <1>8

(* What was measured and is no surplus is within the limits.               *)
LEMMA CacLeft ==
  ASSUME NEW s \in CacSeen, NEW V \in SUBSET (Cache!Measured(s) \ Cache!Surplus(s))
  PROVE  Cardinality(V) <= MaxItems /\ Cache!Bytes(V) <= MaxItemBytes
<1> DEFINE M == Cache!Measured(s)
           ahead(i) == {j \in M : Cache!Before(s, j, i)}
           f == [i \in V |-> Cardinality(ahead(i))]
           R == {p \in M \X M : Cache!Before(s, p[1], p[2])}
<1>1. DOMAIN s \in SUBSET CacheKeys /\ M \in SUBSET CacheKeys
  BY CacSeenTyped DEF Cache!Measured
<1>2. \A i \in M : i \in CacheKeys /\ s[i].at \in Nat /\ ItemOrder[i] \in Nat
  <2>1. \A i \in M : i \in CacheKeys /\ s[i] \in Cache!Record
    BY <1>1 DEF Cache!Measured
  <2>2. \A r \in Cache!Record : r.at \in Nat
    BY DEF Cache!Record
  <2> QED BY <2>1, <2>2, CacAssumed
<1>3. \A i \in V : i \in M /\ i \notin Cache!Surplus(s)
  OBVIOUS
<1> HIDE DEF M
<1>4. \A i \in M : ~Cache!Before(s, i, i)
  BY <1>2 DEF Cache!Before
<1>5. ASSUME NEW i \in M, NEW j \in M, NEW k \in M, Cache!Before(s, i, j), Cache!Before(s, j, k)
      PROVE  Cache!Before(s, i, k)
  BY <1>2, <1>5 DEF Cache!Before
<1>6. ASSUME NEW i \in M, NEW j \in M, i # j
      PROVE  Cache!Before(s, i, j) \/ Cache!Before(s, j, i)
  <2>1. ItemOrder[i] # ItemOrder[j]
    BY <1>2, <1>6, CacAssumed
  <2> QED BY <1>2, <2>1 DEF Cache!Before
<1>7. \A S : Cache!Cardinality(S) = Cardinality(S)
  BY DEF Cache!Cardinality, Cardinality
<1>8. IsFiniteSet(M) /\ \A S \in SUBSET M : IsFiniteSet(S) /\ Cardinality(S) \in Nat
  <2>1. IsFiniteSet(M)
    BY <1>1, CacAssumed, FS_Subset
  <2> QED BY <2>1, FS_Subset, FS_CardinalityType
<1>9. \A i \in M : ahead(i) \in SUBSET M
  OBVIOUS
<1>10. ASSUME NEW i \in V
       PROVE  Cardinality(ahead(i)) < MaxItems /\ Cache!Bytes(ahead(i) \cup {i}) <= MaxItemBytes
  <2>1. i \in Cache!Measured(s)
    BY <1>3 DEF M
  <2>2. ~(Cache!Cardinality(ahead(i)) >= MaxItems \/ Cache!Bytes(ahead(i) \cup {i}) > MaxItemBytes)
    BY <1>3, <2>1 DEF Cache!Surplus, M
  <2>3. ahead(i) \in SUBSET M /\ ahead(i) \cup {i} \in SUBSET CacheKeys
    BY <1>1, <1>3
  <2> HIDE DEF ahead
  <2>4. Cardinality(ahead(i)) \in Nat /\ Cache!Bytes(ahead(i) \cup {i}) \in Nat
    BY <1>8, <2>3, CacBytes
  <2> QED BY <1>7, <2>2, <2>4, CacAssumed
<1>11. f \in [V -> 0..(MaxItems - 1)]
  <2>1. \A i \in V : Cardinality(ahead(i)) \in 0..(MaxItems - 1)
    <3>1. \A i \in V : Cardinality(ahead(i)) \in Nat
      BY <1>3, <1>8, <1>9
    <3>2. \A i \in V : Cardinality(ahead(i)) < MaxItems
      BY <1>10
    <3>3. MaxItems \in Nat
      BY CacAssumed
    <3> HIDE DEF ahead
    <3> QED BY <3>1, <3>2, <3>3
  <2> QED BY <2>1
<1>12. ASSUME NEW i \in M, NEW j \in M, Cache!Before(s, i, j)
       PROVE  Cardinality(ahead(i)) # Cardinality(ahead(j))
  <2>1. ahead(i) \in SUBSET ahead(j)
    BY <1>5, <1>12
  <2>2. i \in ahead(j) /\ i \notin ahead(i)
    BY <1>4, <1>12
  <2>3. IsFiniteSet(ahead(j))
    BY <1>8, <1>9
  <2> HIDE DEF ahead
  <2>4. Cardinality(ahead(j)) = Cardinality(ahead(i)) => ahead(j) = ahead(i)
    BY <2>1, <2>3, FS_Subset
  <2> QED BY <2>2, <2>4
<1>13. \A i, j \in V : f[i] = f[j] => i = j
  <2>1. \A i \in V : f[i] = Cardinality(ahead(i))
    OBVIOUS
  <2> HIDE DEF f, ahead
  <2> QED BY <1>3, <1>6, <1>12, <2>1
<1>14. Cardinality(V) <= MaxItems
  <2> HIDE DEF f
  <2>1. f \in Injection(V, 0..(MaxItems - 1))
    BY <1>11, <1>13 DEF Injection, IsInjective
  <2>2. IsFiniteSet(0..(MaxItems - 1)) /\ Cardinality(0..(MaxItems - 1)) = MaxItems
    BY FS_Interval, CacAssumed
  <2> QED BY <2>1, <2>2, FS_Injection
<1>15. CASE V = {}
  BY <1>14, <1>15, CacBytes, CacAssumed
<1>16. CASE V # {}
  <2>1. \A x, y \in V : <<x, y>> \in R <=> Cache!Before(s, x, y)
    BY <1>3
  <2> HIDE DEF R
  <2>2. IsFiniteSet(V)
    BY <1>3, <1>8
  <2>3. \A x \in V : <<x, x>> \notin R
    BY <1>3, <1>4, <2>1
  <2>4. \A x, y \in V : x # y => <<x, y>> \in R \/ <<y, x>> \in R
    BY <1>3, <1>6, <2>1
  <2>5. \A x, y, z \in V : <<x, y>> \in R /\ <<y, z>> \in R => <<x, z>> \in R
    BY <1>3, <1>5, <2>1
  <2>6. \E m \in V : \A x \in V : x # m => <<x, m>> \in R
    BY <1>16, <2>2, <2>3, <2>4, <2>5, HasLast
  <2>7. PICK m \in V : \A x \in V : x # m => Cache!Before(s, x, m)
    BY <2>1, <2>6
  <2>8. V \in SUBSET (ahead(m) \cup {m}) /\ ahead(m) \cup {m} \in SUBSET CacheKeys /\ V \in SUBSET CacheKeys
    BY <1>1, <1>3, <2>7
  <2>9. Cache!Bytes(ahead(m) \cup {m}) <= MaxItemBytes
    BY <1>10
  <2> HIDE DEF ahead
  <2>10. /\ Cache!Bytes(V) <= Cache!Bytes(ahead(m) \cup {m}) /\ Cache!Bytes(V) \in Nat
         /\ Cache!Bytes(ahead(m) \cup {m}) \in Nat
    BY <2>8, CacBytes
  <2> QED BY <1>14, <2>9, <2>10, CacAssumed
<1> QED BY <1>15, <1>16

LEMMA CacWithin ==
  ASSUME NEW d
  PROVE  Cache!Within(d) <=> /\ Cardinality({k \in CacheKeys : d[k] \in Cache!Record}) <= MaxItems
                             /\ Cache!Bytes({k \in CacheKeys : d[k] \in Cache!Record}) <= MaxItemBytes
<1>1. \A S : Cache!Cardinality(S) = Cardinality(S)
  BY DEF Cache!Cardinality, Cardinality
<1> QED BY <1>1 DEF Cache!Within

(* Nothing is there that was not, and what is there is what was.           *)
CacShrinks == Cache!Valid' \subseteq Cache!Valid /\ \A k \in Cache!Valid' : disk'[k] = disk[k]

LEMMA CacWithinShrinks ==
  ASSUME CacShrinks, Cache!Within(disk)
  PROVE  Cache!Within(disk')
<1>1. /\ Cache!Valid = {k \in CacheKeys : disk[k] \in Cache!Record}
      /\ Cache!Valid' = {k \in CacheKeys : disk'[k] \in Cache!Record}
  BY DEF Cache!Valid
<1>2. Cache!Valid \in SUBSET CacheKeys /\ Cache!Valid' \in SUBSET CacheKeys /\ Cache!Valid' \in SUBSET Cache!Valid
  BY <1>1 DEF CacShrinks
<1>3. Cardinality(Cache!Valid) <= MaxItems /\ Cache!Bytes(Cache!Valid) <= MaxItemBytes
  BY <1>1, CacWithin
<1>4. IsFiniteSet(Cache!Valid)
  BY <1>2, CacAssumed, FS_Subset
<1>5. /\ Cardinality(Cache!Valid') <= Cardinality(Cache!Valid) /\ Cardinality(Cache!Valid') \in Nat
      /\ Cardinality(Cache!Valid) \in Nat
  <2>1. IsFiniteSet(Cache!Valid') /\ Cardinality(Cache!Valid') <= Cardinality(Cache!Valid)
    BY <1>2, <1>4, FS_Subset
  <2> QED BY <1>4, <2>1, FS_CardinalityType
<1>6. /\ Cache!Bytes(Cache!Valid') <= Cache!Bytes(Cache!Valid) /\ Cache!Bytes(Cache!Valid') \in Nat
      /\ Cache!Bytes(Cache!Valid) \in Nat
  BY <1>2, CacBytes
<1>7. Cardinality(Cache!Valid') <= MaxItems /\ Cache!Bytes(Cache!Valid') <= MaxItemBytes
  BY <1>3, <1>5, <1>6, CacAssumed
<1> QED BY <1>1, <1>7, CacWithin

(* The cache once a surplus is gone.                                       *)
LEMMA CacWithinLeft ==
  ASSUME NEW s \in CacSeen, Cache!Valid' \subseteq Cache!Measured(s) \ Cache!Surplus(s)
  PROVE  Cache!Within(disk')
<1>1. Cache!Valid' = {k \in CacheKeys : disk'[k] \in Cache!Record}
  BY DEF Cache!Valid
<1>2. Cardinality(Cache!Valid') <= MaxItems /\ Cache!Bytes(Cache!Valid') <= MaxItemBytes
  BY CacLeft
<1> QED BY <1>1, <1>2, CacWithin

LEMMA CacStart ==
  ASSUME Cache!Init
  PROVE  CacInv
<1>1. PICK found \in CacheFound :
        disk = [k \in CacheKeys |-> IF found[k] = "record" THEN [at |-> 0, by |-> 0]
                                    ELSE IF found[k] = "corrupt" THEN Corrupt ELSE None]
  BY DEF Cache!Init
<1>2. /\ clock = 1 /\ started = 0 /\ task = [c \in CacIds |-> Cache!NoTask]
      /\ alone = {} /\ before = None /\ cleared = 0 /\ faults = 0
  BY DEF Cache!Init, Cache!CallIds, CacIds
<1>3. disk \in [CacheKeys -> CacItems]
  <2>1. [at |-> 0, by |-> 0] \in Cache!Record
    BY DEF Cache!Record
  <2> QED BY <1>1, <2>1 DEF CacItems
<1>4. CacTyped
  <2>1. 0 \in 0..MaxRequests /\ 0 \in 0..0 /\ 0 \in 0..MaxFaults /\ 1 \in Nat /\ None \in CacItems
    BY CacAssumed DEF CacItems
  <2> QED BY <1>2, <1>3, <2>1, CacNoTask DEF CacTyped
<1>5. \A c \in CacIds : task[c].op = "none" /\ task[c].next = "done"
  BY <1>2, CacNoTask
<1>6. CacHeals
  BY <1>5 DEF CacHeals
<1>7. \A c \in CacIds : CacStands(c)
  BY <1>5 DEF CacStands
<1> QED BY <1>4, <1>6, <1>7 DEF CacInv

(* A request of one call, and the code up to its next.                     *)
LEMMA CacMoves ==
  ASSUME CacInv, NEW c \in CacIds, NEW n \in CacTask, task' = [task EXCEPT ![c] = n], n.op = task[c].op,
         disk' \in [CacheKeys -> CacItems], clock' \in Nat, cleared' \in 0..started,
         UNCHANGED <<started, alone, before, faults>>, CacStands(c)',
         CacCalm => CacPending(c)' \/ (CacShrinks /\ (CacPending(c) => Cache!Within(disk')))
  PROVE  CacInv'
<1>0. CacTyped /\ CacHeals /\ \A d \in CacIds : CacStands(d)
  BY DEF CacInv
<1>1. \A d \in CacIds : task'[d] = IF d = c THEN n ELSE task[d]
  BY <1>0 DEF CacTyped
<1>2. CacTyped'
  BY <1>0 DEF CacTyped
<1>3. ASSUME NEW d \in CacIds
      PROVE  CacStands(d)'
  <2>1. CASE d = c
    BY <2>1
  <2>2. CASE d # c
    BY <1>0, <1>1, <2>2 DEF CacStands
  <2> QED BY <2>1, <2>2
<1>4. \A d \in CacIds : task'[d].op = task[d].op
  BY <1>1
<1>5. CacHeals'
  <2>1. ASSUME CacCalm', NEW e \in CacIds, task'[e].op = "write"
        PROVE  Cache!Within(disk') \/ \E d \in CacIds : CacPending(d)'
    <3>1. CacCalm /\ task[e].op = "write"
      BY <1>4, <2>1 DEF CacCalm
    <3>2. Cache!Within(disk) \/ \E d \in CacIds : CacPending(d)
      BY <1>0, <3>1 DEF CacHeals
    <3>3. CASE CacPending(c)'
      BY <3>3
    <3>4. CASE CacShrinks /\ (CacPending(c) => Cache!Within(disk'))
      <4>1. CASE Cache!Within(disk)
        BY <3>4, <4>1, CacWithinShrinks
      <4>2. ASSUME NEW d \in CacIds, CacPending(d), d # c
            PROVE  CacPending(d)'
        <5>1. task'[d] = task[d]
          BY <1>1, <4>2
        <5> QED BY <3>4, <4>2, <5>1 DEF CacPending, CacShrinks
      <4> QED BY <3>2, <3>4, <4>1, <4>2
    <3> QED BY <3>1, <3>3, <3>4
  <2> QED BY <2>1 DEF CacHeals
<1> QED BY <1>2, <1>3, <1>5 DEF CacInv

(* A call that ends, having left the cache as it was or with less in it.   *)
LEMMA CacEnds ==
  ASSUME CacInv, NEW c \in CacIds, Cache!Settle(c), disk' \in [CacheKeys -> CacItems],
         clock' \in Nat, cleared' \in 0..started, UNCHANGED <<started, alone, before, faults>>,
         CacCalm => CacShrinks /\ (CacPending(c) => Cache!Within(disk'))
  PROVE  CacInv'
<1>1. CacStands(c) /\ CacTyped /\ task[c].op \in CacheOps \cup {"none"}
  BY CacFields DEF CacInv
<1> DEFINE n == [Cache!NoTask EXCEPT !.op = task[c].op]
<1>2. n \in CacTask /\ n.op = task[c].op /\ n.next = "done"
  BY <1>1, CacNoTask
<1>3. task' = [task EXCEPT ![c] = n]
  BY DEF Cache!Settle, Cache!Step
<1> HIDE DEF n
<1>4. task'[c] = n
  BY <1>1, <1>3 DEF CacTyped
<1>5. CacStands(c)'
  BY <1>1, <1>2, <1>4 DEF CacStands
<1> QED BY <1>2, <1>3, <1>5, CacMoves

LEMMA CacShrinksWhen ==
  ASSUME \A k \in CacheKeys : disk'[k] = disk[k] \/ disk'[k] = None
  PROVE  CacShrinks
BY CacAssumed DEF CacShrinks, Cache!Valid

(* Where a call goes within its program.                                   *)
LEMMA CacGoes ==
  ASSUME CacInv, NEW c \in CacIds, NEW x \in Cache!Stages, Cache!Goto(c, x)
  PROVE  /\ [task[c] EXCEPT !.next = x] \in CacTask
         /\ task' = [task EXCEPT ![c] = [task[c] EXCEPT !.next = x]]
         /\ task'[c].op = task[c].op /\ task'[c].next = x /\ task'[c].key = task[c].key
         /\ task'[c].new = task[c].new /\ task'[c].left = task[c].left /\ task'[c].seen = task[c].seen
         /\ [task[c] EXCEPT !.next = x].op = task[c].op
<1>1. CacTyped /\ task[c] \in CacTask
  BY CacFields DEF CacInv
<1>2. task' = [task EXCEPT ![c] = [task[c] EXCEPT !.next = x]]
  BY DEF Cache!Goto, Cache!Step
<1>3. task'[c] = [task[c] EXCEPT !.next = x]
  BY <1>1, <1>2 DEF CacTyped
<1> QED BY <1>1, <1>2, <1>3 DEF CacTask

LEMMA CacAt ==
  ASSUME NEW c, NEW x, Cache!At(c, x)
  PROVE  c \in CacIds /\ task[c].next = x
BY DEF Cache!At, Cache!CallIds, CacIds

LEMMA CacReadGets ==
  ASSUME CacInv, NEW c \in CacIds, Cache!ReadGets(c)
  PROVE  CacInv'
<1>1. CacTyped /\ CacStands(c) /\ task[c] \in CacTask /\ task[c].op = "read" /\ task[c].next = "get"
  BY CacFields, CacAt DEF CacInv, Cache!ReadGets
<1>2. task[c].key \in CacheKeys /\ disk[task[c].key] \in CacItems /\ ~CacCalm /\ c <= started
  BY <1>1 DEF CacStands, CacTyped, CacCalm
<1>3. UNCHANGED <<disk, started, alone, before, cleared, faults>>
  BY DEF Cache!ReadGets
<1>4. clock' \in Nat
  <2>1. disk[task[c].key] \in Cache!Record => \E t \in 1..MaxCacheClock : Cache!Now(t)
    BY DEF Cache!ReadGets
  <2>2. disk[task[c].key] \notin Cache!Record => clock' = clock
    BY DEF Cache!ReadGets
  <2>3. \A t \in 1..MaxCacheClock : Cache!Now(t) => clock' \in Nat
    BY CacAssumed DEF Cache!Now
  <2> QED BY <1>1, <2>1, <2>2, <2>3 DEF CacTyped
<1>5. disk' \in [CacheKeys -> CacItems] /\ cleared' \in 0..started
  BY <1>1, <1>3 DEF CacTyped
<1>6. CASE disk[task[c].key] = None
  <2>1. Cache!Settle(c)
    BY <1>6, CacAssumed DEF Cache!ReadGets
  <2> QED BY <1>2, <1>3, <1>4, <1>5, <2>1, CacEnds
<1>7. CASE disk[task[c].key] = Corrupt
  <2>1. Cache!Goto(c, "drop")
    BY <1>7, CacAssumed DEF Cache!ReadGets
  <2>2. "drop" \in Cache!Stages
    BY DEF Cache!Stages
  <2>3. /\ [task[c] EXCEPT !.next = "drop"] \in CacTask
        /\ task' = [task EXCEPT ![c] = [task[c] EXCEPT !.next = "drop"]]
        /\ task'[c].op = task[c].op /\ task'[c].next = "drop" /\ task'[c].key = task[c].key
        /\ [task[c] EXCEPT !.next = "drop"].op = task[c].op
    BY <2>1, <2>2, CacGoes
  <2>4. CacStands(c)'
    BY <1>1, <1>2, <1>3, <2>3 DEF CacStands
  <2> QED BY <1>2, <1>3, <1>4, <1>5, <2>3, <2>4, CacMoves
<1>8. CASE disk[task[c].key] \in Cache!Record
  <2> DEFINE stored == disk[task[c].key]
             new == [stored EXCEPT !.at = clock']
             n == [task[c] EXCEPT !.next = "touch", !.new = new]
  <2>1. Cache!Step(c, n)
    <3>1. stored # None /\ stored # Corrupt
      BY <1>8, CacAssumed
    <3>2. (CASE stored = None -> Cache!Settle(c)
             [] stored = Corrupt -> Cache!Goto(c, "drop")
             [] OTHER -> Cache!Step(c, n))
      BY DEF Cache!ReadGets
    <3> HIDE DEF n, stored
    <3> QED BY <3>1, <3>2
  <2>2. new \in Cache!Record
    BY <1>4, <1>8 DEF Cache!Record
  <2> HIDE DEF new
  <2>3. n \in CacTask /\ n.op = "read" /\ n.next = "touch" /\ n.new = new /\ n.key = task[c].key
    BY <1>1, <2>2 DEF CacTask, Cache!Stages
  <2> HIDE DEF n
  <2>4. task' = [task EXCEPT ![c] = n] /\ task'[c] = n
    BY <1>1, <2>1 DEF Cache!Step, CacTyped
  <2>5. CacStands(c)'
    BY <1>1, <1>2, <1>3, <2>2, <2>3, <2>4 DEF CacStands
  <2> QED BY <1>1, <1>2, <1>3, <1>4, <1>5, <2>3, <2>4, <2>5, CacMoves
<1> QED BY <1>2, <1>6, <1>7, <1>8 DEF CacItems

LEMMA CacWriteGets ==
  ASSUME CacInv, NEW c \in CacIds, Cache!WriteGets(c)
  PROVE  CacInv'
<1>1. CacTyped /\ CacStands(c) /\ task[c] \in CacTask /\ task[c].op = "write" /\ task[c].next = "get"
  BY CacFields, CacAt DEF CacInv, Cache!WriteGets
<1>2. task[c].key \in CacheKeys /\ disk[task[c].key] \in CacItems /\ c <= started
  BY <1>1 DEF CacStands, CacTyped
<1>3. UNCHANGED <<disk, clock, started, alone, before, cleared, faults>>
  BY DEF Cache!WriteGets, Cache!Reads
<1> DEFINE n == [task[c] EXCEPT !.next = "set", !.old = disk[task[c].key]]
<1>4. n \in CacTask /\ n.op = "write" /\ n.next = "set" /\ n.new = task[c].new /\ n.key = task[c].key
  BY <1>1, <1>2 DEF CacTask, Cache!Stages
<1>5. task' = [task EXCEPT ![c] = n] /\ task'[c] = n
  BY <1>1 DEF Cache!WriteGets, Cache!Step, CacTyped
<1> HIDE DEF n
<1>6. CacPending(c)'
  BY <1>4, <1>5 DEF CacPending
<1>7. CacStands(c)'
  BY <1>1, <1>2, <1>3, <1>4, <1>5 DEF CacStands
<1>8. disk' \in [CacheKeys -> CacItems] /\ cleared' \in 0..started /\ clock' \in Nat
  BY <1>1, <1>3 DEF CacTyped
<1> QED BY <1>1, <1>3, <1>4, <1>5, <1>6, <1>7, <1>8, CacMoves

(* One item of the storage is replaced.                                    *)
LEMMA CacPuts ==
  ASSUME CacTyped, NEW k \in CacheKeys, NEW x \in CacItems, disk' = [disk EXCEPT ![k] = x]
  PROVE  disk' \in [CacheKeys -> CacItems]
BY DEF CacTyped

LEMMA CacTouch ==
  ASSUME CacInv, NEW c \in CacIds, Cache!Touch(c)
  PROVE  CacInv'
<1>1. CacTyped /\ CacStands(c) /\ task[c].next = "touch"
  BY CacAt DEF CacInv, Cache!Touch
<1>2. task[c].key \in CacheKeys /\ task[c].new \in CacItems /\ ~CacCalm
  BY <1>1 DEF CacStands, CacCalm, CacItems
<1>3. /\ disk' = [disk EXCEPT ![task[c].key] = task[c].new] /\ Cache!Settle(c)
      /\ UNCHANGED <<clock, started, alone, before, cleared, faults>>
  BY DEF Cache!Touch, Cache!Writes
<1>4. disk' \in [CacheKeys -> CacItems]
  BY <1>1, <1>2, <1>3, CacPuts
<1>5. cleared' \in 0..started /\ clock' \in Nat
  BY <1>1, <1>3 DEF CacTyped
<1> QED BY <1>2, <1>3, <1>4, <1>5, CacEnds

LEMMA CacUndo ==
  ASSUME CacInv, NEW c \in CacIds, Cache!Undo(c)
  PROVE  CacInv'
<1>1. CacTyped /\ CacStands(c) /\ task[c].next = "undo" /\ task[c].old \in CacItems
  BY CacAt, CacFields DEF CacInv, Cache!Undo
<1>2. task[c].key \in CacheKeys /\ ~CacCalm
  BY <1>1 DEF CacStands, CacCalm
<1>3. /\ disk' = [disk EXCEPT ![task[c].key] = task[c].old] /\ Cache!Settle(c)
      /\ UNCHANGED <<clock, started, alone, before, cleared, faults>>
  BY DEF Cache!Undo, Cache!Writes
<1>4. disk' \in [CacheKeys -> CacItems]
  BY <1>1, <1>2, <1>3, CacPuts
<1>5. cleared' \in 0..started /\ clock' \in Nat
  BY <1>1, <1>3 DEF CacTyped
<1> QED BY <1>2, <1>3, <1>4, <1>5, CacEnds

LEMMA CacSet ==
  ASSUME CacInv, NEW c \in CacIds, Cache!Set(c)
  PROVE  CacInv'
<1>1. CacTyped /\ CacStands(c) /\ task[c].next = "set"
  BY CacAt DEF CacInv, Cache!Set
<1>2. /\ task[c].op = "write" /\ task[c].key \in CacheKeys /\ c <= started
      /\ task[c].new \in Cache!Record /\ task[c].new \in CacItems
  BY <1>1 DEF CacStands, CacItems
<1>3. /\ disk' = [disk EXCEPT ![task[c].key] = task[c].new] /\ Cache!Goto(c, "keys")
      /\ UNCHANGED <<clock, started, alone, before, cleared, faults>>
  BY DEF Cache!Set, Cache!Writes
<1>4. disk' \in [CacheKeys -> CacItems]
  BY <1>1, <1>2, <1>3, CacPuts
<1>5. cleared' \in 0..started /\ clock' \in Nat
  BY <1>1, <1>3 DEF CacTyped
<1> DEFINE n == [task[c] EXCEPT !.next = "keys"]
<1>6. "keys" \in Cache!Stages
  BY DEF Cache!Stages
<1>7. /\ n \in CacTask /\ n.op = task[c].op /\ task' = [task EXCEPT ![c] = n]
      /\ task'[c].op = task[c].op /\ task'[c].next = "keys" /\ task'[c].key = task[c].key
      /\ task'[c].new = task[c].new
  BY <1>3, <1>6, CacGoes
<1> HIDE DEF n
<1>8. CacStands(c)'
  BY <1>1, <1>2, <1>3, <1>7 DEF CacStands
<1>9. CacPending(c)'
  BY <1>2, <1>7 DEF CacPending
<1> QED BY <1>3, <1>4, <1>5, <1>7, <1>8, <1>9, CacMoves

(* A set of keys is removed.                                               *)
LEMMA CacWithout ==
  ASSUME CacTyped, NEW S, Cache!Without(S)
  PROVE  /\ disk' \in [CacheKeys -> CacItems] /\ CacShrinks
         /\ \A k \in CacheKeys : disk'[k] = IF k \in S THEN None ELSE disk[k]
<1>1. disk' = [k \in CacheKeys |-> IF k \in S THEN None ELSE disk[k]]
  BY DEF Cache!Without
<1>2. \A k \in CacheKeys : disk'[k] = IF k \in S THEN None ELSE disk[k]
  BY <1>1
<1>3. CacShrinks
  BY <1>2, CacShrinksWhen
<1>4. disk' \in [CacheKeys -> CacItems]
  BY <1>1 DEF CacTyped, CacItems
<1> QED BY <1>2, <1>3, <1>4

LEMMA CacDrop ==
  ASSUME CacInv, NEW c \in CacIds, Cache!Drop(c)
  PROVE  CacInv'
<1>1. CacTyped /\ task[c].next = "drop"
  BY CacAt DEF CacInv, Cache!Drop
<1>2. /\ Cache!Without({task[c].key}) /\ Cache!Settle(c)
      /\ UNCHANGED <<clock, started, alone, before, cleared, faults>>
  BY DEF Cache!Drop, Cache!Writes
<1>3. disk' \in [CacheKeys -> CacItems] /\ CacShrinks
  BY <1>1, <1>2, CacWithout
<1>4. cleared' \in 0..started /\ clock' \in Nat
  BY <1>1, <1>2 DEF CacTyped
<1>5. ~CacPending(c)
  BY <1>1 DEF CacPending
<1> QED BY <1>2, <1>3, <1>4, <1>5, CacEnds

LEMMA CacWipe ==
  ASSUME CacInv, NEW c \in CacIds, Cache!Wipe(c)
  PROVE  CacInv'
<1>1. CacTyped /\ CacStands(c) /\ task[c].next = "wipe"
  BY CacAt DEF CacInv, Cache!Wipe
<1>2. /\ Cache!Without(task[c].left) /\ Cache!Settle(c)
      /\ cleared' = IF c > cleared THEN c ELSE cleared
      /\ UNCHANGED <<clock, started, alone, before, faults>>
  BY DEF Cache!Wipe
<1>3. disk' \in [CacheKeys -> CacItems] /\ CacShrinks
  BY <1>1, <1>2, CacWithout
<1>4. c <= started
  BY <1>1 DEF CacStands
<1>5. cleared' \in 0..started
  BY <1>1, <1>2, <1>4, CacAssumed DEF CacTyped, CacIds
<1>6. clock' \in Nat
  BY <1>1, <1>2 DEF CacTyped
<1>7. ~CacPending(c)
  BY <1>1 DEF CacPending
<1> QED BY <1>2, <1>3, <1>5, <1>6, <1>7, CacEnds

LEMMA CacClearLists ==
  ASSUME CacInv, NEW c \in CacIds, Cache!ClearLists(c)
  PROVE  CacInv'
<1>1. CacTyped /\ CacStands(c) /\ task[c] \in CacTask /\ task[c].next = "keys" /\ task[c].op = "clear"
  BY CacFields, CacAt DEF CacInv, Cache!ClearLists
<1>2. c <= started /\ ~CacPending(c)
  BY <1>1 DEF CacStands, CacPending
<1>3. UNCHANGED <<disk, clock, started, alone, before, faults>>
  BY DEF Cache!ClearLists
<1>4. disk' \in [CacheKeys -> CacItems] /\ clock' \in Nat /\ CacShrinks
  BY <1>1, <1>3 DEF CacTyped, CacShrinks, Cache!Valid
<1>5. CASE Cache!Present = {}
  <2>1. Cache!Settle(c) /\ cleared' = c
    BY <1>5 DEF Cache!ClearLists
  <2>2. cleared' \in 0..started
    BY <1>1, <1>2, <2>1, CacAssumed DEF CacTyped, CacIds
  <2> QED BY <1>2, <1>3, <1>4, <2>1, <2>2, CacEnds
<1>6. CASE Cache!Present # {}
  <2> DEFINE n == [task[c] EXCEPT !.next = "wipe", !.left = Cache!Present]
  <2>1. Cache!Step(c, n) /\ cleared' = cleared
    BY <1>6 DEF Cache!ClearLists
  <2>2. Cache!Present \in SUBSET CacheKeys
    BY DEF Cache!Present
  <2>3. n \in CacTask /\ n.op = "clear" /\ n.next = "wipe" /\ n.new = task[c].new /\ n.key = task[c].key
    BY <1>1, <2>2 DEF CacTask, Cache!Stages
  <2> HIDE DEF n
  <2>4. task' = [task EXCEPT ![c] = n] /\ task'[c] = n
    BY <1>1, <2>1 DEF Cache!Step, CacTyped
  <2>5. CacStands(c)'
    BY <1>1, <1>2, <1>3, <2>3, <2>4 DEF CacStands
  <2>6. cleared' \in 0..started
    BY <1>1, <2>1 DEF CacTyped
  <2> QED BY <1>1, <1>2, <1>3, <1>4, <2>3, <2>4, <2>5, <2>6, CacMoves
<1> QED BY <1>5, <1>6

LEMMA CacPruneLists ==
  ASSUME CacInv, NEW c \in CacIds, Cache!PruneLists(c)
  PROVE  CacInv'
<1>1. CacTyped /\ CacStands(c) /\ task[c] \in CacTask /\ task[c].next = "keys" /\ task[c].op = "write"
  BY CacFields, CacAt DEF CacInv, Cache!PruneLists
<1>2. c <= started /\ task[c].key \in CacheKeys /\ task[c].new \in Cache!Record
  BY <1>1 DEF CacStands
<1>3. UNCHANGED <<disk, clock, started, alone, before, cleared, faults>>
  BY DEF Cache!PruneLists, Cache!Reads
<1>4. disk' \in [CacheKeys -> CacItems] /\ clock' \in Nat /\ CacShrinks /\ cleared' \in 0..started
  BY <1>1, <1>3 DEF CacTyped, CacShrinks, Cache!Valid
<1>5. Cache!Valid \subseteq Cache!Present
  BY CacAssumed DEF Cache!Valid, Cache!Present
<1>6. CASE Cache!Present = {}
  <2>1. Cache!Settle(c)
    BY <1>6 DEF Cache!PruneLists
  <2>2. {k \in CacheKeys : disk'[k] \in Cache!Record} = {}
    BY <1>3, <1>5, <1>6 DEF Cache!Valid
  <2>3. Cardinality({}) = 0 /\ Cache!Bytes({}) = 0
    BY CacBytes, FS_EmptySet
  <2>4. Cache!Within(disk')
    BY <2>2, <2>3, CacWithin, CacAssumed
  <2> QED BY <1>3, <1>4, <2>1, <2>4, CacEnds
<1>7. CASE Cache!Present # {}
  <2> DEFINE n == [task[c] EXCEPT !.next = "measure", !.left = Cache!Present]
  <2>1. Cache!Step(c, n)
    BY <1>7 DEF Cache!PruneLists
  <2>2. Cache!Present \in SUBSET CacheKeys
    BY DEF Cache!Present
  <2>3. /\ n \in CacTask /\ n.op = "write" /\ n.next = "measure" /\ n.new = task[c].new /\ n.key = task[c].key
        /\ n.left = Cache!Present
    BY <1>1, <2>2 DEF CacTask, Cache!Stages
  <2> HIDE DEF n
  <2>4. task' = [task EXCEPT ![c] = n] /\ task'[c] = n
    BY <1>1, <2>1 DEF Cache!Step, CacTyped
  <2>5. CacStands(c)'
    BY <1>1, <1>2, <1>3, <2>3, <2>4 DEF CacStands
  <2>6. \A k \in Cache!Valid' : k \in task'[c].left
    BY <1>3, <1>5, <2>3, <2>4 DEF Cache!Valid
  <2>7. CacPending(c)'
    BY <2>3, <2>4, <2>6 DEF CacPending
  <2> QED BY <1>1, <1>3, <1>4, <2>3, <2>4, <2>5, <2>7, CacMoves
<1> QED BY <1>6, <1>7

(* What was seen as it is and needs no sweep or eviction is within limits. *)
LEMMA CacSeenWithin ==
  ASSUME CacInv, NEW s \in CacSeen, Cache!Valid' \subseteq Cache!Valid,
         \A k \in Cache!Valid : k \in DOMAIN s /\ s[k] = disk[k],
         \A k \in Cache!Valid' : k \notin Cache!Surplus(s)
  PROVE  Cache!Within(disk')
<1>1. \A k \in Cache!Valid : s[k] \in Cache!Record
  BY DEF Cache!Valid
<1>2. Cache!Valid' \subseteq Cache!Measured(s) \ Cache!Surplus(s)
  BY <1>1 DEF Cache!Measured
<1> QED BY <1>2, CacWithinLeft

LEMMA CacEvict ==
  ASSUME CacInv, NEW c \in CacIds, Cache!Evict(c)
  PROVE  CacInv'
<1>1. CacTyped /\ task[c].next = "evict" /\ task[c].seen \in CacSeen
  BY CacAt, CacFields DEF CacInv, Cache!Evict
<1> DEFINE S == Cache!Surplus(task[c].seen)
<1>2. /\ Cache!Without(S) /\ Cache!Settle(c)
      /\ UNCHANGED <<clock, started, alone, before, cleared, faults>>
  BY DEF Cache!Evict, Cache!Writes
<1> HIDE DEF S
<1>3. /\ disk' \in [CacheKeys -> CacItems] /\ CacShrinks
      /\ \A k \in CacheKeys : disk'[k] = IF k \in S THEN None ELSE disk[k]
  BY <1>1, <1>2, CacWithout
<1>4. cleared' \in 0..started /\ clock' \in Nat
  BY <1>1, <1>2 DEF CacTyped
<1>5. ASSUME CacPending(c)
      PROVE  Cache!Within(disk')
  <2>1. \A k \in Cache!Valid : k \in DOMAIN task[c].seen /\ task[c].seen[k] = disk[k]
    BY <1>1, <1>5 DEF CacPending
  <2>2. \A k \in Cache!Valid' : k \notin Cache!Surplus(task[c].seen)
    BY <1>3, CacAssumed DEF Cache!Valid, S
  <2>3. Cache!Valid' \subseteq Cache!Valid
    BY <1>3 DEF CacShrinks
  <2> QED BY <1>1, <2>1, <2>2, <2>3, CacSeenWithin
<1> QED BY <1>2, <1>3, <1>4, <1>5, CacEnds

LEMMA CacSweep ==
  ASSUME CacInv, NEW c \in CacIds, Cache!Sweep(c)
  PROVE  CacInv'
<1>1. /\ CacTyped /\ CacStands(c) /\ task[c].next = "sweep" /\ task[c].seen \in CacSeen
      /\ task[c].op = "write"
  BY CacAt, CacFields DEF CacInv, Cache!Sweep, CacStands
<1>2. c <= started /\ task[c].key \in CacheKeys /\ task[c].new \in Cache!Record
  BY <1>1 DEF CacStands
<1>3. Cache!Without(Cache!Unusable(task[c].seen)) /\ UNCHANGED <<clock, started, alone, before, cleared, faults>>
  BY DEF Cache!Sweep, Cache!Writes
<1>4. disk' \in [CacheKeys -> CacItems] /\ CacShrinks
  BY <1>1, <1>3, CacWithout
<1>5. cleared' \in 0..started /\ clock' \in Nat
  BY <1>1, <1>3 DEF CacTyped
<1>6. CASE Cache!AfterSweep(task[c].seen) = "done"
  <2>1. Cache!Settle(c)
    BY <1>6 DEF Cache!Sweep
  <2>2. Cache!Surplus(task[c].seen) = {}
    BY <1>6 DEF Cache!AfterSweep
  <2>3. ASSUME CacPending(c)
        PROVE  Cache!Within(disk')
    <3>1. \A k \in Cache!Valid : k \in DOMAIN task[c].seen /\ task[c].seen[k] = disk[k]
      BY <1>1, <2>3 DEF CacPending
    <3>2. Cache!Valid' \subseteq Cache!Valid /\ \A k \in Cache!Valid' : k \notin Cache!Surplus(task[c].seen)
      BY <1>4, <2>2 DEF CacShrinks
    <3> QED BY <1>1, <3>1, <3>2, CacSeenWithin
  <2> QED BY <1>3, <1>4, <1>5, <2>1, <2>3, CacEnds
<1>7. CASE Cache!AfterSweep(task[c].seen) # "done"
  <2> DEFINE n == [task[c] EXCEPT !.next = "evict"]
  <2>1. Cache!Goto(c, "evict")
    BY <1>7 DEF Cache!Sweep
  <2>2. "evict" \in Cache!Stages
    BY DEF Cache!Stages
  <2>3. /\ n \in CacTask /\ n.op = task[c].op /\ task' = [task EXCEPT ![c] = n]
        /\ task'[c].op = task[c].op /\ task'[c].next = "evict" /\ task'[c].key = task[c].key
        /\ task'[c].new = task[c].new /\ task'[c].seen = task[c].seen
    BY <2>1, <2>2, CacGoes
  <2> HIDE DEF n
  <2>4. CacStands(c)'
    BY <1>1, <1>2, <1>3, <2>3 DEF CacStands
  <2>5. ASSUME CacPending(c)
        PROVE  CacPending(c)'
    <3>1. \A k \in Cache!Valid : k \in DOMAIN task[c].seen /\ task[c].seen[k] = disk[k]
      BY <1>1, <2>5 DEF CacPending
    <3>2. \A k \in Cache!Valid' : k \in DOMAIN task'[c].seen /\ task'[c].seen[k] = disk'[k]
      BY <1>4, <2>3, <3>1 DEF CacShrinks
    <3> QED BY <1>1, <2>3, <3>2 DEF CacPending
  <2> QED BY <1>3, <1>4, <1>5, <2>3, <2>4, <2>5, CacMoves
<1> QED BY <1>6, <1>7

LEMMA CacMeasure ==
  ASSUME CacInv, NEW c \in CacIds, Cache!Measure(c)
  PROVE  CacInv'
<1>1. /\ CacTyped /\ CacStands(c) /\ task[c] \in CacTask /\ task[c].next = "measure"
      /\ task[c].left \in SUBSET CacheKeys /\ task[c].seen \in CacSeen /\ task[c].op = "write"
  BY CacAt, CacFields DEF CacInv, Cache!Measure, CacStands
<1>2. c <= started /\ task[c].key \in CacheKeys /\ task[c].new \in Cache!Record
  BY <1>1 DEF CacStands
<1>3. UNCHANGED <<disk, clock, started, alone, before, cleared, faults>>
  BY DEF Cache!Measure, Cache!Reads
<1>4. disk' \in [CacheKeys -> CacItems] /\ clock' \in Nat /\ CacShrinks /\ cleared' \in 0..started
  BY <1>1, <1>3 DEF CacTyped, CacShrinks, Cache!Valid
<1> DEFINE left(k) == task[c].left \ {k}
           observed(k) == [i \in DOMAIN task[c].seen \cup {k} |-> IF i = k THEN disk[k] ELSE task[c].seen[i]]
           next(k) == IF left(k) = {} THEN Cache!AfterMeasure(observed(k)) ELSE "measure"
<1>5. PICK k \in task[c].left :
        IF next(k) = "done" THEN Cache!Settle(c)
        ELSE Cache!Step(c, [task[c] EXCEPT !.left = left(k), !.seen = observed(k), !.next = next(k)])
  BY DEF Cache!Measure
<1>6. k \in CacheKeys /\ left(k) \in SUBSET CacheKeys
  BY <1>1
<1>7. /\ observed(k) \in CacSeen /\ DOMAIN observed(k) = DOMAIN task[c].seen \cup {k} /\ observed(k)[k] = disk[k]
      /\ \A i \in DOMAIN task[c].seen : i # k => observed(k)[i] = task[c].seen[i]
  <2>1. DOMAIN task[c].seen \in SUBSET CacheKeys /\ \A i \in DOMAIN task[c].seen : task[c].seen[i] \in CacItems
    BY <1>1, CacSeenTyped
  <2>2. DOMAIN task[c].seen \cup {k} \in SUBSET CacheKeys /\ disk[k] \in CacItems
    BY <1>1, <1>6, <2>1 DEF CacTyped
  <2>3. observed(k) \in [DOMAIN task[c].seen \cup {k} -> CacItems]
    BY <2>1, <2>2
  <2>4. observed(k) \in CacSeen
    BY <2>2, <2>3 DEF CacSeen
  <2> QED BY <2>4
<1>8. ASSUME CacPending(c), NEW v \in Cache!Valid
      PROVE  v \in left(k) \/ (v \in DOMAIN observed(k) /\ observed(k)[v] = disk[v])
  <2> HIDE DEF observed
  <2>1. v \in task[c].left \/ (v \in DOMAIN task[c].seen /\ task[c].seen[v] = disk[v])
    BY <1>1, <1>8 DEF CacPending
  <2> QED BY <1>7, <2>1
<1>9. next(k) = "measure" \/ (left(k) = {} /\ next(k) = Cache!AfterMeasure(observed(k)))
  OBVIOUS
<1> HIDE DEF left, observed, next
<1>10. CASE next(k) = "done"
  <2>1. Cache!Settle(c)
    BY <1>5, <1>10
  <2>2. left(k) = {} /\ Cache!Surplus(observed(k)) = {}
    BY <1>9, <1>10 DEF Cache!AfterMeasure
  <2>3. ASSUME CacPending(c)
        PROVE  Cache!Within(disk')
    <3>1. \A v \in Cache!Valid : v \in DOMAIN observed(k) /\ observed(k)[v] = disk[v]
      BY <1>8, <2>2, <2>3
    <3>2. Cache!Valid' \subseteq Cache!Valid /\ \A v \in Cache!Valid' : v \notin Cache!Surplus(observed(k))
      BY <1>4, <2>2 DEF CacShrinks
    <3> QED BY <1>7, <3>1, <3>2, CacSeenWithin
  <2> QED BY <1>3, <1>4, <2>1, <2>3, CacEnds
<1>11. CASE next(k) # "done"
  <2> DEFINE n == [task[c] EXCEPT !.left = left(k), !.seen = observed(k), !.next = next(k)]
  <2>1. Cache!Step(c, n)
    BY <1>5, <1>11
  <2>2. next(k) \in {"measure", "sweep", "evict"}
    BY <1>9, <1>11 DEF Cache!AfterMeasure
  <2>3. /\ n \in CacTask /\ n.op = task[c].op /\ n.next = next(k) /\ n.new = task[c].new
        /\ n.key = task[c].key /\ n.left = left(k) /\ n.seen = observed(k)
    BY <1>1, <1>6, <1>7, <2>2 DEF CacTask, Cache!Stages
  <2> HIDE DEF n
  <2>4. task' = [task EXCEPT ![c] = n] /\ task'[c] = n
    BY <1>1, <2>1 DEF Cache!Step, CacTyped
  <2>5. CacStands(c)'
    BY <1>1, <1>2, <1>3, <2>2, <2>3, <2>4 DEF CacStands
  <2>6. ASSUME CacPending(c)
        PROVE  CacPending(c)'
    <3>1. Cache!Valid' = Cache!Valid
      BY <1>3 DEF Cache!Valid
    <3>2. left(k) = {} \/ next(k) = "measure"
      BY <1>9
    <3>3. ASSUME NEW v \in Cache!Valid'
          PROVE  \/ task'[c].next = "measure" /\ v \in task'[c].left
                 \/ v \in DOMAIN task'[c].seen /\ task'[c].seen[v] = disk'[v]
      <4>1. v \in left(k) \/ (v \in DOMAIN observed(k) /\ observed(k)[v] = disk[v])
        BY <1>8, <2>6, <3>1, <3>3
      <4>2. task'[c].next = next(k) /\ task'[c].left = left(k) /\ task'[c].seen = observed(k) /\ disk' = disk
        BY <1>3, <2>3, <2>4
      <4> QED BY <3>2, <4>1, <4>2
    <3> QED BY <1>1, <2>2, <2>3, <2>4, <3>3 DEF CacPending
  <2> QED BY <1>3, <1>4, <2>3, <2>4, <2>5, <2>6, CacMoves
<1> QED BY <1>10, <1>11

LEMMA CacRequest ==
  ASSUME CacInv, NEW c \in CacIds, Cache!Request(c)
  PROVE  CacInv'
BY CacReadGets, CacWriteGets, CacTouch, CacDrop, CacSet, CacClearLists, CacWipe, CacPruneLists,
   CacMeasure, CacSweep, CacEvict, CacUndo DEF Cache!Request

LEMMA CacFails ==
  ASSUME CacInv, NEW c \in CacIds, Cache!Fails(c)
  PROVE  CacInv'
<1>1. CacTyped /\ CacHeals /\ (\A d \in CacIds : CacStands(d)) /\ task[c] \in CacTask
  BY CacFields DEF CacInv
<1>2. /\ c \in Cache!Active /\ faults < MaxFaults /\ faults' = faults + 1
      /\ UNCHANGED <<disk, clock, started, alone, before, cleared>>
  BY DEF Cache!Fails
<1>3. task[c].next # "done" /\ faults' \in 0..MaxFaults /\ faults' # 0
  BY <1>1, <1>2, CacAssumed DEF Cache!Active, CacTyped
<1>4. ~CacCalm'
  BY <1>3 DEF CacCalm
<1>5. \E n \in CacTask : /\ task' = [task EXCEPT ![c] = n] /\ n.op = task[c].op
                         /\ \/ n.next = "done"
                            \/ n.next = "undo" /\ n.op = "write" /\ n.key = task[c].key /\ n.new = task[c].new
  <2>1. CASE Cache!Pruning(c)
    <3>1. Cache!Goto(c, "undo") /\ task[c].op = "write"
      BY <2>1 DEF Cache!Fails, Cache!Pruning
    <3>2. "undo" \in Cache!Stages
      BY DEF Cache!Stages
    <3> DEFINE n == [task[c] EXCEPT !.next = "undo"]
    <3>3. /\ n \in CacTask /\ n.op = task[c].op /\ task' = [task EXCEPT ![c] = n]
      BY <3>1, <3>2, CacGoes
    <3>4. n.next = "undo" /\ n.key = task[c].key /\ n.new = task[c].new
      BY <1>1 DEF CacTask
    <3> HIDE DEF n
    <3> QED BY <3>1, <3>3, <3>4
  <2>2. CASE ~Cache!Pruning(c)
    <3> DEFINE n == [Cache!NoTask EXCEPT !.op = task[c].op]
    <3>1. n \in CacTask /\ n.op = task[c].op /\ n.next = "done"
      BY CacNoTask, CacFields, <1>1
    <3>2. task' = [task EXCEPT ![c] = n]
      BY <2>2 DEF Cache!Fails, Cache!Settle, Cache!Step
    <3> HIDE DEF n
    <3> QED BY <3>1, <3>2
  <2> QED BY <2>1, <2>2
<1>6. PICK n \in CacTask : /\ task' = [task EXCEPT ![c] = n] /\ n.op = task[c].op
                          /\ \/ n.next = "done"
                             \/ n.next = "undo" /\ n.op = "write" /\ n.key = task[c].key /\ n.new = task[c].new
  BY <1>5
<1>7. \A d \in CacIds : task'[d] = IF d = c THEN n ELSE task[d]
  BY <1>1, <1>6 DEF CacTyped
<1>8. CacTyped'
  BY <1>1, <1>2, <1>3, <1>6 DEF CacTyped
<1>9. ASSUME NEW d \in CacIds
      PROVE  CacStands(d)'
  <2>1. CASE d = c
    <3>1. CacStands(c) /\ task'[c] = n
      BY <1>1, <1>7
    <3> QED BY <1>2, <1>3, <1>6, <2>1, <3>1 DEF CacStands
  <2>2. CASE d # c
    <3>1. task'[d] = task[d] /\ CacStands(d)
      BY <1>1, <1>7, <2>2
    <3> QED BY <1>2, <1>3, <3>1 DEF CacStands
  <2> QED BY <2>1, <2>2
<1> QED BY <1>4, <1>8, <1>9 DEF CacInv, CacHeals

LEMMA CacKill ==
  ASSUME CacInv, Cache!Kill
  PROVE  CacInv'
<1>1. CacTyped /\ CacHeals /\ \A d \in CacIds : CacStands(d)
  BY DEF CacInv
<1>2. /\ faults < MaxFaults /\ faults' = faults + 1 /\ alone' = {}
      /\ task' = [c \in CacIds |-> IF c \in Cache!Active THEN Cache!NoTask ELSE task[c]]
      /\ UNCHANGED <<disk, clock, started, before, cleared>>
  BY DEF Cache!Kill, Cache!CallIds, CacIds
<1>3. faults' \in 0..MaxFaults /\ faults' # 0
  BY <1>1, <1>2, CacAssumed DEF CacTyped
<1>4. \A c \in CacIds : task'[c] = Cache!NoTask \/ task'[c] = task[c]
  BY <1>2
<1>5. task' \in [CacIds -> CacTask]
  <2>1. \A c \in CacIds : task[c] \in CacTask
    BY <1>1 DEF CacTyped
  <2> QED BY <1>2, <2>1, CacNoTask
<1>6. CacTyped'
  BY <1>1, <1>2, <1>3, <1>5 DEF CacTyped
<1>7. ASSUME NEW d \in CacIds
      PROVE  CacStands(d)'
  <2>1. CASE task'[d] = Cache!NoTask
    BY <2>1, CacNoTask DEF CacStands
  <2>2. CASE task'[d] = task[d]
    BY <1>1, <1>2, <1>3, <2>2 DEF CacStands
  <2> QED BY <1>4, <2>1, <2>2
<1>8. ~CacCalm'
  BY <1>3 DEF CacCalm
<1> QED BY <1>6, <1>7, <1>8 DEF CacInv, CacHeals

(* A new call begins.                                                      *)
LEMMA CacCall ==
  ASSUME CacInv, NEW o \in CacheOps, NEW k, (o = "clear" /\ k = None) \/ (o # "clear" /\ k \in CacheKeys),
         Cache!Call(o, k)
  PROVE  CacInv'
<1>1. CacTyped /\ CacHeals /\ \A d \in CacIds : CacStands(d)
  BY DEF CacInv
<1>2. /\ started < MaxRequests /\ started' = started + 1 /\ UNCHANGED <<disk, cleared, faults>>
      /\ alone' = (IF Cache!Active = {} THEN {started'} ELSE {})
      /\ before' = IF o = "clear" \/ Cache!Active # {} THEN None ELSE disk[k]
  BY DEF Cache!Call
<1>0. PICK c \in CacIds : c = started'
  <2>1. started' \in CacIds
    BY <1>1, <1>2, CacAssumed DEF CacTyped, CacIds
  <2> QED BY <2>1
<1> DEFINE next == CASE o = "clear" -> "keys" [] o = "remove" -> "drop" [] OTHER -> "get"
           new == IF o = "write" THEN [at |-> clock', by |-> started'] ELSE None
           n == [Cache!NoTask EXCEPT !.op = o, !.key = k, !.next = next, !.new = new]
<1>3. c \in CacIds /\ started' \in 0..MaxRequests /\ started \in Nat /\ c \in Nat
  BY <1>0, <1>1, <1>2, CacAssumed DEF CacTyped, CacIds
<1>4. clock' \in Nat
  <2>1. o = "write" => \E t \in 1..MaxCacheClock : Cache!Now(t)
    BY DEF Cache!Call
  <2>2. o # "write" => clock' = clock
    BY DEF Cache!Call
  <2>3. \A t \in 1..MaxCacheClock : Cache!Now(t) => clock' \in Nat
    BY CacAssumed DEF Cache!Now
  <2> QED BY <1>1, <2>1, <2>2, <2>3 DEF CacTyped
<1>5. task' = [task EXCEPT ![c] = n]
  BY <1>0 DEF Cache!Call
<1>6. new \in Cache!Record \cup {None} /\ (o = "write" => new \in Cache!Record)
  <2>1. [at |-> clock', by |-> started'] \in Cache!Record
    BY <1>3, <1>4 DEF Cache!Record
  <2> QED BY <2>1
<1>7. /\ next \in Cache!Stages /\ o \in {"read", "write", "remove", "clear"}
      /\ (o = "clear" => next = "keys") /\ (o = "remove" => next = "drop")
      /\ (o \in {"read", "write"} => next = "get") /\ next \in {"keys", "drop", "get"}
  BY CacAssumed DEF Cache!Stages
<1>8. k \in CacheKeys \cup {None}
  OBVIOUS
<1> HIDE DEF next, new
<1>9. n \in CacTask /\ n.op = o /\ n.key = k /\ n.next = next /\ n.new = new
  <2>1. Cache!NoTask \in CacTask
    BY CacNoTask
  <2> HIDE DEF Cache!NoTask
  <2> QED BY <1>6, <1>7, <1>8, <2>1 DEF CacTask
<1> HIDE DEF n
<1>10. \A d \in CacIds : task'[d] = IF d = c THEN n ELSE task[d]
  BY <1>1, <1>3, <1>5 DEF CacTyped
<1>11. task[c].op = "none" /\ task[c].next = "done"
  <2>1. started < c
    BY <1>0, <1>2, <1>3
  <2> QED BY <1>1, <1>3, <2>1 DEF CacStands
<1>12. CacTyped'
  <2>1. task' \in [CacIds -> CacTask]
    BY <1>1, <1>5, <1>9 DEF CacTyped
  <2>2. cleared' \in 0..started'
    BY <1>1, <1>2 DEF CacTyped
  <2>3. alone' \in SUBSET CacIds
    BY <1>0, <1>2, <1>3
  <2>4. before' \in CacItems
    <3>1. None \in CacItems
      BY DEF CacItems
    <3>2. o # "clear" => k \in CacheKeys
      OBVIOUS
    <3> QED BY <1>1, <1>2, <3>1, <3>2 DEF CacTyped
  <2> QED BY <1>1, <1>2, <1>3, <1>4, <2>1, <2>2, <2>3, <2>4 DEF CacTyped
<1>13. ASSUME NEW d \in CacIds
       PROVE  CacStands(d)'
  <2>1. CASE d = c
    <3>1. task'[d] = n /\ d = started'
      BY <1>0, <1>10, <2>1
    <3>2. ~(started' < d) /\ d <= started'
      BY <1>0, <1>3, <3>1
    <3> QED BY <1>6, <1>7, <1>9, <3>1, <3>2 DEF CacStands
  <2>2. CASE d # c
    <3>1. task'[d] = task[d] /\ CacStands(d) /\ faults' = faults
      BY <1>1, <1>2, <1>10, <2>2
    <3>2. (started' < d => started < d) /\ (d <= started => d <= started')
      BY <1>2, <1>3 DEF CacIds
    <3> QED BY <3>1, <3>2 DEF CacStands
  <2> QED BY <2>1, <2>2
<1>14. CacHeals'
  <2>1. ASSUME CacCalm', NEW e \in CacIds, task'[e].op = "write"
        PROVE  Cache!Within(disk') \/ \E d \in CacIds : CacPending(d)'
    <3>1. CASE o = "write"
      <4>1. CacPending(c)'
        BY <1>3, <1>7, <1>9, <1>10, <3>1 DEF CacPending
      <4> QED BY <1>3, <4>1
    <3>2. CASE o # "write"
      <4>1. e # c /\ task[e].op = "write"
        BY <1>9, <1>10, <2>1, <3>2
      <4>2. CacCalm
        <5>1. faults = 0
          BY <1>2, <2>1 DEF CacCalm
        <5>2. \A d \in CacIds : task[d].op # "read"
          BY <1>10, <1>11, <2>1 DEF CacCalm
        <5> QED BY <5>1, <5>2 DEF CacCalm
      <4>3. Cache!Within(disk) \/ \E d \in CacIds : CacPending(d)
        BY <1>1, <4>1, <4>2 DEF CacHeals
      <4>4. ASSUME NEW d \in CacIds, CacPending(d)
            PROVE  CacPending(d)'
        <5>1. d # c
          BY <1>11, <4>4 DEF CacPending
        <5>2. task'[d] = task[d] /\ disk' = disk /\ Cache!Valid' = Cache!Valid
          BY <1>2, <1>10, <5>1 DEF Cache!Valid
        <5> QED BY <4>4, <5>2 DEF CacPending
      <4> QED BY <1>2, <4>3, <4>4
    <3> QED BY <3>1, <3>2
  <2> QED BY <2>1 DEF CacHeals
<1> QED BY <1>12, <1>13, <1>14 DEF CacInv

LEMMA CacStep ==
  ASSUME CacInv, [Cache!Next]_(Cache!vars)
  PROVE  CacInv'
<1>1. CASE UNCHANGED Cache!vars
  <2>1. UNCHANGED <<disk, clock, started, task, alone, before, cleared, faults>>
    BY <1>1 DEF Cache!vars
  <2> QED BY <2>1 DEF CacInv, CacTyped, CacHeals, CacCalm, CacPending, CacStands, Cache!Valid
<1>2. ASSUME NEW o \in CacheOps \ {"clear"}, NEW k \in CacheKeys, Cache!Call(o, k)
      PROVE  CacInv'
  BY <1>2, CacCall
<1>3. CASE "clear" \in CacheOps /\ Cache!Call("clear", None)
  BY <1>3, CacCall
<1>4. ASSUME NEW c \in CacIds, Cache!Request(c) \/ Cache!Fails(c)
      PROVE  CacInv'
  BY <1>4, CacRequest, CacFails
<1>5. CASE Cache!Kill
  BY <1>5, CacKill
<1>6. Cache!CallIds = CacIds
  BY DEF Cache!CallIds, CacIds
<1> QED BY <1>1, <1>2, <1>3, <1>4, <1>5, <1>6 DEF Cache!Next

(* A write that runs with no call beside it: what it has read is what      *)
(* there is, its record is in place, and it can still undo it.             *)
CacSees(c) ==
  \A k \in Cache!Present :
    \/ task[c].next = "measure" /\ k \in task[c].left
    \/ k \in DOMAIN task[c].seen /\ task[c].seen[k] = disk[k]

CacTrue(s) == \A k \in Cache!Measured(s) : s[k] = disk[k]

CacWritesAlone(c) ==
  /\ task[c].next = "get" => disk[task[c].key] = before
  /\ task[c].next \notin {"get", "done"} => task[c].old = before
  /\ task[c].next \in {"get", "set", "keys"} => DOMAIN task[c].seen = {}
  /\ task[c].next \in {"keys", "measure", "sweep", "evict"} => disk[task[c].key] = task[c].new
  /\ task[c].next \in {"measure", "sweep", "evict"} => CacSees(c) /\ CacTrue(task[c].seen)
  /\ task[c].next = "evict" => \A k \in CacheKeys : disk[k] # Corrupt

CacLone(c) ==
  /\ \A d \in CacIds : task[d].next # "done" => d = c
  /\ task[c].op = "write" => CacWritesAlone(c)

CacRests == CacInv /\ \A c \in alone : CacLone(c)

(* What WriteHealsStep asks of one call.                                   *)
CacFresh(c) ==
  /\ Cache!Within(disk') /\ \A k \in CacheKeys : disk'[k] # Corrupt
  /\ \/ disk'[task[c].key] = task[c].new
     \/ \E k \in CacheKeys \ {task[c].key} :
          disk'[k] \in Cache!Record /\ disk'[k].at >= task[c].new.at

CacHealed(c) ==
  Cache!Ends(c) /\ task[c].op = "write" /\ faults' = faults =>
    IF task[c].next = "undo" THEN disk'[task[c].key] = before ELSE CacFresh(c)

LEMMA CacBytesOfOne ==
  ASSUME NEW k \in CacheKeys
  PROVE  Cache!Bytes({k}) = ItemSize[k]
<1> DEFINE n == ItemSize[k]
<1>1. n \in Nat
  BY CacAssumed
<1>2. UNION {{i} \X (1..ItemSize[i]) : i \in {k}} = {k} \X (1..n)
  OBVIOUS
<1>3. Cache!Bytes({k}) = Cardinality({k} \X (1..n))
  <2>1. \A S : Cache!Cardinality(S) = Cardinality(S)
    BY DEF Cache!Cardinality, Cardinality
  <2> QED BY <1>2, <2>1 DEF Cache!Bytes
<1> HIDE DEF n
<1>4. IsFiniteSet(1..n) /\ Cardinality(1..n) = n
  BY <1>1, FS_Interval
<1>5. IsFiniteSet({k}) /\ Cardinality({k}) = 1
  BY FS_Singleton
<1>6. Cardinality({k} \X (1..n)) = 1 * n
  BY <1>4, <1>5, FS_Product
<1> QED BY <1>1, <1>3, <1>6 DEF n

(* The most recently used record is kept, so that one which is not had a   *)
(* record used no less recently before it.                                 *)
LEMMA CacFirst ==
  ASSUME NEW s \in CacSeen, NEW i \in Cache!Surplus(s)
  PROVE  \E m \in Cache!Measured(s) \ Cache!Surplus(s) : m # i /\ s[m].at >= s[i].at
<1> DEFINE M == Cache!Measured(s)
           R == {p \in M \X M : Cache!Before(s, p[2], p[1])}
<1>1. DOMAIN s \in SUBSET CacheKeys /\ M \in SUBSET CacheKeys
  BY CacSeenTyped DEF Cache!Measured
<1>2. \A k \in M : k \in CacheKeys /\ s[k].at \in Nat /\ ItemOrder[k] \in Nat
  <2>1. \A k \in M : k \in CacheKeys /\ s[k] \in Cache!Record
    BY <1>1 DEF Cache!Measured
  <2>2. \A r \in Cache!Record : r.at \in Nat
    BY DEF Cache!Record
  <2> QED BY <2>1, <2>2, CacAssumed
<1>3. i \in M
  BY DEF Cache!Surplus
<1>4. IsFiniteSet(M)
  BY <1>1, CacAssumed, FS_Subset
<1> HIDE DEF M
<1>5. \A x, y \in M : <<x, y>> \in R <=> Cache!Before(s, y, x)
  OBVIOUS
<1>6. \A x \in M : ~Cache!Before(s, x, x)
  BY <1>2 DEF Cache!Before
<1>7. ASSUME NEW x \in M, NEW y \in M, NEW z \in M, Cache!Before(s, x, y), Cache!Before(s, y, z)
      PROVE  Cache!Before(s, x, z)
  BY <1>2, <1>7 DEF Cache!Before
<1>8. ASSUME NEW x \in M, NEW y \in M, x # y
      PROVE  Cache!Before(s, x, y) \/ Cache!Before(s, y, x)
  <2>1. ItemOrder[x] # ItemOrder[y]
    BY <1>2, <1>8, CacAssumed
  <2> QED BY <1>2, <2>1 DEF Cache!Before
<1>9. \A x \in M : <<x, x>> \notin R
  BY <1>5, <1>6
<1>10. \A x, y, z \in M : <<x, y>> \in R /\ <<y, z>> \in R => <<x, z>> \in R
  BY <1>5, <1>7
<1>11. \A x, y \in M : x # y => <<x, y>> \in R \/ <<y, x>> \in R
  BY <1>5, <1>8
<1> HIDE DEF R
<1>12. \E m \in M : \A x \in M : x # m => <<x, m>> \in R
  BY <1>3, <1>4, <1>9, <1>10, <1>11, HasLast
<1>13. PICK m \in M : \A x \in M : x # m => Cache!Before(s, m, x)
  BY <1>5, <1>12
<1>14. {j \in M : Cache!Before(s, j, m)} = {}
  BY <1>6, <1>7, <1>13
<1>15. m \notin Cache!Surplus(s)
  <2>1. Cache!Bytes({m}) = ItemSize[m] /\ ItemSize[m] <= MaxItemBytes /\ ItemSize[m] \in Nat
    BY <1>2, CacBytesOfOne, CacAssumed
  <2>2. Cache!Cardinality({}) = 0
    <3>1. Cache!Cardinality({}) = Cardinality({})
      BY DEF Cache!Cardinality, Cardinality
    <3> QED BY <3>1, FS_EmptySet
  <2>3. {} \cup {m} = {m}
    OBVIOUS
  <2>4. ~(0 >= MaxItems) /\ ~(Cache!Bytes({m}) > MaxItemBytes)
    BY <2>1, CacAssumed
  <2> QED BY <1>14, <2>2, <2>3, <2>4 DEF Cache!Surplus, M
<1>16. m # i /\ s[m].at >= s[i].at
  <2>1. m # i
    BY <1>15
  <2> QED BY <1>2, <1>3, <1>13, <2>1 DEF Cache!Before
<1> QED BY <1>13, <1>15, <1>16 DEF M

(* What a lone prune leaves when it is through with what it saw.           *)
CacTrims(s) ==
  /\ CacTrue(s)
  /\ \A k \in Cache!Present : k \in DOMAIN s /\ s[k] = disk[k]
  /\ \A k \in CacheKeys : \/ disk'[k] = disk[k] /\ k \notin Cache!Surplus(s)
                          \/ disk'[k] = None /\ k \in Cache!Unusable(s) \cup Cache!Surplus(s)
  /\ \A k \in CacheKeys : disk'[k] # Corrupt

LEMMA CacPruned ==
  ASSUME CacInv, NEW c \in CacIds, NEW s \in CacSeen, task[c].key \in CacheKeys, task[c].new \in Cache!Record,
         disk[task[c].key] = task[c].new, CacTrims(s)
  PROVE  CacFresh(c)
<1> USE DEF CacTrims
<1> DEFINE key == task[c].key
           new == task[c].new
<1>1. key \in Cache!Present /\ key \in Cache!Measured(s) /\ s[key] = new
  <2>1. key \in Cache!Present
    BY CacAssumed DEF Cache!Present
  <2> QED BY <2>1 DEF Cache!Measured
<1>2. Cache!Valid' \subseteq Cache!Measured(s) \ Cache!Surplus(s)
  <2> SUFFICES ASSUME NEW k \in CacheKeys, disk'[k] \in Cache!Record
               PROVE  k \in Cache!Measured(s) \ Cache!Surplus(s)
    BY DEF Cache!Valid
  <2>1. disk'[k] # None
    BY CacAssumed
  <2>2. disk'[k] = disk[k] /\ k \notin Cache!Surplus(s) /\ k \in Cache!Present
    BY <2>1 DEF Cache!Present
  <2> QED BY <2>2 DEF Cache!Measured
<1>3. Cache!Within(disk')
  BY <1>2, CacWithinLeft
<1>4. CASE disk'[key] = disk[key]
  BY <1>3, <1>4 DEF CacFresh
<1>5. CASE disk'[key] # disk[key]
  <2>1. key \in Cache!Surplus(s)
    BY <1>1, <1>5 DEF Cache!Unusable
  <2>2. PICK m \in Cache!Measured(s) \ Cache!Surplus(s) : m # key /\ s[m].at >= s[key].at
    BY <2>1, CacFirst
  <2>3. m \in CacheKeys /\ m \notin Cache!Unusable(s) /\ s[m] \in Cache!Record /\ s[m] = disk[m]
    BY CacSeenTyped DEF Cache!Measured, Cache!Unusable, CacTrue
  <2>4. disk'[m] = s[m]
    BY <2>3
  <2>5. disk'[m] \in Cache!Record /\ disk'[m].at >= new.at /\ m \in CacheKeys \ {key}
    BY <1>1, <2>2, <2>3, <2>4
  <2> QED BY <1>3, <2>5 DEF CacFresh
<1> QED BY <1>4, <1>5

LEMMA CacLoneMoves ==
  ASSUME CacInv, NEW c \in CacIds, CacLone(c), NEW n, task' = [task EXCEPT ![c] = n]
  PROVE  /\ \A d \in CacIds : task'[d].next # "done" => d = c
         /\ task'[c] = n
<1>1. \A d \in CacIds : task'[d] = IF d = c THEN n ELSE task[d]
  BY DEF CacInv, CacTyped
<1> QED BY <1>1 DEF CacLone

LEMMA CacSettles ==
  ASSUME CacInv, NEW c \in CacIds, CacLone(c), Cache!Settle(c)
  PROVE  CacLone(c)' /\ task'[c].op = task[c].op /\ task'[c].next = "done"
<1> DEFINE n == [Cache!NoTask EXCEPT !.op = task[c].op]
<1>1. task' = [task EXCEPT ![c] = n] /\ n.op = task[c].op /\ n.next = "done"
  <2>1. task[c].op \in CacheOps \cup {"none"}
    BY CacFields DEF CacInv
  <2> QED BY <2>1, CacNoTask DEF Cache!Settle, Cache!Step
<1> HIDE DEF n
<1>2. task'[c] = n /\ \A d \in CacIds : task'[d].next # "done" => d = c
  BY <1>1, CacLoneMoves
<1> QED BY <1>1, <1>2 DEF CacLone, CacWritesAlone

(* A call that is no write does nothing to a write.                        *)
LEMMA CacLoneOther ==
  ASSUME CacInv, NEW c \in CacIds, CacLone(c), task[c].op # "write", Cache!Request(c)
  PROVE  CacLone(c)' /\ CacHealed(c)
<1>1. CacHealed(c)
  BY DEF CacHealed
<1>2. CASE Cache!Settle(c)
  BY <1>1, <1>2, CacSettles
<1>3. ASSUME NEW n, Cache!Step(c, n), n.op = task[c].op
      PROVE  CacLone(c)'
  <2>1. task'[c] = n /\ \A d \in CacIds : task'[d].next # "done" => d = c
    BY <1>3, CacLoneMoves DEF Cache!Step
  <2> QED BY <1>3, <2>1 DEF CacLone
<1>4. task[c] \in CacTask /\ \A d \in CacIds : CacStands(d)
  BY CacFields DEF CacInv
<1>5. CASE Cache!ReadGets(c)
  <2>1. task[c].op = "read"
    BY <1>5 DEF Cache!ReadGets
  <2>2. \/ Cache!Settle(c) \/ Cache!Goto(c, "drop")
        \/ \E x : Cache!Step(c, [task[c] EXCEPT !.next = "touch", !.new = x])
    BY <1>5 DEF Cache!ReadGets
  <2>3. \A x : [task[c] EXCEPT !.next = "touch", !.new = x].op = task[c].op
    BY <1>4 DEF CacTask
  <2>4. [task[c] EXCEPT !.next = "drop"].op = task[c].op
    BY <1>4 DEF CacTask
  <2> QED BY <1>1, <1>2, <1>3, <2>2, <2>3, <2>4 DEF Cache!Goto
<1>6. CASE Cache!Touch(c) \/ Cache!Drop(c) \/ Cache!Wipe(c)
  BY <1>1, <1>2, <1>6 DEF Cache!Touch, Cache!Drop, Cache!Wipe
<1>7. CASE Cache!ClearLists(c)
  <2>1. Cache!Settle(c) \/ Cache!Step(c, [task[c] EXCEPT !.next = "wipe", !.left = Cache!Present])
    BY <1>7 DEF Cache!ClearLists
  <2>2. [task[c] EXCEPT !.next = "wipe", !.left = Cache!Present].op = task[c].op
    BY <1>4 DEF CacTask
  <2> QED BY <1>1, <1>2, <1>3, <2>1, <2>2
<1>8. ~(Cache!WriteGets(c) \/ Cache!Set(c) \/ Cache!PruneLists(c) \/ Cache!Measure(c)
        \/ Cache!Sweep(c) \/ Cache!Evict(c) \/ Cache!Undo(c))
  BY <1>4, CacAt DEF Cache!WriteGets, Cache!Set, Cache!PruneLists, Cache!Measure, Cache!Sweep, Cache!Evict,
     Cache!Undo, CacStands
<1> QED BY <1>5, <1>6, <1>7, <1>8 DEF Cache!Request

LEMMA CacLoneWriteGets ==
  ASSUME CacInv, NEW c \in CacIds, CacLone(c), Cache!WriteGets(c)
  PROVE  CacLone(c)' /\ CacHealed(c)
<1>1. CacWritesAlone(c) /\ task[c] \in CacTask /\ task[c].op = "write" /\ task[c].next = "get"
  BY CacFields, CacAt DEF CacInv, CacLone, Cache!WriteGets
<1> DEFINE n == [task[c] EXCEPT !.next = "set", !.old = disk[task[c].key]]
<1>2. n.op = "write" /\ n.next = "set" /\ n.seen = task[c].seen /\ n.old = disk[task[c].key]
  BY <1>1 DEF CacTask
<1>3. task' = [task EXCEPT ![c] = n] /\ UNCHANGED <<disk, before>>
  BY DEF Cache!WriteGets, Cache!Step, Cache!Reads
<1> HIDE DEF n
<1>4. task'[c] = n /\ \A d \in CacIds : task'[d].next # "done" => d = c
  BY <1>3, CacLoneMoves
<1>5. CacWritesAlone(c)'
  BY <1>1, <1>2, <1>3, <1>4 DEF CacWritesAlone
<1>6. CacHealed(c)
  BY <1>2, <1>4 DEF CacHealed, Cache!Ends
<1> QED BY <1>4, <1>5, <1>6 DEF CacLone

LEMMA CacLoneSet ==
  ASSUME CacInv, NEW c \in CacIds, CacLone(c), Cache!Set(c)
  PROVE  CacLone(c)' /\ CacHealed(c)
<1>1. /\ CacTyped /\ CacStands(c) /\ task[c] \in CacTask /\ task[c].next = "set"
  BY CacFields, CacAt DEF CacInv, CacLone, Cache!Set
<1>2. task[c].op = "write" /\ task[c].key \in CacheKeys /\ CacWritesAlone(c)
  BY <1>1 DEF CacStands, CacLone
<1> DEFINE n == [task[c] EXCEPT !.next = "keys"]
<1>3. /\ n.op = "write" /\ n.next = "keys" /\ n.seen = task[c].seen /\ n.old = task[c].old
      /\ n.key = task[c].key /\ n.new = task[c].new
  BY <1>1, <1>2 DEF CacTask
<1>4. /\ task' = [task EXCEPT ![c] = n] /\ before' = before
      /\ disk' = [disk EXCEPT ![task[c].key] = task[c].new]
  BY DEF Cache!Set, Cache!Goto, Cache!Step, Cache!Writes
<1>5. disk'[task[c].key] = task[c].new
  BY <1>1, <1>2, <1>4 DEF CacTyped
<1> HIDE DEF n
<1>6. task'[c] = n /\ \A d \in CacIds : task'[d].next # "done" => d = c
  BY <1>4, CacLoneMoves
<1>7. CacWritesAlone(c)'
  BY <1>1, <1>2, <1>3, <1>4, <1>5, <1>6 DEF CacWritesAlone
<1>8. CacHealed(c)
  BY <1>3, <1>6 DEF CacHealed, Cache!Ends
<1> QED BY <1>6, <1>7, <1>8 DEF CacLone

LEMMA CacLonePruneLists ==
  ASSUME CacInv, NEW c \in CacIds, CacLone(c), Cache!PruneLists(c)
  PROVE  CacLone(c)' /\ CacHealed(c)
<1>1. /\ CacTyped /\ CacStands(c) /\ task[c] \in CacTask /\ task[c].next = "keys" /\ task[c].op = "write"
      /\ CacWritesAlone(c)
  BY CacFields, CacAt DEF CacInv, CacLone, Cache!PruneLists
<1>2. /\ task[c].key \in CacheKeys /\ task[c].new \in Cache!Record /\ disk[task[c].key] = task[c].new
      /\ DOMAIN task[c].seen = {} /\ task[c].old = before
  BY <1>1 DEF CacStands, CacWritesAlone
<1>3. Cache!Present # {}
  BY <1>2, CacAssumed DEF Cache!Present
<1> DEFINE n == [task[c] EXCEPT !.next = "measure", !.left = Cache!Present]
<1>4. /\ n.op = "write" /\ n.next = "measure" /\ n.seen = task[c].seen /\ n.old = task[c].old
      /\ n.key = task[c].key /\ n.new = task[c].new /\ n.left = Cache!Present
  BY <1>1 DEF CacTask
<1>5. task' = [task EXCEPT ![c] = n] /\ UNCHANGED <<disk, before>>
  BY <1>3 DEF Cache!PruneLists, Cache!Step, Cache!Reads
<1> HIDE DEF n
<1>6. task'[c] = n /\ \A d \in CacIds : task'[d].next # "done" => d = c
  BY <1>5, CacLoneMoves
<1>7. Cache!Present' = Cache!Present /\ task'[c].left = Cache!Present /\ task'[c].next = "measure"
  BY <1>4, <1>5, <1>6 DEF Cache!Present
<1>8. CacSees(c)'
  BY <1>7 DEF CacSees
<1>9. DOMAIN task'[c].seen = {}
  BY <1>2, <1>4, <1>6
<1>10. CacTrue(task[c].seen)'
  BY <1>9 DEF CacTrue, Cache!Measured
<1>11. CacWritesAlone(c)'
  BY <1>2, <1>4, <1>5, <1>6, <1>8, <1>10 DEF CacWritesAlone
<1>12. CacHealed(c)
  BY <1>4, <1>6 DEF CacHealed, Cache!Ends
<1> QED BY <1>6, <1>11, <1>12 DEF CacLone

LEMMA CacLoneUndo ==
  ASSUME CacInv, NEW c \in CacIds, CacLone(c), Cache!Undo(c)
  PROVE  CacLone(c)' /\ CacHealed(c)
<1>1. CacTyped /\ CacStands(c) /\ task[c].next = "undo"
  BY CacAt DEF CacInv, CacLone, Cache!Undo
<1>2. task[c].op = "write" /\ task[c].key \in CacheKeys /\ task[c].old = before
  BY <1>1 DEF CacStands, CacLone, CacWritesAlone
<1>3. disk' = [disk EXCEPT ![task[c].key] = task[c].old] /\ Cache!Settle(c)
  BY DEF Cache!Undo
<1>4. disk'[task[c].key] = before
  BY <1>1, <1>2, <1>3 DEF CacTyped
<1> QED BY <1>1, <1>3, <1>4, CacSettles DEF CacHealed

LEMMA CacLoneEvict ==
  ASSUME CacInv, NEW c \in CacIds, CacLone(c), Cache!Evict(c)
  PROVE  CacLone(c)' /\ CacHealed(c)
<1>1. /\ CacTyped /\ CacStands(c) /\ task[c].next = "evict" /\ task[c].seen \in CacSeen
  BY CacFields, CacAt DEF CacInv, Cache!Evict
<1>2. /\ task[c].op = "write" /\ task[c].key \in CacheKeys /\ task[c].new \in Cache!Record
      /\ disk[task[c].key] = task[c].new /\ CacSees(c) /\ CacTrue(task[c].seen)
      /\ \A k \in CacheKeys : disk[k] # Corrupt
  BY <1>1 DEF CacStands, CacLone, CacWritesAlone
<1>3. Cache!Without(Cache!Surplus(task[c].seen)) /\ Cache!Settle(c)
  BY DEF Cache!Evict
<1> DEFINE s == task[c].seen
<1>4. \A k \in CacheKeys : disk'[k] = IF k \in Cache!Surplus(s) THEN None ELSE disk[k]
  BY <1>1, <1>3, CacWithout
<1>5. \A k \in Cache!Present : k \in DOMAIN s /\ s[k] = disk[k]
  BY <1>1, <1>2 DEF CacSees
<1> HIDE DEF s
<1>6. \A k \in CacheKeys : \/ disk'[k] = disk[k] /\ k \notin Cache!Surplus(s)
                           \/ disk'[k] = None /\ k \in Cache!Unusable(s) \cup Cache!Surplus(s)
  BY <1>4
<1>7. \A k \in CacheKeys : disk'[k] # Corrupt
  BY <1>2, <1>4, CacAssumed
<1>8. s \in CacSeen /\ CacTrue(s)
  BY <1>1, <1>2 DEF s
<1>9. CacFresh(c)
  <2>1. CacTrims(s)
    BY <1>5, <1>6, <1>7, <1>8 DEF CacTrims
  <2> QED BY <1>2, <1>8, <2>1, CacPruned
<1> QED BY <1>1, <1>3, <1>9, CacSettles DEF CacHealed

LEMMA CacLoneSweep ==
  ASSUME CacInv, NEW c \in CacIds, CacLone(c), Cache!Sweep(c)
  PROVE  CacLone(c)' /\ CacHealed(c)
<1>1. /\ CacTyped /\ CacStands(c) /\ task[c].next = "sweep" /\ task[c].seen \in CacSeen /\ task[c] \in CacTask
  BY CacFields, CacAt DEF CacInv, Cache!Sweep
<1>2. /\ task[c].op = "write" /\ task[c].key \in CacheKeys /\ task[c].new \in Cache!Record
      /\ disk[task[c].key] = task[c].new /\ CacSees(c) /\ CacTrue(task[c].seen) /\ task[c].old = before
  BY <1>1 DEF CacStands, CacLone, CacWritesAlone
<1>3. Cache!Without(Cache!Unusable(task[c].seen)) /\ before' = before
  BY DEF Cache!Sweep, Cache!Writes
<1> DEFINE s == task[c].seen
<1>4. \A k \in CacheKeys : disk'[k] = IF k \in Cache!Unusable(s) THEN None ELSE disk[k]
  BY <1>1, <1>3, CacWithout
<1>5. \A k \in Cache!Present : k \in DOMAIN s /\ s[k] = disk[k]
  BY <1>1, <1>2 DEF CacSees
<1>6. s \in CacSeen /\ CacTrue(s)
  BY <1>1, <1>2
<1> HIDE DEF s
<1>7. \A k \in CacheKeys : disk'[k] # Corrupt
  <2> SUFFICES ASSUME NEW k \in CacheKeys, k \notin Cache!Unusable(s)
               PROVE  disk[k] # Corrupt
    BY <1>4, CacAssumed
  <2>1. disk[k] # None => k \in Cache!Measured(s) /\ s[k] = disk[k]
    BY <1>5 DEF Cache!Present, Cache!Unusable
  <2>2. k \in Cache!Measured(s) => s[k] \in Cache!Record
    BY DEF Cache!Measured
  <2> QED BY <2>1, <2>2, CacAssumed
<1>8. CASE Cache!AfterSweep(s) = "done"
  <2>1. Cache!Settle(c)
    BY <1>8 DEF Cache!Sweep, s
  <2>2. Cache!Surplus(s) = {}
    BY <1>8 DEF Cache!AfterSweep
  <2>3. \A k \in CacheKeys : \/ disk'[k] = disk[k] /\ k \notin Cache!Surplus(s)
                             \/ disk'[k] = None /\ k \in Cache!Unusable(s) \cup Cache!Surplus(s)
    BY <1>4, <2>2
  <2>4. CacFresh(c)
    <3>1. CacTrims(s)
      BY <1>5, <1>6, <1>7, <2>3 DEF CacTrims
    <3> QED BY <1>2, <1>6, <3>1, CacPruned
  <2> QED BY <1>1, <2>1, <2>4, CacSettles DEF CacHealed
<1>9. CASE Cache!AfterSweep(s) # "done"
  <2> DEFINE n == [task[c] EXCEPT !.next = "evict"]
  <2>1. /\ n.op = "write" /\ n.next = "evict" /\ n.seen = s /\ n.old = task[c].old
        /\ n.key = task[c].key /\ n.new = task[c].new
    BY <1>1, <1>2 DEF CacTask, s
  <2>2. task' = [task EXCEPT ![c] = n]
    BY <1>9 DEF Cache!Sweep, Cache!Goto, Cache!Step, s
  <2> HIDE DEF n
  <2>3. task'[c] = n /\ \A d \in CacIds : task'[d].next # "done" => d = c
    BY <2>2, CacLoneMoves
  <2>4. \A k \in Cache!Measured(s) : k \in CacheKeys /\ k \notin Cache!Unusable(s) /\ disk'[k] = s[k]
    <3>1. \A k \in Cache!Measured(s) : k \in CacheKeys /\ k \notin Cache!Unusable(s) /\ s[k] = disk[k]
      BY <1>6, CacSeenTyped DEF Cache!Measured, Cache!Unusable, CacTrue
    <3> QED BY <1>4, <3>1
  <2>5. task[c].key \in Cache!Measured(s) /\ s[task[c].key] = task[c].new
    <3>1. task[c].key \in Cache!Present
      BY <1>2, CacAssumed DEF Cache!Present
    <3> QED BY <1>2, <1>5, <3>1 DEF Cache!Measured
  <2>6. disk'[task[c].key] = task[c].new
    BY <2>4, <2>5
  <2>7. \A k \in Cache!Present' : k \in DOMAIN s /\ s[k] = disk'[k]
    <3> SUFFICES ASSUME NEW k \in CacheKeys, disk'[k] # None
                 PROVE  k \in DOMAIN s /\ s[k] = disk'[k]
      BY DEF Cache!Present
    <3>1. disk'[k] = disk[k] /\ k \in Cache!Present
      BY <1>4 DEF Cache!Present
    <3> QED BY <1>5, <3>1
  <2>8. CacSees(c)' /\ CacTrue(task[c].seen)'
    <3>1. task'[c].seen = s
      BY <2>1, <2>3
    <3>2. CacSees(c)'
      BY <2>7, <3>1 DEF CacSees
    <3>3. CacTrue(task[c].seen)'
      BY <2>4, <3>1 DEF CacTrue
    <3> QED BY <3>2, <3>3
  <2>9. CacWritesAlone(c)'
    BY <1>2, <1>3, <1>7, <2>1, <2>3, <2>6, <2>8 DEF CacWritesAlone
  <2>10. CacHealed(c)
    BY <2>1, <2>3 DEF CacHealed, Cache!Ends
  <2> QED BY <2>3, <2>9, <2>10 DEF CacLone
<1> QED BY <1>8, <1>9

LEMMA CacLoneMeasure ==
  ASSUME CacInv, NEW c \in CacIds, CacLone(c), Cache!Measure(c)
  PROVE  CacLone(c)' /\ CacHealed(c)
<1>1. /\ CacTyped /\ CacStands(c) /\ task[c] \in CacTask /\ task[c].next = "measure"
      /\ task[c].left \in SUBSET CacheKeys /\ task[c].seen \in CacSeen
  BY CacAt, CacFields DEF CacInv, Cache!Measure
<1>2. /\ task[c].op = "write" /\ task[c].key \in CacheKeys /\ task[c].new \in Cache!Record
      /\ disk[task[c].key] = task[c].new /\ CacSees(c) /\ CacTrue(task[c].seen) /\ task[c].old = before
  BY <1>1 DEF CacStands, CacLone, CacWritesAlone
<1>3. disk' = disk /\ before' = before
  BY DEF Cache!Measure, Cache!Reads
<1> DEFINE left(k) == task[c].left \ {k}
           observed(k) == [i \in DOMAIN task[c].seen \cup {k} |-> IF i = k THEN disk[k] ELSE task[c].seen[i]]
           next(k) == IF left(k) = {} THEN Cache!AfterMeasure(observed(k)) ELSE "measure"
<1>4. PICK k \in task[c].left :
        IF next(k) = "done" THEN Cache!Settle(c)
        ELSE Cache!Step(c, [task[c] EXCEPT !.left = left(k), !.seen = observed(k), !.next = next(k)])
  BY DEF Cache!Measure
<1>5. k \in CacheKeys
  BY <1>1
<1>6. /\ observed(k) \in CacSeen /\ DOMAIN observed(k) = DOMAIN task[c].seen \cup {k} /\ observed(k)[k] = disk[k]
      /\ \A i \in DOMAIN task[c].seen : i # k => observed(k)[i] = task[c].seen[i]
  <2>1. DOMAIN task[c].seen \in SUBSET CacheKeys /\ \A i \in DOMAIN task[c].seen : task[c].seen[i] \in CacItems
    BY <1>1, CacSeenTyped
  <2>2. DOMAIN task[c].seen \cup {k} \in SUBSET CacheKeys /\ disk[k] \in CacItems
    BY <1>1, <1>5, <2>1 DEF CacTyped
  <2>3. observed(k) \in [DOMAIN task[c].seen \cup {k} -> CacItems]
    BY <2>1, <2>2
  <2>4. observed(k) \in CacSeen
    BY <2>2, <2>3 DEF CacSeen
  <2> QED BY <2>4
<1>7. next(k) = "measure" \/ (left(k) = {} /\ next(k) = Cache!AfterMeasure(observed(k)))
  OBVIOUS
<1>8. \A i \in Cache!Present : i \in left(k) \/ (i \in DOMAIN observed(k) /\ observed(k)[i] = disk[i])
  <2> SUFFICES ASSUME NEW i \in Cache!Present
               PROVE  i \in left(k) \/ (i \in DOMAIN observed(k) /\ observed(k)[i] = disk[i])
    OBVIOUS
  <2>1. i \in task[c].left \/ (i \in DOMAIN task[c].seen /\ task[c].seen[i] = disk[i])
    BY <1>2 DEF CacSees
  <2> HIDE DEF observed
  <2> QED BY <1>6, <2>1
<1> HIDE DEF left, observed, next
<1>9. CacTrue(observed(k))
  <2> SUFFICES ASSUME NEW i \in DOMAIN observed(k), observed(k)[i] \in Cache!Record
               PROVE  observed(k)[i] = disk[i]
    BY DEF CacTrue, Cache!Measured
  <2>1. CASE i = k
    BY <1>6, <2>1
  <2>2. CASE i # k
    <3>1. i \in DOMAIN task[c].seen /\ observed(k)[i] = task[c].seen[i]
      BY <1>6, <2>2
    <3> QED BY <1>2, <3>1 DEF CacTrue, Cache!Measured
  <2> QED BY <2>1, <2>2
<1>10. left(k) = {} /\ Cache!Unusable(observed(k)) = {} => \A i \in CacheKeys : disk[i] # Corrupt
  <2> SUFFICES ASSUME left(k) = {}, Cache!Unusable(observed(k)) = {}, NEW i \in CacheKeys, disk[i] = Corrupt
               PROVE  FALSE
    OBVIOUS
  <2>1. i \in Cache!Present
    BY CacAssumed DEF Cache!Present
  <2>2. i \in DOMAIN observed(k) /\ observed(k)[i] = disk[i]
    BY <1>8, <2>1
  <2>3. observed(k)[i] \in Cache!Record
    BY <2>2 DEF Cache!Unusable, Cache!Measured
  <2> QED BY <2>2, <2>3, CacAssumed
<1>11. CASE next(k) = "done"
  <2>1. Cache!Settle(c)
    BY <1>4, <1>11
  <2>2. left(k) = {} /\ Cache!Surplus(observed(k)) = {} /\ Cache!Unusable(observed(k)) = {}
    BY <1>7, <1>11 DEF Cache!AfterMeasure
  <2>3. \A i \in CacheKeys : disk'[i] # Corrupt
    BY <1>3, <1>10, <2>2
  <2>4. \A i \in Cache!Present : i \in DOMAIN observed(k) /\ observed(k)[i] = disk[i]
    BY <1>8, <2>2
  <2>5. \A i \in CacheKeys : disk'[i] = disk[i] /\ i \notin Cache!Surplus(observed(k))
    BY <1>3, <2>2
  <2>6. CacFresh(c)
    <3>1. CacTrims(observed(k))
      BY <1>9, <2>3, <2>4, <2>5 DEF CacTrims
    <3> QED BY <1>2, <1>6, <3>1, CacPruned
  <2> QED BY <1>1, <2>1, <2>6, CacSettles DEF CacHealed
<1>12. CASE next(k) # "done"
  <2> DEFINE n == [task[c] EXCEPT !.left = left(k), !.seen = observed(k), !.next = next(k)]
  <2>1. /\ n.op = "write" /\ n.next = next(k) /\ n.seen = observed(k) /\ n.old = task[c].old
        /\ n.key = task[c].key /\ n.new = task[c].new /\ n.left = left(k)
    BY <1>1, <1>2 DEF CacTask
  <2>2. task' = [task EXCEPT ![c] = n]
    BY <1>4, <1>12 DEF Cache!Step
  <2> HIDE DEF n
  <2>3. task'[c] = n /\ \A d \in CacIds : task'[d].next # "done" => d = c
    BY <2>2, CacLoneMoves
  <2>4. next(k) \in {"measure", "sweep", "evict"}
    BY <1>7, <1>12 DEF Cache!AfterMeasure
  <2>5. next(k) = "evict" => \A i \in CacheKeys : disk'[i] # Corrupt
    <3>1. next(k) = "evict" => left(k) = {} /\ Cache!Unusable(observed(k)) = {}
      BY <1>7 DEF Cache!AfterMeasure
    <3> QED BY <1>3, <1>10, <3>1
  <2>6. CacSees(c)'
    <3>1. task'[c].next = next(k) /\ task'[c].left = left(k) /\ task'[c].seen = observed(k)
      BY <2>1, <2>3
    <3>2. Cache!Present' = Cache!Present
      BY <1>3 DEF Cache!Present
    <3>3. next(k) = "measure" \/ left(k) = {}
      BY <1>7
    <3> QED BY <1>3, <1>8, <3>1, <3>2, <3>3 DEF CacSees
  <2>7. CacTrue(task[c].seen)'
    <3>1. task'[c].seen = observed(k)
      BY <2>1, <2>3
    <3> QED BY <1>3, <1>9, <3>1 DEF CacTrue
  <2>8. CacWritesAlone(c)'
    BY <1>2, <1>3, <2>1, <2>3, <2>4, <2>5, <2>6, <2>7 DEF CacWritesAlone
  <2>9. CacHealed(c)
    BY <2>1, <2>3, <2>4 DEF CacHealed, Cache!Ends
  <2> QED BY <2>3, <2>8, <2>9 DEF CacLone
<1> QED BY <1>11, <1>12

(* The call that runs alone is the only one that makes a request.          *)
LEMMA CacLoneRequest ==
  ASSUME CacInv, NEW c \in CacIds, CacLone(c), Cache!Request(c)
  PROVE  CacLone(c)' /\ CacHealed(c)
<1>1. CASE task[c].op # "write"
  BY <1>1, CacLoneOther
<1>2. CASE task[c].op = "write"
  <2>1. CacStands(c)
    BY DEF CacInv
  <2>2. ~(Cache!ReadGets(c) \/ Cache!Touch(c) \/ Cache!Drop(c) \/ Cache!ClearLists(c) \/ Cache!Wipe(c))
    BY <1>2, <2>1, CacAt DEF Cache!ReadGets, Cache!Touch, Cache!Drop, Cache!ClearLists, Cache!Wipe, CacStands
  <2> QED BY <2>2, CacLoneWriteGets, CacLoneSet, CacLonePruneLists, CacLoneMeasure, CacLoneSweep,
             CacLoneEvict, CacLoneUndo DEF Cache!Request
<1> QED BY <1>1, <1>2

LEMMA CacLoneFails ==
  ASSUME CacInv, NEW c \in CacIds, CacLone(c), Cache!Fails(c)
  PROVE  CacLone(c)' /\ CacHealed(c)
<1>1. CacTyped /\ CacStands(c) /\ task[c] \in CacTask
  BY CacFields DEF CacInv
<1>2. faults' = faults + 1 /\ before' = before
  BY DEF Cache!Fails
<1>3. CacHealed(c)
  BY <1>1, <1>2 DEF CacHealed, CacTyped
<1>4. CASE Cache!Pruning(c)
  <2> DEFINE n == [task[c] EXCEPT !.next = "undo"]
  <2>1. /\ task[c].op = "write" /\ task[c].old = before
    BY <1>4 DEF Cache!Pruning, CacLone, CacWritesAlone
  <2>2. n.op = "write" /\ n.next = "undo" /\ n.old = task[c].old
    BY <1>1, <2>1 DEF CacTask
  <2>3. task' = [task EXCEPT ![c] = n]
    BY <1>4 DEF Cache!Fails, Cache!Goto, Cache!Step
  <2> HIDE DEF n
  <2>4. task'[c] = n /\ \A d \in CacIds : task'[d].next # "done" => d = c
    BY <2>3, CacLoneMoves
  <2>5. CacWritesAlone(c)'
    BY <1>2, <2>1, <2>2, <2>4 DEF CacWritesAlone
  <2> QED BY <1>3, <2>4, <2>5 DEF CacLone
<1>5. CASE ~Cache!Pruning(c)
  BY <1>3, <1>5, CacSettles DEF Cache!Fails
<1> QED BY <1>4, <1>5

(* A call that starts while another is under way leaves none alone; one    *)
(* that starts when all have settled is.                                   *)
LEMMA CacLoneCall ==
  ASSUME CacInv, NEW o \in CacheOps, NEW k, (o = "clear" /\ k = None) \/ (o # "clear" /\ k \in CacheKeys),
         Cache!Call(o, k)
  PROVE  (\A c \in alone' : CacLone(c)') /\ \A c \in alone : CacLone(c) => CacHealed(c)
<1>1. CacTyped /\ \A d \in CacIds : CacStands(d)
  BY DEF CacInv
<1>2. /\ started < MaxRequests /\ started' = started + 1 /\ UNCHANGED <<disk, cleared, faults>>
      /\ alone' = (IF Cache!Active = {} THEN {started'} ELSE {})
      /\ before' = IF o = "clear" \/ Cache!Active # {} THEN None ELSE disk[k]
  BY DEF Cache!Call
<1>3. started' \in CacIds /\ started < started'
  BY <1>1, <1>2, CacAssumed DEF CacTyped, CacIds
<1> DEFINE next == CASE o = "clear" -> "keys" [] o = "remove" -> "drop" [] OTHER -> "get"
           new == IF o = "write" THEN [at |-> clock', by |-> started'] ELSE None
           n == [Cache!NoTask EXCEPT !.op = o, !.key = k, !.next = next, !.new = new]
<1>4. task' = [task EXCEPT ![started'] = n]
  BY DEF Cache!Call
<1>5. next \in {"keys", "drop", "get"} /\ (o = "write" => next = "get")
  OBVIOUS
<1> HIDE DEF next, new
<1>6. n.op = o /\ n.key = k /\ n.next = next /\ n.seen = <<>> /\ n.old = None
  BY DEF Cache!NoTask
<1> HIDE DEF n
<1>7. \A d \in CacIds : task'[d] = IF d = started' THEN n ELSE task[d]
  BY <1>1, <1>3, <1>4 DEF CacTyped
<1>8. ASSUME NEW c \in alone, CacLone(c)
      PROVE  CacHealed(c)
  <2>1. c \in CacIds
    BY <1>1 DEF CacTyped
  <2>2. task[c].next # "done" => task'[c] = task[c]
    <3>1. task[c].next # "done" => c <= started
      BY <1>1, <2>1 DEF CacStands
    <3>2. c = started' => ~(c <= started)
      <4>1. started \in Nat /\ started' \in Nat
        BY <1>1, <1>3, CacAssumed DEF CacTyped, CacIds
      <4> QED BY <1>3, <4>1
    <3> QED BY <1>7, <2>1, <3>1, <3>2
  <2> QED BY <2>2 DEF CacHealed, Cache!Ends, Cache!Active
<1>9. ASSUME NEW c \in alone'
      PROVE  CacLone(c)'
  <2>1. Cache!Active = {} /\ c = started'
    BY <1>2
  <2>2. \A d \in CacIds : task[d].next = "done"
    BY <2>1 DEF Cache!Active, Cache!CallIds, CacIds
  <2>3. \A d \in CacIds : task'[d].next # "done" => d = c
    BY <1>7, <2>1, <2>2
  <2>4. task'[c] = n
    BY <1>3, <1>7, <2>1
  <2>5. o = "write" => before' = disk'[k]
    BY <1>2, <2>1
  <2>6. DOMAIN <<>> = {}
    OBVIOUS
  <2>7. o = "write" => CacWritesAlone(c)'
    BY <1>5, <1>6, <2>4, <2>5, <2>6 DEF CacWritesAlone
  <2> QED BY <1>6, <2>3, <2>4, <2>7 DEF CacLone
<1> QED BY <1>8, <1>9

LEMMA CacRestsStart ==
  ASSUME Cache!Init
  PROVE  CacRests
BY CacStart DEF Cache!Init, CacRests

LEMMA CacRestsStep ==
  ASSUME CacRests, [Cache!Next]_(Cache!vars)
  PROVE  CacRests' /\ Cache!WriteHealsStep
<1>1. CacInv /\ CacTyped /\ CacInv' /\ alone \in SUBSET CacIds /\ \A c \in alone : CacLone(c)
  BY CacStep DEF CacRests, CacInv, CacTyped
<1>2. CASE UNCHANGED Cache!vars
  <2>1. UNCHANGED <<disk, task, alone, before>>
    BY <1>2 DEF Cache!vars
  <2>2. ASSUME NEW c \in alone
        PROVE  CacLone(c)'
    <3>1. CacLone(c)
      BY <1>1
    <3> QED BY <2>1, <3>1 DEF CacLone, CacWritesAlone, CacSees, CacTrue, Cache!Present, Cache!Measured
  <2>3. Cache!WriteHealsStep
    BY <2>1 DEF Cache!WriteHealsStep, Cache!Ends, Cache!Active
  <2> QED BY <1>1, <2>1, <2>2, <2>3 DEF CacRests
<1>3. (\A c \in alone : CacHealed(c)) => Cache!WriteHealsStep
  BY DEF CacHealed, CacFresh, Cache!WriteHealsStep
<1>4. ASSUME NEW o \in CacheOps, NEW k, (o = "clear" /\ k = None) \/ (o # "clear" /\ k \in CacheKeys),
             Cache!Call(o, k)
      PROVE  CacRests' /\ Cache!WriteHealsStep
  BY <1>1, <1>3, <1>4, CacLoneCall DEF CacRests
<1>5. ASSUME NEW d \in CacIds, Cache!Request(d) \/ Cache!Fails(d)
      PROVE  CacRests' /\ Cache!WriteHealsStep
  <2>1. task[d].next # "done"
    BY <1>5 DEF Cache!Request, Cache!Fails, Cache!Active, Cache!ReadGets, Cache!WriteGets, Cache!Touch, Cache!Drop,
       Cache!Set, Cache!ClearLists, Cache!Wipe, Cache!PruneLists, Cache!Measure, Cache!Sweep, Cache!Evict,
       Cache!Undo, Cache!At
  <2>2. \A c \in alone : c = d /\ c \in CacIds
    BY <1>1, <2>1 DEF CacLone
  <2>3. \A c \in alone : CacLone(c)' /\ CacHealed(c)
    BY <1>1, <1>5, <2>2, CacLoneRequest, CacLoneFails
  <2>4. alone' = alone
    BY <1>5 DEF Cache!Request, Cache!Fails, Cache!ReadGets, Cache!WriteGets, Cache!Touch, Cache!Drop,
       Cache!Set, Cache!ClearLists, Cache!Wipe, Cache!PruneLists, Cache!Measure, Cache!Sweep, Cache!Evict,
       Cache!Undo, Cache!Reads, Cache!Writes
  <2> QED BY <1>1, <1>3, <2>3, <2>4 DEF CacRests
<1>6. CASE Cache!Kill
  <2>1. alone' = {} /\ faults' = faults + 1 /\ faults \in Nat
    BY <1>1, <1>6, CacAssumed DEF Cache!Kill, CacTyped
  <2>2. \A c \in alone : CacHealed(c)
    BY <2>1 DEF CacHealed
  <2> QED BY <1>1, <1>3, <2>1, <2>2 DEF CacRests
<1>7. Cache!CallIds = CacIds
  BY DEF Cache!CallIds, CacIds
<1> QED BY <1>2, <1>4, <1>5, <1>6, <1>7 DEF Cache!Next

LEMMA CacPromised ==
  ASSUME CacInv
  PROVE  Cache!TypeOK /\ Cache!LimitsAtRest
<1>1. CacTyped /\ CacHeals /\ \A c \in CacIds : CacStands(c)
  BY DEF CacInv
<1>2. Cache!CallIds = CacIds
  BY DEF Cache!CallIds, CacIds
<1>3. ASSUME NEW c \in CacIds
      PROVE  LET t == task[c] IN
             /\ t.op \in CacheOps \cup {"none"} /\ t.key \in CacheKeys \cup {None} /\ t.next \in Cache!Stages
             /\ t.new \in Cache!Record \cup {None} /\ t.old \in Cache!Items
             /\ t.left \subseteq CacheKeys
             /\ DOMAIN t.seen \subseteq CacheKeys /\ \A k \in DOMAIN t.seen : t.seen[k] \in Cache!Items
             /\ t.next # "done" => c <= started
             /\ t.next \in {"set", "touch"} => t.new \in Cache!Record
  <2>1. CacItems = Cache!Items
    BY DEF CacItems, Cache!Items
  <2>2. DOMAIN task[c].seen \in SUBSET CacheKeys /\ \A k \in DOMAIN task[c].seen : task[c].seen[k] \in CacItems
    BY <1>1, CacFields, CacSeenTyped
  <2>3. CacStands(c)
    BY <1>1
  <2>4. /\ task[c].op \in CacheOps \cup {"none"} /\ task[c].key \in CacheKeys \cup {None}
        /\ task[c].next \in Cache!Stages /\ task[c].new \in Cache!Record \cup {None}
        /\ task[c].old \in CacItems /\ task[c].left \in SUBSET CacheKeys
    BY <1>1, CacFields
  <2>5. task[c].next # "done" => c <= started
    BY <2>3 DEF CacStands
  <2>6. task[c].next \in {"set", "touch"} => task[c].new \in Cache!Record
    BY <2>3 DEF CacStands
  <2> QED BY <2>1, <2>2, <2>4, <2>5, <2>6
<1>4. Cache!TypeOK
  <2>1. disk \in [CacheKeys -> Cache!Items] /\ before \in Cache!Items
    BY <1>1 DEF CacTyped, CacItems, Cache!Items
  <2> QED BY <1>1, <1>2, <1>3, <2>1 DEF CacTyped, Cache!TypeOK
<1>5. ASSUME Cache!Active = {}, faults = 0, NEW e \in CacIds, task[e].op = "write",
             \A c \in CacIds : task[c].op # "read"
      PROVE  Cache!Within(disk)
  <2>1. \A c \in CacIds : task[c].next = "done"
    BY <1>2, <1>5 DEF Cache!Active
  <2>2. \A c \in CacIds : ~CacPending(c)
    BY <2>1 DEF CacPending
  <2> QED BY <1>1, <1>5, <2>2 DEF CacHeals, CacCalm
<1>6. Cache!LimitsAtRest
  BY <1>2, <1>5 DEF Cache!LimitsAtRest
<1> QED BY <1>4, <1>6

(* The device cache is within its limits when all calls have settled, in   *)
(* behaviours with a write in which nothing fails and nothing is read; and *)
(* in every behaviour a write that runs with no other call beside it       *)
(* repairs what others left, or leaves what was there.                     *)
THEOREM CacheKept ==
  Cache!Spec => [](Cache!TypeOK /\ Cache!LimitsAtRest) /\ [][Cache!WriteHealsStep]_(Cache!vars)
<1>1. CacRests => Cache!TypeOK /\ Cache!LimitsAtRest
  BY CacPromised DEF CacRests
<1> QED BY <1>1, CacRestsStart, CacRestsStep, PTL DEF Cache!Spec
=============================================================================
