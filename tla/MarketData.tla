------------------------------- MODULE MarketData -------------------------------
(***************************************************************************)
(* MarketDataClient of one worker, called by several threads: its caches   *)
(* (TTLCache), the fallback from Massive to the legacy providers, the      *)
(* search slots, and the provider each thread reports.                     *)
(*                                                                         *)
(* A remembered value is its provider and what is left of its time to      *)
(* live.  External: what a provider does with a request.                   *)
(***************************************************************************)
EXTENDS Integers, FiniteSets

CONSTANTS
  Threads, Tickers,
  MaxEntries,      \* max_entries of each cache
  Ttl,             \* ttl_seconds, in ticks
  SearchSlots,     \* _SEARCH_CONCURRENCY_PER_WORKER
  FallbackEnabled,
  MaxCalls,        \* bound on calls
  None             \* no provider, no ticker, no entry

Massive == "massive"
Legacy == "legacy"
Providers == {Massive, Legacy}

MarketAssumption ==
  /\ {MaxEntries, Ttl, SearchSlots} \subseteq Nat \ {0} /\ MaxCalls \in Nat
  /\ FallbackEnabled \in BOOLEAN /\ None \notin Providers

(* The methods: "plain" stands for the data sets without a cache that only *)
(* Massive has, like trades and dividends.                                 *)
Cached == {"snapshot", "search", "chain", "history", "profile"}
Methods == {"plain", "status", "expirations"} \cup Cached
OfLegacy == {"expirations", "search", "chain", "history", "profile"}

(* Answers with a provider: the status names the label read before its     *)
(* call, an option chain its own provider, the others the label after it.  *)
LabelledAfter == {"plain", "expirations", "snapshot", "search"}
Labelled == {"status", "chain"} \cup LabelledAfter

VARIABLES
  cache,      \* per method and ticker: an entry or None
  label,      \* _provider_state: per thread, the provider set last
  slots,      \* free search slots
  task,       \* what each thread is doing
  calls

vars == <<cache, label, slots, task, calls>>

Entry == [by : Providers \cup {None}, left : 0..Ttl]
Idle == [at |-> "idle", method |-> "plain", ticker |-> None, by |-> None, fetched |-> FALSE, named |-> None]

TypeOK ==
  /\ cache \in [Cached -> [Tickers -> Entry \cup {None}]]
  /\ label \in [Threads -> Providers \cup {None}]
  /\ slots \in 0..SearchSlots
  /\ \A t \in Threads :
       /\ task[t].at \in {"idle", "fetch", "store", "quote", "answer", "failed"}
       /\ task[t].method \in Methods /\ {task[t].by, task[t].named} \subseteq Providers \cup {None}
       /\ task[t].at # "idle" => task[t].ticker \in Tickers
  /\ calls \in 0..MaxCalls

Init ==
  /\ cache = [m \in Cached |-> [k \in Tickers |-> None]]
  /\ label = [t \in Threads |-> None] /\ slots = SearchSlots
  /\ task = [t \in Threads |-> Idle] /\ calls = 0

At(t, place) == task[t].at = place
ProviderLabel(t) == IF label[t] = None THEN Massive ELSE label[t]
-----------------------------------------------------------------------------
(* TTLCache.get: an entry whose time is up is removed and not served.      *)
Hit(m, k) == m \in Cached /\ cache[m][k] # None /\ cache[m][k].left > 0

Dropped(m, k) ==
  IF m \in Cached /\ ~Hit(m, k) THEN [cache EXCEPT ![m][k] = None] ELSE cache

Held(c) == {k \in Tickers : c[k] # None}

(* Mutation: an entry is removed only when the limit is exceeded already.  *)
StoresAbove(c, k, by) ==
  LET full == Cardinality(Held(c)) > MaxEntries
      oldest == {j \in Held(c) : \A i \in Held(c) : c[i].left >= c[j].left}
      kept == IF full THEN {[c EXCEPT ![j] = None] : j \in oldest} ELSE {c}
  IN  {[d EXCEPT ![k] = [by |-> by, left |-> Ttl]] : d \in kept}

(* TTLCache.set: at the limit the entry that expires soonest makes room,   *)
(* even when the key has one already.                                      *)
Stores(c, k, by) ==
  LET full == Cardinality(Held(c)) >= MaxEntries
      oldest == {j \in Held(c) : \A i \in Held(c) : c[i].left >= c[j].left}
      kept == IF full THEN {[c EXCEPT ![j] = None] : j \in oldest} ELSE {c}
  IN  {[d EXCEPT ![k] = [by |-> by, left |-> Ttl]] : d \in kept}
-----------------------------------------------------------------------------
(* A method begins with its cache; a search that misses takes a slot or is *)
(* refused.  Cached history still gets its live quote.  The status reads   *)
(* its label first.                                                        *)
Call(t, m, k) ==
  /\ At(t, "idle")
  /\ calls < MaxCalls /\ calls' = calls + 1
  /\ cache' = Dropped(m, k)
  /\ IF Hit(m, k)
     THEN /\ task' = [task EXCEPT ![t] = [Idle EXCEPT !.method = m, !.ticker = k,
                         !.at = IF m = "history" THEN "quote" ELSE "answer", !.by = cache[m][k].by]]
          /\ UNCHANGED slots
     ELSE /\ task' = [task EXCEPT ![t] = [Idle EXCEPT !.method = m, !.ticker = k, !.fetched = TRUE,
                         !.named = IF m = "status" THEN ProviderLabel(t) ELSE None,
                         !.at = IF m = "search" /\ slots = 0 THEN "failed" ELSE "fetch"]]
          /\ slots' = IF m = "search" /\ slots > 0 THEN slots - 1 ELSE slots
  /\ UNCHANGED label

(* Mutation: the provider is remembered for the worker, not the thread.    *)
SetActiveForAll(t, by) == label' = [u \in Threads |-> by]

SetActive(t, by) == label' = [label EXCEPT ![t] = by]

(* _call_provider and the fetch of get_history: Massive, or the fallback   *)
(* when Massive fails (for history, also when it returns too little),      *)
(* which raises for what it does not support.  A search gives its slot     *)
(* back whatever happened.                                                 *)
Succeeds(t, by) ==
  /\ by = Legacy => FallbackEnabled /\ task[t].method \in OfLegacy
  /\ SetActive(t, by)
  /\ task' = [task EXCEPT ![t].by = by,
                          ![t].at = IF task[t].method \in Cached THEN "store" ELSE "answer"]

(* A profile that no provider has is an empty one, and is stored.          *)
Fails(t) ==
  /\ UNCHANGED label
  /\ task' = [task EXCEPT ![t].at = IF task[t].method = "profile" THEN "store" ELSE "failed"]

Fetch(t) ==
  /\ At(t, "fetch")
  /\ (\E by \in Providers : Succeeds(t, by)) \/ Fails(t)
  /\ slots' = IF task[t].method = "search" THEN slots + 1 ELSE slots
  /\ UNCHANGED <<cache, calls>>

(* get_profile fills what is missing from the fallback when the provider   *)
(* set last, by whichever call, is Massive; the profile stays Massive's    *)
(* but for an empty one.                                                   *)
Store(t) ==
  LET m == task[t].method
      k == task[t].ticker
      filled == m = "profile" /\ ProviderLabel(t) = Massive /\ FallbackEnabled /\ task[t].by = None
  IN  /\ At(t, "store")
      /\ \E by \in {task[t].by} \cup IF filled THEN {Legacy} ELSE {} :
           /\ \E c \in Stores(cache[m], k, by) : cache' = [cache EXCEPT ![m] = c]
           /\ task' = [task EXCEPT ![t].by = by, ![t].at = IF m = "history" THEN "quote" ELSE "answer"]
      /\ UNCHANGED <<label, slots, calls>>

(* _with_live_quote: get_snapshot inside get_history, whose failure is     *)
(* ignored and whose provider, which can only be Massive, becomes the      *)
(* thread's.                                                               *)
Quote(t) ==
  /\ At(t, "quote")
  /\ task' = [task EXCEPT ![t].at = "answer"]
  /\ LET k == task[t].ticker IN
       IF Hit("snapshot", k) THEN UNCHANGED <<cache, label>>
       ELSE \/ cache' = Dropped("snapshot", k) /\ UNCHANGED label
            \/ /\ SetActive(t, Massive)
               /\ \E c \in Stores(Dropped("snapshot", k)["snapshot"], k, Massive) :
                    cache' = [cache EXCEPT !["snapshot"] = c]
  /\ UNCHANGED <<slots, calls>>

Return(t) ==
  /\ task[t].at \in {"answer", "failed"}
  /\ task' = [task EXCEPT ![t] = Idle]
  /\ UNCHANGED <<cache, label, slots, calls>>

Tick ==
  /\ cache' = [m \in Cached |-> [k \in Tickers |->
                 IF cache[m][k] # None /\ cache[m][k].left > 0
                 THEN [cache[m][k] EXCEPT !.left = @ - 1] ELSE cache[m][k]]]
  /\ UNCHANGED <<label, slots, task, calls>>

Next ==
  \/ \E t \in Threads :
       \/ \E m \in Methods, k \in Tickers : Call(t, m, k)
       \/ Fetch(t) \/ Store(t) \/ Quote(t) \/ Return(t)
  \/ Tick

Spec == Init /\ [][Next]_vars
-----------------------------------------------------------------------------
Answering(t, methods) == At(t, "answer") /\ task[t].method \in methods

(* The provider the response names.                                        *)
ProviderNamed(t) ==
  CASE task[t].method = "status" -> task[t].named
    [] task[t].method = "chain" -> task[t].by
    [] OTHER -> ProviderLabel(t)

(* A response that is labelled after its call names the provider its data  *)
(* is from, whatever other threads fetched meanwhile: as long as the data  *)
(* was fetched for it.  The status, labelled before its call, may not.     *)
FetchedIsLabelled ==
  \A t \in Threads : Answering(t, LabelledAfter) /\ task[t].fetched => ProviderNamed(t) = task[t].by

(* docs/provider-research.md:25-26 says it of every response: "Production  *)
(* responses must still identify the provider and freshness actually       *)
(* used."                                                                  *)
LabelNamesSource == \A t \in Threads : Answering(t, Labelled) => ProviderNamed(t) = task[t].by

(* A cache stays within its limit, and a search slot taken is given back   *)
(* on every way out.                                                       *)
CachesBounded == \A m \in Cached : Cardinality(Held(cache[m])) <= MaxEntries

Searching == {t \in Threads : At(t, "fetch") /\ task[t].method = "search"}
SlotsConserved == slots + Cardinality(Searching) = SearchSlots
=============================================================================
