------------------------------ MODULE PeerForecast ------------------------------
(***************************************************************************)
(* The peer forecast of one worker: a cache per sector and day, filled by  *)
(* the REST route and by the MCP server, whose cold computations spend the *)
(* day's budget (DailyBudget).  Time is in steps of twelve hours.          *)
(*                                                                         *)
(* External: the price panel and the model.                                *)
(***************************************************************************)
EXTENDS Integers, FiniteSets

CONSTANTS
  Threads, Sectors,
  Cap,                 \* MCP_PEER_FORECAST_DAILY_CAP
  Ttl,                 \* CACHE_TTL_SECONDS, in steps
  MaxEntries,          \* max_entries of the cache
  LocalShift,          \* steps by which the server's midnight precedes that of UTC
  MaxClock, MaxCalls,  \* bounds on steps and calls
  None                 \* no entry, no key, no day yet

ForecastAssumption ==
  /\ {Cap, MaxClock, MaxCalls} \subseteq Nat /\ {Ttl, MaxEntries} \subseteq Nat \ {0}
  /\ LocalShift \in {0, 1}
  /\ None # "refused"

VARIABLES
  cache,     \* per key, what is left of its time to live
  day,       \* DailyBudget: the day and what was spent of it
  task,      \* what each thread is doing
  clock, calls,
  granted    \* computations of the MCP server that began, by UTC day

vars == <<cache, day, task, clock, calls, granted>>

UtcDay == clock \div 2
LocalDay == (clock + LocalShift) \div 2
Days == 0..((MaxClock + LocalShift) \div 2)
Keys == Sectors \X Days

Free == [at |-> "idle", mcp |-> FALSE, key |-> None, by |-> None, on |-> None]

TypeOK ==
  /\ cache \in [Keys -> 0..Ttl \cup {None}]
  /\ day.day \in Days \cup {None} /\ day.spent \in 0..Cap
  /\ \A t \in Threads :
       /\ task[t].at \in {"idle", "guard", "works", "answer"}
       /\ task[t].by \in {None, "cache", "model", "failed", "refused"}
  /\ clock \in 0..MaxClock /\ calls \in 0..MaxCalls
  /\ granted \in [Days -> Nat]

Init ==
  /\ cache = [k \in Keys |-> None] /\ day = [day |-> None, spent |-> 0]
  /\ task = [t \in Threads |-> Free]
  /\ clock = 0 /\ calls = 0 /\ granted = [d \in Days |-> 0]

At(t, place) == task[t].at = place
Cached(k) == cache[k] # None
-----------------------------------------------------------------------------
(* peer_forecast_for_ticker up to _cache.get, which drops what expired.    *)
Ask(t, mcp, sector) ==
  LET k == <<sector, LocalDay>>
      hit == Cached(k) /\ cache[k] > 0
  IN  /\ At(t, "idle")
      /\ calls < MaxCalls /\ calls' = calls + 1
      /\ cache' = IF hit THEN cache ELSE [cache EXCEPT ![k] = None]
      /\ task' = [task EXCEPT ![t] = [mcp |-> mcp, key |-> k,
           at |-> IF hit THEN "answer" ELSE IF mcp THEN "guard" ELSE "works",
           by |-> IF hit THEN "cache" ELSE None, on |-> None]]
      /\ UNCHANGED <<day, clock, granted>>

(* Mutation: what was spent yesterday is carried over.                     *)
RolledOver(today) == [day |-> today, spent |-> day.spent]

(* DailyBudget._roll.                                                      *)
Rolled(today) == IF day.day = today THEN day ELSE [day |-> today, spent |-> 0]

(* Mutation: the cap is checked after one more.                            *)
LeftAfter(budget) == budget.spent <= Cap

Left(budget) == budget.spent < Cap

(* DailyBudget.try_spend, under its lock; a refusal counts nothing.        *)
Guard(t) ==
  LET budget == Rolled(UtcDay)
  IN  /\ At(t, "guard")
      /\ day' = IF Left(budget) THEN [budget EXCEPT !.spent = @ + 1] ELSE budget
      /\ granted' = IF Left(budget) THEN [granted EXCEPT ![UtcDay] = @ + 1] ELSE granted
      /\ task' = [task EXCEPT ![t].at = IF Left(budget) THEN "works" ELSE "answer",
                              ![t].on = UtcDay,
                              ![t].by = IF Left(budget) THEN None ELSE "refused"]
      /\ UNCHANGED <<cache, clock, calls>>

(* TTLCache.set: at the limit the entry that expires soonest makes room.   *)
Stored(k) ==
  LET held == {j \in Keys : Cached(j)}
      oldest == {j \in held : \A i \in held : cache[i] >= cache[j]}
      kept == IF Cardinality(held) >= MaxEntries THEN {[cache EXCEPT ![j] = None] : j \in oldest}
              ELSE {cache}
  IN  {[c EXCEPT ![k] = Ttl] : c \in kept}

(* The panel and the model: what fails is counted and not cached.          *)
Works(t) ==
  /\ At(t, "works")
  /\ \/ cache' \in Stored(task[t].key) /\ task' = [task EXCEPT ![t].at = "answer", ![t].by = "model"]
     \/ UNCHANGED cache /\ task' = [task EXCEPT ![t].at = "answer", ![t].by = "failed"]
  /\ UNCHANGED <<day, clock, calls, granted>>

Answer(t) ==
  /\ At(t, "answer") /\ task' = [task EXCEPT ![t] = Free]
  /\ UNCHANGED <<cache, day, clock, calls, granted>>

HalfDay ==
  /\ clock < MaxClock /\ clock' = clock + 1
  /\ cache' = [k \in Keys |-> IF Cached(k) /\ cache[k] > 0 THEN cache[k] - 1 ELSE cache[k]]
  /\ UNCHANGED <<day, task, calls, granted>>

Next ==
  \/ \E t \in Threads :
       \/ \E mcp \in BOOLEAN, sector \in Sectors : Ask(t, mcp, sector)
       \/ Guard(t) \/ Works(t) \/ Answer(t)
  \/ HalfDay

Spec == Init /\ [][Next]_vars
-----------------------------------------------------------------------------
(* In no UTC day do more computations of the MCP server begin than the     *)
(* cap, whatever else fills or empties the cache and wherever the server's *)
(* own midnight is.                                                        *)
ForecastsCapped == \A d \in Days : granted[d] <= Cap

(* A call is refused only when that many did begin on its day.             *)
RefusalsAreHonest == \A t \in Threads : task[t].by = "refused" => granted[task[t].on] = Cap

(* The cache holds no more forecasts than its limit.                       *)
CacheBounded == Cardinality({k \in Keys : Cached(k)}) <= MaxEntries
=============================================================================
