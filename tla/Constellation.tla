------------------------------ MODULE Constellation ------------------------------
(***************************************************************************)
(* app/mcp_lite.py: sites that serve tools over MCP and relay calls to one *)
(* another, each by the same code, in a process of several threads.  Per   *)
(* caller address a limit of calls a minute, per day a budget of calls     *)
(* out, and on every call the number of sites that relayed it.  Neither    *)
(* count is behind a lock.                                                 *)
(*                                                                         *)
(* External: the network, and what a tool of another site calls in turn.   *)
(***************************************************************************)
EXTENDS Integers, FiniteSets

CONSTANTS
  Sites, Home,         \* the sites and this one
  Threads, SiteOf,     \* their threads
  Callers, Hops,       \* addresses of the clients of Home, the hops they claim
  MaxHop,              \* MAX_HOP
  PerIp,               \* per_ip_per_min
  MaxAddresses,        \* 5000
  DailyCap,            \* daily_cap
  DayLength,           \* minutes in a day
  MaxClock, MaxCalls,  \* bounds on minutes and clients' calls
  None

ConstellationAssumption ==
  /\ Home \in Sites /\ SiteOf \in [Threads -> Sites]
  /\ Hops \subseteq Nat
  /\ {MaxHop, PerIp, MaxAddresses, DailyCap, MaxClock, MaxCalls} \subseteq Nat
  /\ DayLength \in Nat \ {0}
  /\ None \notin Threads /\ None \notin Nat /\ Sites \cap Callers = {}

VARIABLES
  wire,       \* requests that no thread took yet
  task,       \* what each thread is doing
  seen,       \* _seen_ip: per site and address, the last calls and their minute
  day,        \* Peers._day, and how often it was replaced
  clock, calls,
  admitted,   \* per site, address and minute: calls let in
  granted,    \* per site and day: calls out that were granted
  raced       \* sites where two threads counted at once

vars == <<wire, task, seen, day, clock, calls, admitted, granted, raced>>

Addresses == Sites \cup Callers
Kinds == {"other", "tool", "out"}   \* no tool, a pure one, one that calls out or POST /mcp/<peer>
Days == 0..(MaxClock \div DayLength)
Today == clock \div DayLength

Free == [at |-> "idle"]

(* No address has calls of two minutes: who writes keeps those of its own. *)
Forgotten == [minute |-> 0, calls |-> 0]

TypeOK ==
  /\ \A t \in Threads :
       task[t].at \in {"idle", "write", "roll", "reset", "check", "add", "store", "waiting", "answer"}
  /\ \A r \in wire : r.to \in Sites /\ r.kind \in Kinds /\ r.hop \in Nat
  /\ \A s \in Sites :
       /\ \A a \in Addresses : seen[s][a] \in [minute : 0..MaxClock, calls : Nat]
       /\ day[s].day \in Days \cup {None} /\ day[s].spent \in Nat
  /\ clock \in 0..MaxClock /\ calls \in 0..MaxCalls /\ raced \subseteq Sites

Init ==
  /\ wire = {} /\ task = [t \in Threads |-> Free]
  /\ seen = [s \in Sites |-> [a \in Addresses |-> Forgotten]]
  /\ day = [s \in Sites |-> [day |-> None, spent |-> 0, made |-> 0]]
  /\ clock = 0 /\ calls = 0
  /\ admitted = [s \in Sites |-> [a \in Addresses |-> [m \in 0..MaxClock |-> 0]]]
  /\ granted = [s \in Sites |-> [d \in Days |-> 0]]
  /\ raced = {}

At(t, place) == task[t].at = place
Goes(t, place) == task' = [task EXCEPT ![t].at = place]

(* Threads of the same site between the reads and writes of a count.       *)
Overlap(t, places) ==
  raced' = IF \E u \in Threads \ {t} : SiteOf[u] = SiteOf[t] /\ task[u].at \in places
           THEN raced \cup {SiteOf[t]} ELSE raced
-----------------------------------------------------------------------------
Arrive(kind, from, hop) ==
  /\ calls < MaxCalls /\ calls' = calls + 1
  /\ wire' = wire \cup {[call |-> calls, depth |-> 0, to |-> Home, from |-> from,
                         kind |-> kind, hop |-> hop, by |-> None]}
  /\ UNCHANGED <<task, seen, day, clock, admitted, granted, raced>>

(* Mcp.handle: what calls no tool and no peer is answered without a count. *)
(* _limited: the calls of the last minute are read and ...                 *)
Take(t, r) ==
  LET s == SiteOf[t]
      counted == r.kind # "other"
      held == seen[s][r.from]
      recent == IF held.minute = clock THEN held.calls ELSE 0
  IN  /\ At(t, "idle") /\ r \in wire /\ r.to = s
      /\ wire' = wire \ {r}
      /\ task' = [task EXCEPT ![t] =
           [at |-> IF counted THEN "write" ELSE "answer", request |-> r, outcome |-> "ok",
            minute |-> clock, list |-> IF counted THEN recent ELSE 0, mine |-> 0]]
      /\ IF counted THEN Overlap(t, {"write"}) ELSE UNCHANGED raced
      /\ UNCHANGED <<seen, day, clock, calls, admitted, granted>>

(* Mutation: the call itself is let in before it is counted.               *)
LimitedAbove(recent) == recent > PerIp

Limited(recent) == recent >= PerIp

(* Mutation: a site calls out at the limit too.                            *)
TooDeepAbove(r) == r.hop > MaxHop

(* The hop rule, for a tool that calls out and for a relayed message.      *)
TooDeep(r) == r.hop >= MaxHop

(* ... written; more than MaxAddresses addresses and all are forgotten.    *)
LimitWrites(t) ==
  LET s == SiteOf[t]
      r == task[t].request
      recent == task[t].list
      next == IF Limited(recent) THEN recent ELSE recent + 1
      all == [seen[s] EXCEPT ![r.from] = [minute |-> task[t].minute, calls |-> next]]
      crowded == ~Limited(recent) /\ Cardinality({a \in Addresses : all[a].calls # 0}) > MaxAddresses
  IN  /\ At(t, "write")
      /\ seen' = [seen EXCEPT ![s] = IF crowded THEN [a \in Addresses |-> Forgotten] ELSE all]
      /\ raced' = IF crowded THEN raced \cup {s} ELSE raced
      /\ admitted' = IF Limited(recent) THEN admitted
                     ELSE [admitted EXCEPT ![s][r.from][task[t].minute] = @ + 1]
      /\ task' = [task EXCEPT
           ![t].at = IF Limited(recent) \/ r.kind = "tool" \/ TooDeep(r) THEN "answer" ELSE "roll",
           ![t].outcome = IF Limited(recent) THEN "limited" ELSE "ok",
           ![t].list = 0, ![t].minute = IF Limited(recent) THEN @ ELSE 0]
      /\ UNCHANGED <<wire, day, clock, calls, granted>>
-----------------------------------------------------------------------------
(* Peers._budget: another day and the list is replaced, ...                *)
Rolls(t) ==
  /\ At(t, "roll")
  /\ task' = [task EXCEPT ![t].list = Today,
                          ![t].at = IF day[SiteOf[t]].day = Today THEN "check" ELSE "reset"]
  /\ Overlap(t, {"reset", "check", "add", "store"})
  /\ UNCHANGED <<wire, seen, day, clock, calls, admitted, granted>>

(* Mutation: the day is replaced, what was spent stays.                    *)
SameList(old, today) == [day |-> today, spent |-> old.spent, made |-> old.made + 1]

NewList(old, today) == [day |-> today, spent |-> 0, made |-> old.made + 1]

Resets(t) ==
  /\ At(t, "reset") /\ Goes(t, "check")
  /\ day' = [day EXCEPT ![SiteOf[t]] = NewList(@, task[t].list)]
  /\ UNCHANGED <<wire, seen, clock, calls, admitted, granted, raced>>

(* Mutation: what is spent is compared with the cap after one more.        *)
SpentAbove(s) == day[s].spent > DailyCap

Spent(s) == day[s].spent >= DailyCap

Checks(t) ==
  LET s == SiteOf[t]
  IN  /\ At(t, "check")
      /\ task' = [task EXCEPT ![t].at = IF Spent(s) THEN "answer" ELSE "add",
                              ![t].outcome = IF Spent(s) THEN "spent" ELSE "ok",
                              ![t].list = day[s].day]
      /\ UNCHANGED <<wire, seen, day, clock, calls, admitted, granted, raced>>

(* ... and one more is spent, in the list that was there when it was read. *)
Adds(t) ==
  LET s == SiteOf[t]
  IN  /\ At(t, "add")
      /\ task' = [task EXCEPT ![t].at = "store", ![t].mine = day[s].spent,
                              ![t].list = [made |-> day[s].made, day |-> day[s].day]]
      /\ UNCHANGED <<wire, seen, day, clock, calls, admitted, granted, raced>>

(* Mutation: a relayed call keeps the number it came with.                 *)
SameHop(r) == r.hop

(* hop_headers.                                                            *)
NextHop(r) == r.hop + 1

(* The call goes out; the peer may call out in turn.                       *)
Stores(t, to, kind) ==
  LET s == SiteOf[t]
      r == task[t].request
      same == day[s].made = task[t].list.made
  IN  /\ At(t, "store") /\ to # s
      /\ day' = IF same THEN [day EXCEPT ![s].spent = task[t].mine + 1] ELSE day
      /\ granted' = [granted EXCEPT ![s][task[t].list.day] = @ + 1]
      /\ wire' = wire \cup {[call |-> r.call, depth |-> r.depth + 1, to |-> to, from |-> s,
                             kind |-> kind, hop |-> NextHop(r), by |-> t]}
      /\ task' = [task EXCEPT ![t].at = "waiting", ![t].list = None, ![t].mine = 0]
      /\ UNCHANGED <<seen, clock, calls, admitted, raced>>

(* A reply reaches the thread that waits for it, unless it gave up.        *)
WaitsFor(u, r) ==
  /\ u # None /\ At(u, "waiting")
  /\ task[u].request.call = r.call /\ task[u].request.depth = r.depth - 1

Answers(t) ==
  LET r == task[t].request
      rest == [task EXCEPT ![t] = Free]
  IN  /\ At(t, "answer")
      /\ task' = IF WaitsFor(r.by, r) THEN [rest EXCEPT ![r.by].at = "answer"] ELSE rest
      /\ UNCHANGED <<wire, seen, day, clock, calls, admitted, granted, raced>>

TimesOut(t) ==
  /\ At(t, "waiting")
  /\ Goes(t, "answer")
  /\ UNCHANGED <<wire, seen, day, clock, calls, admitted, granted, raced>>

MinutePasses ==
  /\ clock < MaxClock /\ clock' = clock + 1
  /\ UNCHANGED <<wire, task, seen, day, calls, admitted, granted, raced>>

Next ==
  \/ \E kind \in Kinds, from \in Callers, hop \in Hops : Arrive(kind, from, hop)
  \/ \E t \in Threads :
       \/ \E r \in wire : Take(t, r)
       \/ LimitWrites(t)
       \/ Rolls(t) \/ Resets(t) \/ Checks(t) \/ Adds(t)
       \/ \E to \in Sites, kind \in Kinds : Stores(t, to, kind)
       \/ Answers(t) \/ TimesOut(t)
  \/ MinutePasses

Spec == Init /\ [][Next]_vars
-----------------------------------------------------------------------------
(* However the sites call one another, a call is relayed at most MaxHop    *)
(* times: no loop of sites goes on.                                        *)
HopsBounded ==
  LET served == {task[t].request : t \in {u \in Threads : ~At(u, "idle")}}
  IN  \A r \in wire \cup served : r.depth <= MaxHop

(* Where no two threads count at once, no more calls go out than the cap   *)
(* and no address is let in more often than the limit.                     *)
BudgetHolds == \A s \in Sites \ raced, d \in Days : granted[s][d] <= DailyCap

CountsHold ==
  /\ BudgetHolds
  /\ \A s \in Sites \ raced, a \in Addresses, m \in 0..MaxClock : admitted[s][a][m] <= PerIp

(* Whatever the threads do to the counts, nothing is refused too early:    *)
(* the limit or the cap that a refusal names has been reached.             *)
RefusalsAreHonest ==
  \A t \in Threads : At(t, "answer") =>
    /\ task[t].outcome = "limited" =>
         admitted[SiteOf[t]][task[t].request.from][task[t].minute] >= PerIp
    /\ task[t].outcome = "spent" => granted[SiteOf[t]][task[t].list] >= DailyCap
=============================================================================
