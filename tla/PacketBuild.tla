------------------------------- MODULE PacketBuild -------------------------------
(***************************************************************************)
(* build_prism_packet and build_situate_packet: a packet is built section  *)
(* by section, some of it fetched by a pool of threads, each section from  *)
(* what earlier steps left.  A step that fails costs its section and those *)
(* that cannot do without it; the packet is stored and returned all the    *)
(* same.  A value is "there" or "null"; what it says is left out.          *)
(***************************************************************************)
EXTENDS WorkerPool

CONSTANTS
  Wishes,        \* the arguments: force, persist, memo, and whether as_of is past
  MaxFailures    \* bound on the steps that fail by themselves

BuildAssumption ==
  /\ PoolAssumption /\ MaxFailures \in Nat
  /\ Wishes \subseteq [force : BOOLEAN, persist : BOOLEAN, memo : BOOLEAN, past : BOOLEAN]

Engines == {"prism", "situate"}

(* What the pool does, in the order of its submissions.                    *)
Jobs(e) ==
  IF e = "prism"
  THEN <<"universe", "macro", "filings", "news", "history", "sec_trend">>
  ELSE <<"exposure", "state", "base_rates", "fundamentals", "text">>

(* Mutation: the implied section is judged when the levels have read it.   *)
JudgeLast(e) ==
  IF e = "prism"
  THEN <<"profile", "pool", "fundamentals", "seasonality", "relational", "factors", "regimes",
         "entropy", "spectral", "filings", "news", "volatility", "levels", "scenarios", "eigen",
         "tabular", "recent", "memo", "save">>
  ELSE <<"profile", "panel", "pool", "implied", "levels", "judge", "stack", "tabular", "odds",
         "scenarios", "memo", "save">>

Order(e) ==
  IF e = "prism"
  THEN <<"profile", "pool", "fundamentals", "seasonality", "relational", "factors", "regimes",
         "entropy", "spectral", "filings", "news", "volatility", "levels", "scenarios", "eigen",
         "tabular", "recent", "memo", "save">>
  ELSE <<"profile", "panel", "pool", "implied", "judge", "levels", "stack", "tabular", "odds",
         "scenarios", "memo", "save">>

Elements(q) == {q[i] : i \in DOMAIN q}
Pooled(e) == Elements(Jobs(e))
Steps(e) == Elements(Order(e)) \ {"pool", "judge", "save"}
Items(e) == Pooled(e) \cup Steps(e)
Sources == {"universe", "history", "sec_trend", "panel"}   \* fetched, and no section of the packet
Sections(e) == Items(e) \ Sources

(* Sections the pool fetched and a later step puts into the packet.        *)
Late == {"filings", "news"}

(* The items a builder consults ...                                        *)
PrismReads(s) ==
  CASE s \in {"universe", "news"} -> {"profile"}
    [] s \in {"fundamentals", "seasonality"} -> {"profile", "universe"}
    [] s \in {"relational", "regimes", "entropy", "spectral"} -> {"universe"}
    [] s = "factors" -> {"universe", "macro"}
    [] s = "volatility" -> {"universe", "regimes"}
    [] s = "levels" -> {"history", "sec_trend", "profile", "universe"}
    [] s = "scenarios" -> {"universe", "relational", "seasonality", "volatility", "regimes",
                           "factors", "spectral", "fundamentals", "macro", "entropy"}
    [] s = "eigen" -> {"relational", "universe", "regimes"}
    [] s = "recent" -> {"universe", "profile", "entropy", "regimes"}
    [] OTHER -> {}
SituateReads(s) ==
  CASE s = "panel" -> {"profile"}
    [] s \in {"exposure", "state", "base_rates", "fundamentals"} -> {"panel"}
    [] s = "text" -> {"profile"}
    [] s = "implied" -> {"panel", "base_rates"}
    [] s = "levels" -> {"implied", "panel", "profile"}
    [] s = "odds" -> {"base_rates", "implied", "stack"}
    [] s = "scenarios" -> {"odds", "exposure"}
    [] OTHER -> {}
Reads(e, s) ==
  IF s = "memo" THEN Sections(e) \ {"memo"} ELSE IF e = "prism" THEN PrismReads(s) ELSE SituateReads(s)

(* ... and those it raises without.                                        *)
Needs(e, s) ==
  IF e = "prism"
  THEN CASE s \in {"seasonality", "relational", "factors", "regimes", "entropy", "spectral",
                   "volatility", "eigen", "recent"} -> {"universe"}
         [] s = "levels" -> {"history"}
         [] OTHER -> {}
  ELSE IF s \in {"exposure", "state", "base_rates"} THEN {"panel"} ELSE {}

VARIABLES
  engine,
  wish,     \* the arguments
  at,       \* the step of Order, 0 when the store had the packet
  item,     \* what is there
  told,     \* items with a reason in meta.errors or meta.unavailable
  status,   \* meta.source_status
  sight,    \* per item built, what its builder saw
  failed,   \* steps that failed by themselves
  kept      \* what the store holds for the day, or None

vars == <<jobs, engine, wish, at, item, told, status, sight, failed, kept>>

Statuses == {"none", "available", "error", "unavailable"}
Is(step) == at \in DOMAIN Order(engine) /\ Order(engine)[at] = step
Returned == at = Len(Order(engine)) + 1

TypeOK ==
  /\ engine \in Engines
  /\ at \in 0..(Len(Order(engine)) + 1)
  /\ item \in [Items(engine) -> {"unset", "there", "null"}]
  /\ status \in [Items(engine) \cup {"store"} -> Statuses]
  /\ told \subseteq Items(engine) \cup {"store"}
  /\ failed \subseteq Items(engine) \cup {"store"} /\ Cardinality(failed) <= MaxFailures
  /\ jobs \in [Pooled(engine) -> {"queued", "running", "there", "null"}]

Older == [of |-> "older"]

Init ==
  /\ engine \in Engines
  /\ wish \in Wishes
  /\ kept \in {None, Older}
  /\ at = IF kept # None /\ ~wish.force /\ wish.persist THEN 0 ELSE 1
  /\ jobs = AllQueued(Pooled(engine))
  /\ item = [i \in Items(engine) |-> "unset"]
  /\ status = [i \in Items(engine) \cup {"store"} |-> "none"]
  /\ told = {} /\ sight = <<>> /\ failed = {}

Onward == at' = at + 1
Seen(s) == [x \in Reads(engine, s) |-> item[x]]
Sees(s) == sight' = [x \in DOMAIN sight \cup {s} |-> IF x = s THEN Seen(s) ELSE sight[x]]
Able(s) == \A x \in Needs(engine, s) : item[x] = "there"

(* How a step ends: by a value, by one that names what it lacks, or by an  *)
(* error of its own.                                                       *)
Ends(s, value) ==
  /\ value # "null" => Able(s)
  /\ failed' = IF value = "there" \/ ~Able(s) THEN failed ELSE failed \cup {s}
  /\ Cardinality(failed') <= MaxFailures

(* Mutation: a section that failed is left out without a word.             *)
NullSilently(s) == UNCHANGED told /\ status' = [status EXCEPT ![s] = "error"]

(* set_section with an error, record_error; a model that is not installed   *)
(* is unavailable and no error.                                            *)
Null(s) ==
  /\ told' = told \cup {s}
  /\ \E reason \in {"error"} \cup (IF s = "tabular" THEN {"unavailable"} ELSE {}) :
       status' = [status EXCEPT ![s] = reason]

(* _guard and _commit_section.                                             *)
Sets(s, value) ==
  IF value = "null"
  THEN item' = [item EXCEPT ![s] = "null"] /\ Null(s)
  ELSE /\ item' = [item EXCEPT ![s] = "there"]
       /\ told' = IF value = "partial" THEN told \cup {s} ELSE told
       /\ status' = IF s \in Sources THEN status
                     ELSE [status EXCEPT ![s] = IF value = "partial" THEN "unavailable" ELSE "available"]
-----------------------------------------------------------------------------
(* A section in the thread of the build.  A memo that is not wanted is     *)
(* null for that reason.                                                   *)
Build(s, value) ==
  /\ s \in Steps(engine) \ Late /\ Is(s)
  /\ IF s = "memo" /\ ~wish.memo
     THEN /\ value = "null" /\ Sets(s, value)
          /\ UNCHANGED <<sight, failed>>
     ELSE Ends(s, value) /\ Sets(s, value) /\ Sees(s)
  /\ Onward
  /\ UNCHANGED <<jobs, engine, wish, kept>>

Before(j) ==
  {Jobs(engine)[m] : m \in {m \in DOMAIN Jobs(engine) :
     \E n \in DOMAIN Jobs(engine) : m < n /\ Jobs(engine)[n] = j}}

JobStarts(j) ==
  /\ Is("pool") /\ Start(j, Before(j)) /\ Sees(j)
  /\ UNCHANGED <<engine, wish, at, item, told, status, failed, kept>>

JobEnds(j, value) ==
  /\ value \in {"there", "null"} /\ Finish(j, value) /\ Ends(j, value)
  /\ UNCHANGED <<engine, wish, at, item, told, status, sight, kept>>

(* Leaving the pool: the results are gathered in the order of submission.  *)
Gather ==
  LET now == Pooled(engine) \ Late
      lost == {j \in Pooled(engine) : jobs[j] = "null"}
  IN  /\ Is("pool") /\ Idle /\ Onward
      /\ item' = [i \in Items(engine) |-> IF i \in now THEN jobs[i] ELSE item[i]]
      /\ told' = told \cup lost
      /\ status' = [i \in DOMAIN status |->
           IF i = "universe" THEN IF i \in lost THEN "unavailable" ELSE "available"
           ELSE IF i \in lost THEN "error"
           ELSE IF i \in now \ Sources THEN "available" ELSE status[i]]
      /\ UNCHANGED <<jobs, engine, wish, sight, failed, kept>>

PutIn(s) ==
  /\ s \in Late \cap Pooled(engine) /\ Is(s) /\ Onward
  /\ Sets(s, jobs[s])
  /\ UNCHANGED <<jobs, engine, wish, sight, failed, kept>>

(* _guard_implied_snapshot: an option chain of today says nothing of a day *)
(* that is past; a section without a horizon in it is left as it is.       *)
Judge ==
  /\ Is("judge") /\ Onward
  /\ IF item["implied"] = "there" /\ wish.past
     THEN /\ item' \in {item, [item EXCEPT !["implied"] = "null"]}
          /\ told' = told \cup {"implied"} /\ status' = [status EXCEPT !["implied"] = "unavailable"]
     ELSE UNCHANGED <<item, told, status>>
  /\ UNCHANGED <<jobs, engine, wish, sight, failed, kept>>

(* A write that fails does not lose the packet.                            *)
Save ==
  /\ Is("save") /\ Onward
  /\ \/ wish.persist /\ kept' = item /\ UNCHANGED <<told, status, failed>>
     \/ /\ wish.persist /\ UNCHANGED kept
        /\ failed' = failed \cup {"store"} /\ Cardinality(failed') <= MaxFailures
        /\ told' = told \cup {"store"} /\ status' = [status EXCEPT !["store"] = "error"]
     \/ ~wish.persist /\ UNCHANGED <<told, status, failed, kept>>
  /\ UNCHANGED <<jobs, engine, wish, item, sight>>

Next ==
  \/ \E s \in Items(engine), value \in {"there", "partial", "null"} :
       \/ Build(s, value) \/ JobEnds(s, value)
  \/ \E s \in Items(engine) : JobStarts(s) \/ PutIn(s)
  \/ Gather \/ Judge \/ Save

Spec == Init /\ [][Next]_vars
-----------------------------------------------------------------------------
(* A packet that is returned accounts for every section: it is there, or   *)
(* the packet says why not; one is missing only by a failure of its own, of *)
(* something it needs, or because it was not wanted or not to be had.      *)
PacketIsAccounted ==
  Returned => \A s \in Sections(engine) :
    /\ item[s] \in {"there", "null"}
    /\ item[s] = "null" =>
         /\ s \in told /\ status[s] \in {"error", "unavailable"}
         /\ s \in failed \/ ~Able(s) \/ (s = "memo" /\ ~wish.memo) \/ (s = "implied" /\ wish.past)

(* No section was computed from what the packet then does not show: what   *)
(* its builder saw is what is there in the end.                            *)
InputsAreFinal ==
  Returned => \A s \in DOMAIN sight : \A x \in DOMAIN sight[s] : sight[s][x] = item[x]

(* What is returned is what is stored, or the packet says that it is not.  *)
ReturnedIsKept ==
  Returned /\ wish.persist => kept = item \/ "store" \in told
=============================================================================
