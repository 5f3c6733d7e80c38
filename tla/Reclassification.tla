---------------------------- MODULE Reclassification ----------------------------
(***************************************************************************)
(* score_reclassification: how far the market's name for a company lags    *)
(* what it does, how far the proof of that has come, and three target      *)
(* prices, from whichever of three sources has the numbers: the trend pack,*)
(* the company facts of the source pack, the profile.                      *)
(*                                                                         *)
(* Of a pack that sec_trend builds only the status and the acceleration    *)
(* are found under the names this code reads; the other numbers of the     *)
(* first source, and with them stage 3, belong to packs written by hand.   *)
(*                                                                         *)
(* Growth, margins and performance are in hundredths, the gap in tenths,   *)
(* costs in hundredths of the unit of revenue.  Prices are given times the *)
(* shares, by which all three are divided, and times Scale.                *)
(***************************************************************************)
EXTENDS Integers

CONSTANTS
  Filings,     \* trend packs with the company facts beside them
  Profiles,    \* profiles
  Charts,      \* trailing returns of a history
  Stories,     \* what the texts say: matched keywords, the product, the sell side's words
  None         \* absent

Optional(S) == S \cup {None}
Statuses == {"available", "partial", "unavailable", "error", "not configured", "missing"}

FilingType ==
  [status : Statuses, accelerating : BOOLEAN, revenue : Optional(Int), operating : Optional(Int),
   shares : Optional(Int), implied : Optional(Int)]
ProfileType ==
  [revenue : Optional(Int), gross : Optional(Int), operating : Optional(Int), shares : Optional(Int),
   growth : Optional(Int), midCap : BOOLEAN, stale : BOOLEAN]
ChartType == [perf1 : Optional(Int), perf3 : Optional(Int)]
StoryType == [evidence : Nat, product : BOOLEAN, mentions : Nat]

ReclassAssumption ==
  /\ None \notin Int
  /\ Filings \subseteq FilingType
  /\ Profiles \subseteq ProfileType
  /\ Charts \subseteq ChartType
  /\ Stories \subseteq StoryType

VARIABLES filing, profile, chart, story, result

vars == <<filing, profile, chart, story, result>>

TypeOK ==
  /\ filing \in Filings /\ profile \in Profiles /\ chart \in Charts /\ story \in Stories
  /\ result # None => /\ result.stage \in 0..5 /\ result.gap \in 0..10
                      /\ \A t \in {result.low, result.mid, result.high} : t # None => t > 0

Init ==
  /\ filing \in Filings /\ profile \in Profiles /\ chart \in Charts /\ story \in Stories
  /\ result = None
-----------------------------------------------------------------------------
Positive(x) == x # None /\ x > 0
Within(low, x, high) == x # None /\ low <= x /\ x <= high
Clip(low, x, high) == IF x < low THEN low ELSE IF x > high THEN high ELSE x

Nothing == [revenue |-> None, margin |-> None, cost |-> None, shares |-> None, growth |-> None]

(* What lies between gross and operating profit.                           *)
CostBelow(margin, operating, revenue) ==
  IF margin > operating THEN (margin - operating) * revenue ELSE 0

(* A margin nobody reports is the operating one and a fifth of revenue.    *)
Presumed(operating) == Clip(0, operating + 20, 100)

(* _company_facts_signals; implied shares are net income by diluted EPS.   *)
FromFacts(f, p) ==
  LET shares == IF f.shares # None THEN f.shares ELSE f.implied IN
  IF ~Positive(f.revenue) THEN Nothing
  ELSE [revenue |-> f.revenue,
        margin |-> IF f.operating = None THEN None ELSE Presumed(f.operating),
        cost |-> IF f.operating = None THEN None
                 ELSE CostBelow(Presumed(f.operating), f.operating, f.revenue),
        shares |-> IF Positive(shares) THEN shares ELSE None,
        growth |-> p.growth]

(* _profile_signals: a margin out of bounds is as good as none.            *)
ProfileMargin(p) ==
  IF Within(1, p.gross, 100) THEN p.gross
  ELSE IF Within(-100, p.operating, 100) THEN Presumed(p.operating) ELSE None

FromProfile(p) ==
  IF ~Positive(p.revenue) THEN Nothing
  ELSE [revenue |-> p.revenue,
        margin |-> ProfileMargin(p),
        cost |-> IF ProfileMargin(p) # None /\ Within(-100, p.operating, 100)
                 THEN CostBelow(ProfileMargin(p), p.operating, p.revenue) ELSE None,
        shares |-> IF Positive(p.shares) THEN p.shares ELSE None,
        growth |-> p.growth]

(* _merge_signals: each key that is missing is taken from the other.       *)
Or(x, y) == IF x = None THEN y ELSE x
Merge(x, y) ==
  [revenue |-> Or(x.revenue, y.revenue), margin |-> Or(x.margin, y.margin), cost |-> Or(x.cost, y.cost),
   shares |-> Or(x.shares, y.shares), growth |-> Or(x.growth, y.growth)]

Signals(f, p) ==
  LET facts == FromFacts(f, p) IN
  IF facts.revenue = None \/ facts.shares = None THEN Merge(facts, FromProfile(p)) ELSE facts

(* A pack that is missing altogether has the default status, available.    *)
Filed(f) == f.status \in {"available", "partial", "missing"}

(* _reclassification_gap.                                                  *)
Gap(f, p, s) ==
  LET growth == Signals(f, p).growth IN
  Clip(0, (IF p.stale THEN 3 ELSE 0) + (IF s.evidence >= 5 THEN 4 ELSE 0)
          + (IF growth # None /\ growth > 25 THEN 2 ELSE 0) + (IF p.midCap THEN 1 ELSE 0)
          - (IF Filed(f) THEN 0 ELSE 2), 10)
-----------------------------------------------------------------------------
(* _proof_stage: the signs of each stage.                                  *)
Told(s) == s.evidence >= 1
Sold(s) == s.evidence >= 3 /\ s.product
Bends(f, growth) == f.accelerating /\ growth # None /\ growth > 15
RanUp(h, s) == s.mentions > 4 \/ (h.perf3 # None /\ h.perf3 > 40)
Falls(h) == h.perf1 # None /\ h.perf1 < -10
Fades(f, growth) == growth # None /\ (growth < 5 \/ (~f.accelerating /\ growth < 10))

Tired(f, growth, h, s) ==
  /\ (Falls(h) /\ RanUp(h, s)) \/ Fades(f, growth)
  /\ RanUp(h, s) \/ Bends(f, growth)

Met(f, growth, h, s) ==
  {k \in {0, 1, 2, 4, 5} :
     /\ k = 0 => Told(s)
     /\ k = 1 => Sold(s)
     /\ k = 2 => Bends(f, growth)
     /\ k = 4 => RanUp(h, s)
     /\ k = 5 => Tired(f, growth, h, s)}

(* Mutation: stages may be skipped.                                        *)
ReachedByAny(met) == met

(* The sorted walk: a stage counts if the walk stands right before it, or  *)
(* if it is one of the last two, which the market shows.                   *)
Reached(met) == {k \in met : k \in {4, 5} \/ 1..k \subseteq met}

Highest(met) ==
  IF Reached(met) = {} THEN 0
  ELSE CHOOSE k \in Reached(met) : \A j \in Reached(met) : j <= k

Stage(f, growth, h, s) ==
  LET highest == Highest(Met(f, growth, h, s)) IN
  IF ~Filed(f) /\ highest > 1 THEN 1 ELSE highest
-----------------------------------------------------------------------------
Scale == 2000000

(* _compute_targets: earnings of a scenario, in its own scale, times its   *)
(* multiple of 12, 20, and 28 raised by up to a half with the gap.         *)
Bear(x) == 240000 * (x.revenue * (x.margin - 3) - x.cost)
Base(x, growth) == 4000 * (x.revenue * (100 + growth) * x.margin - 100 * x.cost)

(* Mutation: the best case has the thinner margin.                         *)
BullThin(x, growth, gap) ==
  28 * (20 + gap) * (x.revenue * (1000 + 13 * growth) * (x.margin - 2) - 1000 * x.cost)

Bull(x, growth, gap) ==
  28 * (20 + gap) * (x.revenue * (1000 + 13 * growth) * (x.margin + 2) - 1000 * x.cost)

(* A price at or below zero is not shown.                                  *)
Shown(price) == IF price > 0 THEN price ELSE None

Complete(x) == x.revenue # None /\ x.margin # None /\ x.cost # None /\ Positive(x.shares)

Targets(x, gap) ==
  LET growth == Or(x.growth, 0) IN
  IF ~Complete(x) THEN [low |-> None, mid |-> None, high |-> None]
  ELSE [low |-> Shown(IF x.margin <= 3 THEN 0 ELSE Bear(x)),
        mid |-> Shown(IF x.margin <= 0 THEN 0 ELSE Base(x, growth)),
        high |-> Shown(Bull(x, growth, gap))]

Outcome(f, p, h, s) ==
  LET x == Signals(f, p)
      targets == Targets(x, Gap(f, p, s))
  IN [gap |-> Gap(f, p, s), stage |-> Stage(f, x.growth, h, s),
      low |-> targets.low, mid |-> targets.mid, high |-> targets.high]

ScoreReclassification ==
  /\ result = None
  /\ result' = Outcome(filing, profile, chart, story)
  /\ UNCHANGED <<filing, profile, chart, story>>

Next == ScoreReclassification

Spec == Init /\ [][Next]_vars
-----------------------------------------------------------------------------
(* A stage rests on what its name says: the financial bend on product      *)
(* proof, fatigue on a run-up before it and on a fall or slow growth, and  *)
(* nothing beyond product proof on a pack that could not be had.           *)
StageIsEarned ==
  LET growth == Signals(filing, profile).growth IN
  result # None =>
    /\ result.stage = 2 => Sold(story) /\ Bends(filing, growth)
    /\ result.stage >= 4 => RanUp(chart, story)
    /\ result.stage = 5 => Falls(chart) \/ (growth # None /\ growth < 10)
    /\ result.stage >= 2 => Filed(filing)

(* Unless revenue shrinks, the three targets are in order, and who shows a *)
(* lower one shows the higher ones.                                        *)
TargetsInOrder ==
  LET growth == Signals(filing, profile).growth IN
  result # None /\ Or(growth, 0) >= 0 =>
    /\ result.low # None => result.mid # None /\ result.low <= result.mid
    /\ result.mid # None => result.high # None /\ result.mid <= result.high
=============================================================================
