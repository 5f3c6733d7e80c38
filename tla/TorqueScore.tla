------------------------------ MODULE TorqueScore ------------------------------
(***************************************************************************)
(* compute_torque_score: six components between 0 and 100, their weighted  *)
(* total, and the stage and recommendation read from them.                 *)
(*                                                                         *)
(* Growth, margins, performance and ratios are in hundredths, multiples in *)
(* tenths.  Scores are in tenths and weights in percent, so that a total   *)
(* is in thousandths; a floating sum may differ in its last digit.         *)
(***************************************************************************)
EXTENDS Integers

CONSTANTS
  Filings,     \* sec_trend packs
  Profiles,    \* profiles
  Charts,      \* metrics of a price history
  Growths,     \* values of growth to compare a pack with
  None         \* absent

Labels == {"high", "moderate", "low", "negative", ""}
Optional(S) == S \cup {None}

TorqueAssumption ==
  /\ None \notin Int
  /\ Growths \subseteq Int
  /\ Filings \subseteq
       [available : BOOLEAN, accelerating : BOOLEAN, yoy : Optional(Int), accelYoy : Optional(Int),
        qoq : Optional(Int), margin : Optional(Int), leverage : Optional(Int), label : Labels,
        marginGoes : {"up", "stable", ""}, revenueGoes : {"up", "down", ""}]
  /\ Profiles \subseteq
       [multiple : Optional(Int), midCap : BOOLEAN, industry : {"stale", "hot", "other", ""}]
  /\ Charts \subseteq
       [perf3 : Optional(Int), perf6 : Optional(Int), rsi : Optional(Int), over50 : Optional(Int),
        over52 : Optional(Int)]

VARIABLES filing, profile, chart, result

vars == <<filing, profile, chart, result>>

Stages == {"Extended", "Coiled Spring", "Inflecting", "Renaming Phase", "Proof Phase", "No Setup"}
Recommendations == {"BUY", "BUY SETUP", "HOLD", "WAIT", "AVOID"}

TypeOK ==
  /\ filing \in Filings /\ profile \in Profiles /\ chart \in Charts
  /\ \/ result = None
     \/ /\ result.total \in Nat /\ result.total <= 100000
        /\ result.stage \in Stages /\ result.advice \in Recommendations

Init == filing \in Filings /\ profile \in Profiles /\ chart \in Charts /\ result = None
-----------------------------------------------------------------------------
(* _clamp, in tenths.                                                      *)
Clamp(score) == IF score < 0 THEN 0 ELSE IF score > 1000 THEN 1000 ELSE score
Neutral == 500

(* Python's x or y: 0 counts as absent.                                    *)
Or(x, y) == IF x \in {None, 0} THEN y ELSE x

(* A value up to 5 is taken for a fraction, a larger one for a percentage. *)
Percent(x) ==
  IF x = None THEN None
  ELSE IF -500 <= x /\ x <= 500 THEN x
  ELSE IF x > 0 THEN x \div 100 ELSE -((-x) \div 100)

Growth(f) == Percent(Or(f.yoy, f.accelYoy))
Slows(f) == f.qoq # None /\ Percent(f.qoq) < -3

RevenueBand(yoy, accelerating) ==
  IF yoy < 0 THEN 0
  ELSE IF ~accelerating /\ yoy < 10 THEN 300
  ELSE IF yoy < 25 THEN 600
  ELSE IF yoy < 50 THEN (IF accelerating THEN 800 ELSE 650)
  ELSE IF accelerating THEN 1000 ELSE 800

Revenue(f) ==
  IF ~f.available \/ Growth(f) = None THEN Neutral
  ELSE LET band == RevenueBand(Growth(f), f.accelerating) IN
       IF Slows(f) /\ band > 300 THEN (IF band - 150 > 300 THEN band - 150 ELSE 300) ELSE band

(* The number of a block if it has one, else its label's, in tenths.       *)
Leverage(f) ==
  IF f.leverage # None THEN f.leverage
  ELSE CASE f.label = "high" -> 25 [] f.label = "moderate" -> 13 [] f.label = "low" -> 6
         [] f.label = "negative" -> -5 [] OTHER -> 0

Margin(f) ==
  IF ~f.available THEN Neutral
  ELSE IF Or(f.margin, None) = None THEN Clamp(300 + Leverage(f) * 20)
  ELSE Clamp(Percent(f.margin) * 12 + Leverage(f) * 25)

(* The growth that valuation and industry tag are held against.            *)
Reported(f) == IF Or(f.yoy, None) = None THEN 0 ELSE Percent(f.yoy)

Valuation(f, p) ==
  LET ps == Or(p.multiple, None) IN
  IF ps = None THEN Neutral
  ELSE Clamp(1000 - ps * (IF Reported(f) > 15 THEN 15 ELSE 25)
             - (IF ps > 80 THEN (ps - 80) * 8 ELSE 0) + (IF p.midCap THEN 100 ELSE 0))

Operating(f) ==
  IF ~f.available THEN Neutral
  ELSE Clamp((CASE f.label = "high" -> 800 [] f.label = "moderate" -> 500 [] f.label = "low" -> 250
                [] f.label = "negative" -> 100 [] OTHER -> 400)
             + (IF f.marginGoes # "" /\ f.revenueGoes = "up" THEN 200
                ELSE IF f.marginGoes = "up" /\ f.revenueGoes = "" THEN 100 ELSE 0))

Between(x, low, high) == low <= x /\ x <= high

(* A run that has gone too far, by any of its metrics.                     *)
Overheated(h) ==
  \/ h.perf3 # None /\ h.perf3 > 100
  \/ h.rsi # None /\ h.rsi > 80
  \/ h.over50 # None /\ h.over50 > 125

PerfPoints(perf) ==
  IF perf = None THEN 0 ELSE IF Between(perf, 5, 80) THEN 180 ELSE IF perf > 80 THEN 60
  ELSE IF perf > 0 THEN 80 ELSE -120
RsiPoints(rsi) ==
  IF rsi = None THEN 0 ELSE IF Between(rsi, 45, 70) THEN 140
  ELSE IF Between(rsi, 35, 75) THEN 40 ELSE -80
AveragePoints(ratio) == IF ratio = None THEN 0 ELSE IF Between(ratio, 90, 118) THEN 100 ELSE -60
HighPoints(ratio) ==
  IF ratio = None THEN 0 ELSE IF Between(ratio, 55, 95) THEN 80 ELSE IF ratio > 98 THEN -60 ELSE 0

(* Mutation: the guard against overheating comes last.                     *)
TechnicalUnguarded(h) ==
  Clamp(Neutral + PerfPoints(IF h.perf6 # None THEN h.perf6 ELSE h.perf3)
        + RsiPoints(h.rsi) + AveragePoints(h.over50) + HighPoints(h.over52))

Technical(h) ==
  IF Overheated(h) THEN 150
  ELSE Clamp(Neutral + PerfPoints(IF h.perf6 # None THEN h.perf6 ELSE h.perf3)
             + RsiPoints(h.rsi) + AveragePoints(h.over50) + HighPoints(h.over52))

Tag(f, p) ==
  IF p.industry = "stale" /\ Reported(f) > 15 THEN 800
  ELSE IF p.industry = "hot" THEN 300 ELSE Neutral

(* Mutation: the neutral score of a missing pack is left out of the total, *)
(* and the weights of the others are raised to make up for it.             *)
TotalOfKnown(f, p, h) ==
  IF f.available
  THEN 25 * Revenue(f) + 20 * Margin(f) + 15 * Valuation(f, p) + 15 * Operating(f)
       + 15 * Technical(h) + 10 * Tag(f, p)
  ELSE ((15 * Valuation(f, p) + 15 * Technical(h) + 10 * Tag(f, p)) * 100) \div 40

Total(f, p, h) ==
  25 * Revenue(f) + 20 * Margin(f) + 15 * Valuation(f, p) + 15 * Operating(f)
  + 15 * Technical(h) + 10 * Tag(f, p)

(* _stage_from_scores, first rule that holds.                              *)
Stage(total, revenue, technical, stale) ==
  IF technical < 300 THEN "Extended"
  ELSE IF total >= 75000 /\ technical >= 500 /\ revenue >= 500 THEN "Coiled Spring"
  ELSE IF 60000 <= total /\ total < 75000 /\ revenue >= 500 THEN "Inflecting"
  ELSE IF total >= 70000 /\ technical >= 700 THEN "Renaming Phase"
  ELSE IF total >= 60000 /\ Between(technical, 300, 700) /\ stale < 750 THEN "Proof Phase"
  ELSE "No Setup"

Advice(stage) ==
  CASE stage = "Coiled Spring" -> "BUY" [] stage = "Inflecting" -> "BUY SETUP"
    [] stage = "Proof Phase" -> "HOLD" [] stage = "Extended" -> "AVOID" [] OTHER -> "WAIT"

StageOf(f, p, h) == Stage(Total(f, p, h), Revenue(f), Technical(h), Valuation(f, p))

Compute ==
  /\ result = None
  /\ result' = [total |-> Total(filing, profile, chart), stage |-> StageOf(filing, profile, chart),
                advice |-> Advice(StageOf(filing, profile, chart))]
  /\ UNCHANGED <<filing, profile, chart>>

Next == Compute

Spec == Init /\ [][Next]_vars
-----------------------------------------------------------------------------
(* A BUY rests on everything it names: filings that were read, revenue     *)
(* that does not fall, a chart that is not overheated; without filings the *)
(* neutral scores of three components keep the total below it, whatever    *)
(* the price, the chart and the industry say.                              *)
BuyIsEarned ==
  result # None /\ result.advice = "BUY" =>
    /\ filing.available
    /\ Growth(filing) # None => Growth(filing) >= 0
    /\ ~Overheated(chart)
    /\ result.total >= 75000

(* Faster growth, all else equal, never lowers the total, as long as both  *)
(* values are given in the same way and neither is exactly 0.              *)
GrowthNeverHurts ==
  result # None /\ filing.yoy # None =>
    \A g \in Growths :
      /\ g > filing.yoy /\ g <= 500 /\ filing.yoy >= -500 /\ 0 \notin {g, filing.yoy}
      => Total([filing EXCEPT !.yoy = g], profile, chart) >= result.total
=============================================================================
