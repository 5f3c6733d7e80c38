---------------------------- MODULE ServerMachines ----------------------------
(***************************************************************************)
(* Eleven of the server's smaller machines: the two scorers, the market    *)
(* data client, the ticker batches, the packet builds, the alert scores,   *)
(* the stores of series, packets and chats, the check of a memo's          *)
(* citations and the alert digests, and what holds of each for every value *)
(* of its parameters.                                                      *)
(***************************************************************************)
EXTENDS Machines, SequenceTheorems, FiniteSetTheorems, TLAPS

CONSTANTS
  TorqueFilings, TorqueProfiles, TorqueCharts, Growths,     \* of the torque score
  ReclassFilings, ReclassProfiles, ReclassCharts, Stories,  \* of the reclassification
  Quoted, MaxQuotes, QuoteTtl, SearchSlots, FallbackEnabled, MaxMarketCalls,   \* of the market data
  BatchWorkers, BatchSize,                                  \* of the batches
  BuildWorkers, Wishes, MaxFailures,                        \* of the builds
  Rated, ScoreTtl, FailureTtl, MaxScoreClock, MaxScorings,  \* of the alert scores
  SeriesFile, SeriesTtl, MaxSeriesClock, MaxSeriesCalls,    \* of the series
  Workers, WorkerOf, PacketDays, MaxPackets,                \* of the packets
  ChatThreads, ChatWorkers, ChatWorkerOf, HistoryLimit, MaxChats,   \* of the chats
  Empty, Torn,                                              \* of the files
  Named, Inside, Candidates, Words, Memos, Reports,         \* of the citations
  Lanes, Ridges, Locations, Batches, Caps                   \* of the alert digests

VARIABLES
  filing, profile, chart, story, result,
  label, slots, jobs, mode, ready, errors, events,
  engine, wish, item, told, status, sight, failed, tried,
  tmp, file, content, stamp, pointer,
  report, memo, checks, gauge, rows, limit, page, floor, digest, posted

-----------------------------------------------------------------------------
LEMMA FirstAndRest ==
  ASSUME NEW S, NEW q \in Seq(S), q # <<>>
  PROVE  /\ Head(q) \in S /\ Head(q) = q[1] /\ Tail(q) \in Seq(S)
         /\ Len(q) \in Nat \ {0} /\ Len(Tail(q)) = Len(q) - 1
         /\ \A k \in 1..Len(Tail(q)) : Tail(q)[k] = q[k + 1]
         /\ Tail(q) = <<>> <=> Len(q) = 1
<1>1. Len(Tail(q)) = Len(q) - 1 /\ Tail(q) \in Seq(S) /\ Len(q) \in Nat \ {0}
  OBVIOUS
<1>2. Len(Tail(q)) = 0 <=> Tail(q) = <<>>
  BY <1>1, EmptySeq
<1> QED BY <1>1, <1>2

LEMMA AtTheEnd ==
  ASSUME NEW S, NEW q \in Seq(S), NEW e \in S
  PROVE  /\ Append(q, e) \in Seq(S) /\ Append(q, e) # <<>>
         /\ Len(q) \in Nat /\ Len(Append(q, e)) = Len(q) + 1
         /\ Append(q, e)[Len(q) + 1] = e
         /\ \A k \in 1..Len(q) : Append(q, e)[k] = q[k]
OBVIOUS

-----------------------------------------------------------------------------
Torque == INSTANCE TorqueScore WITH
  Filings <- TorqueFilings, Profiles <- TorqueProfiles, Charts <- TorqueCharts

Reclass == INSTANCE Reclassification WITH
  Filings <- ReclassFilings, Profiles <- ReclassProfiles, Charts <- ReclassCharts

ASSUME ScoresAssumption == Torque!TorqueAssumption /\ Reclass!ReclassAssumption

-----------------------------------------------------------------------------
(* The torque score: each component is bounded on its own, and the         *)
(* properties follow by adding them up.                                    *)
LEMMA TorqueAssumed == Torque!TorqueAssumption
BY ScoresAssumption

(* The range of a component.                                               *)
TorqueRated(x) == x \in Int /\ 0 <= x /\ x <= 1000

LEMMA TorqueClampRange ==
  ASSUME NEW x \in Int
  PROVE  TorqueRated(Torque!Clamp(x))
BY DEF Torque!Clamp, TorqueRated

LEMMA TorquePercentInt ==
  ASSUME NEW x \in Int
  PROVE  Torque!Percent(x) \in Int /\ Torque!Percent(x) # None
<1>1. x # None
  BY TorqueAssumed DEF Torque!TorqueAssumption
<1>2. x \div 100 \in Int /\ (-x) \div 100 \in Int
  OBVIOUS
<1>3. Torque!Percent(x) \in Int
  BY <1>1, <1>2 DEF Torque!Percent
<1> QED BY <1>3, TorqueAssumed DEF Torque!TorqueAssumption

LEMMA TorqueFilingTypes ==
  ASSUME NEW f \in TorqueFilings
  PROVE  /\ f.available \in BOOLEAN /\ f.accelerating \in BOOLEAN
         /\ {f.yoy, f.accelYoy, f.qoq, f.margin, f.leverage} \subseteq Torque!Optional(Int) /\ f.label \in Torque!Labels
BY TorqueAssumed DEF Torque!TorqueAssumption, Torque!Optional

LEMMA TorqueGrowthType ==
  ASSUME NEW f \in TorqueFilings
  PROVE  Torque!Growth(f) = None \/ Torque!Growth(f) \in Int
<1>1. Torque!Or(f.yoy, f.accelYoy) = None \/ Torque!Or(f.yoy, f.accelYoy) \in Int
  BY TorqueFilingTypes DEF Torque!Or, Torque!Optional
<1> QED BY <1>1, TorquePercentInt DEF Torque!Growth, Torque!Percent

LEMMA TorqueRevenueRange ==
  ASSUME NEW f \in TorqueFilings
  PROVE  /\ TorqueRated(Torque!Revenue(f))
         /\ ~f.available => Torque!Revenue(f) = 500
         /\ f.available /\ Torque!Growth(f) # None /\ Torque!Growth(f) < 0 => Torque!Revenue(f) = 0
<1>1. CASE ~f.available \/ Torque!Growth(f) = None
  BY <1>1 DEF Torque!Revenue, Torque!Neutral, TorqueRated
<1>2. CASE f.available /\ Torque!Growth(f) # None
  <2>1. Torque!Growth(f) \in Int
    BY <1>2, TorqueGrowthType
  <2>2. /\ Torque!RevenueBand(Torque!Growth(f), f.accelerating) \in {0, 300, 600, 650, 800, 1000}
        /\ Torque!Growth(f) < 0 => Torque!RevenueBand(Torque!Growth(f), f.accelerating) = 0
    BY <2>1 DEF Torque!RevenueBand
  <2> QED BY <1>2, <2>2 DEF Torque!Revenue, TorqueRated
<1> QED BY <1>1, <1>2

LEMMA TorqueReportedInt ==
  ASSUME NEW f \in TorqueFilings
  PROVE  Torque!Reported(f) \in Int
<1>1. Torque!Or(f.yoy, None) = None \/ Torque!Or(f.yoy, None) \in Int
  BY TorqueFilingTypes DEF Torque!Or, Torque!Optional
<1>2. CASE Torque!Or(f.yoy, None) = None
  BY <1>2 DEF Torque!Reported
<1>3. CASE Torque!Or(f.yoy, None) # None
  <2>1. f.yoy \in Int
    BY <1>3, TorqueFilingTypes DEF Torque!Or, Torque!Optional
  <2> QED BY <1>3, <2>1, TorquePercentInt DEF Torque!Reported
<1> QED BY <1>2, <1>3

LEMMA TorqueMarginRange ==
  ASSUME NEW f \in TorqueFilings
  PROVE  TorqueRated(Torque!Margin(f)) /\ (~f.available => Torque!Margin(f) = 500)
<1>1. Torque!Leverage(f) \in Int
  <2>1. CASE f.leverage # None
    BY <2>1, TorqueFilingTypes DEF Torque!Leverage, Torque!Optional
  <2>2. CASE f.leverage = None
    <3> DEFINE points == CASE f.label = "high" -> 25 [] f.label = "moderate" -> 13 [] f.label = "low" -> 6
                           [] f.label = "negative" -> -5 [] OTHER -> 0
    <3>1. points \in Int
      BY Z3
    <3>2. Torque!Leverage(f) = points
      BY <2>2 DEF Torque!Leverage
    <3> HIDE DEF points
    <3> QED BY <3>1, <3>2
  <2> QED BY <2>1, <2>2
<1>2. Torque!Or(f.margin, None) = None \/ f.margin \in Int
  BY TorqueFilingTypes DEF Torque!Or, Torque!Optional
<1>3. CASE ~f.available
  BY <1>3 DEF Torque!Margin, Torque!Neutral, TorqueRated
<1>4. CASE f.available /\ Torque!Or(f.margin, None) = None
  BY <1>1, <1>4, TorqueClampRange DEF Torque!Margin
<1>5. CASE f.available /\ Torque!Or(f.margin, None) # None
  <2>1. Torque!Percent(f.margin) \in Int
    BY <1>2, <1>5, TorquePercentInt
  <2>2. Torque!Percent(f.margin) * 12 + Torque!Leverage(f) * 25 \in Int
    BY <1>1, <2>1
  <2> QED BY <1>5, <2>2, TorqueClampRange DEF Torque!Margin
<1> QED BY <1>3, <1>4, <1>5

LEMMA TorqueValuationRange ==
  ASSUME NEW f \in TorqueFilings, NEW p \in TorqueProfiles
  PROVE  TorqueRated(Torque!Valuation(f, p))
<1>1. p.multiple \in Torque!Optional(Int)
  BY TorqueAssumed DEF Torque!TorqueAssumption
<1>2. CASE Torque!Or(p.multiple, None) = None
  BY <1>2 DEF Torque!Valuation, Torque!Neutral, TorqueRated
<1>3. CASE Torque!Or(p.multiple, None) # None
  <2>1. Torque!Or(p.multiple, None) \in Int
    BY <1>1, <1>3 DEF Torque!Or, Torque!Optional
  <2> DEFINE ps == Torque!Or(p.multiple, None)
  <2>2. /\ ps * (IF Torque!Reported(f) > 15 THEN 15 ELSE 25) \in Int
        /\ (IF ps > 80 THEN (ps - 80) * 8 ELSE 0) \in Int
        /\ (IF p.midCap THEN 100 ELSE 0) \in Int
    BY <2>1
  <2>3. 1000 - ps * (IF Torque!Reported(f) > 15 THEN 15 ELSE 25)
             - (IF ps > 80 THEN (ps - 80) * 8 ELSE 0) + (IF p.midCap THEN 100 ELSE 0) \in Int
    BY <2>2
  <2> QED BY <1>3, <2>3, TorqueClampRange DEF Torque!Valuation
<1> QED BY <1>2, <1>3

LEMMA TorqueOperatingRange ==
  ASSUME NEW f \in TorqueFilings
  PROVE  TorqueRated(Torque!Operating(f)) /\ (~f.available => Torque!Operating(f) = 500)
<1> DEFINE base == CASE f.label = "high" -> 800 [] f.label = "moderate" -> 500 [] f.label = "low" -> 250
                     [] f.label = "negative" -> 100 [] OTHER -> 400
           more == IF f.marginGoes # "" /\ f.revenueGoes = "up" THEN 200
                   ELSE IF f.marginGoes = "up" /\ f.revenueGoes = "" THEN 100 ELSE 0
<1>1. base \in Int
  BY Z3
<1>2. more \in Int
  OBVIOUS
<1>3. base + more \in Int
  <2> HIDE DEF base, more
  <2> QED BY <1>1, <1>2
<1>4. TorqueRated(Torque!Clamp(base + more))
  <2> HIDE DEF base, more
  <2> QED BY <1>3, TorqueClampRange
<1>5. CASE f.available
  <2>1. Torque!Operating(f) = Torque!Clamp(base + more)
    BY <1>5 DEF Torque!Operating
  <2> QED BY <1>4, <1>5, <2>1
<1>6. CASE ~f.available
  BY <1>6 DEF Torque!Operating, Torque!Neutral, TorqueRated
<1> QED BY <1>5, <1>6

LEMMA TorqueTechnicalRange ==
  ASSUME NEW h \in TorqueCharts
  PROVE  TorqueRated(Torque!Technical(h)) /\ (Torque!Overheated(h) => Torque!Technical(h) = 150)
<1> DEFINE perf == IF h.perf6 # None THEN h.perf6 ELSE h.perf3
           points == Torque!Neutral + Torque!PerfPoints(perf) + Torque!RsiPoints(h.rsi)
                     + Torque!AveragePoints(h.over50) + Torque!HighPoints(h.over52)
<1>1. Torque!PerfPoints(perf) \in Int
  BY DEF Torque!PerfPoints
<1>2. Torque!RsiPoints(h.rsi) \in Int
  BY DEF Torque!RsiPoints
<1>3. Torque!AveragePoints(h.over50) \in Int
  BY DEF Torque!AveragePoints
<1>4. Torque!HighPoints(h.over52) \in Int
  BY DEF Torque!HighPoints
<1>5. points \in Int
  BY <1>1, <1>2, <1>3, <1>4 DEF Torque!Neutral
<1>6. TorqueRated(Torque!Clamp(points))
  BY <1>5, TorqueClampRange
<1> QED BY <1>6 DEF Torque!Technical, TorqueRated

LEMMA TorqueTagRange ==
  ASSUME NEW f \in TorqueFilings, NEW p \in TorqueProfiles
  PROVE  (Torque!Tag(f, p) \in Int /\ 300 <= Torque!Tag(f, p) /\ Torque!Tag(f, p) <= 800)
BY DEF Torque!Tag, Torque!Neutral

(* The total stays between 0 and 100, and the advice is one of the five,   *)
(* whatever the inputs.                                                    *)
LEMMA TorqueTotalRange ==
  ASSUME NEW f \in TorqueFilings, NEW p \in TorqueProfiles, NEW h \in TorqueCharts
  PROVE  Torque!Total(f, p, h) \in Int /\ 0 <= Torque!Total(f, p, h) /\ Torque!Total(f, p, h) <= 100000
<1>1. /\ TorqueRated(Torque!Revenue(f)) /\ TorqueRated(Torque!Margin(f)) /\ TorqueRated(Torque!Valuation(f, p))
      /\ TorqueRated(Torque!Operating(f)) /\ TorqueRated(Torque!Technical(h))
      /\ Torque!Tag(f, p) \in Int /\ 300 <= Torque!Tag(f, p) /\ Torque!Tag(f, p) <= 800
  BY TorqueRevenueRange, TorqueMarginRange, TorqueValuationRange, TorqueOperatingRange,
     TorqueTechnicalRange, TorqueTagRange
<1> QED BY <1>1 DEF Torque!Total, TorqueRated

LEMMA TorqueTyped ==
  ASSUME Torque!TypeOK, [Torque!Next]_(Torque!vars)
  PROVE  Torque!TypeOK'
<1>1. CASE Torque!Compute
  <2>1. Torque!Total(filing, profile, chart) \in Nat /\ Torque!Total(filing, profile, chart) <= 100000
    BY TorqueTotalRange DEF Torque!TypeOK
  <2>2. \A total, revenue, technical, stale : Torque!Stage(total, revenue, technical, stale) \in Torque!Stages
    BY DEF Torque!Stage, Torque!Stages
  <2>3. \A named : Torque!Advice(named) \in Torque!Recommendations
    BY DEF Torque!Advice, Torque!Recommendations
  <2> QED BY <1>1, <2>1, <2>2, <2>3 DEF Torque!Compute, Torque!TypeOK, Torque!StageOf
<1>2. CASE UNCHANGED Torque!vars
  BY <1>2 DEF Torque!TypeOK, Torque!vars
<1> QED BY <1>1, <1>2 DEF Torque!Next

-----------------------------------------------------------------------------
(* The three neutral components of missing filings weigh 60 of 100; with   *)
(* all the others at their best the total stays at 68.                     *)
LEMMA TorqueUnfiledTotal ==
  ASSUME NEW f \in TorqueFilings, NEW p \in TorqueProfiles, NEW h \in TorqueCharts, ~f.available
  PROVE  Torque!Total(f, p, h) <= 68000
<1>1. Torque!Revenue(f) = 500 /\ Torque!Margin(f) = 500 /\ Torque!Operating(f) = 500
  BY TorqueRevenueRange, TorqueMarginRange, TorqueOperatingRange
<1>2. /\ TorqueRated(Torque!Valuation(f, p)) /\ TorqueRated(Torque!Technical(h))
      /\ Torque!Tag(f, p) \in Int /\ 300 <= Torque!Tag(f, p) /\ Torque!Tag(f, p) <= 800
  BY TorqueValuationRange, TorqueTechnicalRange, TorqueTagRange
<1> QED BY <1>1, <1>2 DEF Torque!Total, TorqueRated

LEMMA TorqueSpringNeeds ==
  ASSUME NEW f \in TorqueFilings, NEW p \in TorqueProfiles, NEW h \in TorqueCharts,
         Torque!Advice(Torque!StageOf(f, p, h)) = "BUY"
  PROVE  /\ Torque!Total(f, p, h) >= 75000
         /\ Torque!Technical(h) >= 500
         /\ Torque!Revenue(f) >= 500
BY DEF Torque!Advice, Torque!StageOf, Torque!Stage

(* A result is what its inputs give.                                       *)
TorqueComputed ==
  result # None =>
    /\ result.total = Torque!Total(filing, profile, chart)
    /\ result.advice = Torque!Advice(Torque!StageOf(filing, profile, chart))

TorqueInv == Torque!TypeOK /\ TorqueComputed

LEMMA TorqueStart ==
  ASSUME Torque!Init
  PROVE  TorqueInv
BY DEF Torque!Init, Torque!TypeOK, TorqueComputed, TorqueInv

LEMMA TorqueStep ==
  ASSUME TorqueInv, [Torque!Next]_(Torque!vars)
  PROVE  TorqueInv'
<1>1. Torque!TypeOK'
  BY TorqueTyped DEF TorqueInv
<1>2. CASE Torque!Compute
  <2>1. /\ UNCHANGED <<filing, profile, chart>>
        /\ result'.total = Torque!Total(filing, profile, chart)
        /\ result'.advice = Torque!Advice(Torque!StageOf(filing, profile, chart))
    BY <1>2 DEF Torque!Compute
  <2> QED BY <1>1, <2>1 DEF TorqueComputed, TorqueInv
<1>3. CASE UNCHANGED Torque!vars
  BY <1>1, <1>3 DEF TorqueComputed, TorqueInv, Torque!vars
<1> QED BY <1>2, <1>3 DEF Torque!Next

(* A BUY needs filings that were read, revenue that does not fall and a    *)
(* chart that is not overheated: no price, chart or industry makes up for  *)
(* the neutral scores of missing filings.                                  *)
LEMMA TorqueBuys ==
  ASSUME TorqueInv
  PROVE  Torque!BuyIsEarned
<1> SUFFICES ASSUME result # None, result.advice = "BUY"
             PROVE  /\ filing.available
                    /\ Torque!Growth(filing) # None => Torque!Growth(filing) >= 0
                    /\ ~Torque!Overheated(chart)
                    /\ result.total >= 75000
  BY DEF Torque!BuyIsEarned
<1>1. filing \in TorqueFilings /\ profile \in TorqueProfiles /\ chart \in TorqueCharts
  BY DEF TorqueInv, Torque!TypeOK
<1>2. /\ Torque!Advice(Torque!StageOf(filing, profile, chart)) = "BUY"
      /\ result.total = Torque!Total(filing, profile, chart)
  BY DEF TorqueInv, TorqueComputed
<1>3. /\ Torque!Total(filing, profile, chart) >= 75000
      /\ Torque!Technical(chart) >= 500 /\ Torque!Revenue(filing) >= 500
  BY <1>1, <1>2, TorqueSpringNeeds
<1>4. filing.available
  <2>1. Torque!Total(filing, profile, chart) \in Int
    BY <1>1, TorqueTotalRange
  <2> QED BY <1>1, <1>3, <2>1, TorqueUnfiledTotal
<1>5. Torque!Growth(filing) # None => Torque!Growth(filing) >= 0
  BY <1>1, <1>3, <1>4, TorqueRevenueRange, TorqueGrowthType
<1>6. ~Torque!Overheated(chart)
  BY <1>1, <1>3, TorqueTechnicalRange
<1> QED BY <1>2, <1>3, <1>4, <1>5, <1>6

-----------------------------------------------------------------------------
LEMMA TorqueFractionStays ==
  ASSUME NEW x \in Int, -500 <= x, x <= 500
  PROVE  Torque!Percent(x) = x
<1>1. x # None
  BY TorqueAssumed DEF Torque!TorqueAssumption
<1> QED BY <1>1 DEF Torque!Percent

(* The bands rise with growth.                                             *)
LEMMA TorqueBandGrows ==
  ASSUME NEW x \in Int, NEW y \in Int, x <= y, NEW acc \in BOOLEAN
  PROVE  /\ Torque!RevenueBand(x, acc) \in {0, 300, 600, 650, 800, 1000}
         /\ Torque!RevenueBand(y, acc) \in {0, 300, 600, 650, 800, 1000}
         /\ Torque!RevenueBand(x, acc) <= Torque!RevenueBand(y, acc)
BY DEF Torque!RevenueBand

LEMMA TorqueClampGrows ==
  ASSUME NEW x \in Int, NEW y \in Int, x <= y
  PROVE  Torque!Clamp(x) <= Torque!Clamp(y)
BY DEF Torque!Clamp

(* A filing with more growth, both given as fractions and neither 0.       *)
LEMMA TorqueGrowthGrows ==
  ASSUME NEW f \in TorqueFilings, NEW p \in TorqueProfiles, NEW h \in TorqueCharts, NEW g \in Int,
         f.yoy # None, f.yoy # 0, g # 0, -500 <= f.yoy, g <= 500, g > f.yoy
  PROVE  Torque!Total([f EXCEPT !.yoy = g], p, h) >= Torque!Total(f, p, h)
<1> DEFINE e == [f EXCEPT !.yoy = g]
<1>1. /\ e.yoy = g /\ e.available = f.available /\ e.accelerating = f.accelerating
      /\ e.qoq = f.qoq /\ e.margin = f.margin /\ e.leverage = f.leverage /\ e.label = f.label
      /\ e.marginGoes = f.marginGoes /\ e.revenueGoes = f.revenueGoes
  BY TorqueAssumed DEF Torque!TorqueAssumption
<1>2. f.yoy \in Int /\ g # None
  BY TorqueFilingTypes, TorqueAssumed DEF Torque!TorqueAssumption, Torque!Optional
<1>3. Torque!Growth(e) = g /\ Torque!Growth(f) = f.yoy /\ Torque!Reported(e) = g /\ Torque!Reported(f) = f.yoy
  <2>1. Torque!Or(e.yoy, e.accelYoy) = g /\ Torque!Or(e.yoy, None) = g
    <3> HIDE DEF e
    <3> QED BY <1>1, <1>2 DEF Torque!Or
  <2>2. Torque!Or(f.yoy, f.accelYoy) = f.yoy /\ Torque!Or(f.yoy, None) = f.yoy
    BY <1>2 DEF Torque!Or
  <2>3. Torque!Percent(g) = g
    <3>1. -500 <= g
      BY <1>2
    <3> QED BY <3>1, TorqueFractionStays
  <2>4. Torque!Percent(f.yoy) = f.yoy
    <3>1. f.yoy <= 500
      BY <1>2
    <3> QED BY <1>2, <3>1, TorqueFractionStays
  <2>5. f.yoy # None
    OBVIOUS
  <2> HIDE DEF e
  <2> QED BY <1>1, <1>2, <2>1, <2>2, <2>3, <2>4, <2>5 DEF Torque!Growth, Torque!Reported
<1> HIDE DEF e
<1>4. Torque!Margin(e) = Torque!Margin(f) /\ Torque!Operating(e) = Torque!Operating(f) /\ Torque!Slows(e) = Torque!Slows(f)
  BY <1>1 DEF Torque!Margin, Torque!Leverage, Torque!Operating, Torque!Slows
<1>5. Torque!Revenue(e) >= Torque!Revenue(f) /\ Torque!Revenue(e) \in Int /\ Torque!Revenue(f) \in Int
  <2>1. CASE ~f.available
    BY <1>1, <2>1 DEF Torque!Revenue, Torque!Neutral
  <2>2. CASE f.available
    <3>1. /\ Torque!RevenueBand(f.yoy, f.accelerating) \in {0, 300, 600, 650, 800, 1000}
          /\ Torque!RevenueBand(g, f.accelerating) \in {0, 300, 600, 650, 800, 1000}
          /\ Torque!RevenueBand(f.yoy, f.accelerating) <= Torque!RevenueBand(g, f.accelerating)
      BY <1>2, TorqueFilingTypes, TorqueBandGrows
    <3>2. Torque!Growth(e) # None /\ Torque!Growth(f) # None /\ e.available
      BY <1>1, <1>2, <1>3, <2>2, TorqueAssumed DEF Torque!TorqueAssumption
    <3> DEFINE slowed(band) == IF Torque!Slows(f) /\ band > 300 THEN (IF band - 150 > 300 THEN band - 150 ELSE 300) ELSE band
    <3>3. Torque!Revenue(f) = slowed(Torque!RevenueBand(f.yoy, f.accelerating))
      BY <1>3, <2>2, <3>2 DEF Torque!Revenue
    <3>4. Torque!Revenue(e) = slowed(Torque!RevenueBand(g, f.accelerating))
      BY <1>1, <1>3, <1>4, <3>2 DEF Torque!Revenue
    <3>5. \A x, y \in {0, 300, 600, 650, 800, 1000} :
            x <= y => slowed(x) <= slowed(y) /\ slowed(x) \in Int /\ slowed(y) \in Int
      OBVIOUS
    <3> HIDE DEF slowed
    <3> QED BY <3>1, <3>3, <3>4, <3>5
  <2> QED BY <2>1, <2>2
<1>6. Torque!Valuation(e, p) >= Torque!Valuation(f, p)
  <2> DEFINE ps == Torque!Or(p.multiple, None)
  <2>1. CASE ps = None
    BY <2>1 DEF Torque!Valuation, Torque!Neutral
  <2>2. CASE ps # None
    <3>1. ps \in Int
      BY <2>2, TorqueAssumed DEF Torque!Or, Torque!TorqueAssumption, Torque!Optional
    <3> DEFINE score(rate) == 1000 - ps * rate - (IF ps > 80 THEN (ps - 80) * 8 ELSE 0)
                              + (IF p.midCap THEN 100 ELSE 0)
    <3>2. Torque!Valuation(f, p) = Torque!Clamp(score(IF f.yoy > 15 THEN 15 ELSE 25))
      BY <1>3, <2>2 DEF Torque!Valuation
    <3>3. Torque!Valuation(e, p) = Torque!Clamp(score(IF g > 15 THEN 15 ELSE 25))
      BY <1>3, <2>2 DEF Torque!Valuation
    <3>4. score(15) \in Int /\ score(25) \in Int
      BY <3>1
    <3>5. CASE ps >= 0
      <4>1. score(25) <= score(15)
        BY <3>1, <3>5
      <4>2. /\ Torque!Clamp(score(25)) <= Torque!Clamp(score(15))
            /\ Torque!Clamp(score(15)) <= Torque!Clamp(score(15))
            /\ Torque!Clamp(score(25)) <= Torque!Clamp(score(25))
        <5> HIDE DEF score
        <5> QED BY <3>4, <4>1, TorqueClampGrows
      <4>3. Torque!Clamp(score(25)) \in Int /\ Torque!Clamp(score(15)) \in Int
        <5> HIDE DEF score
        <5> QED BY <3>4 DEF Torque!Clamp
      <4>4. f.yoy > 15 => g > 15
        BY <1>2
      <4> HIDE DEF score
      <4> QED BY <3>2, <3>3, <4>2, <4>3, <4>4
    <3>6. CASE ps < 0
      <4>1. score(25) >= 1000 /\ score(15) >= 1000
        BY <3>1, <3>6
      <4>2. Torque!Clamp(score(25)) = 1000 /\ Torque!Clamp(score(15)) = 1000
        <5> HIDE DEF score
        <5> QED BY <3>4, <4>1 DEF Torque!Clamp
      <4> HIDE DEF score
      <4> QED BY <3>2, <3>3, <4>2
    <3> QED BY <3>1, <3>5, <3>6
  <2> QED BY <2>1, <2>2
<1>7. Torque!Tag(e, p) >= Torque!Tag(f, p)
  BY <1>2, <1>3 DEF Torque!Tag, Torque!Neutral
<1>8. /\ Torque!Valuation(f, p) \in Int /\ Torque!Tag(f, p) \in Int /\ Torque!Tag(e, p) \in Int
      /\ Torque!Margin(f) \in Int /\ Torque!Operating(f) \in Int /\ Torque!Technical(h) \in Int
  BY TorqueValuationRange, TorqueTagRange, TorqueMarginRange, TorqueOperatingRange, TorqueTechnicalRange
  DEF TorqueRated, Torque!Tag, Torque!Neutral
<1>9. Torque!Valuation(e, p) \in Int
  <2>1. CASE Torque!Or(p.multiple, None) = None
    BY <2>1 DEF Torque!Valuation, Torque!Neutral
  <2>2. CASE Torque!Or(p.multiple, None) # None
    <3> DEFINE ps == Torque!Or(p.multiple, None)
               rate == IF Torque!Reported(e) > 15 THEN 15 ELSE 25
    <3>1. ps \in Int /\ rate \in {15, 25}
      BY <2>2, TorqueAssumed DEF Torque!Or, Torque!TorqueAssumption, Torque!Optional
    <3>2. 1000 - ps * rate - (IF ps > 80 THEN (ps - 80) * 8 ELSE 0) + (IF p.midCap THEN 100 ELSE 0) \in Int
      <4>1. ps * rate \in Int
        BY <3>1
      <4> HIDE DEF ps, rate
      <4> QED BY <3>1, <4>1
    <3>3. TorqueRated(Torque!Clamp(1000 - ps * rate - (IF ps > 80 THEN (ps - 80) * 8 ELSE 0) + (IF p.midCap THEN 100 ELSE 0)))
      BY <3>2, TorqueClampRange
    <3> QED BY <2>2, <3>3 DEF Torque!Valuation, TorqueRated
  <2> QED BY <2>1, <2>2
<1> QED BY <1>4, <1>5, <1>6, <1>7, <1>8, <1>9 DEF Torque!Total, e

(* Faster growth never lowers the total, for every filing, profile and     *)
(* chart.                                                                  *)
LEMMA TorqueGrows ==
  ASSUME TorqueInv
  PROVE  Torque!GrowthNeverHurts
<1> SUFFICES ASSUME result # None, filing.yoy # None, NEW g \in Growths,
                    g > filing.yoy, g <= 500, filing.yoy >= -500, 0 \notin {g, filing.yoy}
             PROVE  Torque!Total([filing EXCEPT !.yoy = g], profile, chart) >= result.total
  BY DEF Torque!GrowthNeverHurts
<1>1. g \in Int /\ g # 0 /\ filing.yoy # 0
  BY TorqueAssumed DEF Torque!TorqueAssumption
<1>2. filing \in TorqueFilings /\ profile \in TorqueProfiles /\ chart \in TorqueCharts
  BY DEF TorqueInv, Torque!TypeOK
<1>3. -500 <= filing.yoy
  BY <1>2, TorqueFilingTypes DEF Torque!Optional
<1>4. Torque!Total([filing EXCEPT !.yoy = g], profile, chart) >= Torque!Total(filing, profile, chart)
  BY <1>1, <1>2, <1>3, TorqueGrowthGrows
<1> QED BY <1>4 DEF TorqueInv, TorqueComputed

LEMMA TorquePromised ==
  ASSUME TorqueInv
  PROVE  Torque!TypeOK /\ Torque!BuyIsEarned /\ Torque!GrowthNeverHurts
BY TorqueBuys, TorqueGrows DEF TorqueInv

(* TypeOK, BuyIsEarned and GrowthNeverHurts (TorqueScore): the score is in *)
(* range, a BUY rests on filings, growth and a chart, and faster growth    *)
(* never lowers it, for every filing, profile and chart.                   *)
THEOREM TorqueKept == Torque!Spec => [](Torque!TypeOK /\ Torque!BuyIsEarned /\ Torque!GrowthNeverHurts)
BY TorquePromised, TorqueStart, TorqueStep, PTL DEF Torque!Spec

-----------------------------------------------------------------------------
(* Reclassification: a result is what it was computed from, and the rest   *)
(* is about the operators alone.                                           *)
LEMMA ReclassAssumed == Reclass!ReclassAssumption
BY ScoresAssumption

ReclassInv ==
  /\ filing \in ReclassFilings /\ profile \in ReclassProfiles /\ chart \in ReclassCharts /\ story \in Stories
  /\ result = None \/ result = Reclass!Outcome(filing, profile, chart, story)

LEMMA ReclassStart ==
  ASSUME Reclass!Init
  PROVE  ReclassInv
BY DEF Reclass!Init, ReclassInv

LEMMA ReclassStep ==
  ASSUME ReclassInv, [Reclass!Next]_(Reclass!vars)
  PROVE  ReclassInv'
BY DEF ReclassInv, Reclass!Next, Reclass!ScoreReclassification, Reclass!vars

(* The walk ends on a stage that was reached.                              *)
LEMMA ReclassHighestReached ==
  ASSUME NEW met, met \subseteq {0, 1, 2, 4, 5}
  PROVE  Reclass!Highest(met) = 0 \/ Reclass!Highest(met) \in Reclass!Reached(met)
<1>1. CASE Reclass!Reached(met) = {}
  BY <1>1 DEF Reclass!Highest
<1>2. CASE Reclass!Reached(met) # {}
  <2>1. Reclass!Reached(met) \subseteq {0, 1, 2, 4, 5}
    BY DEF Reclass!Reached
  <2>2. \E k \in Reclass!Reached(met) : \A j \in Reclass!Reached(met) : j <= k
    BY <1>2, <2>1
  <2> QED BY <1>2, <2>2 DEF Reclass!Highest
<1> QED BY <1>1, <1>2

LEMMA ReclassStagesOf ==
  ASSUME NEW f, NEW h, NEW s, NEW growth,
         growth = None \/ growth \in Int
  PROVE  LET stage == Reclass!Stage(f, growth, h, s) IN
         /\ stage \in 0..5
         /\ stage = 2 => Reclass!Sold(s) /\ Reclass!Bends(f, growth)
         /\ stage >= 4 => Reclass!RanUp(h, s)
         /\ stage = 5 => Reclass!Falls(h) \/ (growth # None /\ growth < 10)
         /\ stage >= 2 => Reclass!Filed(f)
<1> DEFINE met == Reclass!Met(f, growth, h, s)
           highest == Reclass!Highest(met)
<1>1. /\ met \subseteq {0, 1, 2, 4, 5}
      /\ 1 \in met => Reclass!Sold(s)
      /\ 2 \in met => Reclass!Bends(f, growth)
      /\ 4 \in met => Reclass!RanUp(h, s)
      /\ 5 \in met => Reclass!Tired(f, growth, h, s)
  BY DEF Reclass!Met
<1>2. 5 \in met => Reclass!RanUp(h, s) /\ (Reclass!Falls(h) \/ (growth # None /\ growth < 10))
  BY <1>1 DEF Reclass!Tired, Reclass!Fades, Reclass!Bends
<1>3. highest = 0 \/ highest \in Reclass!Reached(met)
  BY <1>1, ReclassHighestReached
<1>4. /\ highest \in {0, 1, 2, 4, 5}
      /\ highest # 0 => highest \in met
      /\ highest = 2 => 1 \in met
  BY <1>1, <1>3 DEF Reclass!Reached
<1>5. /\ highest = 2 => Reclass!Sold(s) /\ Reclass!Bends(f, growth)
      /\ highest >= 4 => Reclass!RanUp(h, s)
      /\ highest = 5 => Reclass!Falls(h) \/ (growth # None /\ growth < 10)
  BY <1>1, <1>2, <1>4
<1>6. /\ Reclass!Stage(f, growth, h, s) \in {highest, 1}
      /\ ~Reclass!Filed(f) => Reclass!Stage(f, growth, h, s) <= 1
  BY <1>4 DEF Reclass!Stage
<1> HIDE DEF met, highest
<1> QED BY <1>4, <1>5, <1>6

(* The signals that targets are computed from are in bounds.               *)
ReclassSound(x) ==
  /\ x.revenue = None \/ (x.revenue \in Int /\ x.revenue > 0)
  /\ x.margin = None \/ x.margin \in 0..100
  /\ x.cost = None \/ x.cost \in Nat
  /\ x.growth = None \/ x.growth \in Int

LEMMA ReclassPresumedRange ==
  ASSUME NEW operating \in Int
  PROVE  Reclass!Presumed(operating) \in 0..100
BY DEF Reclass!Presumed, Reclass!Clip

LEMMA ReclassCostRange ==
  ASSUME NEW margin \in Int, NEW operating \in Int, NEW revenue \in Int, revenue > 0
  PROVE  Reclass!CostBelow(margin, operating, revenue) \in Nat
<1>1. CASE margin > operating
  <2>1. \A x, y \in Nat : x * y \in Nat
    OBVIOUS
  <2>2. margin - operating \in Nat /\ revenue \in Nat
    BY <1>1
  <2> QED BY <1>1, <2>1, <2>2 DEF Reclass!CostBelow
<1>2. CASE ~(margin > operating)
  BY <1>2 DEF Reclass!CostBelow
<1> QED BY <1>1, <1>2

LEMMA ReclassSourcesSound ==
  ASSUME NEW f \in ReclassFilings, NEW p \in ReclassProfiles
  PROVE  /\ ReclassSound(Reclass!FromFacts(f, p)) /\ ReclassSound(Reclass!FromProfile(p))
         /\ ReclassSound(Reclass!Signals(f, p))
<1>1. /\ f.revenue \in Reclass!Optional(Int) /\ f.operating \in Reclass!Optional(Int)
      /\ p.revenue \in Reclass!Optional(Int) /\ p.gross \in Reclass!Optional(Int)
      /\ p.operating \in Reclass!Optional(Int)
      /\ p.growth \in Reclass!Optional(Int) /\ None \notin Int
  BY ReclassAssumed DEF Reclass!ReclassAssumption, Reclass!FilingType, Reclass!ProfileType
<1>2. ReclassSound(Reclass!Nothing)
  BY DEF ReclassSound, Reclass!Nothing
<1>3. ReclassSound(Reclass!FromFacts(f, p))
  <2>1. CASE ~Reclass!Positive(f.revenue)
    BY <1>2, <2>1 DEF Reclass!FromFacts
  <2>2. CASE Reclass!Positive(f.revenue) /\ f.operating = None
    BY <1>1, <2>2 DEF Reclass!FromFacts, ReclassSound, Reclass!Positive, Reclass!Optional
  <2>3. CASE Reclass!Positive(f.revenue) /\ f.operating # None
    <3>1. f.operating \in Int /\ f.revenue \in Int /\ f.revenue > 0
      BY <1>1, <2>3 DEF Reclass!Positive, Reclass!Optional
    <3>2. Reclass!Presumed(f.operating) \in 0..100 /\ Reclass!Presumed(f.operating) \in Int
      BY <3>1, ReclassPresumedRange
    <3>3. Reclass!CostBelow(Reclass!Presumed(f.operating), f.operating, f.revenue) \in Nat
      BY <3>1, <3>2, ReclassCostRange
    <3> QED BY <1>1, <2>3, <3>1, <3>2, <3>3 DEF Reclass!FromFacts, ReclassSound, Reclass!Optional
  <2> QED BY <2>1, <2>2, <2>3
<1>4. ReclassSound(Reclass!FromProfile(p))
  <2>1. CASE ~Reclass!Positive(p.revenue)
    BY <1>2, <2>1 DEF Reclass!FromProfile
  <2>2. CASE Reclass!Positive(p.revenue)
    <3>1. p.revenue \in Int /\ p.revenue > 0
      BY <1>1, <2>2 DEF Reclass!Positive, Reclass!Optional
    <3>2. Reclass!ProfileMargin(p) = None \/ Reclass!ProfileMargin(p) \in 0..100
      <4>1. CASE Reclass!Within(1, p.gross, 100)
        BY <1>1, <4>1 DEF Reclass!ProfileMargin, Reclass!Within, Reclass!Optional
      <4>2. CASE ~Reclass!Within(1, p.gross, 100) /\ Reclass!Within(-100, p.operating, 100)
        <5>1. p.operating \in Int
          BY <1>1, <4>2 DEF Reclass!Within, Reclass!Optional
        <5> QED BY <4>2, <5>1, ReclassPresumedRange DEF Reclass!ProfileMargin
      <4>3. CASE ~Reclass!Within(1, p.gross, 100) /\ ~Reclass!Within(-100, p.operating, 100)
        BY <4>3 DEF Reclass!ProfileMargin
      <4> QED BY <4>1, <4>2, <4>3
    <3>3. Reclass!ProfileMargin(p) # None /\ Reclass!Within(-100, p.operating, 100)
            => Reclass!CostBelow(Reclass!ProfileMargin(p), p.operating, p.revenue) \in Nat
      <4> SUFFICES ASSUME Reclass!ProfileMargin(p) # None, Reclass!Within(-100, p.operating, 100)
                   PROVE  Reclass!CostBelow(Reclass!ProfileMargin(p), p.operating, p.revenue) \in Nat
        OBVIOUS
      <4>1. Reclass!ProfileMargin(p) \in Int /\ p.operating \in Int
        BY <1>1, <3>2 DEF Reclass!Within, Reclass!Optional
      <4> QED BY <3>1, <4>1, ReclassCostRange
    <3> QED BY <1>1, <2>2, <3>1, <3>2, <3>3 DEF Reclass!FromProfile, ReclassSound, Reclass!Optional
  <2> QED BY <2>1, <2>2
<1>5. ReclassSound(Reclass!Merge(Reclass!FromFacts(f, p), Reclass!FromProfile(p)))
  BY <1>3, <1>4 DEF Reclass!Merge, Reclass!Or, ReclassSound
<1> QED BY <1>3, <1>4, <1>5 DEF Reclass!Signals

(* The arithmetic of the three scenarios, with the products as unknowns.   *)
LEMMA ReclassScenariosInOrder ==
  ASSUME NEW x, NEW growth \in Nat, NEW gap \in Nat,
         x.revenue \in Nat, x.margin \in 0..100, x.cost \in Nat
  PROVE  /\ Reclass!Bear(x) \in Int /\ Reclass!Base(x, growth) \in Int /\ Reclass!Bull(x, growth, gap) \in Int
         /\ Reclass!Bear(x) > 0 => Reclass!Base(x, growth) >= Reclass!Bear(x)
         /\ Reclass!Base(x, growth) > 0 => Reclass!Bull(x, growth, gap) >= Reclass!Base(x, growth)
<1> DEFINE r == x.revenue
           m == x.margin
           k == x.cost
           q == r * m
           z == q * growth
           n == r * growth
           plain == 100 * q + z - 100 * k
           best == 1000 * q + 13 * z + 2000 * r + 26 * n - 1000 * k
<1>1. \A u, o \in Nat : u * o \in Nat
  OBVIOUS
<1>2. r \in Nat /\ m \in Nat /\ k \in Nat
  OBVIOUS
<1>3. q \in Nat /\ z \in Nat /\ n \in Nat
  <2>1. q \in Nat
    BY <1>1, <1>2
  <2>2. z \in Nat
    BY <1>1, <2>1
  <2> QED BY <1>1, <1>2, <2>1, <2>2
<1>4. Reclass!Bear(x) = 240000 * (q - 3 * r - k)
  BY <1>2 DEF Reclass!Bear
<1>5. Reclass!Base(x, growth) = 4000 * plain
  <2>1. r * (100 + growth) * m = 100 * q + z
    BY <1>2
  <2> QED BY <2>1 DEF Reclass!Base
<1>6. Reclass!Bull(x, growth, gap) = 28 * (20 + gap) * best
  <2>1. r * (1000 + 13 * growth) * (m + 2) = 1000 * q + 13 * z + 2000 * r + 26 * n
    BY <1>2
  <2> QED BY <2>1 DEF Reclass!Bull
<1> HIDE DEF q, z, n
<1>7. plain \in Int /\ best \in Int /\ (plain > 0 => best >= 10 * plain)
  BY <1>2, <1>3
<1>8. Reclass!Bear(x) > 0 => Reclass!Base(x, growth) >= Reclass!Bear(x)
  BY <1>2, <1>3, <1>4, <1>5
<1>9. ASSUME plain > 0
      PROVE  28 * (20 + gap) * best >= 4000 * plain
  <2>1. best \in Nat
    BY <1>7, <1>9
  <2>2. gap * best \in Nat
    BY <1>1, <2>1
  <2>3. 28 * (20 + gap) * best = 560 * best + 28 * (gap * best)
    BY <2>1
  <2> QED BY <1>7, <1>9, <2>1, <2>2, <2>3
<1> HIDE DEF plain, best
<1>10. Reclass!Bear(x) \in Int /\ Reclass!Base(x, growth) \in Int /\ Reclass!Bull(x, growth, gap) \in Int
  <2>1. \A u, o \in Int : u * o \in Int
    OBVIOUS
  <2>2. 28 * (20 + gap) * best \in Int
    BY <1>7, <2>1
  <2> QED BY <1>2, <1>3, <1>4, <1>5, <1>6, <1>7, <2>2
<1> QED BY <1>5, <1>6, <1>7, <1>8, <1>9, <1>10

LEMMA ReclassTargetsOf ==
  ASSUME NEW x, ReclassSound(x), NEW gap \in Nat, Reclass!Or(x.growth, 0) >= 0
  PROVE  LET targets == Reclass!Targets(x, gap) IN
         /\ targets.low # None => targets.mid # None /\ targets.low <= targets.mid
         /\ targets.mid # None => targets.high # None /\ targets.mid <= targets.high
<1> DEFINE growth == Reclass!Or(x.growth, 0)
           low == IF x.margin <= 3 THEN 0 ELSE Reclass!Bear(x)
           mid == IF x.margin <= 0 THEN 0 ELSE Reclass!Base(x, growth)
           high == Reclass!Bull(x, growth, gap)
<1>1. CASE ~Reclass!Complete(x)
  BY <1>1 DEF Reclass!Targets
<1>2. CASE Reclass!Complete(x)
  <2>1. x.revenue \in Nat /\ x.margin \in 0..100 /\ x.cost \in Nat /\ growth \in Nat
    BY <1>2 DEF Reclass!Complete, ReclassSound, Reclass!Or
  <2>2. /\ Reclass!Bear(x) \in Int /\ Reclass!Base(x, growth) \in Int /\ high \in Int
        /\ Reclass!Bear(x) > 0 => Reclass!Base(x, growth) >= Reclass!Bear(x)
        /\ Reclass!Base(x, growth) > 0 => high >= Reclass!Base(x, growth)
    BY <2>1, ReclassScenariosInOrder
  <2>3. /\ low \in Int /\ mid \in Int /\ high \in Int
        /\ low > 0 => mid >= low
        /\ mid > 0 => high >= mid
    BY <2>1, <2>2
  <2>4. /\ Reclass!Targets(x, gap).low = Reclass!Shown(low)
        /\ Reclass!Targets(x, gap).mid = Reclass!Shown(mid)
        /\ Reclass!Targets(x, gap).high = Reclass!Shown(high)
    BY <1>2 DEF Reclass!Targets
  <2>5. None \notin Int
    BY ReclassAssumed DEF Reclass!ReclassAssumption
  <2> HIDE DEF low, mid, high
  <2> QED BY <2>3, <2>4, <2>5 DEF Reclass!Shown
<1> QED BY <1>1, <1>2

(* Every proof stage is earned, for every filing, profile, chart and story.*)
LEMMA ReclassStages ==
  ASSUME ReclassInv
  PROVE  Reclass!StageIsEarned
<1> SUFFICES ASSUME result # None PROVE Reclass!StageIsEarned
  BY DEF Reclass!StageIsEarned
<1> DEFINE growth == Reclass!Signals(filing, profile).growth
<1>1. growth = None \/ growth \in Int
  BY ReclassSourcesSound DEF ReclassInv, ReclassSound
<1>2. result.stage = Reclass!Stage(filing, growth, chart, story)
  BY DEF ReclassInv, Reclass!Outcome
<1> HIDE DEF growth
<1>3. LET reached == Reclass!Stage(filing, growth, chart, story) IN
      /\ reached = 2 => Reclass!Sold(story) /\ Reclass!Bends(filing, growth)
      /\ reached >= 4 => Reclass!RanUp(chart, story)
      /\ reached = 5 => Reclass!Falls(chart) \/ (growth # None /\ growth < 10)
      /\ reached >= 2 => Reclass!Filed(filing)
  BY <1>1, ReclassStagesOf
<1> QED BY <1>2, <1>3 DEF Reclass!StageIsEarned, growth

(* The targets are in order unless revenue shrinks, whichever of the three *)
(* sources the numbers come from and however they are mixed.               *)
LEMMA ReclassTargets ==
  ASSUME ReclassInv
  PROVE  Reclass!TargetsInOrder
<1> SUFFICES ASSUME result # None, Reclass!Or(Reclass!Signals(filing, profile).growth, 0) >= 0
             PROVE  Reclass!TargetsInOrder
  BY DEF Reclass!TargetsInOrder
<1> DEFINE x == Reclass!Signals(filing, profile)
           gap == Reclass!Gap(filing, profile, story)
<1>1. ReclassSound(x)
  BY ReclassSourcesSound DEF ReclassInv
<1>2. gap \in Nat
  <2>1. x.growth = None \/ x.growth \in Int
    BY <1>1 DEF ReclassSound
  <2> QED BY <2>1 DEF Reclass!Gap, Reclass!Clip
<1>3. /\ result.low = Reclass!Targets(x, gap).low
      /\ result.mid = Reclass!Targets(x, gap).mid
      /\ result.high = Reclass!Targets(x, gap).high
  BY DEF ReclassInv, Reclass!Outcome
<1>4. Reclass!Or(x.growth, 0) >= 0
  OBVIOUS
<1> HIDE DEF x, gap
<1>5. LET targets == Reclass!Targets(x, gap) IN
      /\ targets.low # None => targets.mid # None /\ targets.low <= targets.mid
      /\ targets.mid # None => targets.high # None /\ targets.mid <= targets.high
  BY <1>1, <1>2, <1>4, ReclassTargetsOf
<1> QED BY <1>3, <1>5 DEF Reclass!TargetsInOrder

(* Stage and gap are on their scales, and no target is shown that is not a *)
(* price.                                                                  *)
LEMMA ReclassPromised ==
  ASSUME ReclassInv
  PROVE  Reclass!TypeOK /\ Reclass!StageIsEarned /\ Reclass!TargetsInOrder
<1> SUFFICES ASSUME result # None
             PROVE  /\ result.stage \in 0..5 /\ result.gap \in 0..10
                    /\ \A t \in {result.low, result.mid, result.high} : t # None => t > 0
  BY ReclassStages, ReclassTargets DEF ReclassInv, Reclass!TypeOK
<1> DEFINE x == Reclass!Signals(filing, profile)
           g == Reclass!Gap(filing, profile, story)
<1>1. x.growth = None \/ x.growth \in Int
  BY ReclassSourcesSound DEF ReclassInv, ReclassSound
<1>2. /\ result.gap = g
      /\ result.stage = Reclass!Stage(filing, x.growth, chart, story)
      /\ result.low = Reclass!Targets(x, g).low
      /\ result.mid = Reclass!Targets(x, g).mid
      /\ result.high = Reclass!Targets(x, g).high
  BY DEF ReclassInv, Reclass!Outcome
<1>3. g \in 0..10
  BY DEF Reclass!Gap, Reclass!Clip
<1> HIDE DEF x, g
<1>4. Reclass!Stage(filing, x.growth, chart, story) \in 0..5
  BY <1>1, ReclassStagesOf
<1>5. \A price : Reclass!Shown(price) # None => Reclass!Shown(price) > 0
  BY DEF Reclass!Shown
<1>6. \A t \in {result.low, result.mid, result.high} : t # None => t > 0
  BY <1>2, <1>5 DEF Reclass!Targets
<1> QED BY <1>2, <1>3, <1>4, <1>6

(* StageIsEarned and TargetsInOrder (Reclassification): a proof stage has  *)
(* its signs, and the three targets are in order unless revenue shrinks.   *)
THEOREM ReclassKept == Reclass!Spec => [](Reclass!TypeOK /\ Reclass!StageIsEarned /\ Reclass!TargetsInOrder)
BY ReclassPromised, ReclassStart, ReclassStep, PTL DEF Reclass!Spec

-----------------------------------------------------------------------------
(***************************************************************************)
(* The market data client.                                                 *)
(***************************************************************************)
Market == INSTANCE MarketData WITH
  Tickers <- Quoted, MaxEntries <- MaxQuotes, Ttl <- QuoteTtl, MaxCalls <- MaxMarketCalls

ASSUME MarketParameters == Market!MarketAssumption

MarketTask ==
  [at : {"idle", "fetch", "store", "quote", "answer", "failed"}, method : Market!Methods,
   ticker : Quoted \cup {None}, by : Market!Providers \cup {None}, fetched : BOOLEAN,
   named : Market!Providers \cup {None}]

(* A thread that fetched for an answer labelled after it was the last to   *)
(* set its label, and only history goes on to a quote.                     *)
MarketFetched(k, by) ==
  /\ k.at # "idle" => k.ticker \in Quoted
  /\ k.at = "store" => k.method \in Market!Cached
  /\ k.at = "quote" => k.method = "history"
  /\ k.fetched /\ k.method \in Market!LabelledAfter /\ k.at \in {"store", "answer"} =>
       k.by \in Market!Providers /\ by = k.by

MarketTyped ==
  /\ cache \in [Market!Cached -> [Quoted -> Market!Entry \cup {None}]]
  /\ label \in [Threads -> Market!Providers \cup {None}]
  /\ slots \in 0..SearchSlots /\ calls \in 0..MaxMarketCalls
  /\ task \in [Threads -> MarketTask]

MarketBounded(c) == IsFiniteSet(Market!Held(c)) /\ Cardinality(Market!Held(c)) <= MaxQuotes

MarketInv ==
  /\ MarketTyped
  /\ \A t \in Threads : MarketFetched(task[t], label[t])
  /\ \A m \in Market!Cached : MarketBounded(cache[m])
  /\ IsFiniteSet(Market!Searching) /\ slots + Cardinality(Market!Searching) = SearchSlots

LEMMA MarketAssumed ==
  /\ MaxQuotes \in Nat /\ MaxQuotes # 0 /\ QuoteTtl \in Nat /\ QuoteTtl # 0
  /\ SearchSlots \in Nat /\ MaxMarketCalls \in Nat /\ None \notin Market!Providers
BY MarketParameters DEF Market!MarketAssumption

LEMMA MarketCounts ==
  ASSUME NEW S
  PROVE  Market!Cardinality(S) = Cardinality(S)
BY DEF Market!Cardinality, Cardinality

LEMMA MarketStart ==
  ASSUME Market!Init
  PROVE  MarketInv
<1>1. MarketTyped
  BY MarketAssumed DEF Market!Init, MarketTyped, Market!Idle, MarketTask, Market!Methods, Market!Cached
<1>2. \A m \in Market!Cached : Market!Held(cache[m]) = {}
  BY DEF Market!Init, Market!Held
<1>3. Market!Searching = {}
  BY DEF Market!Init, Market!Searching, Market!Idle
<1>4. IsFiniteSet(Market!Searching) /\ Cardinality(Market!Searching) = 0 /\ slots = SearchSlots
  BY <1>3, FS_EmptySet DEF Market!Init
<1>5. \A t \in Threads : MarketFetched(task[t], label[t])
  BY DEF MarketFetched, Market!Init, Market!Idle
<1>6. \A m \in Market!Cached : MarketBounded(cache[m])
  BY <1>2, FS_EmptySet, MarketAssumed DEF MarketBounded
<1> QED BY <1>1, <1>4, <1>5, <1>6, MarketAssumed DEF MarketInv

(* A cache gives room before it takes an entry.                            *)
LEMMA MarketStores ==
  ASSUME NEW c \in [Quoted -> Market!Entry \cup {None}], MarketBounded(c), NEW k \in Quoted,
         NEW by \in Market!Providers \cup {None}, NEW d \in Market!Stores(c, k, by)
  PROVE  d \in [Quoted -> Market!Entry \cup {None}] /\ MarketBounded(d)
<1> DEFINE full == Cardinality(Market!Held(c)) >= MaxQuotes
           old == {j \in Market!Held(c) : \A i \in Market!Held(c) : c[i].left >= c[j].left}
           new == [by |-> by, left |-> QuoteTtl]
<1>0. new \in Market!Entry
  BY MarketAssumed DEF Market!Entry
<1>1. PICK e \in (IF full THEN {[c EXCEPT ![j] = None] : j \in old} ELSE {c}) : d = [e EXCEPT ![k] = new]
  BY MarketCounts DEF Market!Stores
<1>2. /\ e \in [Quoted -> Market!Entry \cup {None}]
      /\ IsFiniteSet(Market!Held(e)) /\ Cardinality(Market!Held(e)) < MaxQuotes
  <2>0. IsFiniteSet(Market!Held(c)) /\ Cardinality(Market!Held(c)) \in Nat /\ Cardinality(Market!Held(c)) <= MaxQuotes
    BY FS_CardinalityType DEF MarketBounded
  <2>1. CASE full
    <3>1. PICK j \in old : e = [c EXCEPT ![j] = None]
      BY <1>1, <2>1
    <3>2. Market!Held(e) = Market!Held(c) \ {j} /\ j \in Market!Held(c)
      BY <3>1 DEF Market!Held
    <3>3. Cardinality(Market!Held(e)) = Cardinality(Market!Held(c)) - 1 /\ IsFiniteSet(Market!Held(e))
      BY <3>2, <2>0, FS_RemoveElement
    <3> QED BY <2>0, <3>3, <3>1, MarketAssumed
  <2>2. CASE ~full
    <3>1. e = c
      BY <1>1, <2>2
    <3> QED BY <3>1, <2>0, <2>2, MarketAssumed
  <2> QED BY <2>1, <2>2
<1>3. d \in [Quoted -> Market!Entry \cup {None}] /\ Market!Held(d) \subseteq Market!Held(e) \cup {k}
  BY <1>0, <1>1, <1>2 DEF Market!Held
<1>4. /\ IsFiniteSet(Market!Held(e) \cup {k}) /\ Cardinality(Market!Held(e) \cup {k}) <= Cardinality(Market!Held(e)) + 1
      /\ Cardinality(Market!Held(e)) \in Nat
  <2>1. Cardinality(Market!Held(e)) \in Nat
    BY <1>2, FS_CardinalityType
  <2>2. /\ IsFiniteSet(Market!Held(e) \cup {k})
        /\ \/ Cardinality(Market!Held(e) \cup {k}) = Cardinality(Market!Held(e))
           \/ Cardinality(Market!Held(e) \cup {k}) = Cardinality(Market!Held(e)) + 1
    BY <1>2, FS_AddElement
  <2> QED BY <2>1, <2>2
<1>5. IsFiniteSet(Market!Held(d)) /\ Cardinality(Market!Held(d)) <= Cardinality(Market!Held(e) \cup {k}) /\ Cardinality(Market!Held(d)) \in Nat
  BY <1>3, <1>4, FS_Subset, FS_CardinalityType
<1>6. Cardinality(Market!Held(e) \cup {k}) \in Nat
  BY <1>4, FS_CardinalityType
<1>7. Cardinality(Market!Held(d)) <= MaxQuotes
  <2> QED BY <1>2, <1>4, <1>5, <1>6, MarketAssumed
<1> QED BY <1>3, <1>5, <1>7 DEF MarketBounded

LEMMA MarketDropped ==
  ASSUME MarketInv, NEW m \in Market!Methods, NEW k \in Quoted
  PROVE  /\ Market!Dropped(m, k) \in [Market!Cached -> [Quoted -> Market!Entry \cup {None}]]
         /\ \A n \in Market!Cached : MarketBounded(Market!Dropped(m, k)[n])
<1> DEFINE e == Market!Dropped(m, k)
<1>1. e \in [Market!Cached -> [Quoted -> Market!Entry \cup {None}]]
  BY DEF MarketInv, MarketTyped, Market!Dropped
<1>2. ASSUME NEW n \in Market!Cached
      PROVE  Market!Held(e[n]) \subseteq Market!Held(cache[n])
  BY DEF MarketInv, MarketTyped, Market!Dropped, Market!Held
<1>3. ASSUME NEW n \in Market!Cached
      PROVE  MarketBounded(e[n])
  <2>1. IsFiniteSet(Market!Held(cache[n])) /\ Cardinality(Market!Held(cache[n])) <= MaxQuotes /\ Cardinality(Market!Held(cache[n])) \in Nat
    BY FS_CardinalityType DEF MarketInv, MarketBounded
  <2>2. /\ IsFiniteSet(Market!Held(e[n]))
        /\ Cardinality(Market!Held(e[n])) <= Cardinality(Market!Held(cache[n]))
        /\ Cardinality(Market!Held(e[n])) \in Nat
    BY <1>2, <2>1, FS_Subset, FS_CardinalityType
  <2> HIDE DEF e
  <2> QED BY <2>1, <2>2, MarketAssumed DEF MarketBounded
<1> QED BY <1>1, <1>3

(* The slots that are taken are those of the threads that search.          *)
LEMMA MarketSlots ==
  ASSUME MarketInv, NEW t \in Threads, NEW k \in MarketTask, task' = [task EXCEPT ![t] = k],
         slots' = slots + (IF t \in Market!Searching THEN 1 ELSE 0)
                        - (IF k.at = "fetch" /\ k.method = "search" THEN 1 ELSE 0),
         k.at = "fetch" /\ k.method = "search" => slots > 0 \/ t \in Market!Searching
  PROVE  IsFiniteSet(Market!Searching') /\ slots' + Cardinality(Market!Searching') = SearchSlots /\ slots' \in 0..SearchSlots
<1>0. IsFiniteSet(Market!Searching) /\ Cardinality(Market!Searching) \in Nat /\ slots \in 0..SearchSlots
      /\ slots + Cardinality(Market!Searching) = SearchSlots
  BY FS_CardinalityType DEF MarketInv, MarketTyped
<1>1. Market!Searching' = IF k.at = "fetch" /\ k.method = "search" THEN Market!Searching \cup {t} ELSE Market!Searching \ {t}
  BY DEF Market!Searching, Market!At, MarketInv, MarketTyped
<1>2. /\ IsFiniteSet(Market!Searching \cup {t}) /\ IsFiniteSet(Market!Searching \ {t})
      /\ Cardinality(Market!Searching \cup {t}) = IF t \in Market!Searching THEN Cardinality(Market!Searching) ELSE Cardinality(Market!Searching) + 1
      /\ Cardinality(Market!Searching \ {t}) = IF t \in Market!Searching THEN Cardinality(Market!Searching) - 1 ELSE Cardinality(Market!Searching)
  BY <1>0, FS_AddElement, FS_RemoveElement
<1>3. t \in Market!Searching => Cardinality(Market!Searching) > 0
  BY <1>0, FS_EmptySet
<1> DEFINE n == Cardinality(Market!Searching)
           now == k.at = "fetch" /\ k.method = "search"
           was == t \in Market!Searching
<1>4. Cardinality(Market!Searching') = n + (IF now THEN 1 ELSE 0) - (IF was THEN 1 ELSE 0)
  BY <1>0, <1>1, <1>2
<1>5. slots' = slots + (IF was THEN 1 ELSE 0) - (IF now THEN 1 ELSE 0)
  OBVIOUS
<1>6. n \in Nat /\ slots + n = SearchSlots /\ slots \in 0..SearchSlots /\ (now => slots > 0 \/ was) /\ (was => n > 0)
  BY <1>0, <1>3
<1>7. IsFiniteSet(Market!Searching')
  BY <1>1, <1>2
<1> HIDE DEF n, now, was
<1> QED BY <1>4, <1>5, <1>6, <1>7, MarketAssumed

LEMMA MarketTaskStep ==
  ASSUME MarketInv, NEW t \in Threads, NEW k \in MarketTask, task' = [task EXCEPT ![t] = k],
         calls' \in 0..MaxMarketCalls,
         label' \in [Threads -> Market!Providers \cup {None}],
         \A u \in Threads : u # t => label'[u] = label[u],
         MarketFetched(k, label'[t]),
         cache' \in [Market!Cached -> [Quoted -> Market!Entry \cup {None}]],
         \A m \in Market!Cached : MarketBounded(cache'[m]),
         slots' = slots + (IF t \in Market!Searching THEN 1 ELSE 0)
                        - (IF k.at = "fetch" /\ k.method = "search" THEN 1 ELSE 0),
         k.at = "fetch" /\ k.method = "search" => slots > 0 \/ t \in Market!Searching
  PROVE  MarketInv'
<1>1. IsFiniteSet(Market!Searching') /\ slots' + Cardinality(Market!Searching') = SearchSlots /\ slots' \in 0..SearchSlots
  BY MarketSlots
<1>2. task' \in [Threads -> MarketTask]
  BY DEF MarketInv, MarketTyped
<1>3. \A u \in Threads : MarketFetched(task'[u], label'[u])
  BY DEF MarketInv, MarketTyped
<1> QED BY <1>1, <1>2, <1>3 DEF MarketInv, MarketTyped, MarketBounded

LEMMA MarketCall ==
  ASSUME MarketInv, NEW t \in Threads, NEW m \in Market!Methods, NEW k \in Quoted, Market!Call(t, m, k)
  PROVE  MarketInv'
<1>1. task[t].at = "idle" /\ calls' \in 0..MaxMarketCalls /\ label' = label /\ cache' = Market!Dropped(m, k)
  BY MarketAssumed DEF Market!Call, Market!At, MarketInv, MarketTyped
<1>2. t \notin Market!Searching
  BY <1>1 DEF Market!Searching, Market!At
<1>3. CASE Market!Hit(m, k)
  <2> DEFINE e == [Market!Idle EXCEPT !.method = m, !.ticker = k,
                         !.at = IF m = "history" THEN "quote" ELSE "answer", !.by = cache[m][k].by]
  <2>1. cache[m][k] \in Market!Entry
    BY <1>3 DEF Market!Hit, MarketInv, MarketTyped
  <2>2. e \in MarketTask /\ e.at \in {"quote", "answer"} /\ e.method = m /\ ~e.fetched /\ e.ticker = k
        /\ (e.at = "quote" => m = "history")
    BY <2>1 DEF Market!Entry, MarketTask, Market!Idle
  <2>3. task' = [task EXCEPT ![t] = e] /\ slots' = slots
    BY <1>3 DEF Market!Call
  <2>4. MarketFetched(e, label'[t])
    BY <2>2 DEF MarketFetched
  <2> HIDE DEF e
  <2>5. slots' = slots + 0 - 0 /\ slots \in Int
    BY <2>3 DEF MarketInv, MarketTyped
  <2> QED BY <1>1, <1>2, <2>2, <2>3, <2>4, <2>5, MarketTaskStep, MarketDropped DEF MarketInv, MarketTyped
<1>4. CASE ~Market!Hit(m, k)
  <2> DEFINE e == [Market!Idle EXCEPT !.method = m, !.ticker = k, !.fetched = TRUE,
                         !.named = IF m = "status" THEN Market!ProviderLabel(t) ELSE None,
                         !.at = IF m = "search" /\ slots = 0 THEN "failed" ELSE "fetch"]
  <2>2. e \in MarketTask /\ e.at = (IF m = "search" /\ slots = 0 THEN "failed" ELSE "fetch") /\ e.method = m /\ e.ticker = k
    BY DEF MarketTask, Market!Idle, Market!ProviderLabel, Market!Providers, MarketInv, MarketTyped
  <2>3. task' = [task EXCEPT ![t] = e] /\ slots' = IF m = "search" /\ slots > 0 THEN slots - 1 ELSE slots
    BY <1>4 DEF Market!Call
  <2>4. MarketFetched(e, label'[t])
    BY <2>2 DEF MarketFetched
  <2> HIDE DEF e
  <2>5. slots \in 0..SearchSlots /\ SearchSlots \in Nat
    BY MarketAssumed DEF MarketInv, MarketTyped
  <2>6. /\ slots' = slots + 0 - (IF e.at = "fetch" /\ e.method = "search" THEN 1 ELSE 0)
        /\ e.at = "fetch" /\ e.method = "search" => slots > 0
    BY <2>2, <2>3, <2>5
  <2> QED BY <1>1, <1>2, <2>2, <2>3, <2>4, <2>6, MarketTaskStep, MarketDropped DEF MarketInv, MarketTyped
<1> QED BY <1>3, <1>4

LEMMA MarketFetch ==
  ASSUME MarketInv, NEW t \in Threads, Market!Fetch(t)
  PROVE  MarketInv'
<1>1. /\ task[t] \in MarketTask /\ task[t].at = "fetch" /\ cache' = cache /\ calls' = calls
      /\ slots' = IF task[t].method = "search" THEN slots + 1 ELSE slots
      /\ task[t].ticker \in Quoted
  BY DEF Market!Fetch, Market!At, MarketInv, MarketTyped, MarketFetched
<1>2. t \in Market!Searching <=> task[t].method = "search"
  BY <1>1 DEF Market!Searching, Market!At
<1>3. /\ slots \in Int /\ calls \in 0..MaxMarketCalls
      /\ cache \in [Market!Cached -> [Quoted -> Market!Entry \cup {None}]]
      /\ label \in [Threads -> Market!Providers \cup {None}]
      /\ \A m \in Market!Cached : MarketBounded(cache[m])
  BY DEF MarketInv, MarketTyped
<1>4. slots' = slots + (IF t \in Market!Searching THEN 1 ELSE 0) - 0
  BY <1>1, <1>2, <1>3
<1>5. ASSUME NEW by \in Market!Providers, Market!Succeeds(t, by)
      PROVE  MarketInv'
  <2> DEFINE e == [task[t] EXCEPT !.by = by, !.at = IF task[t].method \in Market!Cached THEN "store" ELSE "answer"]
  <2>1. task' = [task EXCEPT ![t] = e] /\ label' = [label EXCEPT ![t] = by]
    BY <1>5 DEF Market!Succeeds, Market!SetActive, MarketInv, MarketTyped
  <2>2. /\ e \in MarketTask /\ e.at = (IF task[t].method \in Market!Cached THEN "store" ELSE "answer")
        /\ e.by = by /\ e.method = task[t].method /\ e.ticker = task[t].ticker
    BY <1>1 DEF MarketTask
  <2>3. label' \in [Threads -> Market!Providers \cup {None}] /\ label'[t] = by /\ \A u \in Threads : u # t => label'[u] = label[u]
    BY <2>1, <1>3
  <2>4. MarketFetched(e, label'[t])
    BY <2>2, <2>3, <1>1 DEF MarketFetched, MarketTask, Market!Methods
  <2> HIDE DEF e
  <2> QED BY <1>1, <1>3, <1>4, <2>1, <2>2, <2>3, <2>4, MarketTaskStep
<1>6. CASE Market!Fails(t)
  <2> DEFINE e == [task[t] EXCEPT !.at = IF task[t].method = "profile" THEN "store" ELSE "failed"]
  <2>1. task' = [task EXCEPT ![t] = e] /\ label' = label
    BY <1>6 DEF Market!Fails, MarketInv, MarketTyped
  <2>2. /\ e \in MarketTask /\ e.at = (IF task[t].method = "profile" THEN "store" ELSE "failed")
        /\ e.method = task[t].method /\ e.ticker = task[t].ticker
    BY <1>1 DEF MarketTask
  <2>4. MarketFetched(e, label'[t])
    BY <2>2, <1>1 DEF MarketFetched, Market!LabelledAfter, Market!Cached
  <2> HIDE DEF e
  <2> QED BY <1>1, <1>3, <1>4, <2>1, <2>2, <2>4, MarketTaskStep
<1> QED BY <1>5, <1>6 DEF Market!Fetch

LEMMA MarketStore ==
  ASSUME MarketInv, NEW t \in Threads, Market!Store(t)
  PROVE  MarketInv'
<1> DEFINE m == task[t].method
           k == task[t].ticker
<1>1. /\ task[t] \in MarketTask /\ task[t].at = "store" /\ k \in Quoted /\ m \in Market!Cached
      /\ label' = label /\ slots' = slots /\ calls' = calls
  BY DEF Market!Store, Market!At, MarketInv, MarketTyped, MarketFetched
<1>2. t \notin Market!Searching
  BY <1>1 DEF Market!Searching, Market!At
<1>3. /\ slots \in Int /\ calls \in 0..MaxMarketCalls
      /\ cache \in [Market!Cached -> [Quoted -> Market!Entry \cup {None}]]
      /\ label \in [Threads -> Market!Providers \cup {None}]
      /\ \A n \in Market!Cached : MarketBounded(cache[n])
      /\ MarketFetched(task[t], label[t])
  BY DEF MarketInv, MarketTyped
<1>4. PICK by \in {task[t].by} \cup (IF m = "profile" /\ Market!ProviderLabel(t) = Market!Massive /\ FallbackEnabled /\ task[t].by = None
                                     THEN {Market!Legacy} ELSE {}) :
        /\ \E c \in Market!Stores(cache[m], k, by) : cache' = [cache EXCEPT ![m] = c]
        /\ task' = [task EXCEPT ![t].by = by, ![t].at = IF m = "history" THEN "quote" ELSE "answer"]
  BY DEF Market!Store
<1>5. by \in Market!Providers \cup {None} /\ (m # "profile" => by = task[t].by)
  BY <1>1, <1>4 DEF MarketTask, Market!Providers
<1> DEFINE e == [task[t] EXCEPT !.by = by, !.at = IF m = "history" THEN "quote" ELSE "answer"]
<1>6. task' = [task EXCEPT ![t] = e]
  BY <1>4 DEF MarketInv, MarketTyped
<1>7. /\ e \in MarketTask /\ e.at = (IF m = "history" THEN "quote" ELSE "answer") /\ e.by = by
      /\ e.method = m /\ e.ticker = k /\ e.fetched = task[t].fetched
  BY <1>1, <1>5 DEF MarketTask
<1>8. MarketFetched(e, label'[t])
  BY <1>1, <1>3, <1>5, <1>7 DEF MarketFetched, Market!LabelledAfter
<1>9. PICK c \in Market!Stores(cache[m], k, by) : cache' = [cache EXCEPT ![m] = c]
  BY <1>4
<1>10. c \in [Quoted -> Market!Entry \cup {None}] /\ MarketBounded(c)
  BY <1>1, <1>3, <1>5, MarketStores
<1>11. /\ cache' \in [Market!Cached -> [Quoted -> Market!Entry \cup {None}]]
       /\ \A n \in Market!Cached : cache'[n] = IF n = m THEN c ELSE cache[n]
  BY <1>1, <1>3, <1>9, <1>10
<1>12. \A n \in Market!Cached : MarketBounded(cache'[n])
  BY <1>3, <1>10, <1>11
<1> HIDE DEF e
<1>13. ~(e.at = "fetch") /\ slots' = slots + 0 - 0
  BY <1>1, <1>3, <1>7
<1> QED BY <1>1, <1>2, <1>3, <1>6, <1>7, <1>8, <1>11, <1>12, <1>13, MarketTaskStep

LEMMA MarketQuote ==
  ASSUME MarketInv, NEW t \in Threads, Market!Quote(t)
  PROVE  MarketInv'
<1> DEFINE k == task[t].ticker
           e == [task[t] EXCEPT !.at = "answer"]
<1>1. /\ task[t] \in MarketTask /\ task[t].at = "quote" /\ k \in Quoted /\ task[t].method = "history"
      /\ slots' = slots /\ calls' = calls
  BY DEF Market!Quote, Market!At, MarketInv, MarketTyped, MarketFetched
<1>2. t \notin Market!Searching
  BY <1>1 DEF Market!Searching, Market!At
<1>3. /\ slots \in Int /\ calls \in 0..MaxMarketCalls
      /\ cache \in [Market!Cached -> [Quoted -> Market!Entry \cup {None}]]
      /\ label \in [Threads -> Market!Providers \cup {None}]
      /\ \A n \in Market!Cached : MarketBounded(cache[n])
  BY DEF MarketInv, MarketTyped
<1>4. task' = [task EXCEPT ![t] = e] /\ e \in MarketTask /\ e.at = "answer" /\ e.method = "history" /\ e.ticker = k
  BY <1>1 DEF Market!Quote, MarketInv, MarketTyped, MarketTask
<1>5. MarketFetched(e, label'[t])
  BY <1>1, <1>4 DEF MarketFetched, Market!LabelledAfter
<1>6. ASSUME cache' \in [Market!Cached -> [Quoted -> Market!Entry \cup {None}]],
             \A n \in Market!Cached : MarketBounded(cache'[n]),
             label' \in [Threads -> Market!Providers \cup {None}],
             \A u \in Threads : u # t => label'[u] = label[u]
      PROVE  MarketInv'
  <2> HIDE DEF e
  <2>1. slots' = slots + 0 - 0
    BY <1>1, <1>3
  <2> QED BY <1>1, <1>2, <1>3, <1>4, <1>5, <1>6, <2>1, MarketTaskStep
<1>7. CASE UNCHANGED <<cache, label>>
  BY <1>3, <1>6, <1>7
<1>0. "snapshot" \in Market!Cached /\ "snapshot" \in Market!Methods
  BY DEF Market!Cached, Market!Methods
<1>8. CASE cache' = Market!Dropped("snapshot", k) /\ UNCHANGED label
  BY <1>0, <1>1, <1>3, <1>6, <1>8, MarketDropped
<1>9. ASSUME Market!SetActive(t, Market!Massive),
             NEW c \in Market!Stores(Market!Dropped("snapshot", k)["snapshot"], k, Market!Massive),
             cache' = [cache EXCEPT !["snapshot"] = c]
      PROVE  MarketInv'
  <2>1. c \in [Quoted -> Market!Entry \cup {None}] /\ MarketBounded(c)
    <3>1. Market!Massive \in Market!Providers \cup {None}
      BY DEF Market!Providers
    <3> QED BY <1>0, <1>1, <1>9, <3>1, MarketDropped, MarketStores
  <2>2. /\ cache' \in [Market!Cached -> [Quoted -> Market!Entry \cup {None}]]
        /\ \A n \in Market!Cached : cache'[n] = IF n = "snapshot" THEN c ELSE cache[n]
    BY <1>0, <1>3, <1>9, <2>1
  <2>3. \A n \in Market!Cached : MarketBounded(cache'[n])
    BY <1>3, <2>1, <2>2
  <2>4. label' \in [Threads -> Market!Providers \cup {None}] /\ \A u \in Threads : u # t => label'[u] = label[u]
    BY <1>3, <1>9 DEF Market!SetActive, Market!Providers
  <2> QED BY <1>6, <2>2, <2>3, <2>4
<1> QED BY <1>7, <1>8, <1>9 DEF Market!Quote

LEMMA MarketReturn ==
  ASSUME MarketInv, NEW t \in Threads, Market!Return(t)
  PROVE  MarketInv'
<1>1. /\ task[t].at \in {"answer", "failed"} /\ task' = [task EXCEPT ![t] = Market!Idle]
      /\ cache' = cache /\ label' = label /\ slots' = slots /\ calls' = calls
  BY DEF Market!Return
<1>2. t \notin Market!Searching
  BY <1>1 DEF Market!Searching, Market!At
<1>3. /\ slots \in Int /\ calls \in 0..MaxMarketCalls
      /\ cache \in [Market!Cached -> [Quoted -> Market!Entry \cup {None}]]
      /\ label \in [Threads -> Market!Providers \cup {None}]
      /\ \A n \in Market!Cached : MarketBounded(cache[n])
  BY DEF MarketInv, MarketTyped
<1>4. Market!Idle \in MarketTask /\ MarketFetched(Market!Idle, label'[t]) /\ Market!Idle.at = "idle"
  BY DEF Market!Idle, MarketTask, MarketFetched, Market!Methods
<1>5. slots' = slots + 0 - 0
  BY <1>1, <1>3
<1> QED BY <1>1, <1>2, <1>3, <1>4, <1>5, MarketTaskStep

LEMMA MarketTick ==
  ASSUME MarketInv, Market!Tick
  PROVE  MarketInv'
<1>1. label' = label /\ slots' = slots /\ task' = task /\ calls' = calls
  BY DEF Market!Tick
<1>2. ASSUME NEW m \in Market!Cached, NEW k \in Quoted
      PROVE  cache'[m][k] \in Market!Entry \cup {None} /\ (cache[m][k] = None => cache'[m][k] = None)
  <2>1. cache[m][k] \in Market!Entry \cup {None}
    BY DEF MarketInv, MarketTyped
  <2>2. cache'[m][k] = IF cache[m][k] # None /\ cache[m][k].left > 0
                       THEN [cache[m][k] EXCEPT !.left = @ - 1] ELSE cache[m][k]
    BY DEF Market!Tick
  <2> QED BY <2>1, <2>2, MarketAssumed DEF Market!Entry
<1>3. cache' \in [Market!Cached -> [Quoted -> Market!Entry \cup {None}]]
  <2>1. cache' = [m \in Market!Cached |-> [k \in Quoted |-> cache'[m][k]]]
    BY DEF Market!Tick
  <2> QED BY <1>2, <2>1
<1>4. ASSUME NEW m \in Market!Cached
      PROVE  MarketBounded(cache'[m])
  <2>1. Market!Held(cache'[m]) \subseteq Market!Held(cache[m])
    BY <1>2 DEF Market!Held
  <2>2. IsFiniteSet(Market!Held(cache[m])) /\ Cardinality(Market!Held(cache[m])) <= MaxQuotes /\ Cardinality(Market!Held(cache[m])) \in Nat
    BY FS_CardinalityType DEF MarketInv, MarketBounded
  <2>3. /\ IsFiniteSet(Market!Held(cache'[m]))
        /\ Cardinality(Market!Held(cache'[m])) <= Cardinality(Market!Held(cache[m]))
        /\ Cardinality(Market!Held(cache'[m])) \in Nat
    BY <2>1, <2>2, FS_Subset, FS_CardinalityType
  <2> QED BY <2>2, <2>3, MarketAssumed DEF MarketBounded
<1>5. Market!Searching' = Market!Searching
  BY <1>1 DEF Market!Searching, Market!At
<1> QED BY <1>1, <1>3, <1>4, <1>5 DEF MarketInv, MarketTyped

LEMMA MarketStep ==
  ASSUME MarketInv, [Market!Next]_(Market!vars)
  PROVE  MarketInv'
<1>1. CASE UNCHANGED Market!vars
  BY <1>1 DEF Market!vars, MarketInv, MarketTyped, Market!Searching, Market!At, MarketFetched, MarketBounded, Market!Held
<1>2. CASE Market!Next
  BY <1>2, MarketCall, MarketFetch, MarketStore, MarketQuote, MarketReturn, MarketTick DEF Market!Next
<1> QED BY <1>1, <1>2

LEMMA MarketPromised ==
  MarketInv => Market!TypeOK /\ Market!FetchedIsLabelled /\ Market!CachesBounded /\ Market!SlotsConserved
<1> SUFFICES ASSUME MarketInv
             PROVE  Market!TypeOK /\ Market!FetchedIsLabelled /\ Market!CachesBounded /\ Market!SlotsConserved
  OBVIOUS
<1>1. Market!TypeOK
  BY DEF MarketInv, MarketTyped, MarketTask, MarketFetched, Market!TypeOK
<1>2. Market!FetchedIsLabelled
  <2> SUFFICES ASSUME NEW t \in Threads, Market!Answering(t, Market!LabelledAfter), task[t].fetched
               PROVE  Market!ProviderNamed(t) = task[t].by
    BY DEF Market!FetchedIsLabelled
  <2>1. task[t].by \in Market!Providers /\ label[t] = task[t].by
    BY DEF MarketInv, MarketFetched, Market!Answering, Market!At
  <2>2. task[t].method \notin {"status", "chain"}
    BY DEF Market!Answering, Market!LabelledAfter
  <2> QED BY <2>1, <2>2, MarketAssumed DEF Market!ProviderLabel, Market!ProviderNamed
<1>3. Market!CachesBounded
  BY MarketCounts DEF MarketInv, MarketBounded, Market!CachesBounded
<1>4. Market!SlotsConserved
  BY MarketCounts DEF MarketInv, Market!SlotsConserved
<1> QED BY <1>1, <1>2, <1>3, <1>4

(* What was fetched for a response that is labelled after its call bears   *)
(* its provider's name, whatever other threads fetch; the caches stay      *)
(* within their limit and a search slot comes back on every way out.       *)
THEOREM MarketKept ==
  Market!Spec => [](Market!TypeOK /\ Market!FetchedIsLabelled /\ Market!CachesBounded /\ Market!SlotsConserved)
BY MarketPromised, MarketStart, MarketStep, PTL DEF Market!Spec

-----------------------------------------------------------------------------
(***************************************************************************)
(* The batches over tickers: a job is taken once, after it has ended, and  *)
(* what was taken has its place, its error or its event.                   *)
(***************************************************************************)
Batch == INSTANCE TickerBatch WITH MaxWorkers <- BatchWorkers, Size <- BatchSize

ASSUME BatchParameters == Batch!BatchAssumption

BatchEnded(i) == jobs[i] \in Batch!Ends
BatchWaits(i) == \E k \in 1..Len(ready) : ready[k] = i
BatchTaken == {i \in 1..BatchSize : BatchEnded(i) /\ ~BatchWaits(i)}

BatchEvent == [type : {"row", "error", "done"}, index : 1..BatchSize \cup {None}]
BatchTold(i) == [type |-> IF jobs[i] = "ok" THEN "row" ELSE "error", index |-> i]

BatchTyped ==
  /\ jobs \in [1..BatchSize -> {"queued", "running"} \cup Batch!Ends]
  /\ mode \in Batch!Modes /\ at \in Batch!Places
  /\ ready \in Seq(1..BatchSize) /\ errors \subseteq 1..BatchSize
  /\ slots \in [1..BatchSize -> 1..BatchSize \cup {None}]
  /\ events \in Seq(BatchEvent)

(* What waits has ended, and waits once.                                   *)
BatchQueued ==
  /\ \A k \in 1..Len(ready) : BatchEnded(ready[k])
  /\ \A k, l \in 1..Len(ready) : ready[k] = ready[l] => k = l

(* What a gathered batch has of a job.                                     *)
BatchSlotted ==
  mode # "stream" /\ at \in {"reading", "done"} =>
    \A i \in 1..BatchSize :
      /\ i \in BatchTaken => jobs[i] \in {"ok", "refused"}
      /\ slots[i] = IF i \in BatchTaken /\ Batch!Kept(i) THEN i ELSE None
      /\ i \in errors <=> i \in BatchTaken /\ mode = "collect" /\ jobs[i] = "refused"

(* What a streamed one has told of it.                                     *)
BatchStreamed ==
  mode = "stream" /\ at \in {"reading", "done"} =>
    /\ Len(events) = Cardinality(BatchTaken) + (IF at = "done" THEN 1 ELSE 0)
    /\ \A i \in BatchTaken : \E k \in 1..Cardinality(BatchTaken) : events[k] = BatchTold(i)
    /\ at = "done" => events[Len(events)].type = "done"

BatchSettled ==
  /\ at \in {"done", "failed", "closed"} => Batch!Idle
  /\ at = "done" => ready = <<>>

BatchInv == BatchTyped /\ BatchQueued /\ BatchSlotted /\ BatchStreamed /\ BatchSettled

LEMMA BatchAssumed ==
  BatchSize \in Nat /\ BatchSize # 0 /\ None \notin Nat /\ BatchWorkers \in Nat /\ Batch!Tickers = 1..BatchSize
BY BatchParameters DEF Batch!BatchAssumption, Batch!PoolAssumption, Batch!Tickers

LEMMA BatchCounts ==
  ASSUME NEW S \in SUBSET (1..BatchSize)
  PROVE  IsFiniteSet(S) /\ Cardinality(S) \in Nat
<1>1. IsFiniteSet(1..BatchSize)
  BY FS_Interval, BatchAssumed
<1>2. IsFiniteSet(S)
  BY <1>1, FS_Subset
<1> QED BY <1>2, FS_CardinalityType

LEMMA BatchItems ==
  ASSUME NEW S, NEW q \in Seq(S)
  PROVE  Len(q) \in Nat /\ \A k \in 1..Len(q) : q[k] \in S
OBVIOUS

LEMMA BatchStart ==
  ASSUME Batch!Init
  PROVE  BatchInv
<1>1. /\ jobs = [i \in 1..BatchSize |-> "queued"] /\ ready = <<>> /\ errors = {} /\ events = <<>>
      /\ slots = [i \in 1..BatchSize |-> None] /\ at = "reading" /\ mode \in Batch!Modes
  BY BatchAssumed DEF Batch!Init, Batch!AllQueued
<1>2. BatchTaken = {} /\ Cardinality(BatchTaken) = 0
  <2>1. BatchTaken = {}
    BY <1>1 DEF BatchTaken, BatchEnded, Batch!Ends
  <2> QED BY <2>1, FS_EmptySet
<1>3. BatchTyped
  BY <1>1 DEF BatchTyped, Batch!Places
<1>4. Len(ready) = 0 /\ Len(events) = 0 /\ 1..0 = {}
  BY <1>1
<1> QED BY <1>1, <1>2, <1>3, <1>4, BatchAssumed DEF BatchInv, BatchQueued, BatchSlotted, BatchStreamed, BatchSettled

(* A step of a job leaves what was taken as it is.                         *)
LEMMA BatchJobs ==
  ASSUME BatchInv, BatchTyped', BatchQueued', UNCHANGED <<mode, at, slots, errors, events>>, BatchSettled',
         BatchTaken' = BatchTaken, \A i \in BatchTaken : jobs'[i] = jobs[i]
  PROVE  BatchInv'
<1>1. BatchSlotted'
  <2> SUFFICES ASSUME mode # "stream", at \in {"reading", "done"}, NEW i \in 1..BatchSize
               PROVE  /\ i \in BatchTaken' => jobs'[i] \in {"ok", "refused"}
                      /\ slots'[i] = IF i \in BatchTaken' /\ Batch!Kept(i)' THEN i ELSE None
                      /\ i \in errors' <=> i \in BatchTaken' /\ mode' = "collect" /\ jobs'[i] = "refused"
    BY DEF BatchSlotted
  <2>1. CASE i \in BatchTaken
    BY <2>1 DEF BatchInv, BatchSlotted, Batch!Kept
  <2>2. CASE i \notin BatchTaken
    BY <2>2 DEF BatchInv, BatchSlotted
  <2> QED BY <2>1, <2>2
<1>2. BatchStreamed'
  <2>1. \A i \in BatchTaken : BatchTold(i)' = BatchTold(i)
    BY DEF BatchTold
  <2> QED BY <2>1 DEF BatchInv, BatchStreamed
<1> QED BY <1>1, <1>2 DEF BatchInv

LEMMA BatchJobStarts ==
  ASSUME BatchInv, NEW i \in 1..BatchSize, Batch!JobStarts(i)
  PROVE  BatchInv'
<1>1. /\ jobs[i] = "queued" /\ jobs' = [jobs EXCEPT ![i] = "running"]
      /\ UNCHANGED <<mode, at, ready, slots, errors, events>>
  BY DEF Batch!JobStarts, Batch!Start, Batch!Queued
<1>2. BatchTyped /\ BatchQueued /\ BatchSettled
  BY DEF BatchInv
<1>3. BatchTyped'
  BY <1>1, <1>2 DEF BatchTyped
<1>4. \A j \in 1..BatchSize : BatchEnded(j)' <=> BatchEnded(j)
  BY <1>1, <1>2 DEF BatchTyped, BatchEnded, Batch!Ends
<1>5. \A j \in 1..BatchSize : BatchWaits(j)' <=> BatchWaits(j)
  BY <1>1 DEF BatchWaits
<1>6. BatchTaken' = BatchTaken
  BY <1>4, <1>5 DEF BatchTaken
<1>7. i \notin BatchTaken
  BY <1>1 DEF BatchTaken, BatchEnded, Batch!Ends
<1>8. \A j \in BatchTaken : jobs'[j] = jobs[j]
  BY <1>1, <1>2, <1>7 DEF BatchTyped, BatchTaken
<1>9. BatchQueued'
  <2>1. ready \in Seq(1..BatchSize)
    BY <1>2 DEF BatchTyped
  <2>2. \A k \in 1..Len(ready) : ready[k] \in 1..BatchSize
    BY <2>1, BatchItems
  <2> QED BY <1>1, <1>2, <1>4, <2>2 DEF BatchQueued, BatchEnded
<1>10. BatchSettled'
  <2>1. ~Batch!Idle
    BY <1>1, <1>2 DEF Batch!Idle, Batch!Pending, BatchTyped
  <2> QED BY <1>1, <1>2, <2>1 DEF BatchSettled
<1> QED BY <1>1, <1>3, <1>6, <1>8, <1>9, <1>10, BatchJobs

LEMMA BatchJobEnds ==
  ASSUME BatchInv, NEW i \in 1..BatchSize, NEW outcome \in Batch!Ends, Batch!JobEnds(i, outcome)
  PROVE  BatchInv'
<1>1. /\ jobs[i] = "running" /\ jobs' = [jobs EXCEPT ![i] = outcome] /\ ready' = Append(ready, i)
      /\ UNCHANGED <<mode, at, slots, errors, events>>
  BY DEF Batch!JobEnds, Batch!Finish, Batch!Running
<1>2. BatchTyped /\ BatchQueued /\ BatchSettled
  BY DEF BatchInv
<1>0. /\ ready \in Seq(1..BatchSize) /\ ready' \in Seq(1..BatchSize) /\ Len(ready) \in Nat /\ Len(ready') = Len(ready) + 1
      /\ ready'[Len(ready) + 1] = i
      /\ \A k \in 1..Len(ready) : ready'[k] = ready[k] /\ ready[k] \in 1..BatchSize
    <2>1. ready \in Seq(1..BatchSize)
    BY <1>2 DEF BatchTyped
  <2>2. Len(ready) \in Nat /\ \A k \in 1..Len(ready) : ready[k] \in 1..BatchSize
    BY <2>1, BatchItems
  <2> QED BY <1>1, <2>1, <2>2, AtTheEnd
<1>3. BatchTyped'
  BY <1>0, <1>1, <1>2 DEF BatchTyped
<1>4. /\ \A j \in 1..BatchSize : j # i => (BatchEnded(j)' <=> BatchEnded(j)) /\ (BatchWaits(j)' <=> BatchWaits(j))
      /\ ~BatchEnded(i) /\ BatchEnded(i)' /\ BatchWaits(i)'
  <2>1. /\ \A j \in 1..BatchSize : j # i => (BatchEnded(j)' <=> BatchEnded(j))
        /\ ~BatchEnded(i) /\ BatchEnded(i)'
    BY <1>1, <1>2 DEF BatchTyped, BatchEnded, Batch!Ends
  <2>2. \A k \in 1..(Len(ready) + 1) : k \in 1..Len(ready) \/ k = Len(ready) + 1
    BY <1>0
  <2>3. ASSUME NEW j \in 1..BatchSize, j # i
        PROVE  BatchWaits(j)' <=> BatchWaits(j)
    BY <1>0, <2>2, <2>3 DEF BatchWaits
  <2>4. BatchWaits(i)'
    BY <1>0 DEF BatchWaits
  <2> QED BY <2>1, <2>3, <2>4
<1>6. BatchTaken' = BatchTaken
  BY <1>4 DEF BatchTaken
<1>8. \A j \in BatchTaken : jobs'[j] = jobs[j]
  BY <1>1, <1>2, <1>4 DEF BatchTyped, BatchTaken
<1>9. BatchQueued'
  <2>1. \A k \in 1..Len(ready) : ready[k] # i
    BY <1>2, <1>4 DEF BatchQueued
  <2>2. ASSUME NEW k \in 1..Len(ready')
        PROVE  BatchEnded(ready[k])'
    <3>1. CASE k = Len(ready) + 1
      BY <1>0, <1>4, <3>1 DEF BatchEnded
    <3>2. CASE k \in 1..Len(ready)
      BY <1>0, <1>2, <1>4, <2>1, <3>2 DEF BatchEnded, BatchQueued
    <3> QED BY <1>0, <3>1, <3>2
  <2>3. ASSUME NEW k \in 1..Len(ready'), NEW l \in 1..Len(ready'), ready'[k] = ready'[l]
        PROVE  k = l
    BY <1>0, <1>2, <2>1, <2>3 DEF BatchQueued
  <2> QED BY <2>2, <2>3 DEF BatchQueued
<1>10. BatchSettled'
  <2>1. ~Batch!Idle
    BY <1>1, <1>2 DEF Batch!Idle, Batch!Pending, BatchTyped
  <2> QED BY <1>1, <1>2, <2>1 DEF BatchSettled
<1> QED BY <1>1, <1>3, <1>6, <1>8, <1>9, <1>10, BatchJobs

LEMMA BatchTake ==
  ASSUME BatchInv, NEW i \in 1..BatchSize, Batch!Take(i)
  PROVE  BatchInv'
<1>1. /\ at = "reading" /\ ready # <<>> /\ i = Head(ready) /\ ready' = Tail(ready) /\ UNCHANGED <<jobs, mode>>
  BY DEF Batch!Take
<1>2. BatchTyped /\ BatchQueued /\ BatchSettled
  BY DEF BatchInv
<1>0. /\ ready \in Seq(1..BatchSize) /\ ready' \in Seq(1..BatchSize) /\ Len(ready) \in Nat \ {0} /\ Len(ready') = Len(ready) - 1
      /\ ready[1] = i
      /\ \A k \in 1..Len(ready') : ready'[k] = ready[k + 1] /\ k + 1 \in 1..Len(ready) /\ k + 1 # 1
  <2>1. ready \in Seq(1..BatchSize)
    BY <1>2 DEF BatchTyped
  <2>2. /\ Tail(ready) \in Seq(1..BatchSize) /\ Len(ready) \in Nat \ {0} /\ Len(Tail(ready)) = Len(ready) - 1
        /\ Head(ready) = ready[1] /\ \A k \in 1..Len(Tail(ready)) : Tail(ready)[k] = ready[k + 1]
    BY <1>1, <2>1, FirstAndRest
  <2> QED BY <1>1, <2>1, <2>2
<1>3. \A j \in 1..BatchSize : BatchEnded(j)' <=> BatchEnded(j)
  BY <1>1 DEF BatchEnded
<1>4. BatchQueued'
  <2>1. \A k \in 1..Len(ready') : BatchEnded(ready'[k])
    BY <1>0, <1>2 DEF BatchQueued
  <2>2. ASSUME NEW k \in 1..Len(ready'), NEW l \in 1..Len(ready'), ready'[k] = ready'[l]
        PROVE  k = l
    <3>1. k + 1 = l + 1
      BY <1>0, <1>2, <2>2 DEF BatchQueued
    <3> QED BY <3>1, <1>0
  <2> QED BY <1>1, <2>1, <2>2 DEF BatchQueued, BatchEnded
<1>5. /\ BatchWaits(i) /\ BatchEnded(i) /\ ~BatchWaits(i)'
      /\ \A j \in 1..BatchSize : j # i => (BatchWaits(j)' <=> BatchWaits(j))
  <2>1. BatchWaits(i) /\ BatchEnded(i)
    BY <1>0, <1>2 DEF BatchWaits, BatchQueued
  <2>2. ~BatchWaits(i)'
    BY <1>0, <1>2 DEF BatchWaits, BatchQueued
  <2>3. ASSUME NEW j \in 1..BatchSize, j # i, BatchWaits(j)
        PROVE  BatchWaits(j)'
    <3>1. PICK k \in 1..Len(ready) : ready[k] = j
      BY <2>3 DEF BatchWaits
    <3>2. k # 1 /\ k - 1 \in 1..Len(ready') /\ (k - 1) + 1 = k
      BY <1>0, <2>3, <3>1
    <3> QED BY <1>0, <3>1, <3>2 DEF BatchWaits
  <2>4. ASSUME NEW j \in 1..BatchSize, BatchWaits(j)'
        PROVE  BatchWaits(j)
    BY <1>0, <2>4 DEF BatchWaits
  <2> QED BY <2>1, <2>2, <2>3, <2>4
<1>6. BatchTaken' = BatchTaken \cup {i} /\ i \notin BatchTaken
  BY <1>3, <1>5 DEF BatchTaken
<1>7. CASE mode = "stream"
  <2>1. events' = Append(events, BatchTold(i)) /\ UNCHANGED <<at, slots, errors>>
    BY <1>7 DEF Batch!Take, BatchTold
  <2>2. BatchTold(i) \in BatchEvent
    BY BatchAssumed DEF BatchTold, BatchEvent
  <2>3. events \in Seq(BatchEvent)
    BY <1>2 DEF BatchTyped
  <2>4. /\ events' \in Seq(BatchEvent) /\ Len(events) \in Nat /\ Len(events') = Len(events) + 1
        /\ events'[Len(events) + 1] = BatchTold(i)
        /\ \A k \in 1..Len(events) : events'[k] = events[k]
    BY <2>1, <2>2, <2>3, AtTheEnd
  <2>5. BatchTyped'
    BY <1>0, <1>1, <1>2, <2>1, <2>4 DEF BatchTyped
  <2>6. Cardinality(BatchTaken) \in Nat /\ Cardinality(BatchTaken') = Cardinality(BatchTaken) + 1
        /\ Len(events) = Cardinality(BatchTaken)
    <3>1. BatchTaken \in SUBSET (1..BatchSize)
      BY DEF BatchTaken
    <3>2. IsFiniteSet(BatchTaken) /\ Cardinality(BatchTaken) \in Nat
      BY <3>1, BatchCounts
    <3>3. Len(events) = Cardinality(BatchTaken)
      BY <1>1, <1>7, <2>4, <3>2 DEF BatchInv, BatchStreamed
    <3> QED BY <1>6, <3>2, <3>3, FS_AddElement
  <2>7. ASSUME NEW j \in BatchTaken'
        PROVE  \E k \in 1..Cardinality(BatchTaken') : events'[k] = BatchTold(j)
    <3>1. CASE j = i
      BY <2>4, <2>6, <3>1
    <3>2. CASE j \in BatchTaken
      <4>1. PICK k \in 1..Cardinality(BatchTaken) : events[k] = BatchTold(j)
        BY <1>1, <1>7, <3>2 DEF BatchInv, BatchStreamed
      <4>2. k \in 1..Len(events) /\ k \in 1..Cardinality(BatchTaken')
        BY <2>6, <4>1
      <4> QED BY <2>4, <4>1, <4>2
    <3> QED BY <1>6, <3>1, <3>2
  <2>8. \A j \in 1..BatchSize : BatchTold(j)' = BatchTold(j)
    BY <1>1 DEF BatchTold
  <2>9. BatchStreamed'
    <3>1. \A j \in BatchTaken' : \E k \in 1..Cardinality(BatchTaken') : events'[k] = BatchTold(j)'
      BY <2>7, <2>8 DEF BatchTaken
    <3> QED BY <1>1, <2>1, <2>4, <2>6, <3>1 DEF BatchStreamed
  <2> QED BY <1>1, <1>4, <1>7, <2>1, <2>5, <2>9 DEF BatchInv, BatchSlotted, BatchSettled
<1>8. CASE mode # "stream"
  <2>1. /\ at' = (IF jobs[i] = "broken" THEN "leaving" ELSE at)
        /\ slots' = (IF Batch!Kept(i) THEN [slots EXCEPT ![i] = i] ELSE slots)
        /\ errors' = (IF mode = "collect" /\ jobs[i] = "refused" THEN errors \cup {i} ELSE errors)
        /\ UNCHANGED events
    BY <1>8 DEF Batch!Take, Batch!Place
  <2>2. BatchTyped'
    BY <1>0, <1>1, <1>2, <2>1 DEF BatchTyped, Batch!Places
  <2>3. BatchSettled'
    BY <1>1, <2>1 DEF BatchSettled
  <2>4. BatchSlotted'
    <3> SUFFICES ASSUME at' \in {"reading", "done"}, NEW j \in 1..BatchSize
                 PROVE  /\ j \in BatchTaken' => jobs'[j] \in {"ok", "refused"}
                        /\ slots'[j] = IF j \in BatchTaken' /\ Batch!Kept(j)' THEN j ELSE None
                        /\ j \in errors' <=> j \in BatchTaken' /\ mode' = "collect" /\ jobs'[j] = "refused"
      BY DEF BatchSlotted
    <3>1. /\ j \in BatchTaken => jobs[j] \in {"ok", "refused"}
          /\ slots[j] = IF j \in BatchTaken /\ Batch!Kept(j) THEN j ELSE None
          /\ j \in errors <=> j \in BatchTaken /\ mode = "collect" /\ jobs[j] = "refused"
      BY <1>1, <1>8 DEF BatchInv, BatchSlotted
    <3>2. jobs[i] # "broken" /\ jobs[i] \in {"ok", "refused"}
      BY <1>1, <1>5, <2>1 DEF BatchEnded, Batch!Ends
    <3>3. Batch!Kept(j)' <=> Batch!Kept(j)
      BY <1>1 DEF Batch!Kept
    <3>4. CASE j # i
      BY <1>1, <1>2, <1>6, <2>1, <3>1, <3>3, <3>4 DEF BatchTyped
    <3>5. CASE j = i
      BY <1>1, <1>2, <1>6, <2>1, <3>1, <3>2, <3>3, <3>5 DEF BatchTyped
    <3> QED BY <3>4, <3>5
  <2> QED BY <1>1, <1>4, <1>8, <2>2, <2>3, <2>4 DEF BatchInv, BatchStreamed
<1> QED BY <1>7, <1>8

LEMMA BatchFinished ==
  ASSUME BatchInv, Batch!Finished
  PROVE  BatchInv'
<1>1. /\ at = "reading" /\ Batch!Idle /\ ready = <<>> /\ at' = "done" /\ UNCHANGED <<jobs, mode, ready, slots, errors>>
      /\ events' = IF mode = "stream" THEN Append(events, [type |-> "done", index |-> None]) ELSE events
  BY DEF Batch!Finished
<1>2. BatchTyped /\ BatchQueued
  BY DEF BatchInv
<1>3. BatchTaken' = BatchTaken
  BY <1>1 DEF BatchTaken, BatchEnded, BatchWaits
<1>4. BatchQueued' /\ BatchSettled'
  BY <1>1, <1>2 DEF BatchQueued, BatchEnded, BatchSettled, Batch!Idle, Batch!Pending
<1>5. BatchSlotted'
  BY <1>1, <1>3 DEF BatchInv, BatchSlotted, Batch!Kept
<1>6. CASE mode # "stream"
  BY <1>1, <1>2, <1>4, <1>5, <1>6 DEF BatchInv, BatchTyped, BatchStreamed, Batch!Places
<1>7. CASE mode = "stream"
  <2> DEFINE e == [type |-> "done", index |-> None]
  <2>1. e \in BatchEvent /\ events \in Seq(BatchEvent) /\ e.type = "done"
    BY <1>2 DEF BatchEvent, BatchTyped
  <2> HIDE DEF e
  <2>2. events' = Append(events, e)
    BY <1>1, <1>7 DEF e
  <2>3. /\ events' \in Seq(BatchEvent) /\ Len(events) \in Nat /\ Len(events') = Len(events) + 1
        /\ events'[Len(events) + 1] = e
        /\ \A k \in 1..Len(events) : events'[k] = events[k]
    BY <2>1, <2>2, AtTheEnd
  <2>4. BatchTyped'
    BY <1>1, <1>2, <2>3 DEF BatchTyped, Batch!Places
  <2>5. Len(events) = Cardinality(BatchTaken)
    <3>1. BatchTaken \in SUBSET (1..BatchSize)
      BY DEF BatchTaken
    <3>2. Cardinality(BatchTaken) \in Nat
      BY <3>1, BatchCounts
    <3> QED BY <1>1, <1>7, <3>2 DEF BatchInv, BatchStreamed
  <2>6. \A i \in BatchTaken : \E k \in 1..Cardinality(BatchTaken) : events'[k] = BatchTold(i)
    BY <1>1, <1>7, <2>3, <2>5 DEF BatchInv, BatchStreamed
  <2>7. \A i \in BatchTaken : BatchTold(i)' = BatchTold(i)
    BY <1>1 DEF BatchTold
  <2>8. BatchStreamed'
    BY <1>1, <1>3, <2>1, <2>3, <2>5, <2>6, <2>7 DEF BatchStreamed
  <2> QED BY <1>4, <1>5, <2>4, <2>8 DEF BatchInv
<1> QED BY <1>6, <1>7

LEMMA BatchEndsEarly ==
  ASSUME BatchInv, Batch!ClientGone \/ Batch!Leave
  PROVE  BatchInv'
<1>1. /\ UNCHANGED <<jobs, mode, ready, slots, errors, events>> /\ at' \in {"leaving", "closed", "failed"}
      /\ at' # "leaving" => Batch!Idle
  BY DEF Batch!ClientGone, Batch!Leave
<1>2. BatchSlotted' /\ BatchStreamed' /\ BatchSettled'
  BY <1>1 DEF BatchSlotted, BatchStreamed, BatchSettled, Batch!Idle, Batch!Pending
<1> QED BY <1>1, <1>2 DEF BatchInv, BatchTyped, BatchQueued, BatchEnded, Batch!Places

LEMMA BatchStep ==
  ASSUME BatchInv, [Batch!Next]_(Batch!vars)
  PROVE  BatchInv'
<1>1. CASE UNCHANGED Batch!vars
  <2>1. UNCHANGED <<jobs, mode, at, ready, slots, errors, events>>
    BY <1>1 DEF Batch!vars
  <2>2. BatchTaken' = BatchTaken
    BY <2>1 DEF BatchTaken, BatchEnded, BatchWaits
  <2>3. BatchTyped' /\ BatchQueued' /\ BatchSettled'
    BY <2>1 DEF BatchInv, BatchTyped, BatchQueued, BatchSettled, BatchEnded, Batch!Idle, Batch!Pending
  <2> QED BY <2>1, <2>2, <2>3, BatchJobs
<1>2. CASE Batch!Next
  BY <1>2, BatchAssumed, BatchJobStarts, BatchJobEnds, BatchTake, BatchFinished, BatchEndsEarly DEF Batch!Next
<1> QED BY <1>1, <1>2

LEMMA BatchPromised ==
  BatchInv => Batch!TypeOK /\ Batch!BatchIsWhole /\ Batch!NothingLeftRunning
<1> SUFFICES ASSUME BatchInv
             PROVE  Batch!TypeOK /\ Batch!BatchIsWhole
  BY DEF BatchInv, BatchSettled, Batch!NothingLeftRunning
<1>1. Batch!TypeOK
  <2>1. \A k \in DOMAIN events : events[k].type \in {"row", "error", "done"}
    <3>1. events \in Seq(BatchEvent)
      BY DEF BatchInv, BatchTyped
    <3>2. \A k \in 1..Len(events) : events[k] \in BatchEvent
      BY <3>1, BatchItems
    <3>3. DOMAIN events = 1..Len(events)
      BY <3>1
    <3> QED BY <3>2, <3>3 DEF BatchEvent
  <2> QED BY <2>1, BatchAssumed DEF BatchInv, BatchTyped, Batch!TypeOK
<1>2. ASSUME at = "done"
      PROVE  BatchTaken = 1..BatchSize /\ Cardinality(BatchTaken) = BatchSize
  <2>1. Batch!Idle /\ ready = <<>> /\ Len(ready) = 0
    BY <1>2 DEF BatchInv, BatchSettled
  <2>2. \A i \in 1..BatchSize : BatchEnded(i) /\ ~BatchWaits(i)
    BY <2>1 DEF BatchInv, BatchTyped, BatchEnded, BatchWaits, Batch!Idle, Batch!Pending
  <2>3. BatchTaken = 1..BatchSize
    BY <2>2 DEF BatchTaken
  <2> QED BY <2>3, FS_Interval, BatchAssumed
<1>3. CASE at = "done" /\ mode = "stream"
  <2>1. /\ Len(events) = BatchSize + 1 /\ events[Len(events)].type = "done"
        /\ \A i \in 1..BatchSize : \E k \in 1..BatchSize : events[k] = BatchTold(i)
    BY <1>2, <1>3 DEF BatchInv, BatchStreamed
  <2> QED BY <1>1, <1>3, <2>1, BatchAssumed DEF Batch!BatchIsWhole, BatchTold
<1>4. CASE at = "done" /\ mode # "stream"
  <2>1. ASSUME NEW i \in 1..BatchSize
        PROVE  slots[i] = (IF Batch!Kept(i) THEN i ELSE None) /\ (i \in errors <=> slots[i] = None)
    <3>1. /\ jobs[i] \in {"ok", "refused"} /\ mode \in {"slots", "collect"}
          /\ slots[i] = (IF Batch!Kept(i) THEN i ELSE None)
          /\ i \in errors <=> mode = "collect" /\ jobs[i] = "refused"
      BY <1>2, <1>4 DEF BatchInv, BatchSlotted, BatchTyped, Batch!Modes
    <3> QED BY <3>1, BatchAssumed DEF Batch!Kept
  <2> QED BY <1>1, <1>4, <2>1, BatchAssumed DEF Batch!BatchIsWhole
<1> QED BY <1>1, <1>3, <1>4 DEF Batch!BatchIsWhole

(* A batch accounts for every ticker once, in its place or by an event,    *)
(* whatever the order in which its jobs ended, and leaves none running.    *)
THEOREM BatchKept == Batch!Spec => [](Batch!TypeOK /\ Batch!BatchIsWhole /\ Batch!NothingLeftRunning)
BY BatchPromised, BatchStart, BatchStep, PTL DEF Batch!Spec

-----------------------------------------------------------------------------
(***************************************************************************)
(* The build of a packet: an item is set at its place of the order, after  *)
(* all that its builder reads, and stays as it was set.                    *)
(***************************************************************************)
Build == INSTANCE PacketBuild WITH MaxWorkers <- BuildWorkers

ASSUME BuildParameters == Build!BuildAssumption

(* The place of a step in Order, 0 for none.                               *)
PrismPlace(s) ==
  CASE s = "profile" -> 1 [] s = "pool" -> 2 [] s = "fundamentals" -> 3 [] s = "seasonality" -> 4
    [] s = "relational" -> 5 [] s = "factors" -> 6 [] s = "regimes" -> 7 [] s = "entropy" -> 8
    [] s = "spectral" -> 9 [] s = "filings" -> 10 [] s = "news" -> 11 [] s = "volatility" -> 12
    [] s = "levels" -> 13 [] s = "scenarios" -> 14 [] s = "eigen" -> 15 [] s = "tabular" -> 16
    [] s = "recent" -> 17 [] s = "memo" -> 18 [] s = "save" -> 19 [] OTHER -> 0
SituatePlace(s) ==
  CASE s = "profile" -> 1 [] s = "panel" -> 2 [] s = "pool" -> 3 [] s = "implied" -> 4
    [] s = "judge" -> 5 [] s = "levels" -> 6 [] s = "stack" -> 7 [] s = "tabular" -> 8
    [] s = "odds" -> 9 [] s = "scenarios" -> 10 [] s = "memo" -> 11 [] s = "save" -> 12 [] OTHER -> 0
BuildPlace(e, s) == IF e = "prism" THEN PrismPlace(s) ELSE SituatePlace(s)

BuildLength(e) == IF e = "prism" THEN 19 ELSE 12

BuildSteps(e) ==
  IF e = "prism"
  THEN {"profile", "fundamentals", "seasonality", "relational", "factors", "regimes", "entropy", "spectral",
        "filings", "news", "volatility", "levels", "scenarios", "eigen", "tabular", "recent", "memo"}
  ELSE {"profile", "panel", "implied", "levels", "stack", "tabular", "odds", "scenarios", "memo"}
BuildPooled(e) ==
  IF e = "prism"
  THEN {"universe", "macro", "filings", "news", "history", "sec_trend"}
  ELSE {"exposure", "state", "base_rates", "fundamentals", "text"}
BuildItems(e) == BuildPooled(e) \cup BuildSteps(e)

(* When an item is begun, when it is set, and when it is final.            *)
BuildBegins(e, s) == IF s \in BuildPooled(e) THEN BuildPlace(e, "pool") ELSE BuildPlace(e, s)
BuildDue(e, s) ==
  IF s \in BuildPooled(e) /\ s \notin Build!Late THEN BuildPlace(e, "pool") ELSE BuildPlace(e, s)
BuildFinal(e, s) == IF s = "implied" THEN BuildPlace(e, "judge") ELSE BuildDue(e, s)

LEMMA BuildOrder ==
  ASSUME NEW e \in Build!Engines
  PROVE  /\ Len(Build!Order(e)) = BuildLength(e) /\ DOMAIN Build!Order(e) = 1..BuildLength(e)
         /\ Build!Len(Build!Order(e)) = BuildLength(e)
         /\ \A k \in 1..BuildLength(e) : BuildPlace(e, Build!Order(e)[k]) = k
<1>1. CASE e = "prism"
  <2>1. /\ Len(Build!Order(e)) = 19 /\ DOMAIN Build!Order(e) = 1..19
    BY <1>1 DEF Build!Order
  <2>2. ASSUME NEW k \in 1..19
        PROVE  BuildPlace(e, Build!Order(e)[k]) = k
    BY <1>1 DEF Build!Order, BuildPlace, PrismPlace
  <2> QED BY <1>1, <2>1, <2>2 DEF BuildLength
<1>2. CASE e = "situate"
  <2>1. /\ Len(Build!Order(e)) = 12 /\ DOMAIN Build!Order(e) = 1..12
    BY <1>2 DEF Build!Order
  <2>2. ASSUME NEW k \in 1..12
        PROVE  BuildPlace(e, Build!Order(e)[k]) = k
    <3>1. e # "prism"
      BY <1>2
    <3>2. Build!Order(e) = <<"profile", "panel", "pool", "implied", "judge", "levels", "stack", "tabular",
                             "odds", "scenarios", "memo", "save">>
      BY <3>1 DEF Build!Order
    <3>3. k \in {1, 2, 3, 4, 5, 6, 7, 8, 9, 10, 11, 12}
      OBVIOUS
    <3> QED BY <3>1, <3>2, <3>3 DEF BuildPlace, SituatePlace
  <2> QED BY <1>2, <2>1, <2>2 DEF BuildLength
<1> QED BY <1>1, <1>2 DEF Build!Engines

LEMMA BuildNames ==
  ASSUME NEW e \in Build!Engines
  PROVE  /\ Build!Pooled(e) = BuildPooled(e) /\ Build!Steps(e) = BuildSteps(e)
         /\ Build!Items(e) = BuildItems(e)
<1>1. CASE e = "prism"
  <2>1. Build!Pooled(e) = BuildPooled(e)
    BY <1>1 DEF Build!Pooled, Build!Elements, Build!Jobs, BuildPooled
  <2>2. Build!Steps(e) = BuildSteps(e)
    BY <1>1 DEF Build!Steps, Build!Elements, Build!Order, BuildSteps
  <2> QED BY <2>1, <2>2 DEF Build!Items, BuildItems
<1>2. CASE e = "situate"
  <2>1. Build!Pooled(e) = BuildPooled(e)
    BY <1>2 DEF Build!Pooled, Build!Elements, Build!Jobs, BuildPooled
  <2>2. Build!Steps(e) = BuildSteps(e)
    BY <1>2 DEF Build!Steps, Build!Elements, Build!Order, BuildSteps
  <2> QED BY <2>1, <2>2 DEF Build!Items, BuildItems
<1> QED BY <1>1, <1>2 DEF Build!Engines

LEMMA BuildNeeds ==
  ASSUME NEW e \in Build!Engines, NEW s \in BuildItems(e)
  PROVE  Build!Needs(e, s) \subseteq Build!Reads(e, s)
<1>1. CASE e = "prism"
  BY <1>1 DEF Build!Needs, Build!Reads, Build!PrismReads
<1>2. CASE e = "situate"
  BY <1>2 DEF Build!Needs, Build!Reads, Build!SituateReads
<1> QED BY <1>1, <1>2 DEF Build!Engines

LEMMA BuildPlaces ==
  ASSUME NEW e \in Build!Engines, NEW s \in BuildItems(e)
  PROVE  /\ BuildBegins(e, s) \in Nat /\ BuildDue(e, s) \in Nat /\ BuildFinal(e, s) \in Nat
         /\ 1 <= BuildBegins(e, s) /\ BuildBegins(e, s) <= BuildDue(e, s)
         /\ BuildDue(e, s) <= BuildFinal(e, s) /\ BuildFinal(e, s) < BuildLength(e)
         /\ s \notin {"store", "pool", "judge", "save"}
<1>1. CASE e = "prism"
  BY <1>1 DEF BuildItems, BuildPooled, BuildSteps, BuildBegins, BuildDue, BuildFinal, BuildPlace, PrismPlace,
    BuildLength, Build!Late
<1>2. CASE e = "situate"
  <2>1. e # "prism" /\ BuildLength(e) = 12
    BY <1>2 DEF BuildLength
  <2>2. BuildPlace(e, "pool") = 3 /\ BuildPlace(e, "judge") = 5
    BY <2>1 DEF BuildPlace, SituatePlace
  <2>3. CASE s \in BuildPooled(e)
    <3>1. s \in {"exposure", "state", "base_rates", "fundamentals", "text"}
      BY <2>1, <2>3 DEF BuildPooled
    <3> QED BY <2>1, <2>2, <2>3, <3>1 DEF BuildBegins, BuildDue, BuildFinal, Build!Late
  <2>4. CASE s \notin BuildPooled(e)
    <3>1. s \in {"profile", "panel", "implied", "levels", "stack", "tabular", "odds", "scenarios", "memo"}
      BY <2>1, <2>4 DEF BuildItems, BuildSteps
    <3>2. BuildPlace(e, s) \in 1..11 /\ (s = "implied" => BuildPlace(e, s) = 4)
      BY <2>1, <3>1 DEF BuildPlace, SituatePlace
    <3>3. BuildBegins(e, s) = BuildPlace(e, s) /\ BuildDue(e, s) = BuildPlace(e, s)
          /\ BuildFinal(e, s) = (IF s = "implied" THEN 5 ELSE BuildPlace(e, s))
      BY <2>2, <2>4 DEF BuildBegins, BuildDue, BuildFinal
    <3> QED BY <2>1, <3>1, <3>2, <3>3
  <2> QED BY <2>3, <2>4
<1> QED BY <1>1, <1>2 DEF Build!Engines

LEMMA BuildReads ==
  ASSUME NEW e \in Build!Engines, NEW s \in BuildItems(e), NEW x \in Build!Reads(e, s)
  PROVE  /\ x \in BuildItems(e) /\ BuildFinal(e, x) < BuildBegins(e, s)
<1>0. /\ Build!Items(e) = BuildItems(e)
      /\ e = "prism" \/ e = "situate"
  BY BuildNames DEF Build!Engines
<1>1. CASE s = "memo"
  <2>1. x \in BuildItems(e) /\ x # "memo" /\ s \notin BuildPooled(e)
    BY <1>0, <1>1 DEF Build!Reads, Build!Sections, BuildPooled
  <2>2. CASE e = "prism"
    <3>1. BuildFinal(e, x) < 18
      BY <2>1, <2>2 DEF BuildItems, BuildPooled, BuildSteps, BuildDue, BuildFinal, BuildPlace, PrismPlace, Build!Late
    <3>2. BuildBegins(e, s) = 18
      BY <1>1, <2>1, <2>2 DEF BuildBegins, BuildPlace, PrismPlace
    <3> QED BY <2>1, <3>1, <3>2
  <2>3. CASE e = "situate"
    <3>0. e # "prism"
      BY <2>3
    <3>2. BuildBegins(e, s) = 11 /\ BuildPlace(e, "pool") = 3 /\ BuildPlace(e, "judge") = 5
      BY <1>1, <2>1, <3>0 DEF BuildBegins, BuildPlace, SituatePlace
    <3>3. BuildFinal(e, x) \in {3, 5, BuildPlace(e, x)}
      BY <3>2 DEF BuildFinal, BuildDue
    <3>4. CASE BuildFinal(e, x) = BuildPlace(e, x) /\ x \notin BuildPooled(e)
      <4>1. x \in {"profile", "panel", "implied", "levels", "stack", "tabular", "odds", "scenarios"}
        BY <2>1, <3>0, <3>4 DEF BuildItems, BuildSteps
      <4>2. BuildPlace(e, x) < 11
        BY <3>0, <4>1 DEF BuildPlace, SituatePlace
      <4> QED BY <2>1, <3>2, <3>4, <4>2
    <3>5. CASE x \in BuildPooled(e)
      <4>1. x \notin Build!Late /\ x # "implied"
        BY <3>0, <3>5 DEF BuildPooled, Build!Late
      <4>2. BuildFinal(e, x) = 3
        BY <3>2, <3>5, <4>1 DEF BuildFinal, BuildDue
      <4> QED BY <2>1, <3>2, <4>2
    <3> QED BY <2>1, <3>2, <3>3, <3>4, <3>5
  <2> QED BY <1>0, <2>2, <2>3
<1>3. CASE s # "memo" /\ e = "prism"
  BY <1>3 DEF BuildItems, BuildPooled, BuildSteps, BuildBegins, BuildDue, BuildFinal, BuildPlace, PrismPlace,
    Build!Late, Build!Reads, Build!PrismReads
<1>4. CASE s # "memo" /\ e = "situate"
  BY <1>4 DEF BuildItems, BuildPooled, BuildSteps, BuildBegins, BuildDue, BuildFinal, BuildPlace, SituatePlace,
    Build!Late, Build!Reads, Build!SituateReads
<1> QED BY <1>0, <1>1, <1>3, <1>4

-----------------------------------------------------------------------------
BuildTyped ==
  /\ engine \in Build!Engines /\ wish \in Wishes
  /\ at \in 0..(BuildLength(engine) + 1)
  /\ item \in [BuildItems(engine) -> {"unset", "there", "null"}]
  /\ status \in [BuildItems(engine) \cup {"store"} -> Build!Statuses]
  /\ told \subseteq BuildItems(engine) \cup {"store"}
  /\ failed \subseteq BuildItems(engine) \cup {"store"} /\ Build!Cardinality(failed) <= MaxFailures
  /\ jobs \in [BuildPooled(engine) -> {"queued", "running", "there", "null"}]

(* An item is set when the order is past its place.                        *)
BuildSet == \A i \in BuildItems(engine) : item[i] = "unset" <=> at <= BuildDue(engine, i)

(* The pool runs at its place, and is empty after it.                      *)
BuildRan ==
  \A j \in BuildPooled(engine) :
    /\ jobs[j] # "queued" => BuildPlace(engine, "pool") <= at
    /\ jobs[j] \in {"queued", "running"} => at <= BuildPlace(engine, "pool")

(* What is lost has a cause, and the packet tells.                         *)
BuildCause(i) ==
  i \in failed \/ ~Build!Able(i) \/ (i = "memo" /\ ~wish.memo) \/ (i = "implied" /\ wish.past)
BuildLost ==
  /\ \A j \in BuildPooled(engine) : jobs[j] = "null" => BuildCause(j)
  /\ \A i \in BuildItems(engine) :
       item[i] = "null" => i \in told /\ status[i] \in {"error", "unavailable"} /\ BuildCause(i)

(* What a builder saw is what is there.                                    *)
BuildSaw ==
  \A s \in DOMAIN sight :
    /\ s \in BuildItems(engine) /\ BuildBegins(engine, s) <= at
    /\ sight[s] = Build!Seen(s)

BuildStored == Build!ReturnedIsKept

BuildInv == BuildTyped /\ BuildSet /\ BuildRan /\ BuildLost /\ BuildSaw /\ BuildStored

LEMMA BuildIs ==
  ASSUME BuildTyped, NEW s, Build!Is(s)
  PROVE  /\ at \in 1..BuildLength(engine) /\ at = BuildPlace(engine, s)
         /\ engine \in Build!Engines /\ at \in Nat /\ BuildLength(engine) \in {12, 19}
BY BuildOrder DEF BuildTyped, Build!Is, BuildLength

(* What is final stays, and with it what was seen of it and who is able.   *)
LEMMA BuildSeenStays ==
  ASSUME BuildTyped, engine' = engine, at \in Nat, NEW s \in BuildItems(engine), BuildBegins(engine, s) <= at,
         \A i \in BuildItems(engine) : BuildFinal(engine, i) < at => item'[i] = item[i]
  PROVE  Build!Seen(s)' = Build!Seen(s) /\ (Build!Able(s)' <=> Build!Able(s))
<1>0. engine \in Build!Engines
  BY DEF BuildTyped
<1>1. ASSUME NEW x \in Build!Reads(engine, s)
      PROVE  item'[x] = item[x]
  BY <1>0, <1>1, BuildReads, BuildPlaces
<1>2. Build!Seen(s)' = Build!Seen(s)
  BY <1>1 DEF Build!Seen
<1>3. \A x \in Build!Needs(engine, s) : item'[x] = item[x]
  BY <1>0, <1>1, BuildNeeds
<1> QED BY <1>2, <1>3 DEF Build!Able

LEMMA BuildOn ==
  ASSUME BuildInv, BuildTyped', BuildSet', BuildRan', BuildStored',
         engine' = engine, wish' = wish, at \in 1..BuildLength(engine), at' \in {at, at + 1},
         told \subseteq told', failed \subseteq failed',
         \A i \in BuildItems(engine) : BuildFinal(engine, i) < at => item'[i] = item[i],
         \A j \in BuildPooled(engine) : jobs'[j] = "null" =>
           \/ jobs[j] = "null"
           \/ BuildBegins(engine, j) <= at /\ (j \in failed' \/ ~Build!Able(j)),
         \A i \in BuildItems(engine) : item'[i] = "null" =>
           \/ item[i] = "null" /\ status'[i] = status[i]
           \/ /\ i \in told' /\ status'[i] \in {"error", "unavailable"}
              /\ i \in failed' \/ ~Build!Able(i) \/ (i = "memo" /\ ~wish.memo) \/ (i = "implied" /\ wish.past),
         \A s \in DOMAIN sight' :
           \/ s \in DOMAIN sight /\ sight'[s] = sight[s]
           \/ s \in BuildItems(engine) /\ BuildBegins(engine, s) <= at /\ sight'[s] = Build!Seen(s)
  PROVE  BuildInv'
<1>0. /\ engine \in Build!Engines /\ at \in Nat /\ at <= at' /\ at' \in Nat /\ at' <= at + 1
      /\ BuildPooled(engine) \subseteq BuildItems(engine) /\ BuildLength(engine) \in Nat
  BY DEF BuildInv, BuildTyped, BuildItems, BuildLength
<1>1. \A s \in BuildItems(engine) :
        BuildBegins(engine, s) <= at => Build!Seen(s)' = Build!Seen(s) /\ (Build!Able(s)' <=> Build!Able(s))
  BY <1>0, BuildSeenStays DEF BuildInv
<1>2. \A j \in BuildPooled(engine) : jobs'[j] = "null" => BuildCause(j)'
  <2> SUFFICES ASSUME NEW j \in BuildPooled(engine), jobs'[j] = "null"
               PROVE  BuildCause(j)'
    OBVIOUS
  <2>1. CASE jobs[j] = "null"
    <3>1. BuildCause(j) /\ BuildPlace(engine, "pool") <= at
      BY <2>1 DEF BuildInv, BuildLost, BuildRan
    <3>2. BuildBegins(engine, j) <= at
      BY <3>1 DEF BuildBegins
    <3> QED BY <1>0, <1>1, <3>1, <3>2 DEF BuildCause
  <2>2. CASE BuildBegins(engine, j) <= at /\ (j \in failed' \/ ~Build!Able(j))
    BY <1>0, <1>1, <2>2 DEF BuildCause
  <2> QED BY <2>1, <2>2
<1>3. \A i \in BuildItems(engine) :
        item'[i] = "null" => i \in told' /\ status'[i] \in {"error", "unavailable"} /\ BuildCause(i)'
  <2> SUFFICES ASSUME NEW i \in BuildItems(engine), item'[i] = "null"
               PROVE  i \in told' /\ status'[i] \in {"error", "unavailable"} /\ BuildCause(i)'
    OBVIOUS
  <2>1. ~(at' <= BuildDue(engine, i))
    BY DEF BuildSet
  <2>2. BuildBegins(engine, i) <= at
    BY <1>0, <2>1, BuildPlaces
  <2>3. CASE item[i] = "null" /\ status'[i] = status[i]
    <3>1. i \in told /\ status[i] \in {"error", "unavailable"} /\ BuildCause(i)
      BY <2>3 DEF BuildInv, BuildLost
    <3> QED BY <1>1, <2>2, <2>3, <3>1 DEF BuildCause
  <2>4. CASE ~(item[i] = "null" /\ status'[i] = status[i])
    BY <1>1, <2>2, <2>4 DEF BuildCause
  <2> QED BY <2>3, <2>4
<1>4. BuildLost'
  BY <1>2, <1>3 DEF BuildLost
<1>5. BuildSaw'
  <2> SUFFICES ASSUME NEW s \in DOMAIN sight'
               PROVE  /\ s \in BuildItems(engine) /\ BuildBegins(engine, s) <= at'
                      /\ sight'[s] = Build!Seen(s)'
    BY DEF BuildSaw
  <2>1. s \in BuildItems(engine) /\ BuildBegins(engine, s) <= at /\ sight'[s] = Build!Seen(s)
    BY DEF BuildInv, BuildSaw
  <2> QED BY <1>0, <1>1, <2>1, BuildPlaces
<1> QED BY <1>4, <1>5 DEF BuildInv

LEMMA BuildNamed ==
  ASSUME NEW e \in Build!Engines, NEW s \in BuildSteps(e) \cup {"pool"}
  PROVE  Build!Order(e)[BuildPlace(e, s)] = s
<1>1. CASE e = "prism"
  BY <1>1 DEF Build!Order, BuildPlace, PrismPlace, BuildSteps
<1>2. CASE e = "situate"
  <2>1. e # "prism"
    BY <1>2
  <2> QED BY <2>1 DEF Build!Order, BuildPlace, SituatePlace, BuildSteps
<1> QED BY <1>1, <1>2 DEF Build!Engines

LEMMA BuildKinds ==
  ASSUME NEW e \in Build!Engines
  PROVE  /\ \A s \in BuildSteps(e) \ Build!Late : s \notin BuildPooled(e)
         /\ \A s \in Build!Late \cap BuildPooled(e) : BuildPlace(e, "pool") < BuildPlace(e, s)
         /\ BuildPlace(e, "pool") \in 1..11 /\ BuildPlace(e, "pool") < BuildLength(e)
         /\ BuildPlace(e, "judge") < BuildLength(e) /\ (BuildPlace(e, "judge") >= 1 => e = "situate")
         /\ BuildPlace(e, "save") = BuildLength(e)
         /\ e = "situate" => BuildPlace(e, "pool") = 3 /\ BuildPlace(e, "implied") = 4 /\ BuildPlace(e, "judge") = 5
<1>1. CASE e = "prism"
  BY <1>1 DEF BuildPlace, PrismPlace, BuildSteps, BuildPooled, Build!Late, BuildLength
<1>2. CASE e = "situate"
  <2>1. e # "prism"
    BY <1>2
  <2>2. /\ BuildPlace(e, "pool") = 3 /\ BuildPlace(e, "judge") = 5 /\ BuildPlace(e, "save") = 12
        /\ BuildPlace(e, "implied") = 4 /\ BuildLength(e) = 12
    BY <2>1 DEF BuildPlace, SituatePlace, BuildLength
  <2>3. BuildSteps(e) \cap BuildPooled(e) = {} /\ Build!Late \cap BuildPooled(e) = {}
    BY <2>1 DEF BuildSteps, BuildPooled, Build!Late
  <2> QED BY <2>1, <2>2, <2>3, <1>2
<1> QED BY <1>1, <1>2 DEF Build!Engines

(* Only a step sets what is due at its place.                              *)
LEMMA BuildOnlyDue ==
  ASSUME BuildTyped, NEW s, Build!Is(s), NEW i \in BuildItems(engine), BuildDue(engine, i) = at
  PROVE  i = s \/ (s = "pool" /\ i \in BuildPooled(engine) \ Build!Late)
<1>0. /\ engine \in Build!Engines /\ Build!Order(engine)[at] = s
  BY BuildIs DEF Build!Is
<1>1. CASE i \in BuildPooled(engine) \ Build!Late
  BY <1>0, <1>1, BuildNamed DEF BuildDue
<1>2. CASE i \notin BuildPooled(engine) \ Build!Late
  <2>1. i \in BuildSteps(engine) /\ BuildPlace(engine, i) = at
    BY <1>2 DEF BuildItems, BuildDue, BuildPooled, BuildSteps, Build!Late
  <2> QED BY <1>0, <2>1, BuildNamed
<1> QED BY <1>1, <1>2

(* A step of the order sets what is due at its place, and no other.        *)
LEMMA BuildPlaced ==
  ASSUME BuildInv, NEW s, Build!Is(s), engine' = engine, at' = at + 1, item' \in [BuildItems(engine) -> {"unset", "there", "null"}],
         \A i \in BuildItems(engine) :
           IF i = s \/ (s = "pool" /\ i \in BuildPooled(engine) \ Build!Late)
           THEN BuildDue(engine, i) = at /\ item'[i] # "unset"
           ELSE item'[i] = "unset" <=> item[i] = "unset"
  PROVE  BuildSet'
<1>0. BuildTyped /\ BuildSet /\ engine \in Build!Engines /\ at \in Nat
  BY BuildIs DEF BuildInv
<1> SUFFICES ASSUME NEW i \in BuildItems(engine)
             PROVE  item'[i] = "unset" <=> at' <= BuildDue(engine, i)
  BY DEF BuildSet
<1>1. item[i] = "unset" <=> at <= BuildDue(engine, i)
  BY <1>0 DEF BuildSet
<1>2. BuildDue(engine, i) \in Nat
  BY <1>0, BuildPlaces
<1>3. BuildDue(engine, i) = at => i = s \/ (s = "pool" /\ i \in BuildPooled(engine) \ Build!Late)
  BY <1>0, BuildOnlyDue
<1> QED BY <1>0, <1>1, <1>2, <1>3

LEMMA BuildUnfinished ==
  ASSUME engine \in Build!Engines, engine' = engine, at' <= BuildLength(engine), at' \in Nat
  PROVE  BuildStored'
<1>1. Build!Len(Build!Order(engine)) = BuildLength(engine) /\ BuildLength(engine) \in Nat
  BY BuildOrder DEF BuildLength
<1>2. ~Build!Returned'
  BY <1>1 DEF Build!Returned
<1> QED BY <1>2 DEF BuildStored, Build!ReturnedIsKept

LEMMA BuildBuild ==
  ASSUME BuildInv, NEW s, NEW value \in {"there", "partial", "null"}, Build!Build(s, value)
  PROVE  BuildInv'
<1>0. /\ engine \in Build!Engines /\ s \in BuildSteps(engine) /\ s \notin Build!Late /\ Build!Is(s)
      /\ at' = at + 1 /\ UNCHANGED <<jobs, engine, wish, kept>> /\ BuildTyped
      /\ s \in BuildItems(engine) /\ s \notin BuildPooled(engine)
  BY BuildNames, BuildKinds DEF Build!Build, Build!Onward, BuildInv, BuildTyped, BuildItems
<1>1. at \in 1..BuildLength(engine) /\ at = BuildPlace(engine, s) /\ at \in Nat /\ BuildLength(engine) \in Nat
  BY <1>0, BuildIs
<1>2. BuildBegins(engine, s) = at /\ BuildDue(engine, s) = at /\ at < BuildLength(engine) /\ s # "pool" /\ s # "store"
      /\ at <= BuildFinal(engine, s) /\ BuildFinal(engine, s) \in Nat /\ BuildLength(engine) \in Nat
  <2>1. BuildBegins(engine, s) = at /\ BuildDue(engine, s) = at
    BY <1>0, <1>1 DEF BuildBegins, BuildDue
  <2> QED BY <1>0, <1>1, <2>1, BuildPlaces
<1>3. /\ item' = [item EXCEPT ![s] = IF value = "null" THEN "null" ELSE "there"]
      /\ told \subseteq told' /\ told' \subseteq told \cup {s}
      /\ value = "null" => s \in told' /\ status'[s] \in {"error", "unavailable"}
      /\ status' \in [BuildItems(engine) \cup {"store"} -> Build!Statuses]
      /\ \A i \in BuildItems(engine) : i # s => status'[i] = status[i]
  <2>1. Build!Sets(s, value)
    BY DEF Build!Build
  <2>2. status \in [BuildItems(engine) \cup {"store"} -> Build!Statuses]
    BY <1>0 DEF BuildTyped
  <2>3. CASE value = "null"
    BY <1>0, <2>1, <2>2, <2>3 DEF Build!Sets, Build!Null, Build!Statuses
  <2>4. CASE value # "null"
    BY <1>0, <2>1, <2>2, <2>4 DEF Build!Sets, Build!Statuses
  <2> QED BY <2>3, <2>4
<1>4. /\ failed \subseteq failed' /\ failed' \subseteq failed \cup {s} /\ Build!Cardinality(failed') <= MaxFailures
      /\ value = "null" => s \in failed' \/ ~Build!Able(s) \/ (s = "memo" /\ ~wish.memo)
      /\ \A x \in DOMAIN sight' :
           \/ x \in DOMAIN sight /\ sight'[x] = sight[x]
           \/ x = s /\ sight'[x] = Build!Seen(s)
  <2>1. CASE s = "memo" /\ ~wish.memo
    <3>1. sight' = sight /\ failed' = failed
      BY <2>1 DEF Build!Build
    <3>2. Build!Cardinality(failed) <= MaxFailures
      BY <1>0 DEF BuildTyped
    <3> QED BY <2>1, <3>1, <3>2
  <2>2. CASE ~(s = "memo" /\ ~wish.memo)
    <3>1. Build!Ends(s, value) /\ Build!Sees(s)
      BY <2>2 DEF Build!Build
    <3>2. /\ failed \subseteq failed' /\ failed' \subseteq failed \cup {s} /\ Build!Cardinality(failed') <= MaxFailures
          /\ value = "null" => s \in failed' \/ ~Build!Able(s)
      <4>1. /\ failed' = failed \/ failed' = failed \cup {s}
            /\ value = "null" /\ Build!Able(s) => failed' = failed \cup {s}
        BY <3>1, Zenon DEF Build!Ends
      <4>2. Build!Cardinality(failed') <= MaxFailures
        BY <3>1, Zenon DEF Build!Ends
      <4> QED BY <4>1, <4>2
    <3>3. \A x \in DOMAIN sight' :
           \/ x \in DOMAIN sight /\ sight'[x] = sight[x]
           \/ x = s /\ sight'[x] = Build!Seen(s)
      BY <3>1 DEF Build!Sees
    <3> QED BY <3>2, <3>3
  <2> QED BY <2>1, <2>2
<1>5. BuildTyped'
  BY <1>0, <1>1, <1>3, <1>4 DEF BuildTyped
<1>6. item' \in [BuildItems(engine) -> {"unset", "there", "null"}]
      /\ item'[s] # "unset" /\ \A i \in BuildItems(engine) : i # s => item'[i] = item[i]
  BY <1>0, <1>3 DEF BuildTyped
<1>7. BuildSet'
  <2>1. \A i \in BuildItems(engine) :
           IF i = s \/ (s = "pool" /\ i \in BuildPooled(engine) \ Build!Late)
           THEN BuildDue(engine, i) = at /\ item'[i] # "unset"
           ELSE item'[i] = "unset" <=> item[i] = "unset"
    BY <1>2, <1>6
  <2> QED BY <1>0, <1>6, <2>1, BuildPlaced
<1>8. BuildRan'
  <2>1. at # BuildPlace(engine, "pool") /\ BuildPlace(engine, "pool") \in Nat
    BY <1>0, <1>2, BuildNamed, BuildKinds DEF Build!Is
  <2> QED BY <1>0, <1>1, <2>1 DEF BuildInv, BuildRan
<1>9. BuildStored'
  BY <1>0, <1>1, <1>2, BuildUnfinished
<1>10. \A i \in BuildItems(engine) : BuildFinal(engine, i) < at => item'[i] = item[i]
  BY <1>1, <1>2, <1>6
<1>11. \A i \in BuildItems(engine) : item'[i] = "null" =>
           \/ item[i] = "null" /\ status'[i] = status[i]
           \/ /\ i \in told' /\ status'[i] \in {"error", "unavailable"}
              /\ i \in failed' \/ ~Build!Able(i) \/ (i = "memo" /\ ~wish.memo) \/ (i = "implied" /\ wish.past)
  <2> SUFFICES ASSUME NEW i \in BuildItems(engine), item'[i] = "null"
               PROVE  \/ item[i] = "null" /\ status'[i] = status[i]
                      \/ /\ i \in told' /\ status'[i] \in {"error", "unavailable"}
                         /\ i \in failed' \/ ~Build!Able(i) \/ (i = "memo" /\ ~wish.memo) \/ (i = "implied" /\ wish.past)
    OBVIOUS
  <2>1. CASE i = s
    <3>1. value = "null"
      BY <1>0, <1>3, <2>1 DEF BuildTyped
    <3> QED BY <1>3, <1>4, <2>1, <3>1
  <2>2. CASE i # s
    BY <1>3, <1>6, <2>2
  <2> QED BY <2>1, <2>2
<1>12. \A x \in DOMAIN sight' :
           \/ x \in DOMAIN sight /\ sight'[x] = sight[x]
           \/ x \in BuildItems(engine) /\ BuildBegins(engine, x) <= at /\ sight'[x] = Build!Seen(x)
  BY <1>0, <1>1, <1>2, <1>4
<1>13. \A j \in BuildPooled(engine) : jobs'[j] = "null" => jobs[j] = "null"
  BY <1>0
<1> QED BY <1>0, <1>1, <1>4, <1>3, <1>5, <1>7, <1>8, <1>9, <1>10, <1>11, <1>12, <1>13, BuildOn

LEMMA BuildJobStarts ==
  ASSUME BuildInv, NEW j, Build!JobStarts(j)
  PROVE  BuildInv'
<1>0. /\ Build!Is("pool") /\ BuildTyped /\ BuildSet /\ BuildRan /\ engine \in Build!Engines
      /\ UNCHANGED <<engine, wish, at, item, told, status, failed, kept>>
  BY DEF Build!JobStarts, BuildInv, BuildTyped
<1>1. /\ j \in BuildPooled(engine) /\ jobs' = [jobs EXCEPT ![j] = "running"]
      /\ jobs \in [BuildPooled(engine) -> {"queued", "running", "there", "null"}]
  BY <1>0 DEF Build!JobStarts, Build!Start, Build!Queued, BuildTyped
<1>2. /\ at \in 1..BuildLength(engine) /\ at = BuildPlace(engine, "pool") /\ at \in Nat
      /\ at \in {at, at + 1} /\ BuildLength(engine) \in Nat
  BY <1>0, BuildIs
<1>3. j \in BuildItems(engine) /\ BuildBegins(engine, j) <= at
  BY <1>1, <1>2 DEF BuildItems, BuildBegins
<1>4. BuildTyped'
  BY <1>0, <1>1 DEF BuildTyped
<1>5. BuildSet'
  BY <1>0 DEF BuildSet
<1>6. BuildRan'
  BY <1>0, <1>1, <1>2 DEF BuildRan
<1>7. BuildStored'
  BY <1>0, <1>2, BuildUnfinished
<1>8. \A x \in DOMAIN sight' :
           \/ x \in DOMAIN sight /\ sight'[x] = sight[x]
           \/ x = j /\ sight'[x] = Build!Seen(j)
  <2>1. Build!Sees(j)
    BY DEF Build!JobStarts
  <2> QED BY <2>1 DEF Build!Sees
<1>9. \A i \in BuildPooled(engine) : jobs'[i] = "null" => jobs[i] = "null"
  BY <1>1
<1> QED BY <1>0, <1>2, <1>3, <1>4, <1>5, <1>6, <1>7, <1>8, <1>9, BuildOn

LEMMA BuildJobEnds ==
  ASSUME BuildInv, NEW j, NEW value, Build!JobEnds(j, value)
  PROVE  BuildInv'
<1>0. /\ BuildTyped /\ BuildSet /\ BuildRan /\ engine \in Build!Engines
      /\ UNCHANGED <<engine, wish, at, item, told, status, sight, kept>>
  BY DEF Build!JobEnds, BuildInv, BuildTyped
<1>1. /\ j \in BuildPooled(engine) /\ jobs[j] = "running" /\ jobs' = [jobs EXCEPT ![j] = value]
      /\ value \in {"there", "null"}
      /\ jobs \in [BuildPooled(engine) -> {"queued", "running", "there", "null"}]
  BY <1>0 DEF Build!JobEnds, Build!Finish, Build!Running, BuildTyped
<1>2. /\ at = BuildPlace(engine, "pool") /\ at \in 1..BuildLength(engine) /\ BuildLength(engine) \in Nat
      /\ at \in {at, at + 1}
  <2>1. BuildPlace(engine, "pool") <= at /\ at <= BuildPlace(engine, "pool")
    BY <1>0, <1>1 DEF BuildRan
  <2>2. at \in Nat /\ BuildLength(engine) \in Nat
    BY <1>0 DEF BuildTyped, BuildLength
  <2> QED BY <1>0, <2>1, <2>2, BuildKinds
<1>3. j \in BuildItems(engine) /\ BuildBegins(engine, j) <= at
  BY <1>1, <1>2 DEF BuildItems, BuildBegins
<1>4. /\ failed \subseteq failed' /\ failed' \subseteq failed \cup {j} /\ Build!Cardinality(failed') <= MaxFailures
      /\ value = "null" => j \in failed' \/ ~Build!Able(j)
  <2>0. Build!Ends(j, value)
    BY DEF Build!JobEnds
  <2>1. /\ failed' = failed \/ failed' = failed \cup {j}
        /\ value = "null" /\ Build!Able(j) => failed' = failed \cup {j}
    BY <2>0, Zenon DEF Build!Ends
  <2>2. Build!Cardinality(failed') <= MaxFailures
    BY <2>0, Zenon DEF Build!Ends
  <2> QED BY <2>1, <2>2
<1>5. BuildTyped'
  BY <1>0, <1>1, <1>3, <1>4 DEF BuildTyped
<1>6. BuildSet'
  BY <1>0 DEF BuildSet
<1>7. BuildRan'
  BY <1>0, <1>1, <1>2 DEF BuildRan
<1>8. BuildStored'
  BY <1>0, <1>2, BuildUnfinished
<1>9. \A i \in BuildPooled(engine) : jobs'[i] = "null" =>
        \/ jobs[i] = "null"
        \/ BuildBegins(engine, i) <= at /\ (i \in failed' \/ ~Build!Able(i))
  BY <1>1, <1>3, <1>4
<1> QED BY <1>0, <1>2, <1>4, <1>5, <1>6, <1>7, <1>8, <1>9, BuildOn

LEMMA BuildGather ==
  ASSUME BuildInv, Build!Gather
  PROVE  BuildInv'
<1> DEFINE lost == {j \in BuildPooled(engine) : jobs[j] = "null"}
<1>0. /\ Build!Is("pool") /\ BuildTyped /\ BuildSet /\ BuildRan /\ BuildLost /\ engine \in Build!Engines
      /\ at' = at + 1 /\ UNCHANGED <<jobs, engine, wish, sight, failed, kept>> /\ Build!Idle
      /\ Build!Pooled(engine) = BuildPooled(engine) /\ Build!Items(engine) = BuildItems(engine)
      /\ BuildPooled(engine) \subseteq BuildItems(engine)
  BY BuildNames DEF Build!Gather, Build!Onward, BuildInv, BuildTyped, BuildItems
<1>1. /\ item' = [i \in BuildItems(engine) |-> IF i \in BuildPooled(engine) \ Build!Late THEN jobs[i] ELSE item[i]]
      /\ told' = told \cup lost
      /\ status' = [i \in DOMAIN status |->
           IF i = "universe" THEN IF i \in lost THEN "unavailable" ELSE "available"
           ELSE IF i \in lost THEN "error"
           ELSE IF i \in (BuildPooled(engine) \ Build!Late) \ Build!Sources THEN "available" ELSE status[i]]
  BY <1>0 DEF Build!Gather
<1>2. /\ at \in 1..BuildLength(engine) /\ at = BuildPlace(engine, "pool") /\ at \in Nat /\ BuildLength(engine) \in Nat
      /\ at < BuildLength(engine) /\ at + 1 \in {at, at + 1} /\ at + 1 \in Nat /\ at + 1 <= BuildLength(engine)
  BY <1>0, BuildIs, BuildKinds
<1>3. \A j \in BuildPooled(engine) : jobs[j] \in {"there", "null"}
  BY <1>0 DEF BuildTyped, Build!Idle, Build!Pending
<1>4. /\ item' \in [BuildItems(engine) -> {"unset", "there", "null"}]
      /\ \A i \in BuildItems(engine) :
           item'[i] = IF i \in BuildPooled(engine) \ Build!Late THEN jobs[i] ELSE item[i]
  BY <1>0, <1>1, <1>3 DEF BuildTyped
<1>5. lost \subseteq BuildItems(engine)
  BY <1>0
<1>6. status' \in [BuildItems(engine) \cup {"store"} -> Build!Statuses]
      /\ \A i \in BuildItems(engine) :
           /\ i \in lost => status'[i] \in {"error", "unavailable"}
           /\ i \notin BuildPooled(engine) => status'[i] = status[i]
  <2>1. status \in [BuildItems(engine) \cup {"store"} -> Build!Statuses]
    BY <1>0 DEF BuildTyped
  <2>2. "universe" \in BuildItems(engine) => "universe" \in BuildPooled(engine)
    BY DEF BuildItems, BuildPooled, BuildSteps
  <2> QED BY <1>1, <2>1, <2>2 DEF Build!Statuses
<1>7. BuildTyped'
  BY <1>0, <1>1, <1>2, <1>4, <1>5, <1>6 DEF BuildTyped
<1>8. BuildSet'
  <2>1. ASSUME NEW i \in BuildItems(engine)
        PROVE  IF i = "pool" \/ ("pool" = "pool" /\ i \in BuildPooled(engine) \ Build!Late)
               THEN BuildDue(engine, i) = at /\ item'[i] # "unset"
               ELSE item'[i] = "unset" <=> item[i] = "unset"
    <3>1. i # "pool"
      BY <1>0, BuildPlaces
    <3>2. i \in BuildPooled(engine) \ Build!Late => BuildDue(engine, i) = at /\ jobs[i] # "unset"
      BY <1>2, <1>3 DEF BuildDue
    <3> QED BY <1>4, <3>1, <3>2
  <2> QED BY <1>0, <1>4, <2>1, BuildPlaced
<1>9. BuildRan'
  BY <1>0, <1>2, <1>3 DEF BuildRan
<1>10. BuildStored'
  BY <1>0, <1>2, BuildUnfinished
<1>11. \A i \in BuildItems(engine) : BuildFinal(engine, i) < at => item'[i] = item[i]
  <2> SUFFICES ASSUME NEW i \in BuildItems(engine), BuildFinal(engine, i) < at
               PROVE  item'[i] = item[i]
    OBVIOUS
  <2>1. BuildDue(engine, i) # at
    BY <1>0, <1>2, BuildPlaces
  <2> QED BY <1>2, <1>4, <2>1 DEF BuildDue
<1>12. \A i \in BuildItems(engine) : item'[i] = "null" =>
           \/ item[i] = "null" /\ status'[i] = status[i]
           \/ /\ i \in told' /\ status'[i] \in {"error", "unavailable"}
              /\ i \in failed' \/ ~Build!Able(i) \/ (i = "memo" /\ ~wish.memo) \/ (i = "implied" /\ wish.past)
  <2> SUFFICES ASSUME NEW i \in BuildItems(engine), item'[i] = "null"
               PROVE  \/ item[i] = "null" /\ status'[i] = status[i]
                      \/ /\ i \in told' /\ status'[i] \in {"error", "unavailable"}
                         /\ i \in failed' \/ ~Build!Able(i) \/ (i = "memo" /\ ~wish.memo) \/ (i = "implied" /\ wish.past)
    OBVIOUS
  <2>1. CASE i \in BuildPooled(engine) \ Build!Late
    <3>1. i \in lost
      BY <1>4, <2>1
    <3>2. BuildCause(i)
      BY <1>0, <3>1 DEF BuildLost
    <3> QED BY <1>0, <1>1, <1>6, <3>1, <3>2 DEF BuildCause
  <2>2. CASE i \in BuildPooled(engine) /\ i \in Build!Late
    <3>1. item[i] = "null"
      BY <1>4, <2>2
    <3>2. at <= BuildDue(engine, i)
      <4>1. BuildDue(engine, i) = BuildPlace(engine, i)
        BY <2>2 DEF BuildDue
      <4>2. BuildPlace(engine, "pool") < BuildPlace(engine, i)
        BY <1>0, <2>2, BuildKinds
      <4>3. BuildDue(engine, i) \in Nat
        BY <1>0, BuildPlaces
      <4> QED BY <1>2, <4>1, <4>2, <4>3
    <3> QED BY <1>0, <3>1, <3>2 DEF BuildSet
  <2>3. CASE i \notin BuildPooled(engine)
    BY <1>4, <1>6, <2>3
  <2> QED BY <2>1, <2>2, <2>3
<1>13. told \subseteq told'
  BY <1>1
<1> QED BY <1>0, <1>2, <1>7, <1>8, <1>9, <1>10, <1>11, <1>12, <1>13, BuildOn

LEMMA BuildPutIn ==
  ASSUME BuildInv, NEW s, Build!PutIn(s)
  PROVE  BuildInv'
<1>0. /\ engine \in Build!Engines /\ s \in BuildPooled(engine) /\ s \in Build!Late /\ Build!Is(s)
      /\ at' = at + 1 /\ UNCHANGED <<jobs, engine, wish, sight, failed, kept>>
      /\ BuildTyped /\ BuildSet /\ BuildRan /\ BuildLost /\ s \in BuildItems(engine)
  BY BuildNames DEF Build!PutIn, Build!Onward, BuildInv, BuildTyped, BuildItems
<1>1. /\ at \in 1..BuildLength(engine) /\ at = BuildPlace(engine, s) /\ at \in Nat /\ BuildLength(engine) \in Nat
      /\ BuildPlace(engine, "pool") \in Nat /\ BuildPlace(engine, "pool") < at
  <2>1. BuildPlace(engine, "pool") \in Nat /\ BuildPlace(engine, "pool") < BuildPlace(engine, s)
    BY <1>0, BuildKinds
  <2> QED BY <1>0, <2>1, BuildIs
<1>2. /\ BuildDue(engine, s) = at /\ at < BuildLength(engine) /\ s # "pool" /\ s # "store"
      /\ at <= BuildFinal(engine, s) /\ BuildFinal(engine, s) \in Nat
  <2>1. BuildDue(engine, s) = at
    BY <1>0, <1>1 DEF BuildDue
  <2> QED BY <1>0, <1>1, <2>1, BuildPlaces
<1>3. jobs[s] \in {"there", "null"}
  BY <1>0, <1>1 DEF BuildTyped, BuildRan
<1>4. /\ item' = [item EXCEPT ![s] = jobs[s]]
      /\ told \subseteq told' /\ told' \subseteq told \cup {s}
      /\ jobs[s] = "null" => s \in told' /\ status'[s] \in {"error", "unavailable"}
      /\ status' \in [BuildItems(engine) \cup {"store"} -> Build!Statuses]
      /\ \A i \in BuildItems(engine) : i # s => status'[i] = status[i]
  <2>1. Build!Sets(s, jobs[s])
    BY DEF Build!PutIn
  <2>2. status \in [BuildItems(engine) \cup {"store"} -> Build!Statuses]
    BY <1>0 DEF BuildTyped
  <2>3. CASE jobs[s] = "null"
    BY <1>0, <2>1, <2>2, <2>3 DEF Build!Sets, Build!Null, Build!Statuses
  <2>4. CASE jobs[s] # "null"
    BY <1>0, <1>3, <2>1, <2>2, <2>4 DEF Build!Sets, Build!Statuses
  <2> QED BY <2>3, <2>4
<1>5. BuildTyped'
  BY <1>0, <1>1, <1>3, <1>4 DEF BuildTyped
<1>6. item' \in [BuildItems(engine) -> {"unset", "there", "null"}]
      /\ item'[s] = jobs[s] /\ \A i \in BuildItems(engine) : i # s => item'[i] = item[i]
  BY <1>0, <1>3, <1>4 DEF BuildTyped
<1>7. BuildSet'
  <2>1. \A i \in BuildItems(engine) :
           IF i = s \/ (s = "pool" /\ i \in BuildPooled(engine) \ Build!Late)
           THEN BuildDue(engine, i) = at /\ item'[i] # "unset"
           ELSE item'[i] = "unset" <=> item[i] = "unset"
    BY <1>2, <1>3, <1>6
  <2> QED BY <1>0, <1>6, <2>1, BuildPlaced DEF BuildInv
<1>8. BuildRan'
  BY <1>0, <1>1 DEF BuildRan
<1>9. BuildStored'
  BY <1>0, <1>1, <1>2, BuildUnfinished
<1>10. \A i \in BuildItems(engine) : BuildFinal(engine, i) < at => item'[i] = item[i]
  BY <1>1, <1>2, <1>6
<1>11. \A i \in BuildItems(engine) : item'[i] = "null" =>
           \/ item[i] = "null" /\ status'[i] = status[i]
           \/ /\ i \in told' /\ status'[i] \in {"error", "unavailable"}
              /\ i \in failed' \/ ~Build!Able(i) \/ (i = "memo" /\ ~wish.memo) \/ (i = "implied" /\ wish.past)
  <2> SUFFICES ASSUME NEW i \in BuildItems(engine), item'[i] = "null"
               PROVE  \/ item[i] = "null" /\ status'[i] = status[i]
                      \/ /\ i \in told' /\ status'[i] \in {"error", "unavailable"}
                         /\ i \in failed' \/ ~Build!Able(i) \/ (i = "memo" /\ ~wish.memo) \/ (i = "implied" /\ wish.past)
    OBVIOUS
  <2>1. CASE i = s
    <3>1. jobs[s] = "null"
      BY <1>6, <2>1
    <3>2. BuildCause(s)
      BY <1>0, <3>1 DEF BuildLost
    <3> QED BY <1>0, <1>4, <2>1, <3>1, <3>2 DEF BuildCause
  <2>2. CASE i # s
    BY <1>4, <1>6, <2>2
  <2> QED BY <2>1, <2>2
<1>12. at + 1 \in {at, at + 1} /\ \A j \in BuildPooled(engine) : jobs'[j] = "null" => jobs[j] = "null"
  BY <1>0
<1> QED BY <1>0, <1>1, <1>4, <1>5, <1>7, <1>8, <1>9, <1>10, <1>11, <1>12, BuildOn DEF BuildInv

LEMMA BuildJudge ==
  ASSUME BuildInv, Build!Judge
  PROVE  BuildInv'
<1>0. /\ engine \in Build!Engines /\ Build!Is("judge")
      /\ at' = at + 1 /\ UNCHANGED <<jobs, engine, wish, sight, failed, kept>>
      /\ BuildTyped /\ BuildSet /\ BuildRan
  BY DEF Build!Judge, Build!Onward, BuildInv, BuildTyped
<1>1. /\ at \in 1..BuildLength(engine) /\ at = BuildPlace(engine, "judge") /\ at \in Nat /\ BuildLength(engine) \in Nat
      /\ at < BuildLength(engine) /\ engine = "situate" /\ at + 1 \in {at, at + 1} /\ at + 1 \in Nat
      /\ BuildPlace(engine, "pool") \in Nat /\ BuildPlace(engine, "pool") < at
  <2>1. at \in 1..BuildLength(engine) /\ at = BuildPlace(engine, "judge") /\ at \in Nat /\ BuildLength(engine) \in Nat
    BY <1>0, BuildIs
  <2>2. at < BuildLength(engine) /\ engine = "situate"
    BY <1>0, <2>1, BuildKinds
  <2>3. BuildPlace(engine, "pool") = 3 /\ BuildPlace(engine, "judge") = 5
    BY <1>0, <2>2, BuildKinds
  <2> QED BY <2>1, <2>2, <2>3
<1>2. "implied" \in BuildItems(engine) /\ BuildFinal(engine, "implied") = at
  BY <1>1 DEF BuildItems, BuildSteps, BuildFinal
<1>3. \/ /\ item["implied"] = "there" /\ wish.past
         /\ item' \in {item, [item EXCEPT !["implied"] = "null"]}
         /\ told' = told \cup {"implied"} /\ status' = [status EXCEPT !["implied"] = "unavailable"]
      \/ UNCHANGED <<item, told, status>>
  BY DEF Build!Judge
<1>4. /\ item' \in [BuildItems(engine) -> {"unset", "there", "null"}]
      /\ status' \in [BuildItems(engine) \cup {"store"} -> Build!Statuses]
      /\ told' \subseteq BuildItems(engine) \cup {"store"} /\ told \subseteq told'
      /\ \A i \in BuildItems(engine) :
           /\ i # "implied" => item'[i] = item[i] /\ status'[i] = status[i]
           /\ item'[i] = "unset" <=> item[i] = "unset"
      /\ item'["implied"] = "null" =>
           \/ item["implied"] = "null" /\ status'["implied"] = status["implied"]
           \/ "implied" \in told' /\ status'["implied"] \in {"error", "unavailable"} /\ wish.past
  <2>1. /\ item \in [BuildItems(engine) -> {"unset", "there", "null"}]
        /\ status \in [BuildItems(engine) \cup {"store"} -> Build!Statuses]
        /\ told \subseteq BuildItems(engine) \cup {"store"}
    BY <1>0 DEF BuildTyped
  <2>2. CASE UNCHANGED <<item, told, status>>
    BY <2>1, <2>2
  <2>3. CASE /\ item["implied"] = "there" /\ wish.past
             /\ item' \in {item, [item EXCEPT !["implied"] = "null"]}
             /\ told' = told \cup {"implied"} /\ status' = [status EXCEPT !["implied"] = "unavailable"]
    <3>1. status' \in [BuildItems(engine) \cup {"store"} -> Build!Statuses]
          /\ status'["implied"] = "unavailable"
          /\ \A i \in BuildItems(engine) : i # "implied" => status'[i] = status[i]
      BY <1>2, <2>1, <2>3 DEF Build!Statuses
    <3>2. CASE item' = item
      BY <1>2, <2>1, <2>3, <3>1, <3>2
    <3>3. CASE item' = [item EXCEPT !["implied"] = "null"]
      BY <1>2, <2>1, <2>3, <3>1, <3>3
    <3> QED BY <2>3, <3>2, <3>3
  <2> QED BY <1>3, <2>2, <2>3
<1>5. BuildTyped'
  BY <1>0, <1>1, <1>4 DEF BuildTyped
<1>6. BuildSet'
  <2>1. ASSUME NEW i \in BuildItems(engine)
        PROVE  IF i = "judge" \/ ("judge" = "pool" /\ i \in BuildPooled(engine) \ Build!Late)
               THEN BuildDue(engine, i) = at /\ item'[i] # "unset"
               ELSE item'[i] = "unset" <=> item[i] = "unset"
    <3>1. i # "judge"
      BY <1>0, BuildPlaces
    <3> QED BY <1>4, <3>1
  <2> QED BY <1>0, <1>4, <2>1, BuildPlaced
<1>7. BuildRan'
  BY <1>0, <1>1 DEF BuildRan
<1>8. BuildStored'
  BY <1>0, <1>1, BuildUnfinished
<1>9. \A i \in BuildItems(engine) : BuildFinal(engine, i) < at => item'[i] = item[i]
  BY <1>1, <1>2, <1>4
<1>10. \A i \in BuildItems(engine) : item'[i] = "null" =>
           \/ item[i] = "null" /\ status'[i] = status[i]
           \/ /\ i \in told' /\ status'[i] \in {"error", "unavailable"}
              /\ i \in failed' \/ ~Build!Able(i) \/ (i = "memo" /\ ~wish.memo) \/ (i = "implied" /\ wish.past)
  BY <1>4
<1> QED BY <1>0, <1>1, <1>4, <1>5, <1>6, <1>7, <1>8, <1>9, <1>10, BuildOn

LEMMA BuildSave ==
  ASSUME BuildInv, Build!Save
  PROVE  BuildInv'
<1>0. /\ engine \in Build!Engines /\ Build!Is("save")
      /\ at' = at + 1 /\ UNCHANGED <<jobs, engine, wish, item, sight>>
      /\ BuildTyped /\ BuildSet /\ BuildRan
  BY DEF Build!Save, Build!Onward, BuildInv, BuildTyped
<1>1. /\ at \in 1..BuildLength(engine) /\ at \in Nat /\ BuildLength(engine) \in Nat
      /\ at + 1 \in {at, at + 1} /\ at = BuildLength(engine) /\ BuildPlace(engine, "pool") < at
      /\ BuildPlace(engine, "pool") \in Nat
  BY <1>0, BuildIs, BuildKinds
<1>2. \A i \in BuildItems(engine) :
        /\ BuildDue(engine, i) \in Nat /\ BuildDue(engine, i) < at /\ i # "store"
  BY <1>0, <1>1, BuildPlaces
<1>3. /\ told \subseteq told' /\ told' \subseteq told \cup {"store"}
      /\ failed \subseteq failed' /\ failed' \subseteq failed \cup {"store"}
      /\ Build!Cardinality(failed') <= MaxFailures
      /\ status' \in [BuildItems(engine) \cup {"store"} -> Build!Statuses]
      /\ \A i \in BuildItems(engine) : status'[i] = status[i]
      /\ wish.persist => kept' = item \/ "store" \in told'
  <2>0. status \in [BuildItems(engine) \cup {"store"} -> Build!Statuses]
        /\ Build!Cardinality(failed) <= MaxFailures
    BY <1>0 DEF BuildTyped
  <2>1. CASE wish.persist /\ kept' = item /\ UNCHANGED <<told, status, failed>>
    BY <2>0, <2>1
  <2>2. CASE /\ wish.persist /\ UNCHANGED kept
             /\ failed' = failed \cup {"store"} /\ Build!Cardinality(failed') <= MaxFailures
             /\ told' = told \cup {"store"} /\ status' = [status EXCEPT !["store"] = "error"]
    BY <1>2, <2>0, <2>2 DEF Build!Statuses
  <2>3. CASE ~wish.persist /\ UNCHANGED <<told, status, failed, kept>>
    BY <2>0, <2>3
  <2> QED BY <2>1, <2>2, <2>3 DEF Build!Save
<1>4. BuildTyped'
  BY <1>0, <1>1, <1>3 DEF BuildTyped
<1>5. BuildSet'
  BY <1>0, <1>1, <1>2 DEF BuildSet
<1>6. BuildRan'
  BY <1>0, <1>1 DEF BuildRan
<1>7. BuildStored'
  BY <1>0, <1>3 DEF BuildStored, Build!ReturnedIsKept
<1> QED BY <1>0, <1>1, <1>3, <1>4, <1>5, <1>6, <1>7, BuildOn

LEMMA BuildStart ==
  ASSUME Build!Init
  PROVE  BuildInv
<1>1. /\ engine \in Build!Engines /\ wish \in Wishes /\ at \in {0, 1}
      /\ jobs = [j \in BuildPooled(engine) |-> "queued"]
      /\ item = [i \in BuildItems(engine) |-> "unset"]
      /\ status = [i \in BuildItems(engine) \cup {"store"} |-> "none"]
      /\ told = {} /\ sight = <<>> /\ failed = {} /\ BuildLength(engine) \in {12, 19}
  BY BuildNames DEF Build!Init, Build!AllQueued, BuildLength
<1>2. Build!Cardinality(failed) <= MaxFailures
  <2>1. Build!Cardinality({}) = Cardinality({})
    BY DEF Build!Cardinality, Cardinality
  <2> QED BY <1>1, <2>1, FS_EmptySet, BuildParameters DEF Build!BuildAssumption
<1>3. BuildTyped
  BY <1>1, <1>2 DEF BuildTyped, Build!Statuses
<1>4. BuildSet
  <2> SUFFICES ASSUME NEW i \in BuildItems(engine)
               PROVE  item[i] = "unset" <=> at <= BuildDue(engine, i)
    BY DEF BuildSet
  <2>1. BuildDue(engine, i) \in Nat /\ 1 <= BuildDue(engine, i)
    BY <1>1, BuildPlaces
  <2> QED BY <1>1, <2>1
<1>5. BuildRan
  BY <1>1, BuildKinds DEF BuildRan
<1>6. BuildLost /\ BuildSaw
  BY <1>1 DEF BuildLost, BuildSaw
<1>7. BuildStored
  <2>1. Build!Len(Build!Order(engine)) = BuildLength(engine)
    BY <1>1, BuildOrder
  <2> QED BY <1>1, <2>1 DEF BuildStored, Build!ReturnedIsKept, Build!Returned
<1> QED BY <1>3, <1>4, <1>5, <1>6, <1>7 DEF BuildInv

LEMMA BuildStep ==
  ASSUME BuildInv, [Build!Next]_(Build!vars)
  PROVE  BuildInv'
<1>1. CASE UNCHANGED Build!vars
  BY <1>1 DEF Build!vars, BuildInv, BuildTyped, BuildSet, BuildRan, BuildLost, BuildCause, BuildSaw, BuildStored,
    Build!Seen, Build!Able, Build!ReturnedIsKept, Build!Returned
<1>2. CASE Build!Next
  BY <1>2, BuildBuild, BuildJobStarts, BuildJobEnds, BuildGather, BuildPutIn, BuildJudge, BuildSave DEF Build!Next
<1> QED BY <1>1, <1>2

LEMMA BuildPromised ==
  BuildInv => Build!TypeOK /\ Build!PacketIsAccounted /\ Build!InputsAreFinal /\ Build!ReturnedIsKept
<1> SUFFICES ASSUME BuildInv
             PROVE  Build!TypeOK /\ Build!PacketIsAccounted /\ Build!InputsAreFinal
  BY DEF BuildInv, BuildStored
<1>0. /\ BuildTyped /\ engine \in Build!Engines
      /\ Build!Len(Build!Order(engine)) = BuildLength(engine) /\ BuildLength(engine) \in Nat
      /\ Build!Items(engine) = BuildItems(engine) /\ Build!Pooled(engine) = BuildPooled(engine)
  BY BuildOrder, BuildNames DEF BuildInv, BuildTyped, BuildLength
<1>1. Build!TypeOK
  BY <1>0 DEF BuildTyped, Build!TypeOK
<1>2. Build!PacketIsAccounted
  <2> SUFFICES ASSUME Build!Returned, NEW s \in Build!Sections(engine)
               PROVE  /\ item[s] \in {"there", "null"}
                      /\ item[s] = "null" =>
                           /\ s \in told /\ status[s] \in {"error", "unavailable"}
                           /\ \/ s \in failed \/ ~Build!Able(s)
                              \/ (s = "memo" /\ ~wish.memo) \/ (s = "implied" /\ wish.past)
    BY DEF Build!PacketIsAccounted
  <2>1. s \in BuildItems(engine) /\ at = BuildLength(engine) + 1
    BY <1>0 DEF Build!Sections, Build!Returned
  <2>2. ~(at <= BuildDue(engine, s))
    BY <1>0, <2>1, BuildPlaces
  <2>3. item[s] \in {"there", "null"}
    BY <1>0, <2>1, <2>2 DEF BuildInv, BuildTyped, BuildSet
  <2> QED BY <2>1, <2>3 DEF BuildInv, BuildLost, BuildCause
<1>3. Build!InputsAreFinal
  BY DEF BuildInv, BuildSaw, Build!InputsAreFinal, Build!Seen
<1> QED BY <1>1, <1>2, <1>3

(* A packet that is returned accounts for every section, shows what its    *)
(* sections were computed from, and is what the store holds or says so.    *)
THEOREM BuildKept ==
  Build!Spec =>
    [](Build!TypeOK /\ Build!PacketIsAccounted /\ Build!InputsAreFinal /\ Build!ReturnedIsKept)
BY BuildPromised, BuildStart, BuildStep, PTL DEF Build!Spec

-----------------------------------------------------------------------------
(***************************************************************************)
(* The alert scores: an entry of a failure expires FailureTtl after a call *)
(* that asked, or before.                                                  *)
(***************************************************************************)
Materiality == INSTANCE Materiality WITH
  Alerts <- Rated, CacheTtl <- ScoreTtl, MaxClock <- MaxScoreClock, MaxCalls <- MaxScorings

ASSUME MaterialityParameters == Materiality!MaterialityAssumption

MatEntry == [value : Materiality!Values, expires : Nat]
MatTask ==
  [at : {"idle", "ask", "done"}, started : 0..MaxScoreClock, page : SUBSET Rated,
   pending : SUBSET Rated, failed : SUBSET Rated]

MatTyped ==
  /\ cache \in [Rated -> {None} \cup MatEntry] /\ clock \in 0..MaxScoreClock
  /\ task \in [Threads -> MatTask]
  /\ \A t \in Threads : task[t].failed \cup task[t].pending \subseteq task[t].page
  /\ calls \in 0..MaxScorings /\ tried \in [Rated -> -ScoreTtl..MaxScoreClock]

MatDated ==
  \A a \in Rated :
    cache[a] # None /\ cache[a].value = "failed" => cache[a].expires <= tried[a] + FailureTtl

MatInv == MatTyped /\ MatDated /\ Materiality!RecoversQuickly

LEMMA MatAssumed ==
  FailureTtl \in Nat /\ ScoreTtl \in Nat /\ FailureTtl < ScoreTtl /\ MaxScoreClock \in Nat /\ MaxScorings \in Nat
BY MaterialityParameters DEF Materiality!MaterialityAssumption

LEMMA MatStart ==
  ASSUME Materiality!Init
  PROVE  MatInv
<1>1. Materiality!Idle \in MatTask /\ Materiality!Idle.failed = {} /\ Materiality!Idle.pending = {}
  BY MatAssumed DEF Materiality!Idle, MatTask
<1>2. -ScoreTtl \in -ScoreTtl..MaxScoreClock /\ 0 \in 0..MaxScoreClock /\ 0 \in 0..MaxScorings
  BY MatAssumed
<1>3. MatTyped
  BY <1>1, <1>2 DEF Materiality!Init, MatTyped
<1>4. MatDated
  BY DEF Materiality!Init, MatDated
<1>5. Materiality!RecoversQuickly
  BY <1>1 DEF Materiality!Init, Materiality!RecoversQuickly
<1> QED BY <1>3, <1>4, <1>5 DEF MatInv

LEMMA MatPage ==
  ASSUME MatInv, NEW t \in Threads, NEW asked \in SUBSET Rated, Materiality!Page(t, asked)
  PROVE  MatInv'
<1> DEFINE hits == {a \in asked : Materiality!Hit(a, clock)}
           next == [at |-> IF hits = asked THEN "done" ELSE "ask", started |-> clock, page |-> asked,
                    pending |-> asked \ hits, failed |-> Materiality!NoScore(hits)]
<1>0. MatTyped /\ MatDated /\ Materiality!RecoversQuickly
  BY DEF MatInv
<1>1. /\ task' = [task EXCEPT ![t] = next] /\ calls' = calls + 1 /\ calls < MaxScorings
      /\ UNCHANGED <<cache, clock, tried>>
  BY DEF Materiality!Page
<1>2. hits \subseteq asked /\ Materiality!NoScore(hits) \subseteq hits
  BY DEF Materiality!NoScore
<1>3. next.failed = Materiality!NoScore(hits) /\ next.started = clock /\ next.pending = asked \ hits /\ next.page = asked
  OBVIOUS
<1>4. next \in MatTask
  BY <1>0, <1>2 DEF MatTask, MatTyped
<1>5. ASSUME NEW a \in next.failed
      PROVE  next.started - tried'[a] < FailureTtl
  <2>1. a \in Rated /\ cache[a] # None /\ cache[a].expires > clock /\ cache[a].value = "failed"
    BY <1>2, <1>3, <1>5 DEF Materiality!NoScore, Materiality!Hit
  <2>2. cache[a].expires <= tried[a] + FailureTtl
    BY <1>0, <2>1 DEF MatDated
  <2>3. cache[a] \in MatEntry /\ tried[a] \in Int /\ clock \in Int
    BY <1>0, <2>1, MatAssumed DEF MatTyped
  <2>4. cache[a].expires \in Nat
    BY <2>3 DEF MatEntry
  <2>5. next.started = clock /\ tried'[a] = tried[a]
    BY <1>1, <1>3
  <2> HIDE DEF next
  <2> QED BY <2>1, <2>2, <2>3, <2>4, <2>5, MatAssumed
<1> HIDE DEF next
<1>6. MatTyped'
  <2>1. calls' \in 0..MaxScorings
    BY <1>0, <1>1, MatAssumed DEF MatTyped
  <2>2. task' \in [Threads -> MatTask]
    BY <1>0, <1>1, <1>4 DEF MatTyped
  <2>3. next.failed \cup next.pending \subseteq next.page
    BY <1>2, <1>3
  <2>4. \A u \in Threads : task'[u].failed \cup task'[u].pending \subseteq task'[u].page
    BY <1>0, <1>1, <2>3 DEF MatTyped
  <2> QED BY <1>0, <1>1, <2>1, <2>2, <2>4 DEF MatTyped
<1>7. MatDated'
  BY <1>0, <1>1 DEF MatDated
<1>8. Materiality!RecoversQuickly'
  <2>1. \A u \in Threads : task'[u] = IF u = t THEN next ELSE task[u]
    BY <1>0, <1>1 DEF MatTyped
  <2> QED BY <1>0, <1>1, <1>5, <2>1 DEF Materiality!RecoversQuickly
<1> QED BY <1>6, <1>7, <1>8 DEF MatInv

LEMMA MatScored ==
  ASSUME MatInv, NEW t \in Threads, Materiality!Scored(t)
  PROVE  MatInv'
<1>0. MatTyped /\ MatDated /\ Materiality!RecoversQuickly
  BY DEF MatInv
<1>1. PICK r \in [task[t].pending -> Materiality!Values] :
       /\ cache' = [a \in Rated |->
            IF a \in task[t].pending
            THEN [value |-> r[a], expires |-> task[t].started + Materiality!TtlOf(r[a])] ELSE cache[a]]
       /\ task' = [task EXCEPT ![t].at = "done", ![t].pending = {}]
       /\ tried' = [a \in Rated |->
            IF a \in task[t].pending /\ task[t].started > tried[a] THEN task[t].started ELSE tried[a]]
  BY DEF Materiality!Scored
<1>2. UNCHANGED <<clock, calls>>
  BY DEF Materiality!Scored
<1>3. task[t] \in MatTask /\ task[t].started \in 0..MaxScoreClock
  <2>1. task[t] \in MatTask
    BY <1>0 DEF MatTyped
  <2> QED BY <2>1 DEF MatTask
<1>4. \A v \in Materiality!Values : Materiality!TtlOf(v) \in Nat
  BY MatAssumed DEF Materiality!TtlOf
<1>5. tried' \in [Rated -> -ScoreTtl..MaxScoreClock] /\ \A a \in Rated : tried'[a] >= tried[a] /\ tried[a] \in Int
  <2>1. tried \in [Rated -> -ScoreTtl..MaxScoreClock] /\ task[t].started \in -ScoreTtl..MaxScoreClock /\ MaxScoreClock \in Int /\ -ScoreTtl \in Int
    BY <1>0, <1>3, MatAssumed DEF MatTyped
  <2> QED BY <1>1, <2>1
<1>6. \A u \in Threads : /\ task'[u] \in MatTask /\ task'[u].failed = task[u].failed /\ task'[u].started = task[u].started
                         /\ task'[u].page = task[u].page /\ task'[u].pending \subseteq task[u].pending
  <2>1. \A u \in Threads : u # t => task'[u] = task[u]
    BY <1>0, <1>1 DEF MatTyped
  <2>2. task'[t] = [task[t] EXCEPT !.at = "done", !.pending = {}]
    BY <1>0, <1>1 DEF MatTyped
  <2>3. task'[t] \in MatTask /\ task'[t].failed = task[t].failed /\ task'[t].started = task[t].started
        /\ task'[t].page = task[t].page /\ task'[t].pending = {}
    BY <1>3, <2>2 DEF MatTask
  <2> QED BY <1>0, <2>1, <2>3 DEF MatTyped
<1>7. ASSUME NEW a \in Rated
      PROVE  /\ cache'[a] \in {None} \cup MatEntry
             /\ cache'[a] # None /\ cache'[a].value = "failed" => cache'[a].expires <= tried'[a] + FailureTtl
  <2>1. CASE a \in task[t].pending
    <3>1. /\ r[a] \in Materiality!Values /\ cache'[a] = [value |-> r[a], expires |-> task[t].started + Materiality!TtlOf(r[a])]
          /\ tried'[a] >= task[t].started
      <4>1. tried[a] \in Int /\ task[t].started \in Int
        BY <1>3, <1>5
      <4> QED BY <1>1, <2>1, <4>1
    <3>2. task[t].started + Materiality!TtlOf(r[a]) \in Nat
      BY <1>3, <1>4, <3>1
    <3>3. cache'[a].value = r[a] /\ cache'[a].expires = task[t].started + Materiality!TtlOf(r[a])
      BY <3>1
    <3>4. r[a] = "failed" => Materiality!TtlOf(r[a]) = FailureTtl
      BY DEF Materiality!TtlOf
    <3>5. cache'[a] \in MatEntry
      BY <3>1, <3>2 DEF MatEntry
    <3>6. tried'[a] \in Int /\ task[t].started \in Int
      BY <1>3, <1>5, MatAssumed
    <3> QED BY <3>1, <3>3, <3>4, <3>5, <3>6, MatAssumed
  <2>2. CASE a \notin task[t].pending
    <3>1. cache'[a] = cache[a] /\ cache[a] \in {None} \cup MatEntry
      BY <1>0, <1>1, <2>2 DEF MatTyped
    <3>2. tried'[a] >= tried[a] /\ tried[a] \in Int /\ tried'[a] \in Int
      BY <1>5, MatAssumed
    <3>3. cache[a] # None => cache[a].expires \in Nat
      BY <3>1 DEF MatEntry
    <3> QED BY <1>0, <3>1, <3>2, <3>3, MatAssumed DEF MatDated
  <2> QED BY <2>1, <2>2
<1>8. MatTyped'
  <2>1. cache' \in [Rated -> {None} \cup MatEntry]
    BY <1>1, <1>7
  <2>2. task' \in [Threads -> MatTask]
    BY <1>0, <1>1, <1>6 DEF MatTyped
  <2>3. \A u \in Threads : task'[u].failed \cup task'[u].pending \subseteq task'[u].page
    BY <1>0, <1>6 DEF MatTyped
  <2> QED BY <1>0, <1>2, <1>5, <2>1, <2>2, <2>3 DEF MatTyped
<1>9. MatDated'
  BY <1>7 DEF MatDated
<1>10. Materiality!RecoversQuickly'
  <2> SUFFICES ASSUME NEW u \in Threads, NEW a \in task'[u].failed
               PROVE  task'[u].started - tried'[a] < FailureTtl
    BY DEF Materiality!RecoversQuickly
  <2>1. task[u].started - tried[a] < FailureTtl
    BY <1>0, <1>6 DEF Materiality!RecoversQuickly
  <2>2. a \in Rated
    BY <1>0, <1>6 DEF MatTyped, MatTask
  <2>3. task[u].started \in Int
    <3>1. task[u] \in MatTask
      BY <1>0 DEF MatTyped
    <3> QED BY <3>1 DEF MatTask
  <2>4. tried'[a] >= tried[a] /\ tried[a] \in Int /\ tried'[a] \in Int /\ task'[u].started = task[u].started
    BY <1>5, <1>6, <2>2, MatAssumed
  <2> QED BY <2>1, <2>3, <2>4, MatAssumed
<1> QED BY <1>8, <1>9, <1>10 DEF MatInv

LEMMA MatStep ==
  ASSUME MatInv, [Materiality!Next]_(Materiality!vars)
  PROVE  MatInv'
<1>1. CASE UNCHANGED Materiality!vars
  BY <1>1 DEF Materiality!vars, MatInv, MatTyped, MatDated, Materiality!RecoversQuickly
<1>2. ASSUME NEW t \in Threads, Materiality!Return(t)
      PROVE  MatInv'
  <2>1. Materiality!Idle \in MatTask /\ Materiality!Idle.failed = {} /\ Materiality!Idle.pending = {}
    BY MatAssumed DEF Materiality!Idle, MatTask
  <2>2. task' = [task EXCEPT ![t] = Materiality!Idle] /\ UNCHANGED <<cache, clock, calls, tried>>
    BY <1>2 DEF Materiality!Return
  <2>3. \A u \in Threads : task'[u] = IF u = t THEN Materiality!Idle ELSE task[u]
    BY <2>2 DEF MatInv, MatTyped
  <2>4. MatTyped'
    BY <2>1, <2>2, <2>3 DEF MatInv, MatTyped
  <2>5. MatDated'
    BY <2>2 DEF MatInv, MatDated
  <2> QED BY <2>1, <2>2, <2>3, <2>4, <2>5 DEF MatInv, Materiality!RecoversQuickly
<1>3. CASE Materiality!Tick
  <2>1. clock' \in 0..MaxScoreClock /\ UNCHANGED <<cache, task, calls, tried>>
    BY <1>3, MatAssumed DEF Materiality!Tick, MatInv, MatTyped
  <2> QED BY <2>1 DEF MatInv, MatTyped, MatDated, Materiality!RecoversQuickly
<1>4. CASE Materiality!Next
  BY <1>2, <1>3, <1>4, MatPage, MatScored DEF Materiality!Next
<1> QED BY <1>1, <1>4

LEMMA MatPromised ==
  MatInv => Materiality!TypeOK /\ Materiality!RecoversQuickly
<1> SUFFICES ASSUME MatInv
             PROVE  Materiality!TypeOK
  BY DEF MatInv
<1>1. \A t \in Threads : task[t] \in MatTask
  BY DEF MatInv, MatTyped
<1>2. \A t \in Threads : task[t].at \in {"idle", "ask", "done"} /\ task[t].started \in 0..MaxScoreClock /\ task[t].page \subseteq Rated
  BY <1>1 DEF MatTask
<1> QED BY <1>2 DEF MatInv, MatTyped, MatEntry, Materiality!TypeOK

(* A failure of Jev is served from the cache only shortly after a call     *)
(* that asked, however the calls overlapped.                               *)
THEOREM MaterialityKept == Materiality!Spec => [](Materiality!TypeOK /\ Materiality!RecoversQuickly)
BY MatPromised, MatStart, MatStep, PTL DEF Materiality!Spec

-----------------------------------------------------------------------------
(***************************************************************************)
(* The series cache: a set that nothing overlapped is the only writer, and *)
(* what it left is there until the next one.                               *)
(***************************************************************************)
Series == INSTANCE SeriesCache WITH
  Entry <- SeriesFile, Places <- {SeriesFile}, Ttl <- SeriesTtl, MaxClock <- MaxSeriesClock, MaxCalls <- MaxSeriesCalls

ASSUME SeriesParameters == Series!SeriesAssumption

SerPlaces == {"idle", "read", "fetch", "open", "write", "rename", "upsert", "answer"}
SerTask ==
  [op : {"idle", "set", "get"}, at : SerPlaces, entry : 0..MaxSeriesCalls, handle : 0..MaxSeriesCalls, ok : BOOLEAN,
   alone : BOOLEAN, due : 0..MaxSeriesCalls, since : 0..MaxSeriesClock]
SerWriting == {"fetch", "open", "write", "rename", "upsert"}

SerTmp == tmp[SeriesFile]
SerFile == file[SeriesFile]
SerParsed == Series!Parsed(SeriesFile)

SerTyped ==
  /\ tmp \in [{SeriesFile} -> 0..MaxSeriesCalls] /\ file \in [{SeriesFile} -> 0..MaxSeriesCalls]
  /\ content \in [1..MaxSeriesCalls -> 1..MaxSeriesCalls \cup {Empty, Torn}]
  /\ remote \in 0..MaxSeriesCalls /\ clock \in 0..MaxSeriesClock /\ stamp \in [1..MaxSeriesCalls -> 0..MaxSeriesClock]
  /\ task \in [Threads -> SerTask]
  /\ calls \in 0..MaxSeriesCalls /\ faults \in 0..MaxFaults /\ kept \in 0..MaxSeriesCalls

(* The numbers that stand for an entry, made in the order of their times.  *)
SerUsed(n) ==
  \/ n \in {remote, kept}
  \/ \E k \in 1..MaxSeriesCalls : content[k] = n
  \/ \E t \in Threads : task[t].entry = n \/ task[t].due = n
SerDated ==
  /\ \A m, n \in 1..MaxSeriesCalls : SerUsed(m) /\ SerUsed(n) /\ m <= n => stamp[m] <= stamp[n]
  /\ \A n \in 1..MaxSeriesCalls : SerUsed(n) => n <= calls /\ stamp[n] <= clock

SerNumbered ==
  /\ kept <= calls /\ SerTmp <= calls /\ SerFile <= calls
  /\ SerTmp # 0 => SerTmp # SerFile

(* How a call may stand.                                                   *)
SerStands(t) ==
  /\ task[t].entry <= calls /\ task[t].handle <= calls /\ task[t].since <= clock
  /\ task[t].op = "set" => task[t].at \in {"open", "write", "rename", "upsert"} /\ task[t].due = 0
  /\ task[t].op = "idle" <=> task[t].at = "idle"
  /\ task[t].at = "upsert" => task[t].op = "set"
  /\ task[t].at \in {"open", "write", "rename"} => task[t].entry # 0
  /\ task[t].at \in {"read", "fetch"} => task[t].entry = 0
  /\ task[t].at \in {"write", "rename"} => task[t].handle # 0
  /\ task[t].at = "idle" => task[t].due = 0
  /\ task[t].alone => task[t].op = "set"
  /\ task[t].ok /\ task[t].op = "set" => task[t].at = "upsert"
  /\ task[t].due <= kept

(* A file that is still to be opened is nobody's.                          *)
SerUnopened(t) ==
  task[t].at \in {"read", "fetch", "open"} =>
    /\ task[t].handle # 0 /\ task[t].handle # SerTmp /\ task[t].handle # SerFile
    /\ \A u \in Threads : u # t /\ task[u].at # "idle" => task[u].handle # task[t].handle

(* A set that nothing overlapped.                                          *)
SerAlone(t) ==
  task[t].alone =>
    /\ \A u \in Threads : u # t => task[u].at \notin SerWriting
    /\ kept < task[t].entry
    /\ task[t].at \in {"write", "rename"} => SerTmp = task[t].handle
    /\ task[t].at = "write" => content[task[t].handle] = Empty
    /\ task[t].at = "rename" => content[task[t].handle] = task[t].entry
    /\ task[t].ok => SerParsed = task[t].entry

(* What a get has.                                                         *)
SerGets(t) ==
  task[t].op = "get" =>
    /\ task[t].entry # 0 => task[t].since - stamp[task[t].entry] <= SeriesTtl
    /\ task[t].at # "read" /\ Series!Fresh(task[t].due) => task[t].entry >= task[t].due

SerKept ==
  kept # 0 /\ Series!Fresh(kept) =>
    /\ SerParsed >= kept
    /\ \A t \in Threads : task[t].at \in SerWriting => task[t].alone

SerInv ==
  /\ SerTyped /\ SerDated /\ SerNumbered /\ SerKept
  /\ \A t \in Threads : SerStands(t) /\ SerUnopened(t) /\ SerAlone(t) /\ SerGets(t)

SerFreshAt(n, stamps, time) == n # 0 /\ time - stamps[n] <= SeriesTtl

LEMMA SerAssumed ==
  /\ SeriesTtl \in Nat /\ MaxSeriesCalls \in Nat /\ MaxSeriesClock \in Nat /\ MaxFaults \in Nat
  /\ Empty \notin Nat /\ Torn \notin Nat /\ Empty # Torn /\ Series!Numbers = 1..MaxSeriesCalls
BY SeriesParameters DEF Series!SeriesAssumption, Series!Numbers

LEMMA SerStart ==
  ASSUME Series!Init
  PROVE  SerInv
<1>1. Series!Idle \in SerTask
  BY SerAssumed DEF Series!Idle, SerTask, SerPlaces
<1>2. /\ tmp = [p \in {SeriesFile} |-> 0] /\ file = [p \in {SeriesFile} |-> 0]
      /\ content = [n \in 1..MaxSeriesCalls |-> Empty] /\ remote = 0 /\ clock = 0
      /\ stamp = [n \in 1..MaxSeriesCalls |-> 0] /\ task = [t \in Threads |-> Series!Idle]
      /\ calls = 0 /\ faults = 0 /\ kept = 0
  BY SerAssumed DEF Series!Init, Series!NoFiles
<1>3. SerTyped
  BY <1>1, <1>2, SerAssumed DEF SerTyped
<1>4. SerDated /\ SerNumbered /\ SerKept
  <2>1. \A n \in 1..MaxSeriesCalls : ~SerUsed(n)
    BY <1>2, SerAssumed DEF SerUsed, Series!Idle
  <2> QED BY <1>2, <2>1, SerAssumed DEF SerDated, SerNumbered, SerKept, SerTmp, SerFile
<1>5. ASSUME NEW t \in Threads
      PROVE  SerStands(t) /\ SerUnopened(t) /\ SerAlone(t) /\ SerGets(t)
  <2>1. /\ task[t].op = "idle" /\ task[t].at = "idle" /\ task[t].entry = 0 /\ task[t].handle = 0
        /\ task[t].ok = FALSE /\ task[t].alone = FALSE /\ task[t].due = 0 /\ task[t].since = 0
    BY <1>2 DEF Series!Idle
  <2> QED BY <1>2, <2>1 DEF SerStands, SerUnopened, SerAlone, SerGets
<1> QED BY <1>3, <1>4, <1>5 DEF SerInv

LEMMA SerFields ==
  ASSUME SerTyped, NEW t \in Threads
  PROVE  /\ task[t] \in SerTask /\ task[t].op \in {"idle", "set", "get"} /\ task[t].at \in SerPlaces
         /\ task[t].entry \in 0..MaxSeriesCalls /\ task[t].handle \in 0..MaxSeriesCalls /\ task[t].ok \in BOOLEAN
         /\ task[t].alone \in BOOLEAN /\ task[t].due \in 0..MaxSeriesCalls /\ task[t].since \in 0..MaxSeriesClock
<1>1. task[t] \in SerTask
  BY DEF SerTyped
<1> QED BY <1>1 DEF SerTask

(* Later entries are fresh when earlier ones are.                          *)
LEMMA SerFresher ==
  ASSUME SerTyped, SerDated, NEW m \in 0..MaxSeriesCalls, NEW n \in 0..MaxSeriesCalls, m <= n, SerUsed(m), SerUsed(n),
         Series!Fresh(m)
  PROVE  Series!Fresh(n)
<1>1. m # 0 /\ clock - stamp[m] <= SeriesTtl
  BY DEF Series!Fresh
<1>2. n # 0 /\ m \in 1..MaxSeriesCalls /\ n \in 1..MaxSeriesCalls /\ stamp[m] <= stamp[n]
  BY <1>1, SerAssumed DEF SerDated
<1>3. stamp[m] \in Nat /\ stamp[n] \in Nat /\ clock \in Nat
  BY <1>2, SerAssumed DEF SerTyped
<1> QED BY <1>1, <1>2, <1>3, SerAssumed DEF Series!Fresh

LEMMA SerStillDated ==
  ASSUME SerTyped, SerDated, stamp' = stamp, calls' \in {calls, calls + 1}, clock' \in {clock, clock + 1},
         \A n \in 1..MaxSeriesCalls : SerUsed(n)' => SerUsed(n)
  PROVE  SerDated'
<1>1. clock \in Nat /\ calls \in Nat /\ \A n \in 1..MaxSeriesCalls : stamp[n] \in Nat
  BY SerAssumed DEF SerTyped
<1> QED BY <1>1, SerAssumed DEF SerDated

(* A step of a call that starts none and spares the clock.                 *)
LEMMA SerCall ==
  ASSUME SerInv, NEW t \in Threads, NEW next \in SerTask, task' = [task EXCEPT ![t] = next],
         UNCHANGED <<clock, stamp, calls>>
  PROVE  /\ \A u \in Threads : task'[u] = IF u = t THEN next ELSE task[u]
         /\ task' \in [Threads -> SerTask]
         /\ \A n \in 0..MaxSeriesCalls : Series!Fresh(n)' <=> Series!Fresh(n)
BY DEF SerInv, SerTyped, Series!Fresh

LEMMA SerKill ==
  ASSUME SerInv, NEW t \in Threads, task' = [task EXCEPT ![t] = Series!Idle], faults' \in 0..MaxFaults,
         UNCHANGED <<tmp, file, content, remote, clock, stamp, calls, kept>>
  PROVE  SerInv'
<1>1. Series!Idle \in SerTask
  BY SerAssumed DEF Series!Idle, SerTask, SerPlaces
<1>2. /\ \A u \in Threads : task'[u] = IF u = t THEN Series!Idle ELSE task[u]
      /\ task' \in [Threads -> SerTask]
      /\ \A n \in 0..MaxSeriesCalls : Series!Fresh(n)' <=> Series!Fresh(n)
  BY <1>1, SerCall
<1>3. SerTyped' /\ SerNumbered' /\ SerParsed' = SerParsed /\ SerTmp' = SerTmp /\ SerFile' = SerFile
  BY <1>2 DEF SerInv, SerTyped, SerNumbered, SerParsed, Series!Parsed, SerTmp, SerFile
<1>4. /\ task'[t].op = "idle" /\ task'[t].at = "idle" /\ task'[t].entry = 0 /\ task'[t].handle = 0
      /\ task'[t].ok = FALSE /\ task'[t].alone = FALSE /\ task'[t].due = 0 /\ task'[t].since = 0
  BY <1>2 DEF Series!Idle
<1>5. SerKept'
  <2>1. \A u \in Threads : task'[u].at \in SerWriting => u # t /\ task'[u] = task[u]
    BY <1>2, <1>4 DEF SerWriting
  <2>2. kept' \in 0..MaxSeriesCalls /\ kept' = kept
    BY DEF SerInv, SerTyped
  <2> QED BY <1>2, <1>3, <2>1, <2>2 DEF SerInv, SerKept
<1>6. ASSUME NEW u \in Threads
      PROVE  SerStands(u)' /\ SerUnopened(u)' /\ SerAlone(u)' /\ SerGets(u)'
  <2>0. SerTyped /\ SerStands(u) /\ SerUnopened(u) /\ SerAlone(u) /\ SerGets(u) /\ kept \in Nat /\ calls \in Nat /\ clock \in Nat
        /\ task[u].due \in 0..MaxSeriesCalls
    BY SerFields, SerAssumed DEF SerInv, SerTyped
  <2>1. CASE u = t
    BY <1>4, <2>0, <2>1 DEF SerStands, SerUnopened, SerAlone, SerGets
  <2>2. CASE u # t
    <3>1. task'[u] = task[u]
      BY <1>2, <2>2
    <3>2. \A w \in Threads : task'[w] = task[w] \/ task'[w].at = "idle"
      BY <1>2, <1>4
    <3>3. SerUnopened(u)'
      BY <1>3, <2>0, <3>1, <3>2 DEF SerUnopened
    <3>4. SerAlone(u)'
      BY <1>3, <2>0, <3>1, <3>2 DEF SerAlone, SerWriting
    <3> QED BY <1>2, <2>0, <3>1, <3>3, <3>4 DEF SerStands, SerGets
  <2> QED BY <2>1, <2>2
<1>7. SerDated'
  <2>1. \A n \in 1..MaxSeriesCalls : SerUsed(n)' => SerUsed(n)
    BY <1>2, <1>4 DEF SerUsed
  <2> QED BY <2>1, SerStillDated DEF SerInv
<1> QED BY <1>3, <1>5, <1>6, <1>7 DEF SerInv

(* A step of a call under way, by what it does to the others.              *)
LEMMA SerMoves ==
  ASSUME SerInv, NEW t \in Threads, NEW next \in SerTask, task' = [task EXCEPT ![t] = next],
         UNCHANGED <<clock, stamp, calls, kept>>, remote' = remote, faults' \in 0..MaxFaults,
         SerTmp' \in 0..MaxSeriesCalls, SerFile' \in 0..MaxSeriesCalls,
         tmp' \in [{SeriesFile} -> 0..MaxSeriesCalls], file' \in [{SeriesFile} -> 0..MaxSeriesCalls],
         content' \in [1..MaxSeriesCalls -> 1..MaxSeriesCalls \cup {Empty, Torn}],
         task[t].at # "idle", next.at # "idle", next.at \in SerWriting => task[t].at \in SerWriting,
         next.alone = task[t].alone, next.handle \in {task[t].handle, SerTmp},
         {SerTmp', SerFile'} \subseteq {0, SerTmp, SerFile, task[t].handle}, SerTmp' # 0 => SerTmp' # SerFile',
         task[t].at \notin SerWriting => UNCHANGED <<tmp, file, content>>,
         task[t].alone => SerParsed' = SerParsed \/ SerParsed' >= kept,
         \A n \in 1..MaxSeriesCalls : SerUsed(n)' => SerUsed(n),
         SerStands(t)', SerUnopened(t)', SerAlone(t)', SerGets(t)'
  PROVE  SerInv'
<1>1. /\ \A u \in Threads : task'[u] = IF u = t THEN next ELSE task[u]
      /\ task' \in [Threads -> SerTask]
      /\ \A n \in 0..MaxSeriesCalls : Series!Fresh(n)' <=> Series!Fresh(n)
  BY SerCall
<1>2. SerTyped'
  BY <1>1 DEF SerInv, SerTyped
<1>3. SerDated'
  BY SerStillDated DEF SerInv
<1>4. /\ SerTyped /\ SerNumbered /\ SerKept /\ SerStands(t) /\ SerAlone(t) /\ kept \in 0..MaxSeriesCalls
      /\ calls \in Nat /\ SerTmp \in 0..MaxSeriesCalls /\ SerFile \in 0..MaxSeriesCalls
  BY SerAssumed DEF SerInv, SerTyped, SerTmp, SerFile
<1>5. SerNumbered'
  BY <1>4 DEF SerNumbered, SerStands
<1>6. task[t].at \notin SerWriting => SerParsed' = SerParsed /\ SerTmp' = SerTmp /\ SerFile' = SerFile
  BY DEF SerParsed, Series!Parsed, SerTmp, SerFile
<1>7. SerKept'
  <2> SUFFICES ASSUME kept # 0, Series!Fresh(kept)
               PROVE  /\ SerParsed' >= kept
                      /\ \A u \in Threads : task'[u].at \in SerWriting => task'[u].alone
    BY <1>1, <1>4 DEF SerKept
  <2>1. SerParsed >= kept /\ \A u \in Threads : task[u].at \in SerWriting => task[u].alone
    BY <1>4 DEF SerKept
  <2>2. SerParsed' >= kept
    BY <1>6, <2>1
  <2> QED BY <1>1, <2>1, <2>2
<1>8. ASSUME NEW u \in Threads, u # t
      PROVE  SerStands(u)' /\ SerUnopened(u)' /\ SerAlone(u)' /\ SerGets(u)'
  <2>1. task'[u] = task[u] /\ SerStands(u) /\ SerUnopened(u) /\ SerAlone(u) /\ SerGets(u) /\ task[u].due \in 0..MaxSeriesCalls
    BY <1>1, <1>4, <1>8, SerFields DEF SerInv
  <2>2. SerStands(u)' /\ SerGets(u)'
    BY <1>1, <2>1 DEF SerStands, SerGets
  <2>3. SerUnopened(u)'
    <3>1. ASSUME task[u].at \in {"read", "fetch", "open"}
          PROVE  /\ task[u].handle # 0 /\ task[u].handle # SerTmp' /\ task[u].handle # SerFile'
                 /\ \A w \in Threads : w # u /\ task'[w].at # "idle" => task'[w].handle # task[u].handle
      <4>1. /\ task[u].handle # 0 /\ task[u].handle # SerTmp /\ task[u].handle # SerFile
            /\ \A w \in Threads : w # u /\ task[w].at # "idle" => task[w].handle # task[u].handle
        BY <2>1, <3>1 DEF SerUnopened
      <4> QED BY <1>1, <1>8, <4>1
    <3> QED BY <2>1, <3>1 DEF SerUnopened
  <2>4. SerAlone(u)'
    <3>1. ASSUME task[u].alone
          PROVE  UNCHANGED <<tmp, file, content>> /\ SerTmp' = SerTmp /\ SerParsed' = SerParsed
                 /\ \A w \in Threads : w # u => task'[w].at \notin SerWriting
      BY <1>1, <1>6, <1>8, <2>1, <3>1 DEF SerAlone
    <3> QED BY <2>1, <3>1 DEF SerAlone
  <2> QED BY <2>2, <2>3, <2>4
<1> QED BY <1>2, <1>3, <1>5, <1>7, <1>8 DEF SerInv

(* What a reader parses is an entry, or nothing.                           *)
LEMMA SerParses ==
  ASSUME SerTyped
  PROVE  /\ SerParsed \in 0..MaxSeriesCalls /\ (SerParsed # 0 => SerUsed(SerParsed))
         /\ SerParsed = IF SerFile # 0 /\ content[SerFile] \in 1..MaxSeriesCalls THEN content[SerFile] ELSE 0
         /\ SerFile \in 0..MaxSeriesCalls /\ SerTmp \in 0..MaxSeriesCalls
<1>1. SerFile \in 0..MaxSeriesCalls /\ SerTmp \in 0..MaxSeriesCalls
  BY DEF SerTyped, SerFile, SerTmp
<1>2. SerParsed = IF SerFile # 0 /\ content[SerFile] \in 1..MaxSeriesCalls THEN content[SerFile] ELSE 0
  BY SerAssumed DEF SerParsed, Series!Parsed, SerFile
<1>3. CASE SerFile # 0 /\ content[SerFile] \in 1..MaxSeriesCalls
  <2>1. SerFile \in 1..MaxSeriesCalls /\ SerParsed = content[SerFile] /\ SerParsed \in 0..MaxSeriesCalls
    BY <1>1, <1>2, <1>3, SerAssumed
  <2>2. SerUsed(SerParsed)
    BY <2>1 DEF SerUsed
  <2> QED BY <1>1, <1>2, <2>1, <2>2
<1>4. CASE ~(SerFile # 0 /\ content[SerFile] \in 1..MaxSeriesCalls)
  BY <1>1, <1>2, <1>4, SerAssumed
<1> QED BY <1>3, <1>4

LEMMA SerReads ==
  ASSUME SerInv, NEW t \in Threads, Series!ReadLocal(t), Series!FreshOr0(SerParsed) # 0
  PROVE  SerInv'
<1> DEFINE n == Series!FreshOr0(SerParsed)
           next == [task[t] EXCEPT !.entry = n, !.at = "answer"]
<1>0. /\ SerTyped /\ SerDated /\ SerNumbered /\ SerKept
      /\ SerStands(t) /\ SerUnopened(t) /\ SerAlone(t) /\ SerGets(t) /\ task[t].at = "read"
  BY DEF SerInv, Series!ReadLocal, Series!At
<1>1. n = SerParsed /\ n # 0 /\ Series!Fresh(n) /\ n \in 1..MaxSeriesCalls /\ SerUsed(n)
  <2>1. Series!FreshOr0(SerParsed) = SerParsed /\ Series!Fresh(SerParsed)
    BY DEF Series!FreshOr0
  <2>2. SerParsed # 0 /\ SerParsed \in 0..MaxSeriesCalls /\ SerUsed(SerParsed)
    BY <1>0, <2>1, SerParses
  <2>3. SerParsed \in 1..MaxSeriesCalls
    BY <2>2, SerAssumed
  <2> QED BY <2>1, <2>2, <2>3
<1>2. task' = [task EXCEPT ![t].entry = n, ![t].at = "answer"] /\ UNCHANGED <<kept, tmp, file, content, remote, clock, stamp, calls, faults>>
  BY <1>1 DEF Series!ReadLocal, SerParsed
<1>3. task' = [task EXCEPT ![t] = next]
  BY <1>2, <1>0 DEF SerTyped
<1>4. /\ next \in SerTask /\ next.op = task[t].op /\ next.at = "answer" /\ next.entry = n /\ next.handle = task[t].handle
      /\ next.ok = task[t].ok /\ next.alone = task[t].alone /\ next.due = task[t].due /\ next.since = task[t].since
  <2>1. task[t] \in SerTask
    BY <1>0, SerFields
  <2>2. n \in 0..MaxSeriesCalls
    BY <1>1, SerAssumed
  <2> HIDE DEF n
  <2> QED BY <2>1, <2>2 DEF SerTask, SerPlaces
<1> HIDE DEF next, n
<1>5. /\ \A u \in Threads : task'[u] = IF u = t THEN next ELSE task[u]
      /\ \A k \in 0..MaxSeriesCalls : Series!Fresh(k)' <=> Series!Fresh(k)
  BY <1>2, <1>3, <1>4, SerCall
<1>6. SerTmp' = SerTmp /\ SerFile' = SerFile /\ SerParsed' = SerParsed /\ SerTmp \in 0..MaxSeriesCalls /\ SerFile \in 0..MaxSeriesCalls
  <2>1. SerTmp \in 0..MaxSeriesCalls /\ SerFile \in 0..MaxSeriesCalls
    BY <1>0, SerParses
  <2>2. SerTmp' = SerTmp /\ SerFile' = SerFile
    BY <1>2 DEF SerTmp, SerFile
  <2>3. SerParsed' = SerParsed
    BY <1>2 DEF SerParsed, Series!Parsed
  <2> QED BY <2>1, <2>2, <2>3
<1>7. \A k \in 1..MaxSeriesCalls : SerUsed(k)' => SerUsed(k)
  <2> SUFFICES ASSUME NEW k \in 1..MaxSeriesCalls, SerUsed(k)'
               PROVE  SerUsed(k)
    OBVIOUS
  <2>1. ASSUME NEW u \in Threads, task'[u].entry = k \/ task'[u].due = k
        PROVE  SerUsed(k)
    BY <1>1, <1>4, <1>5, <2>1 DEF SerUsed
  <2> QED BY <1>2, <2>1 DEF SerUsed
<1>8. SerStands(t)' /\ SerUnopened(t)' /\ SerAlone(t)'
  <2>1. task[t].op = "get" /\ ~task[t].alone
    BY <1>0, SerFields DEF SerStands, SerPlaces
  <2>2. n <= calls
    BY <1>0, <1>1 DEF SerDated
  <2> QED BY <1>0, <1>2, <1>4, <1>5, <2>1, <2>2 DEF SerStands, SerUnopened, SerAlone
<1>9. SerGets(t)'
  <2>1. task'[t].since - stamp'[n] <= SeriesTtl
    <3>1. clock - stamp[n] <= SeriesTtl
      BY <1>1 DEF Series!Fresh
    <3>2. task[t].since <= clock /\ task[t].since \in Int
      BY <1>0, SerFields DEF SerStands
    <3>3. clock \in Int /\ stamp[n] \in Int
      BY <1>0, <1>1 DEF SerTyped
    <3>4. task'[t].since = task[t].since /\ stamp'[n] = stamp[n]
      BY <1>2, <1>4, <1>5
    <3> QED BY <3>1, <3>2, <3>3, <3>4, SerAssumed
  <2>2. ASSUME Series!Fresh(task[t].due) PROVE n >= task[t].due
    <3>1. task[t].due \in 0..MaxSeriesCalls /\ task[t].due # 0 /\ SerUsed(task[t].due) /\ task[t].due <= kept
          /\ kept \in 0..MaxSeriesCalls /\ SerUsed(kept)
      BY <1>0, <2>2, SerFields DEF Series!Fresh, SerUsed, SerStands, SerTyped
    <3>2. kept # 0 /\ Series!Fresh(kept)
      BY <1>0, <2>2, <3>1, SerFresher
    <3> QED BY <1>0, <1>1, <3>1, <3>2 DEF SerKept
  <2>3. task[t].due \in 0..MaxSeriesCalls
    BY <1>0, SerFields
  <2> QED BY <1>4, <1>5, <2>1, <2>2, <2>3 DEF SerGets
<1> QED BY <1>0, <1>2, <1>3, <1>4, <1>6, <1>7, <1>8, <1>9, SerMoves DEF SerTyped, SerNumbered, SerWriting

LEMMA SerFetch ==
  ASSUME SerInv, NEW t \in Threads, Series!Fetch(t)
  PROVE  SerInv'
<1>0. /\ SerTyped /\ SerDated /\ SerNumbered
      /\ SerStands(t) /\ SerUnopened(t) /\ SerAlone(t) /\ SerGets(t) /\ task[t].at = "fetch"
      /\ UNCHANGED <<tmp, file, content, remote, clock, stamp, calls, faults, kept>>
  BY DEF SerInv, Series!Fetch, Series!At
<1>1. PICK n \in {0, Series!FreshOr0(remote)} :
        task' = [task EXCEPT ![t].entry = n, ![t].at = IF n # 0 THEN "open" ELSE "answer"]
  BY DEF Series!Fetch
<1>2. n \in 0..MaxSeriesCalls /\ (n # 0 => n = remote /\ Series!Fresh(n) /\ n \in 1..MaxSeriesCalls /\ SerUsed(n))
  BY <1>0, SerAssumed DEF Series!FreshOr0, SerTyped, SerUsed
<1> DEFINE next == [task[t] EXCEPT !.entry = n, !.at = IF n # 0 THEN "open" ELSE "answer"]
<1>3. task' = [task EXCEPT ![t] = next]
  BY <1>0, <1>1 DEF SerTyped
<1>4. /\ next \in SerTask /\ next.op = task[t].op /\ next.at = (IF n # 0 THEN "open" ELSE "answer")
      /\ next.entry = n /\ next.handle = task[t].handle
      /\ next.ok = task[t].ok /\ next.alone = task[t].alone /\ next.due = task[t].due /\ next.since = task[t].since
  <2>1. task[t] \in SerTask
    BY <1>0, SerFields
  <2> QED BY <1>2, <2>1 DEF SerTask, SerPlaces
<1> HIDE DEF next
<1>5. /\ \A u \in Threads : task'[u] = IF u = t THEN next ELSE task[u]
      /\ \A k \in 0..MaxSeriesCalls : Series!Fresh(k)' <=> Series!Fresh(k)
  BY <1>0, <1>3, <1>4, SerCall
<1>6. /\ SerTmp' = SerTmp /\ SerFile' = SerFile /\ SerParsed' = SerParsed
      /\ SerTmp \in 0..MaxSeriesCalls /\ SerFile \in 0..MaxSeriesCalls
  <2>1. SerTmp \in 0..MaxSeriesCalls /\ SerFile \in 0..MaxSeriesCalls
    BY <1>0, SerParses
  <2> QED BY <1>0, <2>1 DEF SerTmp, SerFile, SerParsed, Series!Parsed
<1>7. \A k \in 1..MaxSeriesCalls : SerUsed(k)' => SerUsed(k)
  <2> SUFFICES ASSUME NEW k \in 1..MaxSeriesCalls, SerUsed(k)'
               PROVE  SerUsed(k)
    OBVIOUS
  <2>1. ASSUME NEW u \in Threads, task'[u].entry = k \/ task'[u].due = k
        PROVE  SerUsed(k)
    BY <1>2, <1>4, <1>5, <2>1, SerAssumed DEF SerUsed
  <2> QED BY <1>0, <2>1 DEF SerUsed
<1>8. task[t].op = "get" /\ ~task[t].alone
  BY <1>0, SerFields DEF SerStands, SerPlaces
<1>9. SerStands(t)' /\ SerUnopened(t)' /\ SerAlone(t)'
  <2>2. n <= calls
    BY <1>0, <1>2, SerAssumed DEF SerDated, SerTyped
  <2>3. SerStands(t)'
    BY <1>0, <1>4, <1>5, <1>8, <2>2 DEF SerStands
  <2>4. SerUnopened(t)'
    BY <1>0, <1>4, <1>5, <1>6 DEF SerUnopened
  <2> QED BY <1>4, <1>5, <1>8, <2>3, <2>4 DEF SerAlone
<1>10. SerGets(t)'
  <2>1. ASSUME n # 0 PROVE task'[t].since - stamp'[n] <= SeriesTtl
    <3>1. clock - stamp[n] <= SeriesTtl
      BY <1>2, <2>1 DEF Series!Fresh
    <3>2. task[t].since <= clock /\ task[t].since \in Int
      BY <1>0, SerFields DEF SerStands
    <3>3. clock \in Int /\ stamp[n] \in Int
      BY <1>0, <1>2, <2>1 DEF SerTyped
    <3>4. task'[t].since = task[t].since /\ stamp'[n] = stamp[n]
      BY <1>0, <1>4, <1>5
    <3> QED BY <3>1, <3>2, <3>3, <3>4, SerAssumed
  <2>2. ~Series!Fresh(task[t].due)
    <3>1. task[t].entry = 0
      BY <1>0 DEF SerStands
    <3>2. Series!Fresh(task[t].due) => 0 >= task[t].due
      BY <1>0, <1>8, <3>1 DEF SerGets
    <3>3. task[t].due \in 0..MaxSeriesCalls /\ (Series!Fresh(task[t].due) => task[t].due # 0)
      BY <1>0, SerFields DEF Series!Fresh
    <3> QED BY <3>2, <3>3, SerAssumed
  <2>3. task[t].due \in 0..MaxSeriesCalls
    BY <1>0, SerFields
  <2> QED BY <1>4, <1>5, <2>1, <2>2, <2>3 DEF SerGets
<1> QED BY <1>0, <1>3, <1>4, <1>6, <1>7, <1>9, <1>10, SerMoves DEF SerTyped, SerNumbered, SerWriting

LEMMA SerOpens ==
  ASSUME SerInv, NEW t \in Threads, Series!OpenLocal(t)
  PROVE  SerInv'
<1> DEFINE h == IF SerTmp = 0 THEN task[t].handle ELSE SerTmp
           next == [task[t] EXCEPT !.at = "write", !.handle = h]
<1>0. /\ SerTyped /\ SerDated /\ SerNumbered
      /\ SerStands(t) /\ SerUnopened(t) /\ SerAlone(t) /\ SerGets(t) /\ task[t].at = "open"
      /\ UNCHANGED <<file, remote, clock, stamp, calls, faults, kept>>
  BY DEF SerInv, Series!OpenLocal, Series!At
<1>1. /\ tmp' = [tmp EXCEPT ![SeriesFile] = h] /\ content' = [content EXCEPT ![h] = Empty]
      /\ task' = [task EXCEPT ![t].at = "write", ![t].handle = h]
  BY DEF Series!OpenLocal, Series!Open, Series!Handle, SerTmp
<1>2. /\ SerTmp \in 0..MaxSeriesCalls /\ SerFile \in 0..MaxSeriesCalls /\ task[t].handle \in 1..MaxSeriesCalls
      /\ task[t].handle # SerFile /\ h \in 1..MaxSeriesCalls /\ h # SerFile /\ h \in {task[t].handle, SerTmp} /\ h <= calls
  <2>1. SerTmp \in 0..MaxSeriesCalls /\ SerFile \in 0..MaxSeriesCalls /\ task[t].handle \in 0..MaxSeriesCalls
    BY <1>0, SerParses, SerFields
  <2>2. task[t].handle # 0 /\ task[t].handle # SerFile /\ task[t].handle <= calls
    BY <1>0 DEF SerUnopened, SerStands
  <2> QED BY <1>0, <2>1, <2>2, SerAssumed DEF SerNumbered
<1>3. task' = [task EXCEPT ![t] = next]
  BY <1>0, <1>1 DEF SerTyped
<1> HIDE DEF h
<1>4. /\ next \in SerTask /\ next.op = task[t].op /\ next.at = "write" /\ next.entry = task[t].entry /\ next.handle = h
      /\ next.ok = task[t].ok /\ next.alone = task[t].alone /\ next.due = task[t].due /\ next.since = task[t].since
  <2>1. task[t] \in SerTask /\ h \in 0..MaxSeriesCalls
    BY <1>0, <1>2, SerFields, SerAssumed
  <2> QED BY <2>1 DEF SerTask, SerPlaces
<1> HIDE DEF next
<1>5. /\ \A u \in Threads : task'[u] = IF u = t THEN next ELSE task[u]
      /\ \A k \in 0..MaxSeriesCalls : Series!Fresh(k)' <=> Series!Fresh(k)
  BY <1>0, <1>3, <1>4, SerCall
<1>6. /\ tmp' \in [{SeriesFile} -> 0..MaxSeriesCalls] /\ SerTmp' = h /\ SerFile' = SerFile
      /\ content' \in [1..MaxSeriesCalls -> 1..MaxSeriesCalls \cup {Empty, Torn}]
      /\ content'[h] = Empty /\ \A k \in 1..MaxSeriesCalls : k # h => content'[k] = content[k]
  BY <1>0, <1>1, <1>2, SerAssumed DEF SerTyped, SerTmp, SerFile
<1>7. SerParsed' = SerParsed
  <2>1. SerTyped'
    BY <1>0, <1>1, <1>3, <1>4, <1>6 DEF SerTyped
  <2>2. SerParsed' = IF SerFile' # 0 /\ content'[SerFile'] \in 1..MaxSeriesCalls THEN content'[SerFile'] ELSE 0
    BY <2>1, SerAssumed DEF SerParsed, Series!Parsed, SerFile
  <2>3. SerParsed = IF SerFile # 0 /\ content[SerFile] \in 1..MaxSeriesCalls THEN content[SerFile] ELSE 0
    BY <1>0, SerParses
  <2>4. SerFile # 0 => SerFile \in 1..MaxSeriesCalls
    BY <1>2
  <2> QED BY <1>2, <1>6, <2>2, <2>3, <2>4
<1>8. \A k \in 1..MaxSeriesCalls : SerUsed(k)' => SerUsed(k)
  <2> SUFFICES ASSUME NEW k \in 1..MaxSeriesCalls, SerUsed(k)'
               PROVE  SerUsed(k)
    OBVIOUS
  <2>1. ASSUME NEW u \in Threads, task'[u].entry = k \/ task'[u].due = k
        PROVE  SerUsed(k)
    BY <1>4, <1>5, <2>1 DEF SerUsed
  <2>2. ASSUME NEW m \in 1..MaxSeriesCalls, content'[m] = k PROVE SerUsed(k)
    BY <1>6, <2>2, SerAssumed DEF SerUsed
  <2> QED BY <1>0, <2>1, <2>2 DEF SerUsed
<1>9. SerStands(t)' /\ SerUnopened(t)' /\ SerGets(t)'
  <2>1. SerStands(t)'
    BY <1>0, <1>2, <1>4, <1>5 DEF SerStands
  <2>2. SerUnopened(t)'
    BY <1>4, <1>5 DEF SerUnopened
  <2>3. task[t].due \in 0..MaxSeriesCalls
    BY <1>0, SerFields
  <2> QED BY <1>0, <1>4, <1>5, <2>1, <2>2, <2>3 DEF SerGets
<1>10. SerAlone(t)'
  <2> SUFFICES ASSUME task[t].alone
               PROVE  /\ \A u \in Threads : u # t => task'[u].at \notin SerWriting
                      /\ kept < task[t].entry
                      /\ ~task'[t].ok
    BY <1>0, <1>4, <1>5, <1>6, <1>2, SerAssumed DEF SerAlone
  <2>1. task[t].op = "set" /\ ~task[t].ok
    BY <1>0, SerFields DEF SerStands
  <2> QED BY <1>0, <1>4, <1>5, <2>1 DEF SerAlone
<1>11. {SerTmp', SerFile'} \subseteq {0, SerTmp, SerFile, task[t].handle} /\ (SerTmp' # 0 => SerTmp' # SerFile')
       /\ SerTmp' \in 0..MaxSeriesCalls /\ SerFile' \in 0..MaxSeriesCalls
  BY <1>2, <1>6
<1> QED BY <1>0, <1>2, <1>3, <1>4, <1>6, <1>7, <1>8, <1>9, <1>10, <1>11, SerMoves DEF SerTyped, SerWriting

(* Writing another file than the one that is read.                         *)
LEMMA SerParsedStays ==
  ASSUME SerTyped, UNCHANGED file, \A k \in 1..MaxSeriesCalls : k = SerFile => content'[k] = content[k]
  PROVE  SerParsed' = SerParsed /\ SerFile' = SerFile
<1>1. SerFile \in 0..MaxSeriesCalls /\ SerFile' = SerFile
  BY DEF SerTyped, SerFile
<1>2. SerParsed' = IF SerFile # 0 /\ content'[SerFile] \in 1..MaxSeriesCalls THEN content'[SerFile] ELSE 0
  BY <1>1, SerAssumed DEF SerParsed, Series!Parsed, SerFile
<1>3. SerParsed = IF SerFile # 0 /\ content[SerFile] \in 1..MaxSeriesCalls THEN content[SerFile] ELSE 0
  BY SerParses
<1>4. SerFile # 0 => SerFile \in 1..MaxSeriesCalls
  BY <1>1, SerAssumed
<1> QED BY <1>1, <1>2, <1>3, <1>4

LEMMA SerWrites ==
  ASSUME SerInv, NEW t \in Threads, NEW place \in {"rename", "upsert", "answer"}, NEW c \in 1..MaxSeriesCalls \cup {Empty, Torn},
         task[t].at \in {"open", "write", "rename"}, task' = [task EXCEPT ![t].at = place], faults' \in 0..MaxFaults,
         UNCHANGED <<tmp, file, remote, clock, stamp, calls, kept>>,
         content' = content \/ (task[t].at = "write" /\ content' = [content EXCEPT ![task[t].handle] = c]),
         c \in {task[t].entry, Torn},
         place = "rename" =>
           /\ task[t].at = "write" /\ content' = [content EXCEPT ![task[t].handle] = c]
           /\ content[task[t].handle] = Empty => c = task[t].entry,
         place = "upsert" <=> place # "rename" /\ task[t].op = "set"
  PROVE  SerInv'
<1> DEFINE next == [task[t] EXCEPT !.at = place]
<1>0. /\ SerTyped /\ SerDated /\ SerNumbered
      /\ SerStands(t) /\ SerUnopened(t) /\ SerAlone(t) /\ SerGets(t)
  BY DEF SerInv
<1>1. task' = [task EXCEPT ![t] = next]
  BY <1>0 DEF SerTyped
<1>2. /\ next \in SerTask /\ next.op = task[t].op /\ next.at = place /\ next.entry = task[t].entry
      /\ next.handle = task[t].handle
      /\ next.ok = task[t].ok /\ next.alone = task[t].alone /\ next.due = task[t].due /\ next.since = task[t].since
  <2>1. task[t] \in SerTask
    BY <1>0, SerFields
  <2> QED BY <2>1 DEF SerTask, SerPlaces
<1> HIDE DEF next
<1>3. /\ \A u \in Threads : task'[u] = IF u = t THEN next ELSE task[u]
      /\ \A k \in 0..MaxSeriesCalls : Series!Fresh(k)' <=> Series!Fresh(k)
  BY <1>0, <1>1, <1>2, SerCall
<1>4. /\ SerTmp' = SerTmp /\ SerFile' = SerFile /\ SerTmp \in 0..MaxSeriesCalls /\ SerFile \in 0..MaxSeriesCalls
      /\ task[t].handle \in 0..MaxSeriesCalls /\ task[t].entry \in 1..MaxSeriesCalls /\ (task[t].at = "write" => task[t].handle \in 1..MaxSeriesCalls)
  <2>1. SerTmp \in 0..MaxSeriesCalls /\ SerFile \in 0..MaxSeriesCalls
    BY <1>0, SerParses
  <2>2. task[t].handle \in 0..MaxSeriesCalls /\ task[t].entry \in 0..MaxSeriesCalls
    BY <1>0, SerFields
  <2> QED BY <1>0, <2>1, <2>2, SerAssumed DEF SerTmp, SerFile, SerStands
<1>5. /\ content' \in [1..MaxSeriesCalls -> 1..MaxSeriesCalls \cup {Empty, Torn}]
      /\ \A k \in 1..MaxSeriesCalls :
           content'[k] = content[k] \/ (k = task[t].handle /\ task[t].at = "write" /\ content'[k] = c)
      /\ place = "rename" => content'[task[t].handle] = c
  BY <1>0, <1>4 DEF SerTyped
<1>6. task[t].alone => SerParsed' = SerParsed
  <2>1. task[t].alone /\ task[t].at = "write" => task[t].handle # SerFile
    BY <1>0, <1>4, SerAssumed DEF SerAlone, SerNumbered
  <2> QED BY <1>0, <1>5, <2>1, SerParsedStays
<1>7. \A k \in 1..MaxSeriesCalls : SerUsed(k)' => SerUsed(k)
  <2> SUFFICES ASSUME NEW k \in 1..MaxSeriesCalls, SerUsed(k)'
               PROVE  SerUsed(k)
    OBVIOUS
  <2>1. ASSUME NEW u \in Threads, task'[u].entry = k \/ task'[u].due = k
        PROVE  SerUsed(k)
    BY <1>2, <1>3, <2>1 DEF SerUsed
  <2>2. ASSUME NEW m \in 1..MaxSeriesCalls, content'[m] = k PROVE SerUsed(k)
    BY <1>5, <2>2, SerAssumed DEF SerUsed
  <2> QED BY <2>1, <2>2 DEF SerUsed
<1>8. SerStands(t)' /\ SerUnopened(t)' /\ SerGets(t)'
  <2>0. task[t].op \in {"set", "get"} /\ (task[t].ok => task[t].op # "set") /\ (place = "rename" => task[t].handle # 0)
    BY <1>0, <1>4, SerFields, SerAssumed DEF SerStands
  <2>1. SerStands(t)'
    BY <1>0, <1>2, <1>3, <2>0 DEF SerStands
  <2>2. SerUnopened(t)'
    BY <1>2, <1>3 DEF SerUnopened
  <2>3. task[t].due \in 0..MaxSeriesCalls
    BY <1>0, SerFields
  <2> QED BY <1>0, <1>2, <1>3, <2>1, <2>2, <2>3 DEF SerGets
<1>9. SerAlone(t)'
  <2> SUFFICES ASSUME task[t].alone
               PROVE  /\ \A u \in Threads : u # t => task'[u].at \notin SerWriting
                      /\ kept < task[t].entry
                      /\ place = "rename" => SerTmp = task[t].handle /\ content'[task[t].handle] = task[t].entry
                      /\ ~task'[t].ok
    BY <1>0, <1>2, <1>3, <1>4, <1>5, SerAssumed DEF SerAlone
  <2>1. task[t].op = "set" /\ ~task[t].ok
    BY <1>0, SerFields DEF SerStands
  <2>2. place = "rename" => SerTmp = task[t].handle /\ content'[task[t].handle] = task[t].entry
    BY <1>0, <1>5 DEF SerAlone
  <2> QED BY <1>0, <1>2, <1>3, <2>1, <2>2 DEF SerAlone
<1>10. {SerTmp', SerFile'} \subseteq {0, SerTmp, SerFile, task[t].handle} /\ (SerTmp' # 0 => SerTmp' # SerFile')
       /\ SerTmp' \in 0..MaxSeriesCalls /\ SerFile' \in 0..MaxSeriesCalls
  BY <1>0, <1>4 DEF SerNumbered
<1>11. next.at # "idle" /\ next.handle \in {task[t].handle, SerTmp} /\ task[t].at # "idle" /\ task[t].at \in SerWriting
  BY <1>2 DEF SerWriting
<1>12. tmp' \in [{SeriesFile} -> 0..MaxSeriesCalls] /\ file' \in [{SeriesFile} -> 0..MaxSeriesCalls]
  BY <1>0 DEF SerTyped
<1> QED BY <1>1, <1>2, <1>5, <1>6, <1>7, <1>8, <1>9, <1>10, <1>11, <1>12, SerMoves

LEMMA SerFills ==
  ASSUME SerInv, NEW t \in Threads, Series!FillLocal(t) \/ Series!WriteFails(t)
  PROVE  SerInv'
<1>0. /\ SerTyped /\ SerStands(t) /\ UNCHANGED <<tmp, file, remote, clock, stamp, calls, kept>>
      /\ task[t].op \in {"idle", "set", "get"} /\ task[t].entry \in 0..MaxSeriesCalls
  BY SerFields DEF SerInv, Series!FillLocal, Series!WriteFails
<1>1. CASE Series!FillLocal(t)
  <2>1. task[t].at = "write" /\ task' = [task EXCEPT ![t].at = "rename"] /\ faults' = faults /\ faults \in 0..MaxFaults
    BY <1>0, <1>1 DEF Series!FillLocal, Series!At, Series!Step, SerTyped
  <2>2. PICK c \in IF content[task[t].handle] \in {Empty, task[t].entry} THEN {task[t].entry} ELSE {task[t].entry, Torn} :
          content' = [content EXCEPT ![task[t].handle] = c]
    BY <1>1 DEF Series!FillLocal, Series!Fill
  <2>3. task[t].entry \in 1..MaxSeriesCalls
    BY <1>0, <2>1, SerAssumed DEF SerStands
  <2>4. c \in 1..MaxSeriesCalls \cup {Empty, Torn} /\ c \in {task[t].entry, Torn}
        /\ (content[task[t].handle] = Empty => c = task[t].entry)
    BY <2>2, <2>3
  <2> QED BY <1>0, <2>1, <2>2, <2>4, SerWrites
<1>2. CASE Series!WriteFails(t)
  <2> DEFINE place == Series!AfterWrite(t)
  <2>1. /\ task[t].at \in {"open", "write", "rename"} /\ task' = [task EXCEPT ![t].at = place]
        /\ faults' \in 0..MaxFaults
        /\ content' = content \/ (task[t].at = "write" /\ content' = [content EXCEPT ![task[t].handle] = Torn])
    BY <1>0, <1>2, SerAssumed DEF Series!WriteFails, Series!Writing, Series!At, Series!Step, SerTyped
  <2>2. place \in {"upsert", "answer"} /\ (place = "upsert" <=> task[t].op = "set")
    BY DEF Series!AfterWrite
  <2>3. place \in {"rename", "upsert", "answer"} /\ place # "rename"
    BY <2>2
  <2> HIDE DEF place
  <2>4. Torn \in 1..MaxSeriesCalls \cup {Empty, Torn} /\ Torn \in {task[t].entry, Torn}
    OBVIOUS
  <2> QED BY <1>0, <2>1, <2>2, <2>3, <2>4, SerWrites
<1> QED BY <1>1, <1>2

LEMMA SerRenames ==
  ASSUME SerInv, NEW t \in Threads, Series!RenameLocal(t), SerTmp # 0
  PROVE  SerInv'
<1> DEFINE place == Series!AfterWrite(t)
           next == [task[t] EXCEPT !.at = place, !.ok = TRUE]
<1>0. /\ SerTyped /\ SerDated /\ SerNumbered
      /\ SerStands(t) /\ SerUnopened(t) /\ SerAlone(t) /\ SerGets(t) /\ task[t].at = "rename"
      /\ UNCHANGED <<content, remote, clock, stamp, calls, faults, kept>>
  BY DEF SerInv, Series!RenameLocal, Series!At
<1>1. /\ file' = [file EXCEPT ![SeriesFile] = tmp[SeriesFile]] /\ tmp' = [tmp EXCEPT ![SeriesFile] = 0]
      /\ task' = [task EXCEPT ![t].at = place, ![t].ok = TRUE]
  BY DEF Series!RenameLocal, Series!Replace, SerTmp
<1>2. place \in {"upsert", "answer"} /\ (place = "upsert" <=> task[t].op = "set")
  BY DEF Series!AfterWrite
<1> HIDE DEF place
<1>3. task' = [task EXCEPT ![t] = next]
  BY <1>0, <1>1 DEF SerTyped
<1>4. /\ next \in SerTask /\ next.op = task[t].op /\ next.at = place /\ next.entry = task[t].entry
      /\ next.handle = task[t].handle
      /\ next.ok = TRUE /\ next.alone = task[t].alone /\ next.due = task[t].due /\ next.since = task[t].since
  <2>1. task[t] \in SerTask
    BY <1>0, SerFields
  <2> QED BY <1>2, <2>1 DEF SerTask, SerPlaces
<1> HIDE DEF next
<1>5. /\ \A u \in Threads : task'[u] = IF u = t THEN next ELSE task[u]
      /\ \A k \in 0..MaxSeriesCalls : Series!Fresh(k)' <=> Series!Fresh(k)
  BY <1>0, <1>3, <1>4, SerCall
<1>6. /\ SerTmp \in 0..MaxSeriesCalls /\ SerFile \in 0..MaxSeriesCalls
      /\ SerTmp' = 0 /\ SerFile' = SerTmp /\ 0 \in 0..MaxSeriesCalls
      /\ tmp' \in [{SeriesFile} -> 0..MaxSeriesCalls] /\ file' \in [{SeriesFile} -> 0..MaxSeriesCalls]
  BY <1>0, <1>1, SerAssumed DEF SerTyped, SerTmp, SerFile
<1>7. task[t].alone => SerParsed' = task[t].entry /\ SerParsed' >= kept
  <2> SUFFICES ASSUME task[t].alone
               PROVE  SerParsed' = task[t].entry /\ SerParsed' >= kept
    OBVIOUS
  <2>1. content[SerTmp] = task[t].entry /\ kept < task[t].entry /\ task[t].entry # 0
    BY <1>0 DEF SerAlone, SerStands
  <2>2. task[t].entry \in 0..MaxSeriesCalls /\ kept \in 0..MaxSeriesCalls
    BY <1>0, SerFields DEF SerTyped
  <2>3. task[t].entry \in 1..MaxSeriesCalls
    BY <2>1, <2>2, SerAssumed
  <2>4. SerParsed' = IF SerFile' # 0 /\ content'[SerFile'] \in 1..MaxSeriesCalls THEN content'[SerFile'] ELSE 0
    BY SerAssumed DEF SerParsed, Series!Parsed, SerFile
  <2>5. SerParsed' = task[t].entry
    BY <1>0, <1>6, <2>1, <2>3, <2>4
  <2> QED BY <2>1, <2>2, <2>5, SerAssumed
<1>8. \A k \in 1..MaxSeriesCalls : SerUsed(k)' => SerUsed(k)
  <2> SUFFICES ASSUME NEW k \in 1..MaxSeriesCalls, SerUsed(k)'
               PROVE  SerUsed(k)
    OBVIOUS
  <2>1. ASSUME NEW u \in Threads, task'[u].entry = k \/ task'[u].due = k
        PROVE  SerUsed(k)
    BY <1>4, <1>5, <2>1 DEF SerUsed
  <2> QED BY <1>0, <2>1 DEF SerUsed
<1>9. SerStands(t)' /\ SerUnopened(t)' /\ SerGets(t)'
  <2>0. task[t].op \in {"set", "get"}
    BY <1>0, SerFields DEF SerStands
  <2>1. SerStands(t)'
    BY <1>0, <1>2, <1>4, <1>5, <2>0 DEF SerStands
  <2>2. SerUnopened(t)'
    BY <1>2, <1>4, <1>5 DEF SerUnopened
  <2>3. task[t].due \in 0..MaxSeriesCalls
    BY <1>0, SerFields
  <2> QED BY <1>0, <1>4, <1>5, <2>1, <2>2, <2>3 DEF SerGets
<1>10. SerAlone(t)'
  <2> SUFFICES ASSUME task[t].alone
               PROVE  /\ \A u \in Threads : u # t => task'[u].at \notin SerWriting
                      /\ kept < task[t].entry
                      /\ SerParsed' = task[t].entry
    BY <1>0, <1>2, <1>4, <1>5 DEF SerAlone
  <2> QED BY <1>0, <1>5, <1>7 DEF SerAlone
<1>11. next.at # "idle" /\ next.handle \in {task[t].handle, SerTmp} /\ task[t].at # "idle" /\ task[t].at \in SerWriting
       /\ {SerTmp', SerFile'} \subseteq {0, SerTmp, SerFile, task[t].handle} /\ faults' \in 0..MaxFaults
       /\ content' \in [1..MaxSeriesCalls -> 1..MaxSeriesCalls \cup {Empty, Torn}]
  BY <1>0, <1>2, <1>4, <1>6 DEF SerWriting, SerTyped
<1>12. SerTmp' # 0 => SerTmp' # SerFile'
  BY <1>6
<1> QED BY <1>0, <1>3, <1>4, <1>6, <1>7, <1>8, <1>9, <1>10, <1>11, <1>12, SerMoves

LEMMA SerRenameFails ==
  ASSUME SerInv, NEW t \in Threads, Series!RenameLocal(t), SerTmp = 0
  PROVE  SerInv'
<1> DEFINE place == Series!AfterWrite(t)
<1>1. /\ task[t].at = "rename" /\ task' = [task EXCEPT ![t].at = place]
      /\ UNCHANGED <<tmp, file, content, remote, clock, stamp, calls, faults, kept>>
  BY DEF Series!RenameLocal, Series!At, Series!Step, SerTmp
<1>2. place \in {"upsert", "answer"} /\ (place = "upsert" <=> task[t].op = "set")
  BY DEF Series!AfterWrite
<1>3. place \in {"rename", "upsert", "answer"} /\ place # "rename"
  BY <1>2
<1>4. Torn \in 1..MaxSeriesCalls \cup {Empty, Torn} /\ Torn \in {task[t].entry, Torn} /\ faults' \in 0..MaxFaults
      /\ task[t].at \in {"open", "write", "rename"}
  BY <1>1 DEF SerInv, SerTyped
<1> HIDE DEF place
<1> QED BY <1>1, <1>2, <1>3, <1>4, SerWrites

LEMMA SerUpserts ==
  ASSUME SerInv, NEW t \in Threads, Series!Upsert(t)
  PROVE  SerInv'
<1>0. /\ SerTyped /\ SerDated /\ SerNumbered /\ SerKept
      /\ SerStands(t) /\ SerUnopened(t) /\ SerAlone(t) /\ SerGets(t) /\ task[t].at = "upsert"
      /\ UNCHANGED <<tmp, file, content, clock, stamp, calls, faults>>
      /\ task' = [task EXCEPT ![t] = Series!Idle] /\ remote' \in {remote, task[t].entry}
      /\ kept' = IF task[t].ok /\ task[t].alone THEN task[t].entry ELSE kept
  BY DEF SerInv, Series!Upsert, Series!At
<1>1. Series!Idle \in SerTask
  BY SerAssumed DEF Series!Idle, SerTask, SerPlaces
<1>2. /\ \A u \in Threads : task'[u] = IF u = t THEN Series!Idle ELSE task[u]
      /\ task' \in [Threads -> SerTask]
      /\ \A n \in 0..MaxSeriesCalls : Series!Fresh(n)' <=> Series!Fresh(n)
  BY <1>0, <1>1, SerCall
<1>3. SerParsed' = SerParsed /\ SerTmp' = SerTmp /\ SerFile' = SerFile
  BY <1>0 DEF SerParsed, Series!Parsed, SerTmp, SerFile
<1>4. /\ task'[t].op = "idle" /\ task'[t].at = "idle" /\ task'[t].entry = 0 /\ task'[t].handle = 0
      /\ task'[t].ok = FALSE /\ task'[t].alone = FALSE /\ task'[t].due = 0 /\ task'[t].since = 0
  BY <1>2 DEF Series!Idle
<1>5. task[t].entry \in 0..MaxSeriesCalls /\ task[t].entry <= calls /\ kept \in 0..MaxSeriesCalls /\ kept <= calls /\ calls \in Nat
      /\ kept <= kept' /\ kept' \in 0..MaxSeriesCalls /\ kept' <= calls
  <2>1. task[t].entry \in 0..MaxSeriesCalls /\ task[t].entry <= calls /\ kept \in 0..MaxSeriesCalls /\ kept <= calls /\ calls \in Nat
    BY <1>0, SerFields, SerAssumed DEF SerTyped, SerStands, SerNumbered
  <2>2. task[t].alone => kept < task[t].entry
    BY <1>0 DEF SerAlone
  <2> QED BY <1>0, <2>1, <2>2, SerAssumed
<1>6. SerTyped' /\ SerNumbered'
  <2>1. SerTyped'
    BY <1>0, <1>2, <1>5 DEF SerTyped
  <2> QED BY <1>0, <1>3, <1>5, <2>1 DEF SerNumbered
<1>7. SerKept'
  <2>1. CASE task[t].ok /\ task[t].alone
    <3>1. SerParsed = task[t].entry /\ \A u \in Threads : u # t => task[u].at \notin SerWriting
      BY <1>0, <2>1 DEF SerAlone
    <3>2. \A u \in Threads : task'[u].at \notin SerWriting
      BY <1>2, <1>4, <3>1 DEF SerWriting
    <3> QED BY <1>0, <1>3, <1>5, <2>1, <3>1, <3>2, SerAssumed DEF SerKept
  <2>2. CASE ~(task[t].ok /\ task[t].alone)
    <3>1. \A u \in Threads : task'[u].at \in SerWriting => u # t /\ task'[u] = task[u]
      BY <1>2, <1>4 DEF SerWriting
    <3> QED BY <1>0, <1>2, <1>3, <1>5, <2>2, <3>1 DEF SerKept
  <2> QED BY <2>1, <2>2
<1>8. SerDated'
  <2>1. \A n \in 1..MaxSeriesCalls : SerUsed(n)' => SerUsed(n)
    BY <1>0, <1>2, <1>4 DEF SerUsed
  <2> QED BY <1>0, <2>1, SerStillDated
<1>9. ASSUME NEW u \in Threads
      PROVE  SerStands(u)' /\ SerUnopened(u)' /\ SerAlone(u)' /\ SerGets(u)'
  <2>0. SerStands(u) /\ SerUnopened(u) /\ SerAlone(u) /\ SerGets(u) /\ clock \in Nat
        /\ task[u].due \in 0..MaxSeriesCalls
    BY <1>0, SerFields, SerAssumed DEF SerInv, SerTyped
  <2>1. CASE u = t
    BY <1>0, <1>4, <1>5, <2>0, <2>1, SerAssumed DEF SerStands, SerUnopened, SerAlone, SerGets
  <2>2. CASE u # t
    <3>1. task'[u] = task[u]
      BY <1>2, <2>2
    <3>2. \A w \in Threads : task'[w] = task[w] \/ task'[w].at = "idle"
      BY <1>2, <1>4
    <3>3. SerUnopened(u)'
      BY <1>3, <2>0, <3>1, <3>2 DEF SerUnopened
    <3>4. ~task[u].alone
      <4>1. task[t].at \in SerWriting
        BY <1>0 DEF SerWriting
      <4> QED BY <2>0, <2>2, <4>1 DEF SerAlone
    <3>5. SerAlone(u)'
      BY <3>1, <3>4 DEF SerAlone
    <3>6. SerStands(u)'
      BY <1>0, <1>5, <2>0, <3>1, SerAssumed DEF SerStands
    <3> QED BY <1>0, <1>2, <2>0, <3>1, <3>3, <3>5, <3>6 DEF SerGets
  <2> QED BY <2>1, <2>2
<1> QED BY <1>6, <1>7, <1>8, <1>9 DEF SerInv

(* The calls when nothing is promised any more.                            *)
LEMMA SerWithdrawn ==
  ASSUME SerTyped, NEW racing \in BOOLEAN
  PROVE  LET base == IF racing THEN Series!Withdrawn ELSE task IN
           /\ base \in [Threads -> SerTask]
           /\ \A u \in Threads :
                /\ base[u].op = task[u].op /\ base[u].at = task[u].at /\ base[u].entry = task[u].entry
                /\ base[u].handle = task[u].handle /\ base[u].ok = task[u].ok /\ base[u].since = task[u].since
                /\ base[u].alone = (task[u].alone /\ ~racing)
                /\ base[u].due = IF racing THEN 0 ELSE task[u].due
<1>1. CASE racing
  <2>1. ASSUME NEW u \in Threads
        PROVE  /\ Series!Withdrawn[u] \in SerTask
               /\ Series!Withdrawn[u].op = task[u].op /\ Series!Withdrawn[u].at = task[u].at
               /\ Series!Withdrawn[u].entry = task[u].entry /\ Series!Withdrawn[u].handle = task[u].handle
               /\ Series!Withdrawn[u].ok = task[u].ok /\ Series!Withdrawn[u].since = task[u].since
               /\ Series!Withdrawn[u].alone = FALSE /\ Series!Withdrawn[u].due = 0
    <3>1. task[u] \in SerTask /\ 0 \in 0..MaxSeriesCalls
      BY SerFields, SerAssumed
    <3>2. Series!Withdrawn[u] = [task[u] EXCEPT !.alone = FALSE, !.due = 0]
      BY DEF Series!Withdrawn
    <3> QED BY <3>1, <3>2 DEF SerTask
  <2>2. Series!Withdrawn \in [Threads -> SerTask]
    <3>1. Series!Withdrawn = [u \in Threads |-> Series!Withdrawn[u]]
      BY DEF Series!Withdrawn
    <3> QED BY <2>1, <3>1
  <2> QED BY <1>1, <2>1, <2>2
<1>2. CASE ~racing
  BY <1>2, SerFields DEF SerTyped
<1> QED BY <1>1, <1>2

LEMMA SerMisses ==
  ASSUME SerInv, NEW t \in Threads, Series!ReadLocal(t), Series!FreshOr0(SerParsed) = 0
  PROVE  SerInv'
<1> DEFINE racing == \E u \in Series!MayWrite : task[u].op = "set"
           base == IF racing THEN Series!Withdrawn ELSE task
           next == [base[t] EXCEPT !.entry = 0, !.at = "fetch"]
<1>0. /\ SerTyped /\ SerDated /\ SerNumbered /\ SerKept
      /\ SerStands(t) /\ SerUnopened(t) /\ SerAlone(t) /\ SerGets(t) /\ task[t].at = "read"
      /\ UNCHANGED <<tmp, file, content, remote, clock, stamp, calls, faults>>
  BY DEF SerInv, Series!ReadLocal, Series!At
<1>1. /\ task' = [base EXCEPT ![t].entry = 0, ![t].at = "fetch"]
      /\ kept' = IF racing THEN 0 ELSE kept
  BY DEF Series!ReadLocal, SerParsed
<1>2. /\ base \in [Threads -> SerTask]
      /\ \A u \in Threads :
           /\ base[u].op = task[u].op /\ base[u].at = task[u].at /\ base[u].entry = task[u].entry
           /\ base[u].handle = task[u].handle /\ base[u].ok = task[u].ok /\ base[u].since = task[u].since
           /\ base[u].alone = (task[u].alone /\ ~racing)
           /\ base[u].due = IF racing THEN 0 ELSE task[u].due
  BY <1>0, SerWithdrawn
<1>3. racing <=> \E u \in Threads : task[u].at \in SerWriting /\ task[u].op = "set"
  BY DEF Series!MayWrite, Series!Writing, SerWriting
<1> HIDE DEF base, racing
<1>4. \A u \in Threads : task'[u] = IF u = t THEN next ELSE base[u]
  BY <1>1, <1>2
<1>5. /\ next \in SerTask /\ next.op = task[t].op /\ next.at = "fetch" /\ next.entry = 0 /\ next.handle = task[t].handle
      /\ next.ok = task[t].ok /\ next.since = task[t].since
      /\ next.alone = (task[t].alone /\ ~racing) /\ next.due = IF racing THEN 0 ELSE task[t].due
  <2>1. base[t] \in SerTask /\ 0 \in 0..MaxSeriesCalls
    BY <1>2, SerAssumed
  <2>2. next \in SerTask /\ next.op = base[t].op /\ next.at = "fetch" /\ next.entry = 0 /\ next.handle = base[t].handle
      /\ next.ok = base[t].ok /\ next.since = base[t].since /\ next.alone = base[t].alone /\ next.due = base[t].due
    BY <2>1 DEF SerTask, SerPlaces
  <2> QED BY <1>2, <2>2
<1> HIDE DEF next
<1>6. \A u \in Threads :
        /\ task'[u].op = task[u].op /\ task'[u].handle = task[u].handle /\ task'[u].ok = task[u].ok
        /\ task'[u].since = task[u].since /\ task'[u].alone = (task[u].alone /\ ~racing)
        /\ task'[u].due = (IF racing THEN 0 ELSE task[u].due)
        /\ u # t => task'[u].at = task[u].at /\ task'[u].entry = task[u].entry
  BY <1>2, <1>4, <1>5
<1>7. task'[t].at = "fetch" /\ task'[t].entry = 0
  BY <1>4, <1>5
<1>8. /\ \A n \in 0..MaxSeriesCalls : Series!Fresh(n)' <=> Series!Fresh(n)
      /\ SerTmp' = SerTmp /\ SerFile' = SerFile /\ SerParsed' = SerParsed
  BY <1>0 DEF Series!Fresh, SerTmp, SerFile, SerParsed, Series!Parsed
<1>9. /\ kept \in 0..MaxSeriesCalls /\ kept' \in 0..MaxSeriesCalls /\ kept' <= calls /\ calls \in Nat
  BY <1>0, <1>1, SerAssumed DEF SerTyped, SerNumbered
<1>10. SerTyped' /\ SerNumbered'
  <2>1. task' \in [Threads -> SerTask]
    BY <1>1, <1>2, <1>4, <1>5
  <2> QED BY <1>0, <1>8, <1>9, <2>1 DEF SerTyped, SerNumbered
<1>11. SerDated'
  <2> SUFFICES ASSUME NEW n \in 1..MaxSeriesCalls, SerUsed(n)'
               PROVE  SerUsed(n)
    BY <1>0, SerStillDated
  <2>1. ASSUME NEW u \in Threads, task'[u].entry = n \/ task'[u].due = n
        PROVE  SerUsed(n)
    <3>1. n # 0
      BY SerAssumed
    <3> QED BY <1>6, <1>7, <2>1, <3>1 DEF SerUsed
  <2>2. n \in {remote', kept'} => SerUsed(n)
    BY <1>0, <1>1, SerAssumed DEF SerUsed
  <2> QED BY <1>0, <2>1, <2>2 DEF SerUsed
<1>12. ~(kept # 0 /\ Series!Fresh(kept))
  <2> SUFFICES ASSUME kept # 0, Series!Fresh(kept)
               PROVE  FALSE
    OBVIOUS
  <2>1. SerParsed >= kept /\ SerParsed \in 0..MaxSeriesCalls
    BY <1>0, SerParses DEF SerKept
  <2>2. SerParsed # 0 /\ SerUsed(SerParsed) /\ SerUsed(kept)
    BY <1>0, <1>9, <2>1, SerParses DEF SerUsed
  <2>3. Series!Fresh(SerParsed)
    BY <1>0, <1>9, <2>1, <2>2, SerFresher
  <2> QED BY <2>2, <2>3 DEF Series!FreshOr0
<1>13. SerKept'
  BY <1>1, <1>8, <1>9, <1>12 DEF SerKept
<1>14. \A u \in Threads : ~task'[u].alone
  BY <1>3, <1>6 DEF SerInv, SerStands, SerWriting
<1>15. ASSUME NEW u \in Threads
       PROVE  SerStands(u)' /\ SerUnopened(u)' /\ SerAlone(u)' /\ SerGets(u)'
  <2>0. SerStands(u) /\ SerUnopened(u) /\ SerGets(u) /\ task[u].due \in 0..MaxSeriesCalls
    BY <1>0, SerFields DEF SerInv
  <2>1. task'[u].due <= kept'
    <3>1. CASE racing
      <4>1. task'[u].due = 0 /\ kept' = 0
        BY <1>1, <1>6, <3>1
      <4> QED BY <4>1
    <3>2. CASE ~racing
      BY <1>1, <1>6, <2>0, <3>2 DEF SerStands
    <3> QED BY <3>1, <3>2
  <2>2. SerStands(u)'
    <3>1. CASE u = t
      <4>1. task[t].op = "get" /\ task[t].entry = 0
        BY <1>0, SerFields DEF SerStands
      <4> QED BY <1>0, <1>6, <1>7, <1>9, <1>14, <2>0, <2>1, <3>1, <4>1 DEF SerStands
    <3>2. CASE u # t
      BY <1>0, <1>6, <1>9, <1>14, <2>0, <2>1, <3>2 DEF SerStands
    <3> QED BY <3>1, <3>2
  <2>3. SerUnopened(u)'
    <3>1. ASSUME NEW w \in Threads
          PROVE  /\ task'[w].at = "idle" <=> task[w].at = "idle"
                 /\ task'[w].at \in {"read", "fetch", "open"} <=> task[w].at \in {"read", "fetch", "open"}
      BY <1>0, <1>6, <1>7
    <3> QED BY <1>6, <1>8, <2>0, <3>1 DEF SerUnopened
  <2>4. SerGets(u)'
    <3>1. CASE u = t
      <4>1. ~Series!Fresh(task'[t].due)
        <5>1. CASE racing
          BY <1>6, <5>1 DEF Series!Fresh
        <5>2. CASE ~racing
          <6> SUFFICES ASSUME Series!Fresh(task[t].due)
                       PROVE  FALSE
            BY <1>6, <5>2
          <6>1. task[t].due # 0 /\ SerUsed(task[t].due) /\ SerUsed(kept) /\ task[t].due <= kept
            BY <2>0, <3>1 DEF Series!Fresh, SerUsed, SerStands
          <6>2. kept # 0 /\ Series!Fresh(kept)
            BY <1>0, <1>9, <2>0, <3>1, <6>1, SerFresher
          <6> QED BY <1>12, <6>2
        <5> QED BY <5>1, <5>2
      <4>2. task'[t].due \in 0..MaxSeriesCalls
        BY <1>6, <2>0, <3>1, SerAssumed
      <4> QED BY <1>7, <1>8, <3>1, <4>1, <4>2 DEF SerGets
    <3>2. CASE u # t
      <4>1. Series!Fresh(task'[u].due) => Series!Fresh(task[u].due) /\ task'[u].due = task[u].due
        <5>1. CASE racing
          BY <1>6, <5>1 DEF Series!Fresh
        <5>2. CASE ~racing
          BY <1>6, <5>2
        <5> QED BY <5>1, <5>2
      <4>2. task'[u].due \in 0..MaxSeriesCalls
        BY <1>6, <2>0, SerAssumed
      <4> QED BY <1>0, <1>6, <1>8, <2>0, <3>2, <4>1, <4>2 DEF SerGets
    <3> QED BY <3>1, <3>2
  <2> QED BY <1>14, <2>2, <2>3, <2>4 DEF SerAlone
<1> QED BY <1>10, <1>11, <1>13, <1>15 DEF SerInv

(* A new call: its number is above every number in use.                    *)
LEMMA SerNew ==
  ASSUME SerInv, NEW t \in Threads, calls < MaxSeriesCalls, calls' = calls + 1,
         UNCHANGED <<tmp, file, content, remote, clock, faults>>,
         stamp' \in {stamp, [stamp EXCEPT ![calls + 1] = clock]}
  PROVE  /\ calls \in Nat /\ kept \in Nat /\ clock \in Nat /\ calls + 1 \in 1..MaxSeriesCalls /\ kept <= calls
         /\ \A n \in 1..MaxSeriesCalls : n <= calls => stamp'[n] = stamp[n]
         /\ \A n \in 0..MaxSeriesCalls : n <= calls => (SerFreshAt(n, stamp', clock') <=> Series!Fresh(n))
         /\ stamp' \in [1..MaxSeriesCalls -> 0..MaxSeriesClock]
         /\ SerTmp' = SerTmp /\ SerFile' = SerFile /\ SerParsed' = SerParsed
         /\ SerTmp \in 0..MaxSeriesCalls /\ SerFile \in 0..MaxSeriesCalls /\ SerTmp <= calls /\ SerFile <= calls
<1>1. SerTyped /\ SerNumbered
  BY DEF SerInv
<1>2. /\ calls \in Nat /\ kept \in Nat /\ clock \in Nat /\ clock \in 0..MaxSeriesClock /\ calls + 1 \in 1..MaxSeriesCalls /\ kept <= calls
      /\ SerTmp <= calls /\ SerFile <= calls /\ SerTmp \in 0..MaxSeriesCalls /\ SerFile \in 0..MaxSeriesCalls
  BY <1>1, SerAssumed, SerParses DEF SerTyped, SerNumbered
<1>3. ASSUME NEW n \in 1..MaxSeriesCalls, n <= calls
      PROVE  stamp'[n] = stamp[n]
  <2>1. n # calls + 1 /\ stamp \in [1..MaxSeriesCalls -> 0..MaxSeriesClock]
    BY <1>1, <1>2, <1>3, SerAssumed DEF SerTyped
  <2> QED BY <2>1
<1>4. \A n \in 0..MaxSeriesCalls : n <= calls => (SerFreshAt(n, stamp', clock') <=> Series!Fresh(n))
  <2>1. \A n \in 0..MaxSeriesCalls : n # 0 => n \in 1..MaxSeriesCalls
    BY SerAssumed
  <2> QED BY <1>3, <2>1 DEF Series!Fresh, SerFreshAt
<1>5. stamp' \in [1..MaxSeriesCalls -> 0..MaxSeriesClock]
  BY <1>1, <1>2 DEF SerTyped
<1>6. SerTmp' = SerTmp /\ SerFile' = SerFile /\ SerParsed' = SerParsed
  BY DEF SerTmp, SerFile, SerParsed, Series!Parsed
<1> QED BY <1>2, <1>3, <1>4, <1>5, <1>6

LEMMA SerSets ==
  ASSUME SerInv, NEW t \in Threads, Series!Set(t)
  PROVE  SerInv'
<1> DEFINE racing == Series!MayWrite # {}
           base == IF racing THEN Series!Withdrawn ELSE task
           next == [Series!Idle EXCEPT !.op = "set", !.at = "open", !.entry = calls + 1, !.handle = calls + 1,
                                       !.alone = ~racing]
<1>0. /\ SerTyped /\ SerDated /\ SerNumbered /\ SerKept
      /\ task[t].at = "idle" /\ calls < MaxSeriesCalls /\ calls' = calls + 1
      /\ stamp' = [stamp EXCEPT ![calls + 1] = clock]
      /\ UNCHANGED <<tmp, file, content, remote, clock, faults>>
  BY DEF SerInv, Series!Set, Series!At
<1>1. /\ task' = [base EXCEPT ![t] = next]
      /\ kept' = IF racing THEN 0 ELSE kept
  BY DEF Series!Set
<1>2. /\ base \in [Threads -> SerTask]
      /\ \A u \in Threads :
           /\ base[u].op = task[u].op /\ base[u].at = task[u].at /\ base[u].entry = task[u].entry
           /\ base[u].handle = task[u].handle /\ base[u].ok = task[u].ok /\ base[u].since = task[u].since
           /\ base[u].alone = (task[u].alone /\ ~racing)
           /\ base[u].due = IF racing THEN 0 ELSE task[u].due
  BY <1>0, SerWithdrawn
<1>3. ~racing => \A u \in Threads : task[u].at \notin SerWriting
  BY DEF Series!MayWrite, Series!Writing, SerWriting
<1> HIDE DEF base, racing
<1>16. (~racing) \in BOOLEAN
  <2>1. CASE racing
    BY <2>1
  <2>2. CASE ~racing
    BY <2>2
  <2> QED BY <2>1, <2>2
<1>4. /\ calls \in Nat /\ kept \in Nat /\ clock \in Nat /\ calls + 1 \in 1..MaxSeriesCalls /\ kept <= calls
      /\ \A n \in 1..MaxSeriesCalls : n <= calls => stamp'[n] = stamp[n]
      /\ \A n \in 0..MaxSeriesCalls : n <= calls => (SerFreshAt(n, stamp', clock') <=> Series!Fresh(n))
      /\ stamp' \in [1..MaxSeriesCalls -> 0..MaxSeriesClock]
      /\ SerTmp' = SerTmp /\ SerFile' = SerFile /\ SerParsed' = SerParsed
      /\ SerTmp \in 0..MaxSeriesCalls /\ SerFile \in 0..MaxSeriesCalls /\ SerTmp <= calls /\ SerFile <= calls
  BY <1>0, SerNew
<1>5. /\ next \in SerTask /\ next.op = "set" /\ next.at = "open" /\ next.entry = calls + 1 /\ next.handle = calls + 1
      /\ next.ok = FALSE /\ next.since = 0 /\ next.alone = ~racing /\ next.due = 0
  <2>1. (~racing) \in BOOLEAN /\ calls + 1 \in 0..MaxSeriesCalls /\ 0 \in 0..MaxSeriesCalls /\ 0 \in 0..MaxSeriesClock
    BY <1>4, <1>16, SerAssumed
  <2> QED BY <2>1 DEF Series!Idle, SerTask, SerPlaces
<1> HIDE DEF next
<1>6. /\ task' \in [Threads -> SerTask]
      /\ \A u \in Threads : task'[u] = IF u = t THEN next ELSE base[u]
  BY <1>1, <1>2, <1>5
<1>7. \A u \in Threads : u # t =>
        /\ task'[u].op = task[u].op /\ task'[u].handle = task[u].handle /\ task'[u].ok = task[u].ok
        /\ task'[u].since = task[u].since /\ task'[u].alone = (task[u].alone /\ ~racing)
        /\ task'[u].due = (IF racing THEN 0 ELSE task[u].due)
        /\ task'[u].at = task[u].at /\ task'[u].entry = task[u].entry
  BY <1>2, <1>6
<1>8. /\ task'[t].op = "set" /\ task'[t].at = "open" /\ task'[t].entry = calls + 1 /\ task'[t].handle = calls + 1
      /\ task'[t].ok = FALSE /\ task'[t].since = 0 /\ task'[t].alone = ~racing /\ task'[t].due = 0
  BY <1>5, <1>6
<1>9. kept' \in 0..MaxSeriesCalls /\ kept' <= calls /\ kept' <= calls' /\ (kept' # 0 => ~racing /\ kept' = kept)
  BY <1>0, <1>1, <1>4, SerAssumed
<1>10. SerTyped' /\ SerNumbered'
  <2>1. calls' \in 0..MaxSeriesCalls /\ SerTmp <= calls' /\ SerFile <= calls'
    BY <1>0, <1>4
  <2> QED BY <1>0, <1>4, <1>6, <1>9, <2>1 DEF SerTyped, SerNumbered
<1>11. SerDated'
  <2>1. ASSUME NEW n \in 1..MaxSeriesCalls, SerUsed(n)'
        PROVE  n = calls + 1 \/ (SerUsed(n) /\ n <= calls /\ stamp[n] <= clock)
    <3>1. ASSUME NEW u \in Threads, task'[u].entry = n \/ task'[u].due = n
          PROVE  n = calls + 1 \/ SerUsed(n)
      <4>1. n # 0
        BY SerAssumed
      <4> QED BY <1>7, <1>8, <3>1, <4>1 DEF SerUsed
    <3>2. n \in {remote', kept'} => SerUsed(n)
      BY <1>0, <1>1, SerAssumed DEF SerUsed
    <3>3. n = calls + 1 \/ SerUsed(n)
      BY <1>0, <2>1, <3>1, <3>2 DEF SerUsed
    <3> QED BY <1>0, <3>3 DEF SerDated
  <2>2. \A n \in 1..MaxSeriesCalls : stamp[n] \in Nat /\ stamp'[n] \in Nat
    BY <1>0, <1>4, SerAssumed DEF SerTyped
  <2>3. stamp'[calls + 1] = clock
    BY <1>0, <1>4 DEF SerTyped
  <2>4. ASSUME NEW n \in 1..MaxSeriesCalls, SerUsed(n)'
        PROVE  n <= calls' /\ stamp'[n] <= clock'
    BY <1>0, <1>4, <2>1, <2>3, <2>4
  <2>5. ASSUME NEW m \in 1..MaxSeriesCalls, NEW n \in 1..MaxSeriesCalls, SerUsed(m)', SerUsed(n)', m <= n
        PROVE  stamp'[m] <= stamp'[n]
    <3>1. CASE n = calls + 1
      BY <1>0, <2>3, <2>4, <2>5, <3>1
    <3>2. CASE n # calls + 1
      <4>1. SerUsed(n) /\ n <= calls /\ m <= calls /\ SerUsed(m)
        BY <1>4, <2>1, <2>5, <3>2
      <4> QED BY <1>0, <1>4, <2>5, <4>1 DEF SerDated
    <3> QED BY <3>1, <3>2
  <2> QED BY <2>4, <2>5 DEF SerDated
<1>12. SerKept'
  <2> SUFFICES ASSUME kept' # 0, SerFreshAt(kept', stamp', clock')
               PROVE  /\ SerParsed' >= kept'
                      /\ \A u \in Threads : task'[u].at \in SerWriting => task'[u].alone
    BY DEF SerKept, SerFreshAt, Series!Fresh
  <2>1. ~racing /\ kept' = kept /\ kept \in 0..MaxSeriesCalls /\ Series!Fresh(kept)
    BY <1>4, <1>9, SerAssumed
  <2>2. SerParsed >= kept
    BY <1>0, <1>9, <2>1 DEF SerKept
  <2> QED BY <1>3, <1>4, <1>7, <1>8, <2>1, <2>2
<1>13. SerStands(t)' /\ SerUnopened(t)' /\ SerAlone(t)' /\ SerGets(t)'
  <2>1. SerStands(t)'
    BY <1>0, <1>4, <1>8, <1>9 DEF SerStands
  <2>2. SerUnopened(t)'
    <3>1. \A u \in Threads : u # t => task[u].handle <= calls /\ task[u].handle \in 0..MaxSeriesCalls
      BY <1>0, SerFields DEF SerInv, SerStands
    <3> QED BY <1>4, <1>7, <1>8, <3>1 DEF SerUnopened
  <2>3. SerAlone(t)'
    <3> SUFFICES ASSUME ~racing
                 PROVE  SerAlone(t)'
      BY <1>8 DEF SerAlone
    <3>1. \A u \in Threads : u # t => task'[u].at \notin SerWriting
      BY <1>3, <1>7
    <3>2. kept' < task'[t].entry
      BY <1>4, <1>8, <1>9
    <3> QED BY <1>8, <3>1, <3>2 DEF SerAlone
  <2> QED BY <1>8, <2>1, <2>2, <2>3 DEF SerGets
<1>14. ASSUME NEW u \in Threads, u # t
       PROVE  SerStands(u)' /\ SerUnopened(u)' /\ SerAlone(u)' /\ SerGets(u)'
  <2>0. /\ SerStands(u) /\ SerUnopened(u) /\ SerAlone(u) /\ SerGets(u) /\ task[u].due \in 0..MaxSeriesCalls
        /\ task[u].entry \in 0..MaxSeriesCalls /\ task[u].handle \in 0..MaxSeriesCalls
    BY <1>0, SerFields DEF SerInv
  <2>1. task'[u].due <= kept'
    <3>1. CASE racing
      BY <1>1, <1>7, <1>14, <3>1
    <3>2. CASE ~racing
      BY <1>1, <1>7, <1>14, <2>0, <3>2 DEF SerStands
    <3> QED BY <3>1, <3>2
  <2>2. task[u].entry <= calls' /\ task[u].handle <= calls'
    BY <1>0, <1>4, <2>0 DEF SerStands
  <2>3. SerStands(u)'
    BY <1>0, <1>7, <1>14, <2>0, <2>1, <2>2 DEF SerStands
  <2>4. SerUnopened(u)'
    <3>1. task[u].handle <= calls
      BY <2>0 DEF SerStands
    <3>2. task'[t].handle # task[u].handle
      BY <1>4, <1>8, <2>0, <3>1
    <3> QED BY <1>4, <1>7, <1>14, <2>0, <3>2 DEF SerUnopened
  <2>5. SerAlone(u)'
    <3> SUFFICES ASSUME task'[u].alone
                 PROVE  FALSE
      BY DEF SerAlone
    <3>1. task[u].alone /\ ~racing
      BY <1>7, <1>14
    <3>2. task[u].op = "set"
      BY <2>0, <3>1 DEF SerStands
    <3>3. task[u].at \in SerWriting
      BY <2>0, <3>2 DEF SerStands, SerWriting
    <3> QED BY <1>3, <3>1, <3>3
  <2>6. SerGets(u)'
    <3> SUFFICES ASSUME task'[u].op = "get"
                 PROVE  /\ task'[u].entry # 0 => task'[u].since - stamp'[task'[u].entry] <= SeriesTtl
                        /\ task'[u].at # "read" /\ SerFreshAt(task'[u].due, stamp', clock') => task'[u].entry >= task'[u].due
      BY DEF SerGets, SerFreshAt, Series!Fresh
    <3>1. task[u].op = "get" /\ task[u].entry <= calls /\ (task[u].entry # 0 => task[u].entry \in 1..MaxSeriesCalls)
      BY <1>7, <1>14, <2>0, SerAssumed DEF SerStands
    <3>2. task'[u].entry # 0 => task'[u].since - stamp'[task'[u].entry] <= SeriesTtl
      BY <1>4, <1>7, <1>14, <2>0, <3>1 DEF SerGets
    <3>3. ASSUME task'[u].at # "read", SerFreshAt(task'[u].due, stamp', clock')
          PROVE  task'[u].entry >= task'[u].due
      <4>1. CASE racing
        <5>1. task'[u].due = 0 /\ task'[u].entry = task[u].entry
          BY <1>7, <1>14, <4>1
        <5> QED BY <2>0, <5>1
      <4>2. CASE ~racing
        <5>1. task'[u].due = task[u].due /\ task'[u].entry = task[u].entry /\ task'[u].at = task[u].at
          BY <1>7, <1>14, <4>2
        <5>2. task[u].due <= calls
          BY <1>4, <2>0 DEF SerStands
        <5>3. Series!Fresh(task[u].due)
          BY <1>4, <2>0, <3>3, <5>1, <5>2
        <5> QED BY <2>0, <3>1, <3>3, <5>1, <5>3 DEF SerGets
      <4> QED BY <4>1, <4>2
    <3> QED BY <3>2, <3>3
  <2> QED BY <2>3, <2>4, <2>5, <2>6
<1>15. \A u \in Threads : SerStands(u)' /\ SerUnopened(u)' /\ SerAlone(u)' /\ SerGets(u)'
  BY <1>13, <1>14
<1> QED BY <1>10, <1>11, <1>12, <1>15 DEF SerInv

LEMMA SerGet ==
  ASSUME SerInv, NEW t \in Threads, Series!Get(t)
  PROVE  SerInv'
<1> DEFINE next == [Series!Idle EXCEPT !.op = "get", !.at = "read", !.handle = calls + 1, !.due = kept, !.since = clock]
<1>0. /\ SerTyped /\ SerDated /\ SerNumbered /\ SerKept
      /\ task[t].at = "idle" /\ calls < MaxSeriesCalls /\ calls' = calls + 1 /\ task' = [task EXCEPT ![t] = next]
      /\ UNCHANGED <<tmp, file, content, remote, clock, stamp, faults, kept>>
  BY DEF SerInv, Series!Get, Series!At
<1>1. /\ calls \in Nat /\ kept \in Nat /\ clock \in Nat /\ calls + 1 \in 1..MaxSeriesCalls /\ kept <= calls
      /\ \A n \in 0..MaxSeriesCalls : n <= calls => (SerFreshAt(n, stamp', clock') <=> Series!Fresh(n))
      /\ SerTmp' = SerTmp /\ SerFile' = SerFile /\ SerParsed' = SerParsed
      /\ SerTmp \in 0..MaxSeriesCalls /\ SerFile \in 0..MaxSeriesCalls /\ SerTmp <= calls /\ SerFile <= calls
  BY <1>0, SerNew
<1>2. /\ next \in SerTask /\ next.op = "get" /\ next.at = "read" /\ next.entry = 0 /\ next.handle = calls + 1
      /\ next.ok = FALSE /\ next.since = clock /\ next.alone = FALSE /\ next.due = kept
  <2>1. kept \in 0..MaxSeriesCalls /\ clock \in 0..MaxSeriesClock /\ calls + 1 \in 0..MaxSeriesCalls /\ 0 \in 0..MaxSeriesCalls
    BY <1>0, <1>1, SerAssumed DEF SerTyped
  <2> QED BY <2>1 DEF Series!Idle, SerTask, SerPlaces
<1> HIDE DEF next
<1>3. /\ task' \in [Threads -> SerTask]
      /\ \A u \in Threads : task'[u] = IF u = t THEN next ELSE task[u]
  BY <1>0, <1>2 DEF SerTyped
<1>4. SerTyped' /\ SerNumbered'
  <2>1. calls' \in 0..MaxSeriesCalls /\ SerTmp <= calls' /\ SerFile <= calls' /\ kept <= calls'
    BY <1>0, <1>1
  <2> QED BY <1>0, <1>1, <1>3, <2>1 DEF SerTyped, SerNumbered
<1>5. SerDated'
  <2>1. ASSUME NEW n \in 1..MaxSeriesCalls, SerUsed(n)'
        PROVE  SerUsed(n)
    <3>1. ASSUME NEW u \in Threads, task'[u].entry = n \/ task'[u].due = n
          PROVE  SerUsed(n)
      <4>1. n # 0
        BY SerAssumed
      <4> QED BY <1>2, <1>3, <3>1, <4>1 DEF SerUsed
    <3> QED BY <1>0, <2>1, <3>1 DEF SerUsed
  <2> QED BY <1>0, <2>1, SerStillDated
<1>6. SerKept'
  <2>1. \A u \in Threads : task'[u].at \in SerWriting => u # t /\ task'[u] = task[u]
    BY <1>2, <1>3 DEF SerWriting
  <2>2. kept \in 0..MaxSeriesCalls /\ (Series!Fresh(kept)' <=> Series!Fresh(kept))
    BY <1>0 DEF SerTyped, Series!Fresh
  <2> QED BY <1>0, <1>1, <2>1, <2>2 DEF SerKept
<1>7. ASSUME NEW u \in Threads
      PROVE  SerStands(u)' /\ SerUnopened(u)' /\ SerAlone(u)' /\ SerGets(u)'
  <2>0. /\ SerStands(u) /\ SerUnopened(u) /\ SerAlone(u) /\ SerGets(u) /\ task[u].due \in 0..MaxSeriesCalls
        /\ task[u].entry \in 0..MaxSeriesCalls /\ task[u].handle \in 0..MaxSeriesCalls
        /\ task[u].handle <= calls /\ task[u].entry <= calls /\ task[u].due <= kept
    BY <1>0, SerFields DEF SerInv, SerStands
  <2>1. CASE u = t
    <3>1. SerStands(u)'
      BY <1>0, <1>1, <1>2, <1>3, <2>1 DEF SerStands
    <3>2. SerUnopened(u)'
      <4>1. \A w \in Threads : w # u => task[w].handle <= calls /\ task[w].handle \in 0..MaxSeriesCalls
        BY <1>0, SerFields DEF SerInv, SerStands
      <4> QED BY <1>1, <1>2, <1>3, <2>1, <4>1 DEF SerUnopened
    <3> QED BY <1>2, <1>3, <2>1, <3>1, <3>2 DEF SerAlone, SerGets
  <2>2. CASE u # t
    <3>1. task'[u] = task[u]
      BY <1>3, <2>2
    <3>2. task[u].entry <= calls' /\ task[u].handle <= calls'
      BY <1>0, <1>1, <2>0
    <3>3. SerStands(u)'
      BY <1>0, <2>0, <3>1, <3>2 DEF SerStands
    <3>4. SerUnopened(u)'
      <4>1. task'[t].handle # task[u].handle
        BY <1>1, <1>2, <1>3, <2>0
      <4> QED BY <1>1, <1>3, <2>0, <2>2, <4>1 DEF SerUnopened
    <3>5. SerAlone(u)'
      <4>1. \A w \in Threads : w # u /\ task[w].at \notin SerWriting => task'[w].at \notin SerWriting
        BY <1>2, <1>3 DEF SerWriting
      <4> QED BY <1>0, <1>1, <2>0, <3>1, <4>1 DEF SerAlone
    <3>6. SerGets(u)'
      <4>1. SerFreshAt(task'[u].due, stamp', clock') <=> Series!Fresh(task[u].due)
        BY <1>0, <3>1 DEF Series!Fresh, SerFreshAt
      <4>2. SerGets(u)' <=> (task'[u].op = "get" =>
              /\ task'[u].entry # 0 => task'[u].since - stamp'[task'[u].entry] <= SeriesTtl
              /\ task'[u].at # "read" /\ SerFreshAt(task'[u].due, stamp', clock') => task'[u].entry >= task'[u].due)
        BY DEF SerGets, Series!Fresh, SerFreshAt
      <4> QED BY <1>0, <2>0, <3>1, <4>1, <4>2 DEF SerGets
    <3> QED BY <3>3, <3>4, <3>5, <3>6
  <2> QED BY <2>1, <2>2
<1> QED BY <1>4, <1>5, <1>6, <1>7 DEF SerInv

LEMMA SerTick ==
  ASSUME SerInv, Series!Tick
  PROVE  SerInv'
<1>0. /\ SerTyped /\ SerDated /\ SerNumbered /\ SerKept /\ clock < MaxSeriesClock /\ clock' = clock + 1 /\ clock \in Nat
      /\ UNCHANGED <<tmp, file, content, remote, stamp, task, calls, faults, kept>>
  BY SerAssumed DEF SerInv, Series!Tick, SerTyped
<1>1. \A n \in 0..MaxSeriesCalls : SerFreshAt(n, stamp', clock') => Series!Fresh(n)
  <2>1. ASSUME NEW n \in 1..MaxSeriesCalls, clock' - stamp'[n] <= SeriesTtl
        PROVE  clock - stamp[n] <= SeriesTtl
    <3>1. stamp[n] \in Nat
      BY <1>0, SerAssumed DEF SerTyped
    <3> QED BY <1>0, <2>1, <3>1, SerAssumed
  <2>2. \A n \in 0..MaxSeriesCalls : n # 0 => n \in 1..MaxSeriesCalls
    BY SerAssumed
  <2> QED BY <2>1, <2>2 DEF Series!Fresh, SerFreshAt
<1>2. SerTmp' = SerTmp /\ SerFile' = SerFile /\ SerParsed' = SerParsed
  BY <1>0 DEF SerTmp, SerFile, SerParsed, Series!Parsed
<1>3. SerTyped' /\ SerNumbered'
  BY <1>0, <1>2, SerAssumed DEF SerTyped, SerNumbered
<1>4. SerDated'
  <2>1. \A n \in 1..MaxSeriesCalls : SerUsed(n)' => SerUsed(n)
    BY <1>0 DEF SerUsed
  <2> QED BY <1>0, <2>1, SerStillDated
<1>5. SerKept'
  <2>1. kept \in 0..MaxSeriesCalls
    BY <1>0 DEF SerTyped
  <2>2. SerFreshAt(kept', stamp', clock') => Series!Fresh(kept)
    BY <1>0, <1>1, <2>1
  <2>3. SerKept' <=> (kept' # 0 /\ SerFreshAt(kept', stamp', clock') =>
          /\ SerParsed' >= kept'
          /\ \A t \in Threads : task'[t].at \in SerWriting => task'[t].alone)
    BY DEF SerKept, Series!Fresh, SerFreshAt
  <2> QED BY <1>0, <1>2, <2>2, <2>3 DEF SerKept
<1>6. ASSUME NEW u \in Threads
      PROVE  SerStands(u)' /\ SerUnopened(u)' /\ SerAlone(u)' /\ SerGets(u)'
  <2>0. /\ SerStands(u) /\ SerUnopened(u) /\ SerAlone(u) /\ SerGets(u) /\ task[u].due \in 0..MaxSeriesCalls
        /\ task[u].since \in Nat /\ task[u].since <= clock
    BY <1>0, SerFields, SerAssumed DEF SerInv, SerStands
  <2>1. SerStands(u)'
    BY <1>0, <2>0 DEF SerStands
  <2>2. SerUnopened(u)' /\ SerAlone(u)'
    BY <1>0, <1>2, <2>0 DEF SerUnopened, SerAlone
  <2>3. SerFreshAt(task'[u].due, stamp', clock') => Series!Fresh(task[u].due)
    BY <1>0, <1>1, <2>0
  <2>4. SerGets(u)' <=> (task'[u].op = "get" =>
          /\ task'[u].entry # 0 => task'[u].since - stamp'[task'[u].entry] <= SeriesTtl
          /\ task'[u].at # "read" /\ SerFreshAt(task'[u].due, stamp', clock') => task'[u].entry >= task'[u].due)
    BY DEF SerGets, Series!Fresh, SerFreshAt
  <2>5. SerGets(u)'
    BY <1>0, <2>0, <2>3, <2>4 DEF SerGets
  <2> QED BY <2>1, <2>2, <2>5
<1> QED BY <1>3, <1>4, <1>5, <1>6 DEF SerInv

LEMMA SerActs ==
  ASSUME SerInv, Series!Next
  PROVE  SerInv'
<1>1. ASSUME NEW t \in Threads, Series!ReadLocal(t)
      PROVE  SerInv'
  BY <1>1, SerReads, SerMisses
<1>2. ASSUME NEW t \in Threads, Series!Return(t) \/ Series!Kill(t)
      PROVE  SerInv'
  <2>1. faults \in 0..MaxFaults
    BY DEF SerInv, SerTyped
  <2>2. /\ task' = [task EXCEPT ![t] = Series!Idle] /\ faults' \in 0..MaxFaults
        /\ UNCHANGED <<tmp, file, content, remote, clock, stamp, calls, kept>>
    BY <1>2, <2>1, SerAssumed DEF Series!Return, Series!Kill
  <2> QED BY <2>2, SerKill
<1> QED BY <1>1, <1>2, SerSets, SerGet, SerFetch, SerOpens, SerFills, SerRenames, SerRenameFails, SerUpserts, SerTick, SerWrites
    DEF Series!Next

LEMMA SerStep ==
  ASSUME SerInv, [Series!Next]_(Series!vars)
  PROVE  SerInv'
<1>1. CASE UNCHANGED Series!vars
  BY <1>1 DEF Series!vars, SerInv, SerTyped, SerDated, SerUsed, SerNumbered, SerKept, SerStands, SerUnopened, SerAlone,
       SerGets, SerParsed, SerTmp, SerFile, Series!Parsed, Series!Fresh
<1> QED BY <1>1, SerActs

LEMMA SerPromised ==
  ASSUME SerInv
  PROVE  Series!TypeOK /\ Series!AnswersAreFresh /\ Series!SetIsServed
<1>0. SerTyped
  BY DEF SerInv
<1>1. Series!FilesTyped
  BY <1>0, SerAssumed DEF SerTyped, Series!FilesTyped
<1>2. ASSUME NEW t \in Threads
      PROVE  /\ task[t].at \in {"idle", "read", "fetch", "upsert", "answer"} \cup Series!Writing
             /\ task[t].at \in {"write", "rename"} => task[t].handle \in 1..MaxSeriesCalls
             /\ task[t].at \in Series!Writing => task[t].entry \in 1..MaxSeriesCalls
  <2>1. /\ SerStands(t) /\ task[t].at \in SerPlaces /\ task[t].entry \in 0..MaxSeriesCalls /\ task[t].handle \in 0..MaxSeriesCalls
    BY <1>0, SerFields DEF SerInv
  <2>2. \A n \in 0..MaxSeriesCalls : n # 0 => n \in 1..MaxSeriesCalls
    BY SerAssumed
  <2> QED BY <2>1, <2>2 DEF SerStands, SerPlaces, Series!Writing
<1>3. Series!TypeOK
  BY <1>0, <1>1, <1>2, SerAssumed DEF SerTyped, Series!TypeOK
<1>4. ASSUME NEW t \in Threads, Series!Answered(t)
      PROVE  /\ task[t].entry # 0 => task[t].since - stamp[task[t].entry] <= SeriesTtl
             /\ Series!Fresh(task[t].due) => task[t].entry >= task[t].due
  BY <1>4 DEF SerInv, SerGets, Series!Answered, Series!At
<1> QED BY <1>3, <1>4 DEF Series!AnswersAreFresh, Series!SetIsServed

(* One entry of the series cache: what a get answers was fresh when the    *)
(* get began, and is the last set that nothing overlapped, or newer.       *)
THEOREM SeriesKept == Series!Spec => [](Series!TypeOK /\ Series!AnswersAreFresh /\ Series!SetIsServed)
<1>1. Series!Init => SerInv
  BY SerStart
<1>2. SerInv /\ [Series!Next]_(Series!vars) => SerInv'
  BY SerStep
<1> QED BY <1>1, <1>2, SerPromised, PTL DEF Series!Spec

-----------------------------------------------------------------------------
(***************************************************************************)
(* The packets of a ticker: of a day whose newest save had it for itself,  *)
(* every save under way has too, so what is there only becomes newer.      *)
(***************************************************************************)
Packets == INSTANCE PacketStore WITH
  Processes <- Workers, ProcessOf <- WorkerOf, Places <- PacketDays, MaxCalls <- MaxPackets

ASSUME PacketParameters == Packets!PacketAssumption

PacNumbers == 0..MaxPackets
PacWriting == {"write", "rename", "truncate", "point"}
PacHeld == {"write", "rename"}
PacPlaces == {"idle", "write", "rename", "truncate", "point", "upsert", "pointer", "read", "answer"}
PacTask ==
  [op : {"idle", "save", "load"}, day : PacketDays \cup {None}, number : PacNumbers, at : PacPlaces,
   handle : PacNumbers, ok : BOOLEAN, alone : BOOLEAN, about : PacketDays \cup {None},
   first : PacketDays \cup {None}, todo : SUBSET PacketDays, due : PacNumbers, answer : PacNumbers]

PacTyped ==
  /\ tmp \in [PacketDays -> PacNumbers] /\ file \in [PacketDays -> PacNumbers]
  /\ content \in [1..MaxPackets -> 1..MaxPackets \cup {Empty, Torn}]
  /\ pointer \in PacketDays \cup {None, Torn} /\ remote \in [PacketDays -> PacNumbers]
  /\ task \in [Threads -> PacTask]
  /\ calls \in PacNumbers /\ faults \in 0..MaxFaults /\ kept \in [PacketDays -> PacNumbers]

PacNumbered == \A d \in PacketDays : tmp[d] <= calls /\ file[d] <= calls /\ kept[d] <= calls

(* No file has two names.                                                  *)
PacApart ==
  \A d, e \in PacketDays :
    /\ tmp[d] # 0 => tmp[d] # file[e] /\ (d # e => tmp[d] # tmp[e])
    /\ file[d] # 0 /\ d # e => file[d] # file[e]

Holds(t, d) == task[t].at \in PacHeld /\ task[t].day = d
Saves(t, d) == task[t].op = "save" /\ task[t].day = d

(* How a call may stand.                                                   *)
PacStands(t) ==
  /\ task[t].op = "idle" <=> task[t].at = "idle"
  /\ task[t].op = "save" <=> task[t].at \in PacWriting \cup {"upsert"}
  /\ task[t].op = "save" => task[t].day \in PacketDays /\ task[t].number # 0 /\ task[t].number <= calls
  /\ task[t].at \in PacHeld => task[t].handle # 0 /\ task[t].handle <= calls
  /\ task[t].alone => task[t].op = "save"
  /\ task[t].ok => task[t].at = "upsert"

(* Whose file a save holds.                                                *)
PacHolds(t) ==
  task[t].at \in PacHeld =>
    /\ \A e \in PacketDays : e # task[t].day => task[t].handle # tmp[e] /\ task[t].handle # file[e]
    /\ \A u \in Threads : task[u].at \in PacHeld /\ task[u].day # task[t].day => task[u].handle # task[t].handle

(* A save that has its day for itself.                                     *)
PacAlone(t) ==
  task[t].alone =>
    /\ \A u \in Threads : Holds(u, task[t].day) => task[u].alone
    /\ task[t].at \in PacHeld =>
         /\ \A u \in Threads : u # t => ~Holds(u, task[t].day)
         /\ kept[task[t].day] < task[t].number
         /\ \A u \in Threads : u # t /\ Saves(u, task[t].day) => task[u].number < task[t].number
         /\ tmp[task[t].day] = task[t].handle
    /\ task[t].at = "write" => content[task[t].handle] = Empty
    /\ task[t].at = "rename" => content[task[t].handle] = task[t].number
    /\ task[t].at \in {"truncate", "point"} \/ task[t].ok => Packets!Parsed(task[t].day) >= task[t].number

PacKept(d) ==
  kept[d] # 0 =>
    /\ Packets!Parsed(d) >= kept[d]
    /\ \A t \in Threads : Holds(t, d) => task[t].alone

(* What a load has still to find.                                          *)
PacLoads(t) ==
  task[t].op = "load" =>
    /\ task[t].at = "answer" => task[t].answer >= task[t].due
    /\ task[t].at = "pointer" => task[t].about = None /\ task[t].first = None
    /\ task[t].about # None => task[t].due <= kept[task[t].about]
    /\ task[t].about # None /\ task[t].at = "read" /\ task[t].due # 0 =>
         task[t].first = None /\ task[t].todo = {task[t].about}
    /\ task[t].about = None => task[t].due <= 1
    /\ task[t].about = None /\ task[t].at \in {"pointer", "read"} /\ task[t].due # 0 =>
         \E d \in PacketDays : kept[d] # 0 /\ (task[t].first = d \/ d \in task[t].todo)

PacInv ==
  /\ PacTyped /\ PacNumbered /\ PacApart
  /\ \A t \in Threads : PacStands(t) /\ PacHolds(t) /\ PacAlone(t) /\ PacLoads(t)
  /\ \A d \in PacketDays : PacKept(d)

LEMMA PacAssumed ==
  /\ MaxPackets \in Nat /\ MaxFaults \in Nat /\ Packets!Numbers = 1..MaxPackets
  /\ PacketDays \subseteq Nat \ {0} /\ None \notin PacketDays /\ Torn \notin PacketDays /\ Torn # None
  /\ Empty \notin Nat /\ Torn \notin Nat /\ Empty # Torn
BY PacketParameters DEF Packets!PacketAssumption, Packets!Numbers, Packets!Days

LEMMA PacFields ==
  ASSUME PacTyped, NEW t \in Threads
  PROVE  /\ task[t] \in PacTask /\ task[t].op \in {"idle", "save", "load"} /\ task[t].at \in PacPlaces
         /\ task[t].day \in PacketDays \cup {None} /\ task[t].about \in PacketDays \cup {None}
         /\ task[t].first \in PacketDays \cup {None} /\ task[t].todo \in SUBSET PacketDays
         /\ task[t].number \in PacNumbers /\ task[t].handle \in PacNumbers
         /\ task[t].due \in PacNumbers /\ task[t].answer \in PacNumbers
         /\ task[t].ok \in BOOLEAN /\ task[t].alone \in BOOLEAN
<1>1. task[t] \in PacTask
  BY DEF PacTyped
<1> QED BY <1>1 DEF PacTask

LEMMA PacIdle ==
  /\ Packets!Idle \in PacTask /\ Packets!Idle.op = "idle" /\ Packets!Idle.at = "idle"
  /\ Packets!Idle.day = None /\ Packets!Idle.number = 0 /\ Packets!Idle.handle = 0
  /\ Packets!Idle.ok = FALSE /\ Packets!Idle.alone = FALSE /\ Packets!Idle.about = None
  /\ Packets!Idle.first = None /\ Packets!Idle.todo = {} /\ Packets!Idle.due = 0 /\ Packets!Idle.answer = 0
<1>1. 0 \in PacNumbers
  BY PacAssumed DEF PacNumbers
<1> QED BY <1>1 DEF Packets!Idle, PacTask, PacPlaces

LEMMA PacStart ==
  ASSUME Packets!Init
  PROVE  PacInv
<1>1. /\ tmp = [d \in PacketDays |-> 0] /\ file = [d \in PacketDays |-> 0]
      /\ content = [n \in 1..MaxPackets |-> Empty] /\ pointer = None /\ remote = [d \in PacketDays |-> 0]
      /\ task = [t \in Threads |-> Packets!Idle]
      /\ calls = 0 /\ faults = 0 /\ kept = [d \in PacketDays |-> 0]
  BY PacAssumed DEF Packets!Init, Packets!NoFiles, Packets!Days
<1>2. PacTyped
  <2>1. 0 \in PacNumbers /\ 0 \in 0..MaxFaults
    BY PacAssumed DEF PacNumbers
  <2> QED BY <1>1, <2>1, PacIdle DEF PacTyped
<1>3. PacNumbered /\ PacApart /\ \A d \in PacketDays : PacKept(d)
  BY <1>1 DEF PacNumbered, PacApart, PacKept
<1>4. ASSUME NEW t \in Threads
      PROVE  PacStands(t) /\ PacHolds(t) /\ PacAlone(t) /\ PacLoads(t)
  <2>1. task[t].op = "idle" /\ task[t].at = "idle" /\ task[t].ok = FALSE /\ task[t].alone = FALSE
    BY <1>1, PacIdle
  <2> QED BY <2>1 DEF PacStands, PacHolds, PacAlone, PacLoads, PacHeld, PacWriting
<1> QED BY <1>2, <1>3, <1>4 DEF PacInv

(* What a reader parses depends on the names and on what they lead to.     *)
LEMMA PacParses ==
  ASSUME PacTyped, NEW d \in PacketDays
  PROVE  /\ Packets!Parsed(d) \in PacNumbers
         /\ Packets!Parsed(d) = IF file[d] # 0 /\ content[file[d]] \in 1..MaxPackets THEN content[file[d]] ELSE 0
         /\ file[d] \in PacNumbers /\ tmp[d] \in PacNumbers /\ kept[d] \in PacNumbers
         /\ (file[d] # 0 => file[d] \in 1..MaxPackets) /\ (tmp[d] # 0 => tmp[d] \in 1..MaxPackets)
<1>1. file[d] \in PacNumbers /\ tmp[d] \in PacNumbers /\ kept[d] \in PacNumbers
  BY DEF PacTyped
<1>2. Packets!Parsed(d) = IF file[d] # 0 /\ content[file[d]] \in 1..MaxPackets THEN content[file[d]] ELSE 0
  BY PacAssumed DEF Packets!Parsed
<1> QED BY <1>1, <1>2, PacAssumed DEF PacNumbers

(* A step of one load, or one that a call ends with.                       *)
LEMMA PacReads ==
  ASSUME PacInv, NEW t \in Threads, NEW next \in PacTask, task' = [task EXCEPT ![t] = next],
         UNCHANGED <<tmp, file, content, pointer, remote, kept>>, calls' \in PacNumbers, calls <= calls',
         faults' \in 0..MaxFaults,
         next.op = "idle" <=> next.at = "idle", next.at \notin PacWriting \cup {"upsert"},
         next.op # "save", next.alone = FALSE, next.ok = FALSE, PacLoads(t)'
  PROVE  PacInv'
<1>0. PacTyped /\ PacNumbered /\ PacApart /\ calls \in Nat /\ calls' \in Nat
  BY PacAssumed DEF PacInv, PacTyped, PacNumbers
<1>1. \A u \in Threads : task'[u] = IF u = t THEN next ELSE task[u]
  BY <1>0 DEF PacTyped
<1>2. PacTyped' /\ PacApart'
  BY <1>0, <1>1 DEF PacTyped, PacApart
<1>3. PacNumbered'
  <2>1. \A d \in PacketDays : tmp[d] \in Nat /\ file[d] \in Nat /\ kept[d] \in Nat
    BY <1>0, PacAssumed, PacParses DEF PacNumbers
  <2> QED BY <1>0, <2>1 DEF PacNumbered
<1>4. \A d \in PacketDays : Packets!Parsed(d)' = Packets!Parsed(d)
  BY DEF Packets!Parsed
<1>5. next.at \notin PacHeld
  BY DEF PacHeld, PacWriting
<1>6. ASSUME NEW u \in Threads, u # t
      PROVE  PacStands(u)' /\ PacHolds(u)' /\ PacAlone(u)' /\ PacLoads(u)'
  <2>1. task'[u] = task[u] /\ PacStands(u) /\ PacHolds(u) /\ PacAlone(u) /\ PacLoads(u) /\ task[u].number \in Nat
        /\ task[u].handle \in Nat
    BY <1>0, <1>1, <1>6, PacFields, PacAssumed DEF PacInv, PacNumbers
  <2>2. \A w \in Threads : task'[w].at \in PacHeld => task'[w] = task[w]
    BY <1>1, <1>5
  <2>3. \A w \in Threads : task'[w].op = "save" => task'[w] = task[w]
    BY <1>1
  <2>4. PacStands(u)'
    BY <1>0, <2>1 DEF PacStands
  <2>5. PacHolds(u)'
    BY <2>1, <2>2 DEF PacHolds
  <2>6. PacAlone(u)'
    <3> SUFFICES ASSUME task[u].alone
                 PROVE  PacAlone(u)'
      BY <2>1 DEF PacAlone
    <3>1. task[u].day \in PacketDays
      BY <2>1 DEF PacStands
    <3> QED BY <1>4, <2>1, <2>2, <2>3, <3>1 DEF PacAlone, Holds, Saves
  <2>7. PacLoads(u)'
    BY <2>1 DEF PacLoads
  <2> QED BY <2>4, <2>5, <2>6, <2>7
<1>7. PacStands(t)' /\ PacHolds(t)' /\ PacAlone(t)'
  BY <1>1, <1>5 DEF PacStands, PacHolds, PacAlone
<1>8. ASSUME NEW d \in PacketDays
      PROVE  PacKept(d)'
  <2>1. \A w \in Threads : task'[w].at \in PacHeld => task'[w] = task[w]
    BY <1>1, <1>5
  <2>2. PacKept(d)
    BY DEF PacInv
  <2> QED BY <1>4, <2>1, <2>2 DEF PacKept, Holds
<1> QED BY <1>2, <1>3, <1>6, <1>7, <1>8 DEF PacInv

LEMMA PacLoadStarts ==
  ASSUME PacInv, NEW t \in Threads, Packets!LoadLatest(t) \/ \E d \in PacketDays : Packets!LoadDay(t, d)
  PROVE  PacInv'
<1>0. /\ PacTyped /\ PacNumbered /\ calls <= calls' /\ calls' \in PacNumbers /\ 1 \in PacNumbers
      /\ faults' \in 0..MaxFaults /\ UNCHANGED <<tmp, file, content, pointer, remote, kept>>
  <2>1. /\ calls < MaxPackets /\ calls' = calls + 1 /\ faults' = faults
        /\ UNCHANGED <<tmp, file, content, pointer, remote, kept>>
    BY DEF Packets!LoadLatest, Packets!LoadDay, Packets!files
  <2>2. PacTyped /\ PacNumbered /\ calls \in 0..MaxPackets /\ faults \in 0..MaxFaults
    BY DEF PacInv, PacTyped, PacNumbers
  <2> QED BY <2>1, <2>2, PacAssumed DEF PacNumbers
<1>1. ASSUME NEW d \in PacketDays, Packets!LoadDay(t, d)
      PROVE  PacInv'
  <2> DEFINE next == [Packets!Idle EXCEPT !.op = "load", !.about = d, !.at = "read", !.todo = {d}, !.due = kept[d]]
  <2>1. task' = [task EXCEPT ![t] = next]
    BY <1>1 DEF Packets!LoadDay
  <2>2. /\ next \in PacTask /\ next.op = "load" /\ next.about = d /\ next.at = "read" /\ next.todo = {d}
        /\ next.due = kept[d] /\ next.first = None /\ next.alone = FALSE /\ next.ok = FALSE
    <3>1. kept[d] \in PacNumbers
      BY <1>0, PacParses
    <3> QED BY <3>1, PacIdle DEF PacTask, PacPlaces
  <2> HIDE DEF next
  <2>3. task'[t] = next
    BY <1>0, <2>1 DEF PacTyped
  <2>4. PacLoads(t)'
    <3>1. d # None /\ kept[d] <= kept[d]
      BY <1>0, PacParses, PacAssumed DEF PacNumbers
    <3> QED BY <1>0, <2>2, <2>3, <3>1 DEF PacLoads
  <2> QED BY <1>0, <2>1, <2>2, <2>4, PacReads DEF PacWriting
<1>2. ASSUME Packets!LoadLatest(t)
      PROVE  PacInv'
  <2> DEFINE due == IF \E d \in PacketDays : kept[d] # 0 THEN 1 ELSE 0
             next == [Packets!Idle EXCEPT !.op = "load", !.at = "pointer", !.todo = Packets!Dated, !.due = due]
  <2>1. task' = [task EXCEPT ![t] = next]
    BY <1>2 DEF Packets!LoadLatest, Packets!Days
  <2>2. due \in {0, 1} /\ (due # 0 => \E d \in PacketDays : kept[d] # 0)
    OBVIOUS
  <2> HIDE DEF due
  <2>3. Packets!Dated = {d \in PacketDays : file[d] # 0}
    BY DEF Packets!Dated, Packets!Days
  <2>4. /\ next \in PacTask /\ next.op = "load" /\ next.about = None /\ next.at = "pointer" /\ next.todo = Packets!Dated
        /\ next.due = due /\ next.first = None /\ next.alone = FALSE /\ next.ok = FALSE
    <3>1. Packets!Dated \in SUBSET PacketDays /\ due \in PacNumbers
      BY <1>0, <2>2, <2>3, PacAssumed DEF PacNumbers
    <3> QED BY <3>1, PacIdle DEF PacTask, PacPlaces
  <2> HIDE DEF next
  <2>5. task'[t] = next
    BY <1>0, <2>1 DEF PacTyped
  <2>6. \A d \in PacketDays : kept[d] # 0 => d \in Packets!Dated
    <3>1. ASSUME NEW d \in PacketDays, kept[d] # 0
          PROVE  file[d] # 0
      <4>1. PacKept(d) /\ kept[d] \in Nat /\ Packets!Parsed(d) \in Nat
        BY <1>0, PacParses, PacAssumed DEF PacInv, PacNumbers
      <4>2. Packets!Parsed(d) # 0
        BY <3>1, <4>1 DEF PacKept
      <4> QED BY <1>0, <4>2, PacParses
    <3> QED BY <2>3, <3>1
  <2>7. PacLoads(t)'
    BY <1>0, <2>2, <2>4, <2>5, <2>6 DEF PacLoads
  <2> QED BY <1>0, <2>1, <2>4, <2>7, PacReads DEF PacWriting
<1> QED BY <1>1, <1>2

LEMMA PacFollow ==
  ASSUME PacInv, NEW t \in Threads, Packets!Follow(t)
  PROVE  PacInv'
<1> DEFINE candidate == IF pointer \in Packets!Dated THEN pointer ELSE None
           next == [task[t] EXCEPT !.at = "read", !.first = candidate]
<1>0. PacTyped /\ calls' \in PacNumbers /\ calls <= calls' /\ faults' \in 0..MaxFaults
      /\ UNCHANGED <<tmp, file, content, pointer, remote, kept>> /\ task[t].at = "pointer"
      /\ PacStands(t) /\ PacLoads(t) /\ task[t] \in PacTask
  BY PacAssumed, PacFields DEF PacInv, PacTyped, PacNumbers, Packets!Follow, Packets!files, Packets!At
<1>1. task' = [task EXCEPT ![t] = next]
  BY <1>0 DEF Packets!Follow, PacTyped
<1>2. candidate \in PacketDays \cup {None}
  BY DEF Packets!Dated, Packets!Days
<1> HIDE DEF candidate
<1>3. /\ next \in PacTask /\ next.op = task[t].op /\ next.about = task[t].about /\ next.at = "read"
      /\ next.todo = task[t].todo /\ next.due = task[t].due /\ next.alone = task[t].alone /\ next.ok = task[t].ok
  BY <1>0, <1>2 DEF PacTask, PacPlaces
<1> HIDE DEF next
<1>4. task'[t] = next
  BY <1>0, <1>1 DEF PacTyped
<1>5. task[t].op = "load" /\ task[t].alone = FALSE /\ task[t].ok = FALSE
  BY <1>0, PacFields DEF PacStands, PacWriting
<1>6. PacLoads(t)'
  <2>1. task[t].about = None /\ task[t].due <= 1
    BY <1>0, <1>5 DEF PacLoads
  <2>2. task[t].due # 0 => \E d \in PacketDays : kept[d] # 0 /\ d \in task[t].todo
    <3>1. task[t].due # 0 => \E d \in PacketDays : kept[d] # 0 /\ (task[t].first = d \/ d \in task[t].todo)
      BY <1>0, <1>5, <2>1 DEF PacLoads
    <3>2. task[t].first = None
      BY <1>0, <1>5 DEF PacLoads
    <3> QED BY <3>1, <3>2, PacAssumed
  <2> QED BY <1>0, <1>3, <1>4, <1>5, <2>1, <2>2 DEF PacLoads
<1> QED BY <1>0, <1>1, <1>3, <1>5, <1>6, PacReads DEF PacWriting

LEMMA PacRead ==
  ASSUME PacInv, NEW t \in Threads, Packets!Read(t)
  PROVE  PacInv'
<1>0. PacTyped /\ calls' \in PacNumbers /\ calls <= calls' /\ faults' \in 0..MaxFaults
      /\ UNCHANGED <<tmp, file, content, pointer, remote, kept>> /\ task[t].at = "read"
      /\ PacStands(t) /\ PacLoads(t) /\ task[t] \in PacTask
  BY PacAssumed, PacFields DEF PacInv, PacTyped, PacNumbers, Packets!Read, Packets!files, Packets!At
<1>1. task[t].op = "load" /\ task[t].alone = FALSE /\ task[t].ok = FALSE
  BY <1>0, PacFields DEF PacStands, PacWriting
<1>2. ASSUME NEW d \in PacketDays, NEW first \in PacketDays \cup {None}, NEW todo \in SUBSET PacketDays,
             task' = [task EXCEPT ![t] = [task[t] EXCEPT !.answer = Packets!Parsed(d),
                                            !.at = IF Packets!Parsed(d) # 0 THEN "answer" ELSE "read",
                                            !.first = first, !.todo = todo]],
             d = task[t].first \/ d \in task[t].todo,
             \A e \in PacketDays : e # d /\ (e = task[t].first \/ e \in task[t].todo) => e = first \/ e \in todo
      PROVE  PacInv'
  <2> DEFINE n == Packets!Parsed(d)
             next == [task[t] EXCEPT !.answer = n, !.at = IF n # 0 THEN "answer" ELSE "read", !.first = first, !.todo = todo]
  <2>1. task' = [task EXCEPT ![t] = next]
    BY <1>2
  <2>2. n \in PacNumbers /\ kept[d] \in Nat /\ n \in Nat /\ PacKept(d)
    BY <1>0, PacParses, PacAssumed DEF PacNumbers, PacInv
  <2>3. kept[d] # 0 => n >= kept[d] /\ n # 0
    BY <2>2 DEF PacKept
  <2> HIDE DEF n
  <2>4. /\ next \in PacTask /\ next.op = task[t].op /\ next.about = task[t].about
        /\ next.at = (IF n # 0 THEN "answer" ELSE "read") /\ next.answer = n
        /\ next.first = first /\ next.todo = todo /\ next.due = task[t].due
        /\ next.alone = task[t].alone /\ next.ok = task[t].ok
    BY <1>0, <2>2 DEF PacTask, PacPlaces
  <2> HIDE DEF next
  <2>5. task'[t] = next
    BY <1>0, <2>1 DEF PacTyped
  <2>6. task[t].due \in Nat
    BY <1>0, PacFields, PacAssumed DEF PacNumbers
  <2>7. PacLoads(t)'
    <3>1. CASE task[t].about # None
      <4>1. /\ task[t].due <= kept[task[t].about]
            /\ task[t].due # 0 => task[t].first = None /\ task[t].todo = {task[t].about}
        BY <1>0, <1>1, <3>1 DEF PacLoads
      <4>2. task[t].due # 0 => d = task[t].about /\ kept[d] # 0
        BY <1>2, <2>2, <2>6, <4>1, PacAssumed
      <4>3. task[t].due # 0 => n # 0 /\ n >= task[t].due
        BY <2>2, <2>3, <2>6, <4>1, <4>2
      <4> QED BY <1>0, <1>1, <2>2, <2>4, <2>5, <2>6, <3>1, <4>1, <4>3 DEF PacLoads
    <3>2. CASE task[t].about = None
      <4>1. task[t].due <= 1
        BY <1>0, <1>1, <3>2 DEF PacLoads
      <4>2. ASSUME n = 0, task[t].due # 0
            PROVE  \E e \in PacketDays : kept[e] # 0 /\ (first = e \/ e \in todo)
        <5>1. PICK e \in PacketDays : kept[e] # 0 /\ (task[t].first = e \/ e \in task[t].todo)
          BY <1>0, <1>1, <3>2, <4>2 DEF PacLoads
        <5>2. e # d
          BY <2>3, <4>2, <5>1
        <5> QED BY <1>2, <5>1, <5>2
      <4>3. n # 0 => n >= task[t].due
        BY <2>2, <2>6, <4>1
      <4> QED BY <1>0, <1>1, <2>4, <2>5, <3>2, <4>1, <4>2, <4>3 DEF PacLoads
    <3> QED BY <3>1, <3>2
  <2> QED BY <1>0, <1>1, <2>1, <2>4, <2>7, PacReads DEF PacWriting
<1>3. CASE task[t].first # None
  <2>1. task[t].first \in PacketDays /\ task[t].todo \in SUBSET PacketDays
    BY <1>0, <1>3, PacFields
  <2>2. task' = [task EXCEPT ![t] = [task[t] EXCEPT !.answer = Packets!Parsed(task[t].first),
                                       !.at = IF Packets!Parsed(task[t].first) # 0 THEN "answer" ELSE "read",
                                       !.first = None, !.todo = task[t].todo]]
    <3>1. task' = [task EXCEPT ![t] = [[task[t] EXCEPT !.answer = Packets!Parsed(task[t].first),
                                          !.at = IF Packets!Parsed(task[t].first) # 0 THEN "answer" ELSE "read"]
                                        EXCEPT !.first = None]]
      BY <1>3 DEF Packets!Read, Packets!Tried
    <3> QED BY <1>0, <3>1 DEF PacTask
  <2> QED BY <1>2, <2>1, <2>2
<1>4. CASE task[t].first = None
  <2>1. PICK d \in Packets!Newest(task[t].todo) :
          task' = [task EXCEPT ![t] = [[task[t] EXCEPT !.answer = Packets!Parsed(d),
                                          !.at = IF Packets!Parsed(d) # 0 THEN "answer" ELSE "read"]
                                        EXCEPT !.todo = @ \ {d}]]
    BY <1>4 DEF Packets!Read, Packets!Tried
  <2>2. d \in task[t].todo /\ d \in PacketDays /\ task[t].todo \ {d} \in SUBSET PacketDays
    BY <1>0, <2>1, PacFields DEF Packets!Newest
  <2>3. task' = [task EXCEPT ![t] = [task[t] EXCEPT !.answer = Packets!Parsed(d),
                                       !.at = IF Packets!Parsed(d) # 0 THEN "answer" ELSE "read",
                                       !.first = None, !.todo = task[t].todo \ {d}]]
    <3> DEFINE n == Packets!Parsed(d)
               place == IF Packets!Parsed(d) # 0 THEN "answer" ELSE "read"
    <3>1. task' = [task EXCEPT ![t] = [[task[t] EXCEPT !.answer = n, !.at = place] EXCEPT !.todo = @ \ {d}]]
      BY <2>1
    <3> HIDE DEF n, place
    <3>2. [[task[t] EXCEPT !.answer = n, !.at = place] EXCEPT !.todo = @ \ {d}]
            = [task[t] EXCEPT !.answer = n, !.at = place, !.first = None, !.todo = task[t].todo \ {d}]
      BY <1>0, <1>4 DEF PacTask
    <3>3. task' = [task EXCEPT ![t] = [task[t] EXCEPT !.answer = n, !.at = place, !.first = None,
                                                        !.todo = task[t].todo \ {d}]]
      BY <3>1, <3>2
    <3> QED BY <3>3 DEF n, place
  <2> DEFINE rest == task[t].todo \ {d}
  <2>4. \A e \in PacketDays : e # d /\ (e = task[t].first \/ e \in task[t].todo) => e = None \/ e \in rest
    BY <1>4, PacAssumed
  <2>5. rest \in SUBSET PacketDays /\ None \in PacketDays \cup {None}
    BY <2>2
  <2>6. task' = [task EXCEPT ![t] = [task[t] EXCEPT !.answer = Packets!Parsed(d),
                                       !.at = IF Packets!Parsed(d) # 0 THEN "answer" ELSE "read",
                                       !.first = None, !.todo = rest]]
    BY <2>3
  <2> HIDE DEF rest
  <2> QED BY <1>2, <2>2, <2>4, <2>5, <2>6
<1> QED BY <1>3, <1>4

LEMMA PacFetch ==
  ASSUME PacInv, NEW t \in Threads, Packets!Fetch(t)
  PROVE  PacInv'
<1>0. PacTyped /\ calls' \in PacNumbers /\ calls <= calls' /\ faults' \in 0..MaxFaults
      /\ UNCHANGED <<tmp, file, content, pointer, remote, kept>> /\ task[t].at = "read"
      /\ task[t].first = None /\ task[t].todo = {}
      /\ PacStands(t) /\ PacLoads(t) /\ task[t] \in PacTask
  BY PacAssumed, PacFields DEF PacInv, PacTyped, PacNumbers, Packets!Fetch, Packets!files, Packets!At
<1>1. task[t].op = "load" /\ task[t].alone = FALSE /\ task[t].ok = FALSE
  BY <1>0, PacFields DEF PacStands, PacWriting
<1>2. PICK n \in PacNumbers : task' = [task EXCEPT ![t].at = "answer", ![t].answer = n]
  <2> DEFINE asked == IF task[t].about = None THEN PacketDays ELSE {task[t].about}
             stored == {d \in asked : remote[d] # 0}
  <2>1. PICK n \in {0} \cup {remote[d] : d \in Packets!Newest(stored)} :
          task' = [task EXCEPT ![t].at = "answer", ![t].answer = n]
    BY DEF Packets!Fetch, Packets!Days
  <2>2. asked \subseteq PacketDays
    BY <1>0, PacFields
  <2>3. n \in PacNumbers
    <3>1. CASE n = 0
      BY <3>1, PacAssumed DEF PacNumbers
    <3>2. CASE n # 0
      <4>1. PICK d \in Packets!Newest(stored) : n = remote[d]
        BY <2>1, <3>2
      <4>2. d \in PacketDays
        BY <2>2, <4>1 DEF Packets!Newest
      <4> QED BY <1>0, <4>1, <4>2 DEF PacTyped
    <3> QED BY <3>1, <3>2
  <2> QED BY <2>1, <2>3
<1> DEFINE next == [task[t] EXCEPT !.at = "answer", !.answer = n]
<1>3. task' = [task EXCEPT ![t] = next]
  BY <1>0, <1>2 DEF PacTyped
<1>4. /\ next \in PacTask /\ next.op = task[t].op /\ next.about = task[t].about
      /\ next.at = "answer" /\ next.answer = n /\ next.due = task[t].due
      /\ next.alone = task[t].alone /\ next.ok = task[t].ok
  BY <1>0, <1>2 DEF PacTask, PacPlaces
<1> HIDE DEF next
<1>5. task'[t] = next
  BY <1>0, <1>3 DEF PacTyped
<1>6. task[t].due = 0
  BY <1>0, <1>1, PacAssumed DEF PacLoads
<1>7. PacLoads(t)'
  <2>1. n >= 0 /\ \A d \in PacketDays : kept[d] >= 0
    BY <1>0, PacParses, PacAssumed DEF PacNumbers
  <2>2. task[t].about # None => task[t].about \in PacketDays
    BY <1>0, PacFields
  <2> QED BY <1>0, <1>1, <1>4, <1>5, <1>6, <2>1, <2>2 DEF PacLoads
<1> QED BY <1>0, <1>1, <1>3, <1>4, <1>7, PacReads DEF PacWriting

(* Calls end, the last one of a day with what it acknowledged.             *)
LEMMA PacEnds ==
  ASSUME PacInv, task' \in [Threads -> PacTask], \A u \in Threads : task'[u] = task[u] \/ task'[u] = Packets!Idle,
         UNCHANGED <<tmp, file, content, pointer, calls>>, faults' \in 0..MaxFaults,
         remote' \in [PacketDays -> PacNumbers], kept' \in [PacketDays -> PacNumbers],
         \A d \in PacketDays :
           \/ kept'[d] = kept[d]
           \/ /\ kept'[d] > kept[d]
              /\ \E t \in Threads : task[t].alone /\ task[t].ok /\ task[t].day = d /\ task[t].number = kept'[d]
  PROVE  PacInv'
<1>0. PacTyped /\ PacNumbered /\ PacApart /\ calls \in Nat
  BY PacAssumed DEF PacInv, PacTyped, PacNumbers
<1>1. PacTyped' /\ PacApart'
  BY <1>0 DEF PacTyped, PacApart
<1>2. ASSUME NEW d \in PacketDays, kept'[d] # kept[d]
      PROVE  \E t \in Threads : /\ task[t].alone /\ task[t].at = "upsert" /\ Saves(t, d) /\ task[t].number = kept'[d]
                                /\ Packets!Parsed(d) >= kept'[d] /\ kept'[d] <= calls
                                /\ \A u \in Threads : Holds(u, d) => task[u].alone
  <2>1. PICK t \in Threads : task[t].alone /\ task[t].ok /\ task[t].day = d /\ task[t].number = kept'[d]
    BY <1>2
  <2>2. PacStands(t) /\ PacAlone(t)
    BY DEF PacInv
  <2>3. task[t].op = "save" /\ task[t].at = "upsert" /\ task[t].number <= calls
    BY <2>1, <2>2 DEF PacStands
  <2> QED BY <2>1, <2>2, <2>3 DEF PacAlone, Saves
<1>3. \A d \in PacketDays : /\ kept[d] \in Nat /\ kept'[d] \in Nat /\ kept[d] <= kept'[d] /\ Packets!Parsed(d)' = Packets!Parsed(d)
                            /\ Packets!Parsed(d) \in Nat
  <2>1. ASSUME NEW d \in PacketDays
        PROVE  kept[d] \in Nat /\ kept'[d] \in Nat /\ Packets!Parsed(d) \in Nat
    BY <1>0, PacParses, PacAssumed DEF PacNumbers
  <2>2. \A d \in PacketDays : Packets!Parsed(d)' = Packets!Parsed(d)
    BY DEF Packets!Parsed
  <2> QED BY <2>1, <2>2
<1>4. PacNumbered'
  <2>1. ASSUME NEW d \in PacketDays
        PROVE  kept'[d] <= calls
    BY <1>0, <1>2 DEF PacNumbered
  <2> QED BY <1>0, <2>1 DEF PacNumbered
<1>5. ASSUME NEW u \in Threads, task'[u].at # "idle"
      PROVE  task'[u] = task[u]
  BY <1>5, PacIdle
<1>6. ASSUME NEW u \in Threads
      PROVE  PacStands(u)' /\ PacHolds(u)' /\ PacAlone(u)' /\ PacLoads(u)'
  <2>1. CASE task'[u] = Packets!Idle
    BY <2>1, PacIdle DEF PacStands, PacHolds, PacAlone, PacLoads, PacHeld, PacWriting
  <2>2. CASE task'[u] = task[u]
    <3>0. PacStands(u) /\ PacHolds(u) /\ PacAlone(u) /\ PacLoads(u) /\ task[u].number \in Nat /\ task[u].due \in Nat
      BY <1>0, PacFields, PacAssumed DEF PacInv, PacNumbers
    <3>1. \A w \in Threads : task'[w].at \in PacHeld => task'[w] = task[w]
      BY <1>5 DEF PacHeld
    <3>2. \A w \in Threads : task'[w].op = "save" => task'[w] = task[w]
      BY PacIdle
    <3>3. PacStands(u)'
      BY <2>2, <3>0 DEF PacStands
    <3>4. PacHolds(u)'
      BY <2>2, <3>0, <3>1 DEF PacHolds
    <3>5. PacAlone(u)'
      <4> SUFFICES ASSUME task[u].alone
                   PROVE  PacAlone(u)'
        BY <2>2 DEF PacAlone
      <4>1. task[u].day \in PacketDays
        BY <3>0 DEF PacStands
      <4>2. ASSUME task[u].at \in PacHeld
            PROVE  kept'[task[u].day] < task[u].number
        <5>1. CASE kept'[task[u].day] = kept[task[u].day]
          BY <3>0, <4>2, <5>1 DEF PacAlone
        <5>2. CASE kept'[task[u].day] # kept[task[u].day]
          <6>1. PICK t \in Threads : task[t].at = "upsert" /\ Saves(t, task[u].day) /\ task[t].number = kept'[task[u].day]
            BY <1>2, <4>1, <5>2
          <6>2. t # u
            BY <4>2, <6>1 DEF PacHeld
          <6> QED BY <3>0, <4>2, <6>1, <6>2 DEF PacAlone
        <5> QED BY <5>1, <5>2
      <4> QED BY <1>3, <2>2, <3>0, <3>1, <3>2, <4>1, <4>2 DEF PacAlone, Holds, Saves
    <3>6. PacLoads(u)'
      <4>1. task[u].about # None => task[u].about \in PacketDays
        BY <1>0, PacFields
      <4>2. \A d \in PacketDays : kept[d] # 0 => kept'[d] # 0
        BY <1>3
      <4>3. task[u].op = "load" /\ task[u].about # None => task[u].due <= kept'[task[u].about]
        BY <1>3, <3>0, <4>1 DEF PacLoads
      <4> QED BY <2>2, <3>0, <4>2, <4>3 DEF PacLoads
    <3> QED BY <3>3, <3>4, <3>5, <3>6
  <2> QED BY <2>1, <2>2
<1>7. ASSUME NEW d \in PacketDays
      PROVE  PacKept(d)'
  <2>1. \A w \in Threads : Holds(w, d)' => task'[w] = task[w] /\ Holds(w, d)
    BY <1>5 DEF Holds, PacHeld
  <2>2. PacKept(d)
    BY DEF PacInv
  <2>3. CASE kept'[d] = kept[d]
    BY <1>3, <2>1, <2>2, <2>3 DEF PacKept
  <2>4. CASE kept'[d] # kept[d]
    BY <1>2, <1>3, <2>1, <2>4 DEF PacKept
  <2> QED BY <2>3, <2>4
<1> QED BY <1>1, <1>4, <1>6, <1>7 DEF PacInv

LEMMA PacOver ==
  ASSUME PacInv, (\E t \in Threads : Packets!Upsert(t) \/ Packets!Return(t)) \/ \E p \in Workers : Packets!Kill(p)
  PROVE  PacInv'
<1>0. /\ PacTyped /\ faults \in 0..MaxFaults /\ task \in [Threads -> PacTask] /\ remote \in [PacketDays -> PacNumbers]
      /\ kept \in [PacketDays -> PacNumbers]
  BY DEF PacInv, PacTyped
<1>1. ASSUME NEW t \in Threads, Packets!Return(t)
      PROVE  PacInv'
  <2>1. /\ task' = [task EXCEPT ![t] = Packets!Idle]
        /\ UNCHANGED <<tmp, file, content, pointer, remote, calls, faults, kept>>
    BY <1>1 DEF Packets!Return, Packets!files
  <2> QED BY <1>0, <2>1, PacIdle, PacEnds
<1>2. ASSUME NEW p \in Workers, Packets!Kill(p)
      PROVE  PacInv'
  <2>1. /\ task' = [t \in Threads |-> IF WorkerOf[t] = p THEN Packets!Idle ELSE task[t]]
        /\ UNCHANGED <<tmp, file, content, pointer, remote, calls, kept>> /\ faults' \in 0..MaxFaults
    BY <1>0, <1>2, PacAssumed DEF Packets!Kill, Packets!files
  <2>2. task' \in [Threads -> PacTask] /\ \A u \in Threads : task'[u] = task[u] \/ task'[u] = Packets!Idle
    BY <1>0, <2>1, PacIdle
  <2> QED BY <1>0, <2>1, <2>2, PacEnds
<1>3. ASSUME NEW t \in Threads, Packets!Upsert(t)
      PROVE  PacInv'
  <2> DEFINE d == task[t].day
             n == task[t].number
  <2>1. /\ task' = [task EXCEPT ![t] = Packets!Idle] /\ task[t].at = "upsert"
        /\ UNCHANGED <<tmp, file, content, pointer, calls, faults>>
        /\ remote' = [remote EXCEPT ![d] = n] \/ remote' = remote
        /\ kept' = IF task[t].ok /\ task[t].alone /\ n > kept[d] THEN [kept EXCEPT ![d] = n] ELSE kept
    BY <1>3 DEF Packets!Upsert, Packets!At
  <2>2. d \in PacketDays /\ n \in PacNumbers
    <3>1. PacStands(t)
      BY DEF PacInv
    <3> QED BY <1>0, <2>1, <3>1, PacFields DEF PacStands
  <2>3. remote' \in [PacketDays -> PacNumbers] /\ kept' \in [PacketDays -> PacNumbers]
    BY <1>0, <2>1, <2>2
  <2>4. task' \in [Threads -> PacTask] /\ \A u \in Threads : task'[u] = task[u] \/ task'[u] = Packets!Idle
    BY <1>0, <2>1, PacIdle
  <2>5. ASSUME NEW e \in PacketDays
        PROVE  \/ kept'[e] = kept[e]
               \/ /\ kept'[e] > kept[e]
                  /\ \E u \in Threads : task[u].alone /\ task[u].ok /\ task[u].day = e /\ task[u].number = kept'[e]
    <3>1. CASE e = d /\ task[t].ok /\ task[t].alone /\ n > kept[d]
      <4>1. kept'[e] = n
        BY <1>0, <2>1, <2>2, <3>1
      <4> QED BY <3>1, <4>1
    <3>2. CASE ~(e = d /\ task[t].ok /\ task[t].alone /\ n > kept[d])
      BY <1>0, <2>1, <2>2, <3>2
    <3> QED BY <3>1, <3>2
  <2> QED BY <1>0, <2>1, <2>3, <2>4, <2>5, PacEnds
<1> QED BY <1>1, <1>2, <1>3

(* A step of a save under way.                                             *)
LEMMA PacMoves ==
  ASSUME PacInv, NEW t \in Threads, NEW next \in PacTask, task' = [task EXCEPT ![t] = next],
         UNCHANGED <<remote, calls, kept>>, faults' \in 0..MaxFaults,
         tmp' \in [PacketDays -> PacNumbers], file' \in [PacketDays -> PacNumbers],
         content' \in [1..MaxPackets -> 1..MaxPackets \cup {Empty, Torn}], pointer' \in PacketDays \cup {None, Torn},
         task[t].op = "save", next.op = "save", next.at \in PacWriting \cup {"upsert"},
         next.day = task[t].day, next.number = task[t].number, next.handle = task[t].handle,
         next.alone = task[t].alone, next.at \in PacHeld => task[t].at \in PacHeld, next.ok => next.at = "upsert",
         task[t].at \notin PacHeld => UNCHANGED <<tmp, file, content>>,
         \A e \in PacketDays : e # task[t].day =>
           tmp'[e] = tmp[e] /\ file'[e] = file[e] /\ Packets!Parsed(e)' = Packets!Parsed(e),
         \A e \in {task[t].day} :
           /\ tmp'[e] \in {0, tmp[e]} /\ file'[e] \in {tmp[e], file[e]} /\ (tmp'[e] # 0 => tmp'[e] # file'[e]),
         \A u \in Threads : task[u].at \in PacHeld /\ task[u].day # task[t].day =>
           content'[task[u].handle] = content[task[u].handle],
         task[t].alone => Packets!Parsed(task[t].day)' \in {Packets!Parsed(task[t].day), task[t].number},
         task[t].alone /\ task[t].at \notin PacHeld => Packets!Parsed(task[t].day)' = Packets!Parsed(task[t].day),
         task[t].alone => /\ next.at \in PacHeld => tmp'[next.day] = next.handle
                          /\ next.at = "write" => content'[next.handle] = Empty
                          /\ next.at = "rename" => content'[next.handle] = next.number
                          /\ next.at \in {"truncate", "point"} \/ next.ok => Packets!Parsed(task[t].day)' >= next.number
  PROVE  PacInv'
<1> DEFINE d == task[t].day
           n == task[t].number
<1>0. /\ PacTyped /\ PacNumbered /\ PacApart /\ calls \in Nat /\ n \in Nat /\ d \in PacketDays
      /\ PacStands(t) /\ PacHolds(t) /\ PacAlone(t) /\ PacKept(d)
  <2>1. PacTyped /\ PacNumbered /\ PacApart /\ PacStands(t) /\ PacHolds(t) /\ PacAlone(t)
    BY DEF PacInv
  <2>2. d \in PacketDays
    BY <2>1 DEF PacStands
  <2>3. n \in Nat /\ calls \in Nat
    BY <2>1, PacFields, PacAssumed DEF PacTyped, PacNumbers
  <2> HIDE DEF d, n
  <2>4. PacKept(d)
    BY <2>2 DEF PacInv
  <2> QED BY <2>1, <2>2, <2>3, <2>4
<1>1. \A u \in Threads : task'[u] = IF u = t THEN next ELSE task[u]
  BY <1>0 DEF PacTyped
<1>2. PacTyped'
  BY <1>0, <1>1 DEF PacTyped
<1>3. \A e \in PacketDays : tmp'[e] \in {0, tmp[e]} /\ file'[e] \in {tmp[e], file[e]} /\ (tmp'[e] # 0 => tmp'[e] # file'[e])
  <2>1. tmp'[d] \in {0, tmp[d]} /\ file'[d] \in {tmp[d], file[d]} /\ (tmp'[d] # 0 => tmp'[d] # file'[d])
    OBVIOUS
  <2>2. \A e \in PacketDays : e # d => tmp'[e] = tmp[e] /\ file'[e] = file[e] /\ (tmp[e] # 0 => tmp[e] # file[e])
    BY <1>0 DEF PacApart
  <2> HIDE DEF d
  <2> QED BY <2>1, <2>2
<1>4. PacNumbered' /\ PacApart'
  <2>1. \A e \in PacketDays : tmp[e] \in Nat /\ file[e] \in Nat
    BY <1>0, PacParses, PacAssumed DEF PacNumbers
  <2>2. PacNumbered'
    BY <1>0, <1>3, <2>1 DEF PacNumbered
  <2>3. PacApart'
    BY <1>0, <1>3 DEF PacApart
  <2> QED BY <2>2, <2>3
<1>5. \A u \in Threads : task'[u].op = task[u].op /\ task'[u].day = task[u].day /\ task'[u].number = task[u].number
        /\ task'[u].handle = task[u].handle /\ task'[u].alone = task[u].alone
        /\ (task'[u].at \in PacHeld => task[u].at \in PacHeld)
  BY <1>1
<1>6. \A u \in Threads, e \in PacketDays : Holds(u, e)' => Holds(u, e)
  BY <1>5 DEF Holds
<1>7. \A u \in Threads : PacHolds(u)'
  <2> SUFFICES ASSUME NEW u \in Threads, task'[u].at \in PacHeld
               PROVE  /\ \A e \in PacketDays : e # task[u].day => task[u].handle # tmp'[e] /\ task[u].handle # file'[e]
                      /\ \A w \in Threads : task[w].at \in PacHeld /\ task[w].day # task[u].day =>
                           task[w].handle # task[u].handle
    BY <1>5 DEF PacHolds
  <2>1. PacHolds(u) /\ PacStands(u)
    BY DEF PacInv
  <2>2. task[u].at \in PacHeld /\ task[u].handle # 0
    BY <1>5, <2>1 DEF PacStands
  <2> QED BY <1>3, <2>1, <2>2 DEF PacHolds
<1>8. task[t].alone => Packets!Parsed(d)' = Packets!Parsed(d) \/ (Packets!Parsed(d)' = n /\ task[t].at \in PacHeld)
  OBVIOUS
<1>9. task[t].at \in PacHeld /\ ~task[t].alone => kept[d] = 0 /\ \A u \in Threads : task[u].alone => task[u].day # d
  <2> SUFFICES ASSUME task[t].at \in PacHeld, ~task[t].alone
               PROVE  kept[d] = 0 /\ \A u \in Threads : task[u].alone => task[u].day # d
    OBVIOUS
  <2>1. Holds(t, d)
    BY DEF Holds
  <2>2. \A u \in Threads : PacAlone(u)
    BY DEF PacInv
  <2> QED BY <1>0, <2>1, <2>2 DEF PacAlone, PacKept
<1>10. ASSUME NEW e \in PacketDays
       PROVE  PacKept(e)'
  <2>1. PacKept(e) /\ kept[e] \in Nat
    BY <1>0, PacParses, PacAssumed DEF PacInv, PacNumbers
  <2>2. \A u \in Threads : Holds(u, e)' /\ (Holds(u, e) => task[u].alone) => task'[u].alone
    BY <1>5, <1>6
  <2>3. kept[e] # 0 => Packets!Parsed(e)' >= kept[e]
    <3>1. CASE e # d
      BY <2>1, <3>1 DEF PacKept
    <3>2. CASE e = d /\ task[t].at \notin PacHeld
      <4>1. Packets!Parsed(e)' = Packets!Parsed(e)
        BY <3>2 DEF Packets!Parsed
      <4> QED BY <2>1, <4>1 DEF PacKept
    <3>3. CASE e = d /\ task[t].at \in PacHeld
      <4>1. CASE task[t].alone
        <5>1. kept[d] < n
          BY <1>0, <3>3, <4>1 DEF PacAlone
        <5> QED BY <1>0, <1>8, <2>1, <3>3, <4>1, <5>1 DEF PacKept
      <4>2. CASE ~task[t].alone
        BY <1>9, <3>3, <4>2
      <4> QED BY <4>1, <4>2
    <3> QED BY <3>1, <3>2, <3>3
  <2> QED BY <2>1, <2>2, <2>3 DEF PacKept
<1>11. ASSUME NEW u \in Threads
       PROVE  PacStands(u)' /\ PacLoads(u)'
  <2>1. PacStands(u) /\ PacLoads(u)
    BY DEF PacInv
  <2>2. CASE u = t
    <3>1. next.at # "idle"
      BY DEF PacWriting
    <3> QED BY <1>0, <1>1, <2>2, <3>1 DEF PacStands, PacLoads
  <2>3. CASE u # t
    BY <1>1, <2>1, <2>3 DEF PacStands, PacLoads
  <2> QED BY <2>2, <2>3
<1>12. ASSUME NEW u \in Threads, task[u].alone
       PROVE  PacAlone(u)'
  <2>0. PacStands(u) /\ PacAlone(u) /\ task[u].day \in PacketDays /\ task[u].number \in Nat
    <3>1. PacStands(u) /\ PacAlone(u) /\ task[u].number \in Nat
      BY <1>0, PacFields, PacAssumed DEF PacInv, PacNumbers
    <3> QED BY <1>12, <3>1 DEF PacStands
  <2>1. \A w \in Threads : Holds(w, task[u].day)' => task'[w].alone
    BY <1>5, <1>6, <1>12, <2>0 DEF PacAlone
  <2>2. task'[u].at \in PacHeld =>
         /\ \A w \in Threads : w # u => ~Holds(w, task[u].day)'
         /\ kept[task[u].day] < task[u].number
         /\ \A w \in Threads : w # u /\ Saves(w, task[u].day)' => task[w].number < task[u].number
    BY <1>5, <1>6, <1>12, <2>0 DEF PacAlone, Saves
  <2>3. CASE u = t
    <3>1. /\ task'[u].at \in PacHeld => tmp'[task[u].day] = task[u].handle
          /\ task'[u].at = "write" => content'[task[u].handle] = Empty
          /\ task'[u].at = "rename" => content'[task[u].handle] = task[u].number
          /\ task'[u].at \in {"truncate", "point"} \/ task'[u].ok => Packets!Parsed(task[u].day)' >= task[u].number
      BY <1>1, <1>12, <2>3
    <3> QED BY <1>5, <2>1, <2>2, <3>1 DEF PacAlone, Holds, Saves
  <2>4. CASE u # t /\ task[u].day # d
    <3>1. task'[u] = task[u]
      BY <1>1, <2>4
    <3>2. tmp'[task[u].day] = tmp[task[u].day] /\ Packets!Parsed(task[u].day)' = Packets!Parsed(task[u].day)
      BY <2>0, <2>4
    <3>3. task[u].at \in PacHeld => content'[task[u].handle] = content[task[u].handle]
      BY <2>4
    <3> QED BY <1>12, <2>0, <2>1, <2>2, <3>1, <3>2, <3>3 DEF PacAlone, Holds, Saves, PacHeld
  <2>5. CASE u # t /\ task[u].day = d
    <3>1. task'[u] = task[u]
      BY <1>1, <2>5
    <3>2. CASE task[t].at \notin PacHeld
      <4>2. tmp' = tmp /\ content' = content /\ file' = file
        BY <3>2
      <4>1. tmp' = tmp /\ content' = content /\ Packets!Parsed(task[u].day)' = Packets!Parsed(task[u].day)
        BY <3>1, <4>2 DEF Packets!Parsed
      <4> QED BY <1>12, <2>0, <2>1, <2>2, <3>1, <4>1 DEF PacAlone, Holds, Saves, PacHeld
    <3>3. CASE task[t].at \in PacHeld
      <4>1. task[t].alone
        BY <1>9, <1>12, <2>5, <3>3
      <4>2. task[u].at \notin PacHeld
        BY <1>12, <2>0, <2>5, <3>3 DEF PacAlone, Holds
      <4>3. task[u].number < n
        BY <1>0, <1>12, <2>0, <2>5, <3>3, <4>1 DEF PacAlone, Saves, PacStands
      <4>4. Packets!Parsed(d) >= task[u].number => Packets!Parsed(d)' >= task[u].number
        BY <1>0, <1>8, <2>0, <4>1, <4>3
      <4> QED BY <1>12, <2>0, <2>1, <2>2, <2>5, <3>1, <4>2, <4>4 DEF PacAlone, Holds, Saves, PacHeld
    <3> QED BY <3>2, <3>3
  <2> QED BY <2>3, <2>4, <2>5
<1>13. \A u \in Threads : PacAlone(u)'
  BY <1>5, <1>12 DEF PacAlone
<1> QED BY <1>2, <1>4, <1>7, <1>10, <1>11, <1>13 DEF PacInv

(* Writing into a file disturbs nobody who has a day to himself.           *)
LEMMA PacContent ==
  ASSUME PacInv, NEW t \in Threads, task[t].at \in PacHeld, UNCHANGED <<tmp, file>>,
         \A k \in 1..MaxPackets : k # task[t].handle => content'[k] = content[k]
  PROVE  /\ \A e \in PacketDays : e # task[t].day => Packets!Parsed(e)' = Packets!Parsed(e)
         /\ \A u \in Threads : task[u].at \in PacHeld /\ task[u].day # task[t].day =>
              content'[task[u].handle] = content[task[u].handle]
         /\ task[t].alone => \A e \in PacketDays : e = task[t].day => Packets!Parsed(e)' = Packets!Parsed(e)
<1>0. PacTyped /\ PacApart /\ PacStands(t) /\ PacHolds(t) /\ PacAlone(t)
  BY DEF PacInv
<1>1. task[t].handle # 0 /\ task[t].handle \in PacNumbers /\ task[t].day \in PacketDays
  <2>1. task[t].op = "save"
    BY <1>0 DEF PacStands, PacHeld, PacWriting
  <2> QED BY <1>0, <2>1, PacFields DEF PacStands
<1>2. ASSUME NEW e \in PacketDays, file[e] # task[t].handle
      PROVE  Packets!Parsed(e)' = Packets!Parsed(e)
  <2>1. file[e] # 0 => content'[file[e]] = content[file[e]]
    BY <1>0, <1>2, PacParses
  <2> QED BY <2>1 DEF Packets!Parsed
<1>3. \A e \in PacketDays : e # task[t].day => file[e] # task[t].handle
  BY <1>0 DEF PacHolds
<1>4. ASSUME NEW u \in Threads, task[u].at \in PacHeld, task[u].day # task[t].day
      PROVE  content'[task[u].handle] = content[task[u].handle]
  <2>1. task[u].handle # task[t].handle
    BY <1>0, <1>4 DEF PacHolds
  <2>2. PacStands(u)
    BY DEF PacInv
  <2>3. task[u].handle \in 1..MaxPackets
    BY <1>0, <1>4, <2>2, PacFields, PacAssumed DEF PacStands, PacNumbers
  <2> QED BY <2>1, <2>3
<1>5. task[t].alone => file[task[t].day] # task[t].handle
  BY <1>0, <1>1 DEF PacAlone, PacApart
<1> QED BY <1>2, <1>3, <1>4, <1>5

LEMMA PacWrites ==
  ASSUME PacInv, NEW t \in Threads, Packets!Write(t)
  PROVE  PacInv'
<1> DEFINE h == task[t].handle
           n == task[t].number
           next == [task[t] EXCEPT !.at = "rename"]
<1>0. PacTyped /\ PacStands(t) /\ PacAlone(t) /\ PacHolds(t) /\ task[t].at = "write" /\ task[t] \in PacTask /\ faults' \in 0..MaxFaults
      /\ UNCHANGED <<tmp, file, pointer, remote, calls, faults, kept>>
  BY PacFields DEF PacInv, PacTyped, Packets!Write, Packets!At
<1>1. task[t].op = "save" /\ h \in 1..MaxPackets /\ n \in 1..MaxPackets /\ task[t].day \in PacketDays
  <2>1. task[t].op = "save"
    BY <1>0 DEF PacStands, PacWriting
  <2> QED BY <1>0, <2>1, PacFields, PacAssumed DEF PacStands, PacHeld, PacNumbers
<1>2. PICK c \in IF content[h] \in {Empty, n} THEN {n} ELSE {n, Torn} : content' = [content EXCEPT ![h] = c]
  BY DEF Packets!Write, Packets!Fill
<1>3. task' = [task EXCEPT ![t] = next]
  BY <1>0 DEF Packets!Write, Packets!Step, PacTyped
<1>4. /\ next \in PacTask /\ next.op = task[t].op /\ next.at = "rename" /\ next.day = task[t].day /\ next.number = n
      /\ next.handle = h /\ next.alone = task[t].alone /\ next.ok = task[t].ok
  BY <1>0 DEF PacTask, PacPlaces
<1> HIDE DEF next
<1>5. /\ content' \in [1..MaxPackets -> 1..MaxPackets \cup {Empty, Torn}]
      /\ content'[h] = c /\ \A k \in 1..MaxPackets : k # h => content'[k] = content[k]
  BY <1>0, <1>1, <1>2 DEF PacTyped
<1>6. task[t].alone => c = n /\ tmp[task[t].day] = h
  BY <1>0, <1>2 DEF PacAlone, PacHeld
<1>7. task[t].at \in PacHeld /\ PacApart
  BY <1>0 DEF PacHeld, PacInv
<1>8. \A e \in PacketDays : tmp[e] # 0 => tmp[e] # file[e]
  BY <1>7 DEF PacApart
<1>9. /\ \A e \in PacketDays : e # task[t].day => Packets!Parsed(e)' = Packets!Parsed(e)
      /\ \A u \in Threads : task[u].at \in PacHeld /\ task[u].day # task[t].day =>
           content'[task[u].handle] = content[task[u].handle]
      /\ task[t].alone => \A e \in PacketDays : e = task[t].day => Packets!Parsed(e)' = Packets!Parsed(e)
  BY <1>0, <1>5, <1>7, PacContent
<1>10. task[t].ok = FALSE
  BY <1>0, PacFields DEF PacStands
<1>11. task'[t] = next
  BY <1>0, <1>3 DEF PacTyped
<1>12. task[t].alone => Packets!Parsed(task[t].day)' = Packets!Parsed(task[t].day)
  BY <1>1, <1>4, <1>9, <1>11
<1> QED BY <1>0, <1>1, <1>3, <1>4, <1>5, <1>6, <1>7, <1>8, <1>9, <1>10, <1>12, PacMoves DEF PacTyped, PacHeld, PacWriting

LEMMA PacFails ==
  ASSUME PacInv, NEW t \in Threads, Packets!FileFails(t)
  PROVE  PacInv'
<1> DEFINE h == task[t].handle
           next == [task[t] EXCEPT !.at = "upsert"]
<1>0. /\ PacTyped /\ PacStands(t) /\ PacAlone(t) /\ PacHolds(t) /\ PacApart
      /\ task[t].at \in PacWriting /\ task[t] \in PacTask /\ faults' \in 0..MaxFaults
      /\ UNCHANGED <<tmp, file, remote, calls, kept>>
  <2>1. task[t].at \in PacWriting /\ faults < MaxFaults /\ faults' = faults + 1 /\ UNCHANGED <<tmp, file, remote, calls, kept>>
    BY DEF Packets!FileFails, Packets!Writing, PacWriting
  <2>2. PacTyped /\ faults \in 0..MaxFaults
    BY DEF PacInv, PacTyped
  <2> QED BY <2>1, <2>2, PacFields, PacAssumed DEF PacInv
<1>1. task[t].op = "save" /\ task[t].day \in PacketDays
  <2>1. task[t].op = "save"
    BY <1>0 DEF PacStands
  <2> QED BY <1>0, <2>1 DEF PacStands
<1>2. \/ content' = content /\ pointer' = pointer
      \/ task[t].at = "write" /\ content' = [content EXCEPT ![h] = Torn] /\ pointer' = pointer
      \/ task[t].at = "point" /\ content' = content /\ pointer' = Torn
  BY DEF Packets!FileFails, Packets!At
<1>3. task' = [task EXCEPT ![t] = next]
  BY <1>0 DEF Packets!FileFails, Packets!Step, PacTyped
<1>4. /\ next \in PacTask /\ next.op = task[t].op /\ next.at = "upsert" /\ next.day = task[t].day
      /\ next.number = task[t].number
      /\ next.handle = h /\ next.alone = task[t].alone /\ next.ok = task[t].ok
  BY <1>0 DEF PacTask, PacPlaces
<1> HIDE DEF next
<1>5. task'[t] = next /\ pointer' \in PacketDays \cup {None, Torn}
  BY <1>0, <1>2, <1>3 DEF PacTyped
<1>6. /\ content' \in [1..MaxPackets -> 1..MaxPackets \cup {Empty, Torn}]
      /\ \A k \in 1..MaxPackets : k # h => content'[k] = content[k]
      /\ task[t].at \notin PacHeld => content' = content
  BY <1>0, <1>2 DEF PacTyped, PacHeld
<1>7. \A e \in PacketDays : tmp[e] # 0 => tmp[e] # file[e]
  BY <1>0 DEF PacApart
<1>8. /\ \A e \in PacketDays : e # task[t].day => Packets!Parsed(e)' = Packets!Parsed(e)
      /\ \A u \in Threads : task[u].at \in PacHeld /\ task[u].day # task[t].day =>
           content'[task[u].handle] = content[task[u].handle]
      /\ task[t].alone => \A e \in PacketDays : e = task[t].day => Packets!Parsed(e)' = Packets!Parsed(e)
  <2>1. CASE task[t].at \in PacHeld
    BY <1>0, <1>6, <2>1, PacContent
  <2>2. CASE task[t].at \notin PacHeld
    <3>1. content' = content
      BY <1>6, <2>2
    <3> QED BY <1>0, <3>1 DEF Packets!Parsed
  <2> QED BY <2>1, <2>2
<1>9. task[t].ok = FALSE
  BY <1>0, PacFields DEF PacStands, PacWriting
<1>10. task[t].alone => Packets!Parsed(task[t].day)' = Packets!Parsed(task[t].day)
  BY <1>1, <1>4, <1>5, <1>8
<1> QED BY <1>0, <1>1, <1>3, <1>4, <1>5, <1>6, <1>7, <1>8, <1>9, <1>10, PacMoves DEF PacTyped, PacHeld, PacWriting

(* Rewriting latest.json.                                                  *)
LEMMA PacPoints ==
  ASSUME PacInv, NEW t \in Threads, Packets!Truncate(t) \/ Packets!Point(t)
  PROVE  PacInv'
<1> DEFINE truncating == task[t].at = "truncate"
           next == [task[t] EXCEPT !.at = IF truncating THEN "point" ELSE "upsert", !.ok = ~truncating]
<1>0. /\ PacTyped /\ PacStands(t) /\ PacAlone(t) /\ PacHolds(t) /\ PacApart
      /\ task[t].at \in {"truncate", "point"} /\ task[t] \in PacTask /\ faults' \in 0..MaxFaults
      /\ UNCHANGED <<tmp, file, content, remote, calls, kept>>
  BY PacFields DEF PacInv, PacTyped, Packets!Truncate, Packets!Point, Packets!At
<1>1. task[t].op = "save" /\ task[t].day \in PacketDays /\ task[t].ok = FALSE
  <2>1. task[t].op = "save"
    BY <1>0 DEF PacStands, PacWriting
  <2> QED BY <1>0, <2>1, PacFields DEF PacStands
<1>2. pointer' \in PacketDays \cup {None, Torn}
  BY <1>1 DEF Packets!Truncate, Packets!Point
<1>3. task' = [task EXCEPT ![t] = next]
  <2>1. CASE Packets!Truncate(t)
    <3>1. truncating /\ task' = [task EXCEPT ![t].at = "point"]
      BY <2>1 DEF Packets!Truncate, Packets!Step, Packets!At
    <3>2. next = [task[t] EXCEPT !.at = "point"]
      BY <1>0, <1>1, <3>1 DEF PacTask
    <3> HIDE DEF next
    <3> QED BY <1>0, <3>1, <3>2 DEF PacTyped
  <2>2. CASE Packets!Point(t)
    <3>1. ~truncating /\ task' = [task EXCEPT ![t].at = "upsert", ![t].ok = TRUE]
      BY <2>2 DEF Packets!Point, Packets!Step, Packets!At
    <3>2. next = [task[t] EXCEPT !.at = "upsert", !.ok = TRUE]
      BY <1>0, <1>1, <3>1 DEF PacTask
    <3> HIDE DEF next
    <3> QED BY <1>0, <3>1, <3>2 DEF PacTyped
  <2> QED BY <2>1, <2>2
<1>4. truncating \in BOOLEAN
  OBVIOUS
<1> HIDE DEF truncating
<1>5. /\ next \in PacTask /\ next.op = task[t].op /\ next.at \in {"point", "upsert"} /\ next.day = task[t].day
      /\ next.number = task[t].number
      /\ next.handle = task[t].handle /\ next.alone = task[t].alone /\ (next.ok => next.at = "upsert")
  <2>1. CASE truncating
    BY <1>0, <2>1 DEF PacTask, PacPlaces
  <2>2. CASE ~truncating
    BY <1>0, <2>2 DEF PacTask, PacPlaces
  <2> QED BY <2>1, <2>2
<1> HIDE DEF next
<1>6. task'[t] = next
  BY <1>0, <1>3 DEF PacTyped
<1>7. \A e \in PacketDays : tmp[e] # 0 => tmp[e] # file[e]
  BY <1>0 DEF PacApart
<1>8. \A e \in PacketDays : Packets!Parsed(e)' = Packets!Parsed(e)
  BY <1>0 DEF Packets!Parsed
<1>9. Packets!Parsed(task[t].day)' = Packets!Parsed(task[t].day)
  BY <1>0, <1>5, <1>6 DEF Packets!Parsed
<1>10. task[t].alone => Packets!Parsed(task[t].day) >= task[t].number
  BY <1>0 DEF PacAlone
<1> QED BY <1>0, <1>1, <1>2, <1>3, <1>5, <1>7, <1>8, <1>9, <1>10, PacMoves DEF PacTyped, PacHeld, PacWriting

LEMMA PacRenames ==
  ASSUME PacInv, NEW t \in Threads, Packets!Rename(t)
  PROVE  PacInv'
<1> DEFINE d == task[t].day
           place == IF tmp[d] = 0 THEN "upsert" ELSE "truncate"
           next == [task[t] EXCEPT !.at = place]
<1>0. /\ PacTyped /\ PacStands(t) /\ PacAlone(t) /\ PacHolds(t) /\ PacApart
      /\ task[t].at = "rename" /\ task[t] \in PacTask /\ faults' \in 0..MaxFaults
      /\ UNCHANGED <<content, pointer, remote, calls, kept>>
  BY PacFields DEF PacInv, PacTyped, Packets!Rename, Packets!At
<1>1. task[t].op = "save" /\ d \in PacketDays /\ task[t].ok = FALSE
  <2>1. task[t].op = "save"
    BY <1>0 DEF PacStands, PacWriting
  <2> QED BY <1>0, <2>1, PacFields DEF PacStands
<1>2. /\ tmp[d] = 0 => tmp' = tmp /\ file' = file
      /\ tmp[d] # 0 => tmp' = [tmp EXCEPT ![d] = 0] /\ file' = [file EXCEPT ![d] = tmp[d]]
      /\ task' = [task EXCEPT ![t].at = place]
  BY DEF Packets!Rename, Packets!Replace, Packets!Step
<1>3. task' = [task EXCEPT ![t] = next] /\ place \in {"upsert", "truncate"}
  BY <1>0, <1>2 DEF PacTyped
<1> HIDE DEF place
<1>4. /\ next \in PacTask /\ next.op = task[t].op /\ next.at = place /\ next.day = task[t].day
      /\ next.number = task[t].number
      /\ next.handle = task[t].handle /\ next.alone = task[t].alone /\ next.ok = task[t].ok
  BY <1>0, <1>3 DEF PacTask, PacPlaces
<1> HIDE DEF next
<1>5. task'[t] = next
  BY <1>0, <1>3 DEF PacTyped
<1>6. /\ tmp' \in [PacketDays -> PacNumbers] /\ file' \in [PacketDays -> PacNumbers]
      /\ \A e \in PacketDays : e # d => tmp'[e] = tmp[e] /\ file'[e] = file[e]
      /\ tmp[d] = 0 => tmp'[d] = 0 /\ file'[d] = file[d]
      /\ tmp[d] # 0 => tmp'[d] = 0 /\ file'[d] = tmp[d]
  <2> HIDE DEF d
  <2>1. tmp[d] \in PacNumbers /\ 0 \in PacNumbers
    BY <1>0, <1>1, PacAssumed DEF PacTyped, PacNumbers
  <2> QED BY <1>0, <1>1, <1>2, <2>1 DEF PacTyped
<1>7. \A e \in PacketDays : e # d => Packets!Parsed(e)' = Packets!Parsed(e)
  BY <1>0, <1>6 DEF Packets!Parsed
<1>8. task[t].alone => tmp[d] = task[t].handle /\ tmp[d] # 0 /\ tmp[d] \in 1..MaxPackets /\ content[tmp[d]] = task[t].number
  BY <1>0, <1>1, PacParses DEF PacAlone, PacStands, PacHeld
<1>9. task[t].number \in 1..MaxPackets
  BY <1>0, <1>1, PacFields, PacAssumed DEF PacStands, PacNumbers
<1>10. task[t].alone => Packets!Parsed(task[t].day)' = task[t].number
  <2> SUFFICES ASSUME task[t].alone
               PROVE  Packets!Parsed(task[t].day)' = task[t].number
    OBVIOUS
  <2>1. file'[d] # 0 /\ content'[file'[d]] = task[t].number
    BY <1>0, <1>6, <1>8
  <2>2. task'[t].day = d
    BY <1>4, <1>5
  <2> QED BY <1>9, <2>1, <2>2, PacAssumed DEF Packets!Parsed
<1>11. \A e \in {d} : tmp'[e] \in {0, tmp[e]} /\ file'[e] \in {tmp[e], file[e]} /\ (tmp'[e] # 0 => tmp'[e] # file'[e])
  BY <1>6
<1>12. task[t].alone => Packets!Parsed(task[t].day)' >= next.number
  BY <1>4, <1>9, <1>10
<1>13. next.at \in {"upsert", "truncate"} /\ next.ok = FALSE
  BY <1>1, <1>3, <1>4
<1> QED BY <1>0, <1>1, <1>3, <1>4, <1>6, <1>7, <1>10, <1>11, <1>12, <1>13, PacMoves DEF PacTyped, PacHeld, PacWriting

(* The calls when nothing is promised of a day any more.                   *)
LEMMA PacWithdrawn ==
  ASSUME PacTyped, NEW racing \in BOOLEAN, NEW d \in PacketDays
  PROVE  LET base == IF racing THEN Packets!Withdrawn(d) ELSE task IN
           /\ base \in [Threads -> PacTask]
           /\ \A u \in Threads :
                /\ base[u].op = task[u].op /\ base[u].day = task[u].day /\ base[u].number = task[u].number
                /\ base[u].at = task[u].at /\ base[u].handle = task[u].handle /\ base[u].ok = task[u].ok
                /\ base[u].about = task[u].about /\ base[u].first = task[u].first /\ base[u].todo = task[u].todo
                /\ base[u].answer = task[u].answer
                /\ base[u].alone = (task[u].alone /\ ~(racing /\ Saves(u, d)))
                /\ base[u].due = IF racing /\ task[u].op = "load" /\ task[u].about \in {d, None} THEN 0 ELSE task[u].due
<1> DEFINE one(u) == IF task[u].op = "save" /\ task[u].day = d THEN [task[u] EXCEPT !.alone = FALSE]
                     ELSE IF task[u].op = "load" /\ task[u].about \in {d, None} THEN [task[u] EXCEPT !.due = 0]
                     ELSE task[u]
<1>1. Packets!Withdrawn(d) = [u \in Threads |-> one(u)]
  BY DEF Packets!Withdrawn
<1>2. ASSUME NEW u \in Threads
      PROVE  /\ one(u) \in PacTask
             /\ one(u).op = task[u].op /\ one(u).day = task[u].day /\ one(u).number = task[u].number
             /\ one(u).at = task[u].at /\ one(u).handle = task[u].handle /\ one(u).ok = task[u].ok
             /\ one(u).about = task[u].about /\ one(u).first = task[u].first /\ one(u).todo = task[u].todo
             /\ one(u).answer = task[u].answer
             /\ one(u).alone = (task[u].alone /\ ~Saves(u, d))
             /\ one(u).due = IF task[u].op = "load" /\ task[u].about \in {d, None} THEN 0 ELSE task[u].due
  <2>1. task[u] \in PacTask /\ 0 \in PacNumbers /\ task[u].alone \in BOOLEAN
    BY PacFields, PacAssumed DEF PacNumbers
  <2>2. CASE Saves(u, d)
    <3>1. one(u) = [task[u] EXCEPT !.alone = FALSE] /\ task[u].op # "load"
      BY <2>2 DEF Saves
    <3> HIDE DEF one
    <3> QED BY <2>1, <2>2, <3>1 DEF PacTask
  <2>3. CASE ~Saves(u, d) /\ task[u].op = "load" /\ task[u].about \in {d, None}
    <3>1. one(u) = [task[u] EXCEPT !.due = 0]
      BY <2>3 DEF Saves
    <3> HIDE DEF one
    <3> QED BY <2>1, <2>3, <3>1 DEF PacTask
  <2>4. CASE ~Saves(u, d) /\ ~(task[u].op = "load" /\ task[u].about \in {d, None})
    <3>1. one(u) = task[u]
      BY <2>4 DEF Saves
    <3> HIDE DEF one
    <3> QED BY <2>1, <2>4, <3>1
  <2> QED BY <2>2, <2>3, <2>4
<1> HIDE DEF one
<1>3. CASE racing
  BY <1>1, <1>2, <1>3
<1>4. CASE ~racing
  BY <1>4, PacFields DEF PacTyped
<1> QED BY <1>3, <1>4

LEMMA PacSaves ==
  ASSUME PacInv, NEW t \in Threads, NEW d \in PacketDays, Packets!Save(t, d)
  PROVE  PacInv'
<1> DEFINE h == IF tmp[d] = 0 THEN calls + 1 ELSE tmp[d]
           racing == \E u \in Threads : Holds(u, d)
           base == IF racing THEN Packets!Withdrawn(d) ELSE task
           next == [Packets!Idle EXCEPT !.op = "save", !.day = d, !.number = calls + 1, !.at = "write",
                                        !.handle = h, !.alone = ~racing]
<1>0. /\ PacTyped /\ PacNumbered /\ PacApart /\ task[t].at = "idle" /\ calls < MaxPackets /\ calls' = calls + 1
      /\ UNCHANGED <<file, pointer, remote, faults>>
      /\ tmp' = [tmp EXCEPT ![d] = h] /\ content' = [content EXCEPT ![h] = Empty]
  BY DEF PacInv, Packets!Save, Packets!At, Packets!Open, Packets!Handle
<1>1. racing <=> Packets!Racing(d)
  <2>1. \A u \in Threads : PacStands(u)
    BY DEF PacInv
  <2>2. \A u \in Threads : Holds(u, d) <=> (task[u].day = d /\ task[u].op = "save" /\ task[u].at \in Packets!Held)
    BY <2>1 DEF Holds, PacStands, PacHeld, PacWriting, Packets!Held
  <2> QED BY <2>2 DEF Packets!Racing
<1>2. /\ task' = [base EXCEPT ![t] = next]
      /\ kept' = [kept EXCEPT ![d] = IF racing THEN 0 ELSE @]
  BY <1>1 DEF Packets!Save, Packets!Handle
<1>25. racing \in BOOLEAN
  <2>1. CASE racing
    BY <2>1
  <2>2. CASE ~racing
    BY <2>2
  <2> QED BY <2>1, <2>2
<1>4. (~racing) \in BOOLEAN /\ (~racing => \A u \in Threads : ~Holds(u, d))
  OBVIOUS
<1> HIDE DEF racing
<1>3. /\ base \in [Threads -> PacTask]
      /\ \A u \in Threads :
           /\ base[u].op = task[u].op /\ base[u].day = task[u].day /\ base[u].number = task[u].number
           /\ base[u].at = task[u].at /\ base[u].handle = task[u].handle /\ base[u].ok = task[u].ok
           /\ base[u].about = task[u].about /\ base[u].first = task[u].first /\ base[u].todo = task[u].todo
           /\ base[u].answer = task[u].answer
           /\ base[u].alone = (task[u].alone /\ ~(racing /\ Saves(u, d)))
           /\ base[u].due = IF racing /\ task[u].op = "load" /\ task[u].about \in {d, None} THEN 0 ELSE task[u].due
  BY <1>0, <1>25, PacWithdrawn
<1> HIDE DEF base
<1>5. /\ calls \in Nat /\ calls + 1 \in 1..MaxPackets /\ tmp[d] \in PacNumbers
      /\ \A e \in PacketDays : tmp[e] <= calls /\ file[e] <= calls /\ kept[e] <= calls
                               /\ tmp[e] \in Nat /\ file[e] \in Nat /\ kept[e] \in Nat
  <2>1. calls \in Nat /\ calls + 1 \in 1..MaxPackets
    BY <1>0, PacAssumed DEF PacTyped, PacNumbers
  <2>2. ASSUME NEW e \in PacketDays
        PROVE  tmp[e] \in Nat /\ file[e] \in Nat /\ kept[e] \in Nat
    BY <1>0, PacParses, PacAssumed DEF PacNumbers
  <2> QED BY <1>0, <2>1, <2>2 DEF PacNumbered, PacTyped
<1>6. /\ h \in 1..MaxPackets /\ h <= calls + 1 /\ \A e \in PacketDays : file[e] # h
      /\ \A e \in PacketDays : e # d => tmp[e] # h
  <2>1. CASE tmp[d] = 0
    BY <1>5, <2>1
  <2>2. CASE tmp[d] # 0
    <3>1. \A e \in PacketDays : tmp[d] # file[e] /\ (e # d => tmp[d] # tmp[e])
      BY <1>0, <2>2 DEF PacApart
    <3>2. tmp[d] \in 1..MaxPackets /\ tmp[d] <= calls + 1
      BY <1>5, <2>2, PacAssumed DEF PacNumbers
    <3> QED BY <2>2, <3>1, <3>2
  <2> QED BY <2>1, <2>2
<1>7. \A u \in Threads : task[u].at \in PacHeld /\ task[u].day # d => task[u].handle # h
  <2> SUFFICES ASSUME NEW u \in Threads, task[u].at \in PacHeld, task[u].day # d
               PROVE  task[u].handle # h
    OBVIOUS
  <2>1. PacHolds(u) /\ PacStands(u) /\ task[u].handle \in Nat
    BY <1>0, PacFields, PacAssumed DEF PacInv, PacNumbers
  <2> QED BY <1>5, <2>1 DEF PacHolds, PacStands
<1> HIDE DEF h
<1>8. /\ next \in PacTask /\ next.op = "save" /\ next.day = d /\ next.number = calls + 1 /\ next.at = "write"
      /\ next.handle = h /\ next.alone = ~racing /\ next.ok = FALSE
  <2>1. calls + 1 \in PacNumbers /\ h \in PacNumbers
    BY <1>5, <1>6, PacAssumed DEF PacNumbers
  <2> QED BY <1>4, <2>1, PacIdle DEF PacTask, PacPlaces
<1> HIDE DEF next
<1>9. /\ task' \in [Threads -> PacTask]
      /\ \A u \in Threads : task'[u] = IF u = t THEN next ELSE base[u]
  BY <1>2, <1>3, <1>8
<1>10. \A u \in Threads : u # t =>
         /\ task'[u].op = task[u].op /\ task'[u].day = task[u].day /\ task'[u].number = task[u].number
         /\ task'[u].at = task[u].at /\ task'[u].handle = task[u].handle /\ task'[u].ok = task[u].ok
         /\ task'[u].about = task[u].about /\ task'[u].first = task[u].first /\ task'[u].todo = task[u].todo
         /\ task'[u].answer = task[u].answer
         /\ task'[u].alone = (task[u].alone /\ ~(racing /\ Saves(u, d)))
         /\ task'[u].due = IF racing /\ task[u].op = "load" /\ task[u].about \in {d, None} THEN 0 ELSE task[u].due
  BY <1>3, <1>9
<1>11. /\ task'[t].op = "save" /\ task'[t].day = d /\ task'[t].number = calls + 1 /\ task'[t].at = "write"
       /\ task'[t].handle = h /\ task'[t].alone = ~racing /\ task'[t].ok = FALSE
  BY <1>8, <1>9
<1>12. /\ kept' \in [PacketDays -> PacNumbers] /\ kept'[d] = (IF racing THEN 0 ELSE kept[d])
       /\ \A e \in PacketDays : e # d => kept'[e] = kept[e]
       /\ tmp' \in [PacketDays -> PacNumbers] /\ tmp'[d] = h
       /\ \A e \in PacketDays : e # d => tmp'[e] = tmp[e]
       /\ content' \in [1..MaxPackets -> 1..MaxPackets \cup {Empty, Torn}] /\ content'[h] = Empty
       /\ \A k \in 1..MaxPackets : k # h => content'[k] = content[k]
  <2>1. 0 \in PacNumbers /\ h \in PacNumbers
    BY <1>6, PacAssumed DEF PacNumbers
  <2>2. kept \in [PacketDays -> PacNumbers] /\ tmp \in [PacketDays -> PacNumbers]
        /\ content \in [1..MaxPackets -> 1..MaxPackets \cup {Empty, Torn}]
    BY <1>0 DEF PacTyped
  <2>3. content' \in [1..MaxPackets -> 1..MaxPackets \cup {Empty, Torn}] /\ content'[h] = Empty
        /\ \A k \in 1..MaxPackets : k # h => content'[k] = content[k]
    BY <1>0, <1>6, <2>2
  <2>4. tmp' \in [PacketDays -> PacNumbers] /\ tmp'[d] = h /\ \A e \in PacketDays : e # d => tmp'[e] = tmp[e]
    BY <1>0, <2>1, <2>2
  <2>5. kept' \in [PacketDays -> PacNumbers] /\ kept'[d] = (IF racing THEN 0 ELSE kept[d])
        /\ \A e \in PacketDays : e # d => kept'[e] = kept[e]
    BY <1>2, <2>1, <2>2
  <2> QED BY <2>3, <2>4, <2>5
<1>13. PacTyped'
  <2>1. calls' \in PacNumbers
    BY <1>0, <1>5, PacAssumed DEF PacNumbers
  <2> QED BY <1>0, <1>9, <1>12, <2>1 DEF PacTyped
<1>14. PacNumbered'
  <2>1. ASSUME NEW e \in PacketDays
        PROVE  tmp'[e] <= calls + 1 /\ file[e] <= calls + 1 /\ kept'[e] <= calls + 1
    <3>1. CASE e = d
      BY <1>5, <1>6, <1>12, <3>1
    <3>2. CASE e # d
      BY <1>5, <1>12, <3>2
    <3> QED BY <3>1, <3>2
  <2> QED BY <1>0, <2>1 DEF PacNumbered
<1>15. PacApart'
  <2> SUFFICES ASSUME NEW e \in PacketDays, NEW f \in PacketDays
               PROVE  /\ tmp'[e] # 0 => tmp'[e] # file[f] /\ (e # f => tmp'[e] # tmp'[f])
                      /\ file[e] # 0 /\ e # f => file[e] # file[f]
    BY <1>0 DEF PacApart
  <2>1. tmp'[e] # 0 => tmp'[e] # file[f]
    BY <1>0, <1>6, <1>12 DEF PacApart
  <2>2. tmp'[e] # 0 /\ e # f => tmp'[e] # tmp'[f]
    BY <1>0, <1>6, <1>12 DEF PacApart
  <2> QED BY <1>0, <2>1, <2>2 DEF PacApart
<1>16. \A e \in PacketDays : Packets!Parsed(e)' = Packets!Parsed(e)
  <2> SUFFICES ASSUME NEW e \in PacketDays
               PROVE  Packets!Parsed(e)' = Packets!Parsed(e)
    OBVIOUS
  <2>1. file[e] # 0 => content'[file[e]] = content[file[e]]
    BY <1>0, <1>6, <1>12, PacParses
  <2> QED BY <1>0, <2>1 DEF Packets!Parsed
<1>17. \A u \in Threads, e \in PacketDays : u # t => (Holds(u, e)' <=> Holds(u, e)) /\ (Saves(u, e)' <=> Saves(u, e))
  BY <1>10 DEF Holds, Saves
<1>18. ASSUME NEW u \in Threads
       PROVE  PacStands(u)'
  <2>1. CASE u = t
    BY <1>0, <1>5, <1>6, <1>11, <2>1 DEF PacStands, PacWriting, PacHeld
  <2>2. CASE u # t
    <3>1. PacStands(u) /\ task[u].number \in Nat /\ task[u].handle \in Nat
      BY <1>0, PacFields, PacAssumed DEF PacInv, PacNumbers
    <3>2. /\ task[u].op = "save" => task[u].number <= calls'
          /\ task[u].at \in PacHeld => task[u].handle <= calls'
      BY <1>0, <1>5, <3>1 DEF PacStands
    <3>3. task'[u].alone => task[u].alone
      BY <1>10, <2>2
    <3> QED BY <1>10, <2>2, <3>1, <3>2, <3>3 DEF PacStands
  <2> QED BY <2>1, <2>2
<1>19. ASSUME NEW u \in Threads
       PROVE  PacHolds(u)'
  <2> SUFFICES ASSUME task'[u].at \in PacHeld
               PROVE  /\ \A e \in PacketDays : e # task'[u].day => task'[u].handle # tmp'[e] /\ task'[u].handle # file[e]
                      /\ \A w \in Threads : task'[w].at \in PacHeld /\ task'[w].day # task'[u].day =>
                           task'[w].handle # task'[u].handle
    BY <1>0 DEF PacHolds
  <2>1. CASE u = t
    <3>1. \A e \in PacketDays : e # d => h # tmp'[e] /\ h # file[e]
      BY <1>6, <1>12
    <3>2. \A w \in Threads : task'[w].at \in PacHeld /\ task'[w].day # d => task'[w].handle # h
      BY <1>7, <1>10, <1>11
    <3> QED BY <1>11, <2>1, <3>1, <3>2
  <2>2. CASE u # t
    <3>1. PacHolds(u) /\ task[u].at \in PacHeld
      BY <1>10, <2>2 DEF PacInv
    <3>2. task[u].day # d => task[u].handle # h
      BY <1>7, <3>1
    <3>3. \A e \in PacketDays : e # task[u].day => task[u].handle # tmp'[e] /\ task[u].handle # file[e]
      BY <1>12, <3>1, <3>2 DEF PacHolds
    <3>4. \A w \in Threads : task'[w].at \in PacHeld /\ task'[w].day # task[u].day => task'[w].handle # task[u].handle
      <4> SUFFICES ASSUME NEW w \in Threads, task'[w].at \in PacHeld, task'[w].day # task[u].day
                   PROVE  task'[w].handle # task[u].handle
        OBVIOUS
      <4>1. CASE w = t
        BY <1>11, <3>2, <4>1
      <4>2. CASE w # t
        BY <1>10, <3>1, <4>2 DEF PacHolds
      <4> QED BY <4>1, <4>2
    <3> QED BY <1>10, <2>2, <3>3, <3>4
  <2> QED BY <2>1, <2>2
<1>20. PacAlone(t)'
  <2> SUFFICES ASSUME ~racing
               PROVE  PacAlone(t)'
    BY <1>11 DEF PacAlone
  <2>1. \A u \in Threads : u # t => ~Holds(u, d)'
    BY <1>4, <1>17
  <2>2. kept'[d] < calls + 1
    BY <1>5, <1>12
  <2>3. \A u \in Threads : u # t /\ Saves(u, d)' => task'[u].number < calls + 1
    <3> SUFFICES ASSUME NEW u \in Threads, u # t, Saves(u, d)
                 PROVE  task[u].number < calls + 1
      BY <1>10, <1>17
    <3>1. PacStands(u) /\ task[u].number \in Nat
      BY <1>0, PacFields, PacAssumed DEF PacInv, PacNumbers
    <3> QED BY <1>5, <3>1 DEF PacStands, Saves
  <2> QED BY <1>11, <1>12, <2>1, <2>2, <2>3 DEF PacAlone, Holds, Saves
<1>21. ASSUME NEW u \in Threads, u # t, task'[u].alone
       PROVE  PacAlone(u)'
  <2>0. PacStands(u) /\ PacAlone(u) /\ task[u].alone /\ ~(racing /\ Saves(u, d))
    BY <1>10, <1>21 DEF PacInv
  <2>1. task[u].op = "save" /\ task[u].day \in PacketDays
    BY <2>0 DEF PacStands
  <2>2. CASE task[u].day = d
    <3>1. ~racing
      BY <2>0, <2>1, <2>2 DEF Saves
    <3>2. task'[u].at \notin PacHeld /\ task'[u].day = d
      BY <1>4, <1>10, <1>21, <2>2, <3>1 DEF Holds
    <3>3. \A w \in Threads : Holds(w, d)' => task'[w].alone
      BY <1>4, <1>11, <1>17, <3>1
    <3>4. task[u].at \in {"truncate", "point"} \/ task[u].ok => Packets!Parsed(d)' >= task[u].number
      BY <1>16, <2>0, <2>2 DEF PacAlone
    <3> QED BY <1>10, <1>21, <2>2, <3>2, <3>3, <3>4 DEF PacAlone, Holds, PacHeld
  <2>3. CASE task[u].day # d
    <3>1. \A w \in Threads : Holds(w, task[u].day)' => w # t /\ Holds(w, task[u].day) /\ (task[w].alone => task'[w].alone)
      <4> SUFFICES ASSUME NEW w \in Threads, Holds(w, task[u].day)'
                   PROVE  w # t /\ Holds(w, task[u].day) /\ (task[w].alone => task'[w].alone)
        OBVIOUS
      <4>1. w # t
        BY <1>10, <1>11, <1>21, <2>3 DEF Holds
      <4>2. Holds(w, task[u].day)
        BY <1>10, <1>21, <4>1 DEF Holds
      <4> QED BY <1>10, <2>3, <4>1, <4>2 DEF Holds, Saves
    <3>2. \A w \in Threads : Saves(w, task[u].day)' => w # t /\ Saves(w, task[u].day)
      BY <1>10, <1>11, <1>21, <2>3 DEF Saves
    <3>3. tmp'[task[u].day] = tmp[task[u].day] /\ kept'[task[u].day] = kept[task[u].day]
      BY <1>12, <2>1, <2>3
    <3>4. task[u].at \in PacHeld => content'[task[u].handle] = content[task[u].handle]
      <4>1. task[u].at \in PacHeld => task[u].handle \in 1..MaxPackets
        BY <1>0, <2>0, PacFields, PacAssumed DEF PacStands, PacNumbers
      <4> QED BY <1>7, <1>12, <2>3, <4>1
    <3>5. Packets!Parsed(task[u].day)' = Packets!Parsed(task[u].day)
      BY <1>10, <1>16, <1>21, <2>1
    <3>6. /\ \A w \in Threads : Holds(w, task[u].day)' => task'[w].alone
          /\ task[u].at \in PacHeld =>
               /\ \A w \in Threads : w # u => ~Holds(w, task[u].day)'
               /\ kept'[task[u].day] < task[u].number
               /\ \A w \in Threads : w # u /\ Saves(w, task[u].day)' => task'[w].number < task[u].number
               /\ tmp'[task[u].day] = task[u].handle
          /\ task[u].at = "write" => content'[task[u].handle] = Empty
          /\ task[u].at = "rename" => content'[task[u].handle] = task[u].number
          /\ task[u].at \in {"truncate", "point"} \/ task[u].ok => Packets!Parsed(task[u].day)' >= task[u].number
      BY <1>10, <2>0, <3>1, <3>2, <3>3, <3>4, <3>5 DEF PacAlone, PacHeld
    <3> QED BY <1>10, <1>21, <3>6 DEF PacAlone, Holds, Saves
  <2> QED BY <2>2, <2>3
<1>22. \A u \in Threads : PacAlone(u)'
  BY <1>20, <1>21 DEF PacAlone
<1>23. ASSUME NEW u \in Threads
       PROVE  PacLoads(u)'
  <2>1. CASE u = t
    BY <1>11, <2>1 DEF PacLoads
  <2>2. CASE u # t
    <3>0. PacLoads(u) /\ task[u].due \in Nat /\ task[u].answer \in Nat /\ task[u].about \in PacketDays \cup {None}
      BY <1>0, PacFields, PacAssumed DEF PacInv, PacNumbers
    <3>1. CASE racing /\ task[u].op = "load" /\ task[u].about \in {d, None}
      <4>1. task'[u].due = 0
        BY <1>10, <2>2, <3>1
      <4>2. task[u].about # None => kept'[task[u].about] \in Nat
        <5>1. \A e \in PacketDays : kept'[e] \in PacNumbers
          BY <1>12
        <5>2. PacNumbers \subseteq Nat
          BY PacAssumed DEF PacNumbers
        <5> QED BY <3>0, <5>1, <5>2
      <4> QED BY <1>10, <2>2, <3>0, <3>1, <4>1, <4>2 DEF PacLoads
    <3>2. CASE ~(racing /\ task[u].op = "load" /\ task[u].about \in {d, None})
      <4>1. task'[u].due = task[u].due
        BY <1>10, <2>2, <3>2
      <4>2. task[u].op = "load" /\ task[u].about # None => kept'[task[u].about] = kept[task[u].about]
        BY <1>12, <3>0, <3>2
      <4>3. task[u].op = "load" /\ task[u].about = None => \A e \in PacketDays : kept'[e] = kept[e]
        BY <1>12, <3>2
      <4> QED BY <1>10, <2>2, <3>0, <4>1, <4>2, <4>3 DEF PacLoads
    <3> QED BY <3>1, <3>2
  <2> QED BY <2>1, <2>2
<1>24. ASSUME NEW e \in PacketDays
       PROVE  PacKept(e)'
  <2>0. PacKept(e)
    BY DEF PacInv
  <2>1. CASE e = d
    <3> SUFFICES ASSUME ~racing
                 PROVE  PacKept(e)'
      BY <1>12, <2>1 DEF PacKept
    <3>1. \A w \in Threads : Holds(w, d)' => task'[w].alone
      BY <1>4, <1>11, <1>17
    <3> QED BY <1>12, <1>16, <2>0, <2>1, <3>1 DEF PacKept
  <2>2. CASE e # d
    <3>1. \A w \in Threads : Holds(w, e)' => Holds(w, e) /\ (task[w].alone => task'[w].alone)
      BY <1>10, <1>11, <2>2 DEF Holds, Saves
    <3> QED BY <1>12, <1>16, <2>0, <2>2, <3>1 DEF PacKept
  <2> QED BY <2>1, <2>2
<1> QED BY <1>13, <1>14, <1>15, <1>18, <1>19, <1>22, <1>23, <1>24 DEF PacInv

LEMMA PacActs ==
  ASSUME PacInv, Packets!Next
  PROVE  PacInv'
<1>1. ASSUME NEW t \in Threads, NEW d \in PacketDays, Packets!Save(t, d) \/ Packets!LoadDay(t, d)
      PROVE  PacInv'
  BY <1>1, PacSaves, PacLoadStarts
<1> QED BY <1>1, PacLoadStarts, PacFollow, PacRead, PacFetch, PacOver, PacWrites, PacFails, PacPoints, PacRenames
    DEF Packets!Next, Packets!Days

LEMMA PacStep ==
  ASSUME PacInv, [Packets!Next]_(Packets!vars)
  PROVE  PacInv'
<1>1. CASE UNCHANGED Packets!vars
  <2>1. UNCHANGED <<tmp, file, content, pointer, remote, task, calls, faults, kept>>
    BY <1>1 DEF Packets!vars, Packets!files
  <2> QED BY <1>1, <2>1 DEF PacInv, PacTyped, PacNumbered, PacApart, PacStands, PacHolds, PacAlone, PacLoads, PacKept,
        Holds, Saves, Packets!Parsed
<1> QED BY <1>1, PacActs

LEMMA PacPromised ==
  ASSUME PacInv
  PROVE  Packets!TypeOK /\ Packets!AckedIsReadable /\ Packets!LoadsAreCurrent
<1>0. PacTyped
  BY DEF PacInv
<1>1. Packets!FilesTyped
  BY <1>0, PacAssumed DEF PacTyped, Packets!FilesTyped, PacNumbers
<1>2. ASSUME NEW t \in Threads
      PROVE  /\ task[t].op \in {"idle", "save", "load"}
             /\ task[t].at \in {"idle", "upsert", "pointer", "read", "answer"} \cup Packets!Writing
             /\ {task[t].day, task[t].about, task[t].first} \subseteq PacketDays \cup {None}
             /\ task[t].todo \subseteq PacketDays
             /\ task[t].at \in Packets!Held => task[t].handle \in 1..MaxPackets
  <2>1. PacStands(t)
    BY DEF PacInv
  <2>2. task[t].at \in PacHeld => task[t].handle \in 1..MaxPackets
    BY <1>0, <2>1, PacFields, PacAssumed DEF PacStands, PacNumbers
  <2> QED BY <1>0, <2>2, PacFields DEF PacPlaces, PacHeld, Packets!Writing, Packets!Held
<1>3. Packets!TypeOK
  BY <1>0, <1>1, <1>2, PacAssumed DEF PacTyped, Packets!TypeOK, Packets!Days, PacNumbers
<1>4. \A d \in PacketDays : kept[d] # 0 => Packets!Parsed(d) >= kept[d]
  BY DEF PacInv, PacKept
<1>5. ASSUME NEW t \in Threads, task[t].at = "answer"
      PROVE  task[t].answer >= task[t].due
  <2>1. PacStands(t) /\ PacLoads(t)
    BY DEF PacInv
  <2>2. task[t].op = "load"
    BY <1>0, <1>5, <2>1, PacFields DEF PacStands, PacWriting
  <2> QED BY <1>5, <2>1, <2>2 DEF PacLoads
<1> QED BY <1>3, <1>4, <1>5 DEF Packets!AckedIsReadable, Packets!LoadsAreCurrent, Packets!Days, Packets!At

(* The packets of one ticker: what was acknowledged stays readable, and no *)
(* load answers with less than what was acknowledged when it began.        *)
THEOREM PacketsKept == Packets!Spec => [](Packets!TypeOK /\ Packets!AckedIsReadable /\ Packets!LoadsAreCurrent)
<1>1. Packets!Init => PacInv
  BY PacStart
<1>2. PacInv /\ [Packets!Next]_(Packets!vars) => PacInv'
  BY PacStep
<1> QED BY <1>1, <1>2, PacPromised, PTL DEF Packets!Spec

-----------------------------------------------------------------------------
(***************************************************************************)
(* The turns of a memo chat: what is kept is the end of the file and, while*)
(* an append that has it for itself is under way, of the turns it read.    *)
(***************************************************************************)
Chat == INSTANCE ChatStore WITH
  Threads <- ChatThreads, Processes <- ChatWorkers, ProcessOf <- ChatWorkerOf,
  Limit <- HistoryLimit, MaxCalls <- MaxChats

ASSUME ChatParameters == Chat!ChatAssumption

ChaTurns == 1..MaxChats
ChaAppending == {"truncate", "write"}
ChaPlaces == {"idle", "insert", "ask", "answer", "truncate", "write"}
ChaTask ==
  [at : ChaPlaces, turn : 0..MaxChats, rows : Seq(ChaTurns), alone : BOOLEAN, due : SUBSET ChaTurns]

ChaTyped ==
  /\ remote \in Seq(ChaTurns) /\ task \in [ChatThreads -> ChaTask]
  /\ calls \in 0..MaxChats /\ faults \in 0..MaxFaults /\ kept \in SUBSET ChaTurns

Ascends(s) == \A i, j \in 1..Len(s) : i < j => s[i] < s[j]

(* A set that is the end of an ascending sequence.                         *)
Tops(S, s) ==
  \A k \in S :
    /\ \E i \in 1..Len(s) : s[i] = k
    /\ \A i \in 1..Len(s) : s[i] >= k => s[i] \in S

ChaFile ==
  file # Torn =>
    /\ file \in Seq(ChaTurns) /\ Len(file) <= MaxTurns /\ Ascends(file)
    /\ \A i \in 1..Len(file) : file[i] <= calls

ChaTurn(t) ==
  /\ task[t].at \in ChaAppending =>
       /\ task[t].turn <= calls /\ Ascends(task[t].rows)
       /\ \A i \in 1..Len(task[t].rows) : task[t].rows[i] < task[t].turn
  /\ task[t].at \in ChaAppending \cup {"insert"} => task[t].turn \in ChaTurns

ChaAlone(t) ==
  task[t].alone /\ task[t].at \in ChaAppending =>
    /\ \A u \in ChatThreads : u # t => task[u].at \notin ChaAppending
    /\ Tops(kept, task[t].rows)
    /\ task[t].at = "write" => file = Torn

ChaKept ==
  /\ kept # {} => \A t \in ChatThreads : task[t].at \in ChaAppending => task[t].alone
  /\ (\A t \in ChatThreads : task[t].at # "write") => Tops(kept, Chat!Rows)

Within(S, s) == \A k \in S : \E i \in 1..Len(s) : s[i] = k

ChaDue(t) ==
  /\ task[t].at = "ask" => task[t].due = {}
  /\ task[t].at = "answer" => Within(task[t].due, task[t].rows)

ChaInv ==
  /\ ChaTyped /\ ChaFile /\ ChaKept
  /\ \A t \in ChatThreads : ChaTurn(t) /\ ChaAlone(t) /\ ChaDue(t)

LEMMA ChaAssumed ==
  /\ MaxTurns \in Nat \ {0} /\ HistoryLimit \in Nat \ {0} /\ MaxChats \in Nat /\ MaxFaults \in Nat
  /\ Torn \notin Seq(Nat) /\ Torn # <<>> /\ Torn \notin Seq(ChaTurns)
<1>1. /\ MaxTurns \in Nat \ {0} /\ HistoryLimit \in Nat \ {0} /\ MaxChats \in Nat /\ MaxFaults \in Nat
      /\ Torn \notin Seq(Nat)
  BY ChatParameters DEF Chat!ChatAssumption
<1>2. <<>> \in Seq(Nat)
  BY EmptySeq
<1>3. ChaTurns \subseteq Nat
  BY DEF ChaTurns
<1>4. ASSUME Torn \in Seq(ChaTurns)
      PROVE  FALSE
  BY <1>1, <1>3, <1>4, SeqMonotonic
<1> QED BY <1>1, <1>2, <1>4

LEMMA ChaNumbers ==
  ASSUME NEW s \in Seq(ChaTurns)
  PROVE  \A i \in 1..Len(s) : s[i] \in ChaTurns /\ s[i] \in Int
<1>1. ChaTurns \subseteq Int
  BY DEF ChaTurns
<1>2. \A i \in 1..Len(s) : s[i] \in ChaTurns
  BY ElementOfSeq
<1> QED BY <1>1, <1>2

LEMMA ChaFields ==
  ASSUME ChaTyped, NEW t \in ChatThreads
  PROVE  /\ task[t] \in ChaTask /\ task[t].at \in ChaPlaces /\ task[t].turn \in 0..MaxChats
         /\ task[t].rows \in Seq(ChaTurns) /\ task[t].alone \in BOOLEAN /\ task[t].due \in SUBSET ChaTurns
<1>1. task[t] \in ChaTask
  BY DEF ChaTyped
<1> QED BY <1>1 DEF ChaTask

LEMMA ChaIdle ==
  /\ Chat!Idle \in ChaTask /\ Chat!Idle.at = "idle" /\ Chat!Idle.due = {} /\ ~Chat!Idle.alone
<1>1. <<>> \in Seq(ChaTurns) /\ 0 \in 0..MaxChats
  BY EmptySeq, ChaAssumed
<1> QED BY <1>1 DEF Chat!Idle, ChaTask, ChaPlaces

LEMMA ChaRows ==
  ASSUME ChaInv
  PROVE  /\ Chat!Rows \in Seq(ChaTurns) /\ Len(Chat!Rows) \in Nat
         /\ Ascends(Chat!Rows) /\ \A i \in 1..Len(Chat!Rows) : Chat!Rows[i] <= calls
<1>1. CASE file = Torn
  <2>1. Chat!Rows = <<>>
    BY <1>1 DEF Chat!Rows
  <2> QED BY <2>1, EmptySeq DEF Ascends
<1>2. CASE file # Torn
  <2>1. Chat!Rows = file
    BY <1>2 DEF Chat!Rows
  <2>2. ChaFile
    BY DEF ChaInv
  <2>3. file \in Seq(ChaTurns)
    BY <1>2, <2>2 DEF ChaFile
  <2>4. Len(file) \in Nat
    BY <2>3
  <2> QED BY <1>2, <2>1, <2>2, <2>3, <2>4 DEF ChaFile
<1> QED BY <1>1, <1>2

(* The newest of a sequence are its end.                                   *)
LEMMA NewestEnd ==
  ASSUME NEW s \in Seq(ChaTurns), NEW n \in Nat \ {0}
  PROVE  /\ Chat!Newest(s, n) \in Seq(ChaTurns)
         /\ Len(s) \in Nat
         /\ Len(Chat!Newest(s, n)) = (IF Len(s) < n THEN Len(s) ELSE n)
         /\ \A i \in 1..Len(Chat!Newest(s, n)) : Chat!Newest(s, n)[i] = s[i + (Len(s) - Len(Chat!Newest(s, n)))]
<1> DEFINE m == IF Len(s) < n THEN 1 ELSE Len(s) - n + 1
           len == IF Len(s) < n THEN Len(s) ELSE n
<1>1. Len(s) \in Nat
  OBVIOUS
<1>2. m \in Int /\ Len(s) \in Int /\ m >= 1 /\ len \in Nat /\ len = Len(s) - m + 1
  BY <1>1
<1>3. \A i \in 1..Len(s) : s[i] \in ChaTurns
  BY ElementOfSeq
<1>4. Chat!Newest(s, n) = SubSeq(s, m, Len(s))
  BY DEF Chat!Newest
<1> HIDE DEF m, len
<1>5. \A i \in m..Len(s) : s[i] \in ChaTurns
  BY <1>2, <1>3
<1>6. /\ SubSeq(s, m, Len(s)) \in Seq(ChaTurns)
      /\ Len(SubSeq(s, m, Len(s))) = IF m <= Len(s) THEN Len(s) - m + 1 ELSE 0
      /\ \A i \in 1..Len(s) - m + 1 : SubSeq(s, m, Len(s))[i] = s[m + i - 1]
  BY <1>2, <1>5, SubSeqProperties
<1>7. Len(SubSeq(s, m, Len(s))) = len
  BY <1>2, <1>6
<1>8. \A i \in 1..len : m + i - 1 = i + (Len(s) - len)
  BY <1>2
<1>9. \A i \in 1..len : SubSeq(s, m, Len(s))[i] = s[i + (Len(s) - len)]
  BY <1>2, <1>6, <1>8
<1>10. len = IF Len(s) < n THEN Len(s) ELSE n
  BY DEF len
<1> QED BY <1>1, <1>4, <1>6, <1>7, <1>9, <1>10

LEMMA AscendsEnd ==
  ASSUME NEW s \in Seq(ChaTurns), NEW n \in Nat \ {0}, Ascends(s)
  PROVE  Ascends(Chat!Newest(s, n))
<1> DEFINE q == Chat!Newest(s, n)
           d == Len(s) - Len(q)
<1>1. /\ Len(s) \in Nat /\ Len(q) \in Nat /\ d \in Nat
      /\ \A i \in 1..Len(q) : q[i] = s[i + d]
  <2>1. /\ Len(s) \in Nat /\ Len(q) = IF Len(s) < n THEN Len(s) ELSE n
        /\ \A i \in 1..Len(q) : q[i] = s[i + d]
    BY NewestEnd
  <2> HIDE DEF q
  <2>2. Len(q) \in Nat /\ Len(q) <= Len(s)
    BY <2>1
  <2>3. d \in Nat
    BY <2>1, <2>2
  <2> HIDE DEF d
  <2> QED BY <2>1, <2>2, <2>3
<1>2. \A i \in 1..Len(q) : i + d \in 1..Len(s)
  BY <1>1
<1> HIDE DEF d, q
<1>3. ASSUME NEW i \in 1..Len(q), NEW j \in 1..Len(q), i < j
      PROVE  q[i] < q[j]
  <2>1. i + d \in 1..Len(s) /\ j + d \in 1..Len(s) /\ i + d < j + d
    BY <1>1, <1>2, <1>3
  <2>2. s[i + d] < s[j + d]
    BY <2>1 DEF Ascends
  <2> QED BY <1>1, <2>2
<1>4. Ascends(q)
  BY <1>3 DEF Ascends
<1> QED BY <1>4 DEF q

(* Of a set that ends an ascending sequence, the n newest are among the n  *)
(* newest of the sequence, and end them.                                   *)
LEMMA NewestOfEnd ==
  ASSUME NEW s \in Seq(ChaTurns), NEW n \in Nat \ {0}, Ascends(s),
         NEW S \in SUBSET ChaTurns, Tops(S, s)
  PROVE  Tops(Chat!NewestOf(S, n), Chat!Newest(s, n)) /\ Chat!NewestOf(S, n) \in SUBSET ChaTurns
<1> DEFINE q == Chat!Newest(s, n)
           d == Len(s) - Len(q)
           Above(k) == {j \in S : j >= k}
           N == Chat!NewestOf(S, n)
<1>1. /\ Len(s) \in Nat /\ Len(q) \in Nat /\ d \in Nat /\ (d = 0 \/ Len(q) = n)
      /\ \A i \in 1..Len(q) : q[i] = s[i + d]
  <2>1. /\ Len(s) \in Nat /\ Len(q) = IF Len(s) < n THEN Len(s) ELSE n
        /\ \A i \in 1..Len(q) : q[i] = s[i + d]
    BY NewestEnd
  <2> HIDE DEF q
  <2>2. Len(q) \in Nat /\ Len(q) <= Len(s) /\ (Len(q) = Len(s) \/ Len(q) = n)
    BY <2>1
  <2>3. d \in Nat /\ (d = 0 \/ Len(q) = n)
    BY <2>1, <2>2
  <2> HIDE DEF d
  <2> QED BY <2>1, <2>2, <2>3
<1>2. \A i \in 1..Len(q) : i + d \in 1..Len(s)
  BY <1>1
<1>3. \A k : k \in N <=> k \in S /\ Cardinality(Above(k)) <= n
  <2>1. \A T : Chat!Cardinality(T) = Cardinality(T)
    BY DEF Chat!Cardinality, Cardinality
  <2> QED BY <2>1 DEF Chat!NewestOf
<1>4. \A k \in S : IsFiniteSet(Above(k)) /\ Cardinality(Above(k)) \in Nat
  <2>1. IsFiniteSet(ChaTurns)
    BY FS_Interval, ChaAssumed DEF ChaTurns
  <2>2. \A k \in S : Above(k) \in SUBSET ChaTurns
    OBVIOUS
  <2> QED BY <2>1, <2>2, FS_Subset, FS_CardinalityType
<1>5. \A i \in 1..Len(s) : s[i] \in ChaTurns
  BY ElementOfSeq
<1> HIDE DEF q, N
<1>6. ASSUME NEW k \in N
      PROVE  \E i \in 1..Len(q) : q[i] = k
  <2>1. k \in S /\ Cardinality(Above(k)) <= n
    BY <1>3, <1>6
  <2>2. PICK i \in 1..Len(s) : s[i] = k
    BY <2>1 DEF Tops
  <2>3. CASE i > d
    <3>1. i - d \in 1..Len(q) /\ (i - d) + d = i
      BY <1>1, <2>3 DEF d
    <3> QED BY <1>1, <2>2, <3>1
  <2>4. CASE i <= d
    <3>1. Len(q) = n /\ i \in 1..Len(s) /\ Len(s) - i + 1 > n
      BY <1>1, <2>4 DEF d
    <3> DEFINE f == [j \in i..Len(s) |-> s[j]]
    <3>2. \A j \in i..Len(s) : s[j] \in Above(k)
      <4>1. \A j \in i..Len(s) : j \in 1..Len(s) /\ (j = i \/ i < j)
        BY <1>1
      <4>2. \A j \in i..Len(s) : s[j] \in ChaTurns /\ (s[j] = s[i] \/ s[i] < s[j])
        BY <1>5, <4>1 DEF Ascends
      <4>3. \A j \in i..Len(s) : s[j] >= k
        BY <2>2, <4>2, <1>5 DEF ChaTurns
      <4> QED BY <2>1, <4>1, <4>3 DEF Tops
    <3>3. f \in [i..Len(s) -> Above(k)]
      BY <3>2
    <3>4. \A x, y \in i..Len(s) : f[x] = f[y] => x = y
      <4>1. \A x, y \in i..Len(s) : x < y => s[x] < s[y]
        BY <1>1 DEF Ascends
      <4>2. \A x \in i..Len(s) : s[x] \in Nat /\ f[x] = s[x]
        BY <1>1, <1>5 DEF ChaTurns
      <4> HIDE DEF f
      <4> QED BY <1>1, <4>1, <4>2
    <3> HIDE DEF f
    <3>5. f \in Injection(i..Len(s), Above(k))
      BY <3>3, <3>4 DEF Injection, IsInjective
    <3> HIDE DEF Above
    <3>6. Cardinality(i..Len(s)) <= Cardinality(Above(k))
      BY <1>4, <2>1, <3>5, FS_Injection
    <3>7. Cardinality(i..Len(s)) = Len(s) - i + 1
      <4>1. i \in Int /\ Len(s) \in Int /\ ~(i > Len(s))
        BY <1>1
      <4> QED BY ONLY <4>1, FS_Interval
    <3> QED BY <1>1, <1>4, <2>1, <3>1, <3>6, <3>7
  <2> QED BY <1>1, <2>2, <2>3, <2>4 DEF d
<1>7. ASSUME NEW k \in N, NEW i \in 1..Len(q), q[i] >= k
      PROVE  q[i] \in N
  <2>1. k \in S /\ Cardinality(Above(k)) <= n
    BY <1>3, <1>7
  <2>2. q[i] = s[i + d] /\ i + d \in 1..Len(s)
    BY <1>1, <1>2
  <2>3. q[i] \in S
    BY <1>7, <2>1, <2>2 DEF Tops
  <2>4. Above(q[i]) \in SUBSET Above(k)
    <3>0. ChaTurns \subseteq Int
      BY DEF ChaTurns
    <3>1. q[i] \in Int /\ k \in Int /\ S \subseteq Int
      BY <2>1, <2>3, <3>0
    <3>2. ASSUME NEW j \in S, j >= q[i]
          PROVE  j >= k
      BY <1>7, <3>1, <3>2
    <3> QED BY <3>2
  <2>5. Cardinality(Above(q[i])) <= Cardinality(Above(k))
    BY <1>4, <2>1, <2>4, FS_Subset
  <2> HIDE DEF Above
  <2>6. Cardinality(Above(q[i])) <= n
    BY <1>4, <2>1, <2>3, <2>5
  <2> QED BY <1>3, <2>3, <2>6
<1>8. Tops(N, q)
  BY <1>6, <1>7 DEF Tops
<1>9. N \in SUBSET ChaTurns
  BY <1>3
<1> QED BY <1>8, <1>9 DEF N, q

LEMMA ChaStart ==
  ASSUME Chat!Init
  PROVE  ChaInv
<1>1. file = <<>> /\ remote = <<>> /\ task = [t \in ChatThreads |-> Chat!Idle] /\ calls = 0 /\ faults = 0 /\ kept = {}
  BY DEF Chat!Init
<1>2. ChaTyped
  BY <1>1, ChaIdle, ChaAssumed, EmptySeq DEF ChaTyped
<1>3. ChaFile
  BY <1>1, ChaAssumed, EmptySeq DEF ChaFile, Ascends
<1>4. ChaKept
  BY <1>1 DEF ChaKept, Tops
<1>5. \A t \in ChatThreads : ChaTurn(t) /\ ChaAlone(t) /\ ChaDue(t)
  BY <1>1, ChaIdle DEF ChaTurn, ChaAlone, ChaDue, ChaAppending
<1> QED BY <1>2, <1>3, <1>4, <1>5 DEF ChaInv

(* What a call that appends nothing may become.                            *)
ChaQuiet(u) ==
  /\ task[u].at # "write" /\ task'[u].at \notin ChaAppending
  /\ task'[u].at = "insert" => task'[u].turn \in ChaTurns
  /\ task'[u].at = "ask" => task'[u].due = {}
  /\ task'[u].at = "answer" => Within(task'[u].due, task'[u].rows)

LEMMA ChaFileStays ==
  ASSUME ChaInv, UNCHANGED file, calls' \in 0..MaxChats, calls' >= calls
  PROVE  ChaFile' /\ Chat!Rows' = Chat!Rows
<1>1. calls \in Int /\ calls' \in Int
  BY ChaAssumed DEF ChaInv, ChaTyped
<1>2. ASSUME file # Torn, NEW i \in 1..Len(file)
      PROVE  file[i] <= calls'
  <2>1. file[i] <= calls /\ file \in Seq(ChaTurns)
    BY <1>2 DEF ChaInv, ChaFile
  <2>2. file[i] \in Int
    BY <2>1, ChaNumbers
  <2> QED BY <1>1, <2>1, <2>2
<1> QED BY <1>2 DEF ChaInv, ChaFile, Chat!Rows

LEMMA ChaMoves ==
  ASSUME ChaInv, \A u \in ChatThreads : task'[u] = task[u] \/ ChaQuiet(u),
         UNCHANGED <<file, kept>>, ChaTyped', calls' >= calls
  PROVE  ChaInv'
<1>0. ChaTyped /\ ChaKept /\ \A u \in ChatThreads : ChaTurn(u) /\ ChaAlone(u) /\ ChaDue(u)
  BY DEF ChaInv
<1>1. calls \in Int /\ calls' \in Int /\ calls' \in 0..MaxChats
  BY <1>0, ChaAssumed DEF ChaTyped
<1>2. ChaFile' /\ Chat!Rows' = Chat!Rows
  BY <1>1, ChaFileStays
<1>3. \A x \in ChatThreads : task'[x].at \in ChaAppending => task[x].at \in ChaAppending /\ task'[x] = task[x]
  BY DEF ChaQuiet
<1>4. ASSUME NEW u \in ChatThreads
      PROVE  (ChaTurn(u) /\ ChaAlone(u) /\ ChaDue(u))'
  <2>1. CASE task'[u] = task[u]
    <3>1. task[u].turn \in Int
      BY <1>0, ChaFields, ChaAssumed
    <3>2. ChaTurn(u)'
      BY <1>0, <1>1, <2>1, <3>1 DEF ChaTurn
    <3>3. ChaDue(u)'
      BY <1>0, <2>1 DEF ChaDue
    <3>4. ChaAlone(u)'
      BY <1>0, <1>3, <2>1 DEF ChaAlone
    <3> QED BY <3>2, <3>3, <3>4
  <2>2. CASE ChaQuiet(u)
    <3>1. task'[u].at \notin ChaAppending
      BY <2>2 DEF ChaQuiet
    <3>2. ChaTurn(u)'
      BY <2>2, <3>1 DEF ChaQuiet, ChaTurn
    <3>3. ChaDue(u)'
      BY <2>2 DEF ChaQuiet, ChaDue
    <3>4. ChaAlone(u)'
      BY <3>1 DEF ChaAlone
    <3> QED BY <3>2, <3>3, <3>4
  <2> QED BY <2>1, <2>2
<1>5. ChaKept'
  <2>1. (\A x \in ChatThreads : task'[x].at # "write") => \A x \in ChatThreads : task[x].at # "write"
    BY DEF ChaQuiet
  <2>2. (\A x \in ChatThreads : task'[x].at # "write") => Tops(kept', Chat!Rows')
    BY <1>0, <1>2, <2>1 DEF ChaKept
  <2>3. kept' # {} => \A x \in ChatThreads : task'[x].at \in ChaAppending => task'[x].alone
    BY <1>0, <1>3 DEF ChaKept
  <2> QED BY <2>2, <2>3 DEF ChaKept
<1> QED BY <1>0, <1>2, <1>4, <1>5 DEF ChaInv

(* Nothing is promised any more.                                           *)
ChaGivenUp(u) ==
  /\ task'[u].at \in ChaAppending => ~task'[u].alone
  /\ task'[u].due = {}

LEMMA ChaGivesUp ==
  ASSUME ChaInv, \A u \in ChatThreads : ChaTurn(u)' /\ ChaGivenUp(u),
         kept' = {}, UNCHANGED file, ChaTyped', calls' >= calls
  PROVE  ChaInv'
<1>1. calls' \in 0..MaxChats
  BY DEF ChaTyped
<1>2. ChaFile'
  BY <1>1, ChaFileStays
<1>3. ASSUME NEW u \in ChatThreads
      PROVE  (ChaTurn(u) /\ ChaAlone(u) /\ ChaDue(u))'
  BY DEF ChaGivenUp, ChaAlone, ChaDue, Within
<1>4. ChaKept'
  BY DEF ChaKept, Tops
<1> QED BY <1>2, <1>3, <1>4 DEF ChaInv

LEMMA ChaWithdrawn ==
  ASSUME ChaInv, NEW u \in ChatThreads, calls' \in 0..MaxChats, calls' >= calls
  PROVE  /\ Chat!Withdrawn[u] \in ChaTask
         /\ task'[u] = Chat!Withdrawn[u] \/ task'[u] = Chat!Idle => ChaTurn(u)' /\ ChaGivenUp(u)
         /\ Chat!Withdrawn[u].at = task[u].at /\ Chat!Withdrawn[u].turn = task[u].turn
         /\ Chat!Withdrawn[u].due = {}
<1>1. task[u] \in ChaTask /\ task[u].turn \in Int /\ ChaTurn(u)
  BY ChaFields, ChaAssumed DEF ChaInv
<1>2. Chat!Withdrawn[u] = [task[u] EXCEPT !.alone = FALSE, !.due = {}]
  BY DEF Chat!Withdrawn
<1>3. /\ Chat!Withdrawn[u] \in ChaTask /\ Chat!Withdrawn[u].at = task[u].at
      /\ Chat!Withdrawn[u].turn = task[u].turn /\ Chat!Withdrawn[u].rows = task[u].rows
      /\ Chat!Withdrawn[u].alone = FALSE /\ Chat!Withdrawn[u].due = {}
  BY <1>1, <1>2 DEF ChaTask
<1>4. calls \in Int /\ calls' \in Int
  BY ChaAssumed DEF ChaInv, ChaTyped
<1>5. ASSUME task'[u] = Chat!Withdrawn[u]
      PROVE  ChaTurn(u)' /\ ChaGivenUp(u)
  BY <1>1, <1>3, <1>4, <1>5 DEF ChaTurn, ChaGivenUp
<1>6. ASSUME task'[u] = Chat!Idle
      PROVE  ChaTurn(u)' /\ ChaGivenUp(u)
  BY <1>6, ChaIdle DEF ChaTurn, ChaGivenUp, ChaAppending
<1> QED BY <1>3, <1>5, <1>6

LEMMA ChaAppendTurn ==
  ASSUME ChaInv, NEW t \in ChatThreads, Chat!AppendTurn(t)
  PROVE  ChaInv'
<1> DEFINE racing == \E u \in ChatThreads : task[u].at \in ChaAppending
           next == [Chat!Idle EXCEPT !.at = "truncate", !.turn = calls + 1, !.rows = Chat!Rows, !.alone = ~racing]
<1>0. ChaTyped /\ ChaFile /\ ChaKept /\ \A u \in ChatThreads : ChaTurn(u) /\ ChaAlone(u) /\ ChaDue(u)
  BY DEF ChaInv
<1>1. /\ task[t].at = "idle" /\ calls < MaxChats /\ calls' = calls + 1
      /\ task' = [(IF racing THEN Chat!Withdrawn ELSE task) EXCEPT ![t] = next]
      /\ kept' = IF racing THEN {} ELSE kept
      /\ UNCHANGED <<file, remote, faults>>
  BY DEF Chat!AppendTurn, Chat!At, Chat!Appending, ChaAppending
<1>2. Chat!Rows \in Seq(ChaTurns) /\ Ascends(Chat!Rows) /\ \A i \in 1..Len(Chat!Rows) : Chat!Rows[i] <= calls
  BY ChaRows
<1>3. calls \in Nat /\ calls' \in ChaTurns /\ calls' \in 0..MaxChats /\ calls' >= calls /\ calls + 1 \in 0..MaxChats
  BY <1>0, <1>1, ChaAssumed DEF ChaTyped, ChaTurns
<1>4. racing \in BOOLEAN
  <2>1. CASE racing
    BY <2>1
  <2>2. CASE ~racing
    BY <2>2
  <2> QED BY <2>1, <2>2
<1>5. /\ next \in ChaTask /\ next.at = "truncate" /\ next.turn = calls' /\ next.rows = Chat!Rows
      /\ next.alone = ~racing /\ next.due = {}
  <2> HIDE DEF racing
  <2>1. (~racing) \in BOOLEAN
    BY <1>4
  <2> QED BY <1>1, <1>2, <1>3, <2>1, ChaIdle DEF ChaTask, ChaPlaces
<1> HIDE DEF next
<1>6. \A i \in 1..Len(Chat!Rows) : Chat!Rows[i] < calls'
  <2>1. \A i \in 1..Len(Chat!Rows) : Chat!Rows[i] \in Int
    BY <1>2, ChaNumbers
  <2> QED BY <1>1, <1>2, <1>3, <2>1
<1>7. CASE racing
  <2>1. task' = [Chat!Withdrawn EXCEPT ![t] = next] /\ kept' = {}
    BY <1>1, <1>7
  <2>2. Chat!Withdrawn \in [ChatThreads -> ChaTask]
    <3>1. \A u \in ChatThreads : Chat!Withdrawn[u] \in ChaTask
      BY <1>3, ChaWithdrawn
    <3> QED BY <3>1 DEF Chat!Withdrawn
  <2>3. task' \in [ChatThreads -> ChaTask] /\ \A u \in ChatThreads : task'[u] = IF u = t THEN next ELSE Chat!Withdrawn[u]
    BY <1>5, <2>1, <2>2
  <2>4. ChaTyped'
    BY <1>0, <1>1, <1>3, <2>1, <2>3 DEF ChaTyped
  <2>5. ChaTurn(t)' /\ ChaGivenUp(t)
    <3>1. task'[t] = next
      BY <2>3
    <3>2. next.turn <= calls' /\ next.turn \in ChaTurns
      BY <1>3, <1>5
    <3> QED BY <1>2, <1>5, <1>6, <1>7, <3>1, <3>2 DEF ChaTurn, ChaGivenUp
  <2>6. \A u \in ChatThreads : ChaTurn(u)' /\ ChaGivenUp(u)
    BY <1>3, <2>3, <2>5, ChaWithdrawn
  <2> QED BY <1>1, <1>3, <2>1, <2>4, <2>6, ChaGivesUp
<1>8. CASE ~racing
  <2>1. task' = [task EXCEPT ![t] = next] /\ kept' = kept /\ next.alone = TRUE
    BY <1>1, <1>4, <1>5, <1>8
  <2>2. \A u \in ChatThreads : task'[u] = IF u = t THEN next ELSE task[u]
    BY <1>0, <2>1 DEF ChaTyped
  <2>3. ChaTyped'
    BY <1>0, <1>1, <1>3, <1>5, <2>1 DEF ChaTyped
  <2>4. \A u \in ChatThreads : task[u].at \notin ChaAppending
    BY <1>8
  <2>5. ChaFile' /\ Chat!Rows' = Chat!Rows
    BY <1>1, <1>3, ChaFileStays
  <2>6. Tops(kept, Chat!Rows)
    BY <1>0, <2>4 DEF ChaKept, ChaAppending
  <2>7. ASSUME NEW u \in ChatThreads
        PROVE  (ChaTurn(u) /\ ChaAlone(u) /\ ChaDue(u))'
    <3>1. CASE u = t
      <4>1. task'[u] = next /\ next.turn <= calls' /\ next.turn \in ChaTurns
        BY <1>3, <1>5, <2>2, <3>1
      <4>2. ChaTurn(u)'
        BY <1>2, <1>5, <1>6, <4>1 DEF ChaTurn
      <4>3. ChaDue(u)'
        BY <1>5, <4>1 DEF ChaDue
      <4>4. ChaAlone(u)'
        BY <1>5, <2>1, <2>2, <2>4, <2>6, <3>1, <4>1 DEF ChaAlone
      <4> QED BY <4>2, <4>3, <4>4
    <3>2. CASE u # t
      <4>1. task'[u] = task[u] /\ task[u].at \notin ChaAppending
        BY <2>2, <2>4, <3>2
      <4> QED BY <1>0, <4>1 DEF ChaTurn, ChaAlone, ChaDue
    <3> QED BY <3>1, <3>2
  <2>8. ChaKept'
    <3>1. \A u \in ChatThreads : task'[u].at \in ChaAppending => task'[u].alone
      BY <2>1, <2>2, <2>4
    <3> QED BY <2>1, <2>5, <2>6, <3>1 DEF ChaKept
  <2> QED BY <2>3, <2>5, <2>7, <2>8 DEF ChaInv
<1> QED BY <1>7, <1>8

LEMMA ChaTruncate ==
  ASSUME ChaInv, NEW t \in ChatThreads, Chat!Truncate(t)
  PROVE  ChaInv'
<1>0. ChaTyped /\ ChaKept /\ \A u \in ChatThreads : ChaTurn(u) /\ ChaAlone(u) /\ ChaDue(u)
  BY DEF ChaInv
<1>1. task[t].at = "truncate" /\ file' = Torn /\ task' = [task EXCEPT ![t].at = "write"] /\ UNCHANGED <<remote, calls, faults, kept>>
  BY DEF Chat!Truncate, Chat!At, Chat!Step
<1>2. /\ task' \in [ChatThreads -> ChaTask]
      /\ \A u \in ChatThreads :
           /\ u # t => task'[u] = task[u]
           /\ task'[u].turn = task[u].turn /\ task'[u].rows = task[u].rows /\ task'[u].alone = task[u].alone
           /\ task'[u].due = task[u].due
           /\ task'[u].at = IF u = t THEN "write" ELSE task[u].at
  <2>1. task[t] \in ChaTask
    BY <1>0, ChaFields
  <2>2. /\ [task[t] EXCEPT !.at = "write"] \in ChaTask
        /\ [task[t] EXCEPT !.at = "write"].at = "write" /\ [task[t] EXCEPT !.at = "write"].turn = task[t].turn
        /\ [task[t] EXCEPT !.at = "write"].rows = task[t].rows /\ [task[t] EXCEPT !.at = "write"].alone = task[t].alone
        /\ [task[t] EXCEPT !.at = "write"].due = task[t].due
    BY <2>1 DEF ChaTask, ChaPlaces
  <2>3. \A u \in ChatThreads : task'[u] = IF u = t THEN [task[t] EXCEPT !.at = "write"] ELSE task[u]
    BY <1>0, <1>1 DEF ChaTyped
  <2>4. task' \in [ChatThreads -> ChaTask]
    BY <1>0, <1>1, <2>2 DEF ChaTyped
  <2> QED BY <2>2, <2>3, <2>4
<1>3. ChaTyped'
  BY <1>0, <1>1, <1>2 DEF ChaTyped
<1>4. ChaFile'
  BY <1>1 DEF ChaFile
<1>5. \A u \in ChatThreads : task'[u].at \in ChaAppending <=> task[u].at \in ChaAppending
  BY <1>1, <1>2 DEF ChaAppending
<1>6. ASSUME NEW u \in ChatThreads
      PROVE  (ChaTurn(u) /\ ChaAlone(u) /\ ChaDue(u))'
  <2>1. ChaTurn(u)'
    BY <1>0, <1>1, <1>2, <1>5 DEF ChaTurn, ChaAppending
  <2>2. ChaDue(u)'
    BY <1>0, <1>2 DEF ChaDue
  <2>3. ChaAlone(u)'
    BY <1>0, <1>1, <1>2, <1>5 DEF ChaAlone
  <2> QED BY <2>1, <2>2, <2>3
<1>7. ChaKept'
  <2>1. task'[t].at = "write"
    BY <1>2
  <2> QED BY <1>0, <1>1, <1>2, <1>5, <2>1 DEF ChaKept
<1> QED BY <1>3, <1>4, <1>6, <1>7 DEF ChaInv

LEMMA ChaWrite ==
  ASSUME ChaInv, NEW t \in ChatThreads, Chat!Write(t)
  PROVE  ChaInv'
<1> DEFINE read == task[t].rows
           all == Append(task[t].rows, task[t].turn)
           turns == Chat!Newest(all, MaxTurns)
<1>0. ChaTyped /\ ChaFile /\ ChaKept /\ \A u \in ChatThreads : ChaTurn(u) /\ ChaAlone(u) /\ ChaDue(u)
  BY DEF ChaInv
<1>1. /\ task[t].at = "write" /\ task' = [task EXCEPT ![t].at = "insert"] /\ UNCHANGED <<remote, calls, faults>>
      /\ file' \in IF file = Torn THEN {turns} ELSE {turns, Torn}
      /\ kept' = IF task[t].alone THEN Chat!NewestOf(kept \cup {task[t].turn}, MaxTurns) ELSE kept
  BY DEF Chat!Write, Chat!At, Chat!Step
<1>2. /\ read \in Seq(ChaTurns) /\ task[t].turn \in ChaTurns /\ task[t].turn <= calls /\ Ascends(read)
      /\ \A i \in 1..Len(read) : read[i] < task[t].turn
  BY <1>0, <1>1, ChaFields DEF ChaTurn, ChaAppending
<1>3. /\ all \in Seq(ChaTurns) /\ Len(read) \in Nat /\ Len(all) = Len(read) + 1
      /\ all[Len(read) + 1] = task[t].turn
      /\ \A k \in 1..Len(read) : all[k] = read[k]
  BY <1>2, AtTheEnd
<1>4. \A i \in 1..Len(all) : i \in 1..Len(read) \/ i = Len(read) + 1
  BY <1>3
<1>5. task[t].turn \in Int /\ calls \in Int
  BY <1>0, <1>2, ChaAssumed DEF ChaTyped, ChaTurns
<1>6. \A i \in 1..Len(read) : read[i] \in Int
  BY <1>2, ChaNumbers
<1> HIDE DEF all
<1>7. Ascends(all)
  <2>1. ASSUME NEW i \in 1..Len(all), NEW j \in 1..Len(all), i < j
        PROVE  all[i] < all[j]
    <3>1. i \in 1..Len(read)
      BY <1>3, <1>4, <2>1
    <3>2. CASE j \in 1..Len(read)
      BY <1>2, <1>3, <2>1, <3>1, <3>2 DEF Ascends
    <3>3. CASE j = Len(read) + 1
      BY <1>2, <1>3, <3>1, <3>3
    <3> QED BY <1>4, <3>2, <3>3
  <2> QED BY <2>1 DEF Ascends
<1>8. /\ turns \in Seq(ChaTurns) /\ Len(turns) <= MaxTurns /\ Ascends(turns)
      /\ \A i \in 1..Len(turns) : turns[i] <= calls
  <2>1. /\ turns \in Seq(ChaTurns) /\ Len(all) \in Nat /\ Len(turns) = (IF Len(all) < MaxTurns THEN Len(all) ELSE MaxTurns)
        /\ \A i \in 1..Len(turns) : turns[i] = all[i + (Len(all) - Len(turns))]
    BY <1>3, ChaAssumed, NewestEnd
  <2>2. Ascends(turns)
    BY <1>3, <1>7, ChaAssumed, AscendsEnd
  <2> HIDE DEF turns
  <2>3. Len(turns) <= MaxTurns /\ Len(turns) \in Nat /\ Len(turns) <= Len(all)
    BY <2>1, ChaAssumed
  <2>4. \A i \in 1..Len(turns) : i + (Len(all) - Len(turns)) \in 1..Len(all)
    BY <2>1, <2>3
  <2>5. \A i \in 1..Len(all) : all[i] <= calls
    BY <1>2, <1>3, <1>4, <1>5, <1>6
  <2>6. ASSUME NEW i \in 1..Len(turns)
        PROVE  turns[i] <= calls
    BY ONLY <2>1, <2>4, <2>5, <2>6
  <2> QED BY <2>1, <2>2, <2>3, <2>6
<1>9. /\ task' \in [ChatThreads -> ChaTask]
      /\ \A u \in ChatThreads : u # t => task'[u] = task[u]
      /\ task'[t].at = "insert" /\ task'[t].turn = task[t].turn
  <2>1. task[t] \in ChaTask
    BY <1>0, ChaFields
  <2>2. /\ [task[t] EXCEPT !.at = "insert"] \in ChaTask
        /\ [task[t] EXCEPT !.at = "insert"].at = "insert" /\ [task[t] EXCEPT !.at = "insert"].turn = task[t].turn
    BY <2>1 DEF ChaTask, ChaPlaces
  <2>3. \A u \in ChatThreads : task'[u] = IF u = t THEN [task[t] EXCEPT !.at = "insert"] ELSE task[u]
    BY <1>0, <1>1 DEF ChaTyped
  <2>4. task' \in [ChatThreads -> ChaTask]
    BY <1>0, <1>1, <2>2 DEF ChaTyped
  <2> QED BY <2>2, <2>3, <2>4
<1>10. ChaFile'
  <2>1. file' = turns \/ file' = Torn
    BY <1>1
  <2> HIDE DEF turns
  <2> QED BY <1>1, <1>8, <2>1 DEF ChaFile
<1>11. \A u \in ChatThreads : task'[u].at \in ChaAppending => u # t /\ task[u].at \in ChaAppending /\ task'[u] = task[u]
  BY <1>9 DEF ChaAppending
<1>12. task[t].at \in ChaAppending
  BY <1>1 DEF ChaAppending
<1>13. ASSUME NEW u \in ChatThreads
       PROVE  (ChaTurn(u) /\ ChaAlone(u) /\ ChaDue(u))'
  <2>1. CASE u = t
    BY <1>2, <1>9, <2>1 DEF ChaTurn, ChaAlone, ChaDue, ChaAppending
  <2>2. CASE u # t
    <3>1. task'[u] = task[u]
      BY <1>9, <2>2
    <3>2. (ChaTurn(u) /\ ChaDue(u))'
      BY <1>0, <1>1, <3>1 DEF ChaTurn, ChaDue
    <3>3. ~(task[u].alone /\ task[u].at \in ChaAppending)
      BY <1>0, <1>12, <2>2 DEF ChaAlone
    <3>4. ChaAlone(u)'
      BY <3>1, <3>3 DEF ChaAlone
    <3> QED BY <3>2, <3>4
  <2> QED BY <2>1, <2>2
<1>14. CASE task[t].alone
  <2> DEFINE S == kept \cup {task[t].turn}
  <2>1. file = Torn /\ Tops(kept, read) /\ \A u \in ChatThreads : u # t => task[u].at \notin ChaAppending
    BY <1>0, <1>1, <1>12, <1>14 DEF ChaAlone
  <2>2. file' = turns /\ kept' = Chat!NewestOf(S, MaxTurns)
    BY <1>1, <1>14, <2>1
  <2>3. S \in SUBSET ChaTurns
    BY <1>0, <1>2 DEF ChaTyped
  <2>4. Tops(S, all)
    <3>1. ASSUME NEW k \in S
          PROVE  \E i \in 1..Len(all) : all[i] = k
      <4>1. CASE k \in kept
        <5>1. PICK i \in 1..Len(read) : read[i] = k
          BY <2>1, <4>1 DEF Tops
        <5>2. i \in 1..Len(all) /\ all[i] = k
          BY <1>3, <5>1
        <5> QED BY <5>2
      <4>2. CASE k = task[t].turn
        <5>1. Len(read) + 1 \in 1..Len(all)
          BY <1>3
        <5> QED BY <1>3, <4>2, <5>1
      <4> QED BY <4>1, <4>2
    <3>2. ASSUME NEW k \in S, NEW i \in 1..Len(all), all[i] >= k
          PROVE  all[i] \in S
      <4>1. CASE i = Len(read) + 1
        BY <1>3, <4>1
      <4>2. CASE i \in 1..Len(read)
        <5>1. all[i] = read[i] /\ read[i] < task[t].turn /\ read[i] \in Int
          BY <1>2, <1>3, <1>6, <4>2
        <5>2. k # task[t].turn
          BY <1>5, <3>2, <5>1
        <5>3. k \in kept
          BY <5>2
        <5> QED BY <2>1, <3>2, <4>2, <5>1, <5>3 DEF Tops
      <4> QED BY <1>4, <4>1, <4>2
    <3> QED BY <3>1, <3>2 DEF Tops
  <2>5. Tops(kept', turns) /\ kept' \in SUBSET ChaTurns
    BY <1>3, <1>7, <2>2, <2>3, <2>4, ChaAssumed, NewestOfEnd
  <2>6. ChaTyped'
    BY <1>0, <1>1, <1>9, <2>5 DEF ChaTyped
  <2>7. Chat!Rows' = turns
    <3>1. turns # Torn
      BY <1>8, ChaAssumed
    <3> QED BY <2>2, <3>1 DEF Chat!Rows
  <2>8. \A u \in ChatThreads : task'[u].at \notin ChaAppending
    BY <1>11, <2>1
  <2>9. ChaKept'
    BY <2>5, <2>7, <2>8 DEF ChaKept
  <2> QED BY <1>10, <1>13, <2>6, <2>9 DEF ChaInv
<1>15. CASE ~task[t].alone
  <2>1. kept = {} /\ kept' = {}
    BY <1>0, <1>1, <1>12, <1>15 DEF ChaKept
  <2>2. ChaTyped'
    BY <1>0, <1>1, <1>9, <2>1 DEF ChaTyped
  <2>3. ChaKept'
    BY <2>1 DEF ChaKept, Tops
  <2> QED BY <1>10, <1>13, <2>2, <2>3 DEF ChaInv
<1> QED BY <1>14, <1>15

LEMMA ChaInsert ==
  ASSUME ChaInv, NEW t \in ChatThreads, Chat!Insert(t)
  PROVE  ChaInv'
<1>0. ChaTyped /\ ChaTurn(t)
  BY DEF ChaInv
<1>1. /\ task[t].at = "insert" /\ (remote' = Append(remote, task[t].turn) \/ remote' = remote)
      /\ task' = [task EXCEPT ![t] = Chat!Idle] /\ UNCHANGED <<file, calls, faults, kept>>
  BY DEF Chat!Insert, Chat!At
<1>2. task[t].turn \in ChaTurns /\ remote \in Seq(ChaTurns)
  BY <1>0, <1>1 DEF ChaTurn, ChaTyped
<1>3. remote' \in Seq(ChaTurns)
  BY <1>1, <1>2, AtTheEnd
<1>4. \A u \in ChatThreads : task'[u] = IF u = t THEN Chat!Idle ELSE task[u]
  BY <1>0, <1>1 DEF ChaTyped
<1>5. ChaTyped'
  BY <1>0, <1>1, <1>3, ChaIdle DEF ChaTyped
<1>6. \A u \in ChatThreads : task'[u] = task[u] \/ ChaQuiet(u)
  BY <1>1, <1>4, ChaIdle DEF ChaQuiet, ChaAppending
<1>7. calls' >= calls
  BY <1>0, <1>1, ChaAssumed DEF ChaTyped
<1> QED BY <1>1, <1>5, <1>6, <1>7, ChaMoves

LEMMA ChaFileFails ==
  ASSUME ChaInv, NEW t \in ChatThreads, Chat!FileFails(t)
  PROVE  ChaInv'
<1>0. ChaTyped /\ ChaTurn(t) /\ \A u \in ChatThreads : ChaTurn(u)
  BY DEF ChaInv
<1>1. /\ task[t].at \in ChaAppending /\ faults < MaxFaults /\ faults' = faults + 1
      /\ task' = [(IF task[t].at = "write" THEN Chat!Withdrawn ELSE task) EXCEPT ![t].at = "insert"]
      /\ kept' = IF task[t].at = "write" THEN {} ELSE kept
      /\ UNCHANGED <<file, remote, calls>>
  BY DEF Chat!FileFails, Chat!At, Chat!Appending, ChaAppending
<1>2. task[t].turn \in ChaTurns
  BY <1>0, <1>1 DEF ChaTurn
<1>3. faults' \in 0..MaxFaults /\ calls' \in 0..MaxChats /\ calls' >= calls
  BY <1>0, <1>1, ChaAssumed DEF ChaTyped
<1>4. \A k \in ChaTask : /\ [k EXCEPT !.at = "insert"] \in ChaTask /\ [k EXCEPT !.at = "insert"].at = "insert"
                         /\ [k EXCEPT !.at = "insert"].turn = k.turn /\ [k EXCEPT !.at = "insert"].due = k.due
  BY DEF ChaTask, ChaPlaces
<1>5. \A u \in ChatThreads : Chat!Withdrawn[u] \in ChaTask
  BY <1>3, ChaWithdrawn
<1>6. CASE task[t].at = "write"
  <2>1. task' = [Chat!Withdrawn EXCEPT ![t].at = "insert"] /\ kept' = {}
    BY <1>1, <1>6
  <2>2. Chat!Withdrawn \in [ChatThreads -> ChaTask]
    BY <1>5 DEF Chat!Withdrawn
  <2>3. /\ task' \in [ChatThreads -> ChaTask]
        /\ \A u \in ChatThreads : u # t => task'[u] = Chat!Withdrawn[u]
        /\ task'[t] = [Chat!Withdrawn[t] EXCEPT !.at = "insert"]
    BY <1>4, <1>5, <2>1, <2>2
  <2>4. ChaTyped'
    BY <1>0, <1>1, <1>3, <2>1, <2>3 DEF ChaTyped
  <2>5. ChaTurn(t)' /\ ChaGivenUp(t)
    <3>1. Chat!Withdrawn[t].turn = task[t].turn /\ Chat!Withdrawn[t].due = {}
      BY <1>3, ChaWithdrawn
    <3>2. task'[t].at = "insert" /\ task'[t].turn = task[t].turn /\ task'[t].due = {}
      BY <1>4, <1>5, <2>3, <3>1
    <3> QED BY <1>2, <3>2 DEF ChaTurn, ChaGivenUp, ChaAppending
  <2>6. \A u \in ChatThreads : ChaTurn(u)' /\ ChaGivenUp(u)
    BY <1>3, <2>3, <2>5, ChaWithdrawn
  <2> QED BY <1>1, <1>3, <2>1, <2>4, <2>6, ChaGivesUp
<1>7. CASE task[t].at # "write"
  <2>1. task' = [task EXCEPT ![t].at = "insert"] /\ kept' = kept
    BY <1>1, <1>7
  <2>2. task[t] \in ChaTask
    BY <1>0, ChaFields
  <2>3. /\ task' \in [ChatThreads -> ChaTask]
        /\ \A u \in ChatThreads : u # t => task'[u] = task[u]
        /\ task'[t] = [task[t] EXCEPT !.at = "insert"]
    BY <1>0, <1>4, <2>1, <2>2 DEF ChaTyped
  <2>4. ChaTyped'
    BY <1>0, <1>1, <1>3, <2>1, <2>3 DEF ChaTyped
  <2>5. task'[t].at = "insert" /\ task'[t].turn = task[t].turn
    BY <1>4, <2>2, <2>3
  <2>6. \A u \in ChatThreads : task'[u] = task[u] \/ ChaQuiet(u)
    BY <1>2, <1>7, <2>3, <2>5 DEF ChaQuiet, ChaAppending
  <2> QED BY <1>1, <1>3, <2>1, <2>4, <2>6, ChaMoves
<1> QED BY <1>6, <1>7

LEMMA ChaHistory ==
  ASSUME ChaInv, NEW t \in ChatThreads, Chat!History(t)
  PROVE  ChaInv'
<1> DEFINE owed == IF \E u \in ChatThreads : task[u].at = "write" THEN {} ELSE Chat!NewestOf(kept, HistoryLimit)
           next == [Chat!Idle EXCEPT !.at = IF Chat!Rows = <<>> THEN "ask" ELSE "answer",
                                     !.rows = Chat!Newest(Chat!Rows, HistoryLimit), !.due = owed]
<1>0. ChaTyped /\ ChaKept
  BY DEF ChaInv
<1>1. /\ task[t].at = "idle" /\ calls < MaxChats /\ calls' = calls + 1
      /\ task' = [task EXCEPT ![t] = next] /\ UNCHANGED <<file, remote, faults, kept>>
  BY DEF Chat!History, Chat!At
<1>2. Chat!Rows \in Seq(ChaTurns) /\ Ascends(Chat!Rows) /\ Len(Chat!Rows) \in Nat
  BY ChaRows
<1>3. Chat!Newest(Chat!Rows, HistoryLimit) \in Seq(ChaTurns)
  BY <1>2, ChaAssumed, NewestEnd
<1>5. ASSUME ~(\E u \in ChatThreads : task[u].at = "write")
      PROVE  /\ Tops(kept, Chat!Rows)
             /\ Tops(Chat!NewestOf(kept, HistoryLimit), Chat!Newest(Chat!Rows, HistoryLimit))
             /\ Chat!NewestOf(kept, HistoryLimit) \in SUBSET ChaTurns
             /\ owed = Chat!NewestOf(kept, HistoryLimit)
  <2>1. Tops(kept, Chat!Rows) /\ kept \in SUBSET ChaTurns
    BY <1>0, <1>5 DEF ChaKept, ChaTyped
  <2>2. owed = Chat!NewestOf(kept, HistoryLimit)
    BY <1>5
  <2> QED BY <1>2, <2>1, <2>2, ChaAssumed, NewestOfEnd
<1>6. owed \in SUBSET ChaTurns /\ Within(owed, Chat!Newest(Chat!Rows, HistoryLimit))
  <2>1. CASE \E u \in ChatThreads : task[u].at = "write"
    <3>1. owed = {}
      BY <2>1
    <3> QED BY <3>1 DEF Within
  <2>2. CASE ~(\E u \in ChatThreads : task[u].at = "write")
    <3> HIDE DEF owed
    <3> QED BY <1>5, <2>2 DEF Tops, Within
  <2> QED BY <2>1, <2>2
<1>7. ASSUME Chat!Rows = <<>>
      PROVE  owed = {}
  <2>1. CASE \E u \in ChatThreads : task[u].at = "write"
    BY <2>1
  <2>2. CASE ~(\E u \in ChatThreads : task[u].at = "write")
    <3>1. owed = Chat!NewestOf(kept, HistoryLimit) /\ Tops(kept, Chat!Rows)
      BY <1>5, <2>2
    <3> HIDE DEF owed
    <3>2. kept = {}
      BY <1>7, <3>1 DEF Tops
    <3>3. Chat!NewestOf(kept, HistoryLimit) \subseteq kept
      BY DEF Chat!NewestOf
    <3> QED BY <3>1, <3>2, <3>3
  <2> QED BY <2>1, <2>2
<1> HIDE DEF owed
<1>8. /\ next \in ChaTask /\ next.rows = Chat!Newest(Chat!Rows, HistoryLimit) /\ next.due = owed
      /\ next.at = IF Chat!Rows = <<>> THEN "ask" ELSE "answer"
  BY <1>3, <1>6, ChaIdle DEF ChaTask, ChaPlaces
<1> HIDE DEF next
<1>9. calls' \in 0..MaxChats /\ calls' >= calls
  BY <1>0, <1>1, ChaAssumed DEF ChaTyped
<1>10. \A u \in ChatThreads : task'[u] = IF u = t THEN next ELSE task[u]
  BY <1>0, <1>1 DEF ChaTyped
<1>11. ChaTyped'
  BY <1>0, <1>1, <1>8, <1>9 DEF ChaTyped
<1>12. ChaQuiet(t)
  <2>1. task'[t] = next
    BY <1>10
  <2>2. next.at \in {"ask", "answer"} /\ (next.at = "ask" => Chat!Rows = <<>>)
    BY <1>8
  <2> QED BY <1>1, <1>6, <1>7, <1>8, <2>1, <2>2 DEF ChaQuiet, ChaAppending
<1> QED BY <1>1, <1>9, <1>10, <1>11, <1>12, ChaMoves

LEMMA ChaAsk ==
  ASSUME ChaInv, NEW t \in ChatThreads, Chat!Ask(t)
  PROVE  ChaInv'
<1>0. ChaTyped /\ ChaDue(t)
  BY DEF ChaInv
<1>1. PICK answer \in {<<>>, Chat!First(remote, HistoryLimit)} :
        task' = [task EXCEPT ![t].at = "answer", ![t].rows = answer]
  BY DEF Chat!Ask
<1>2. task[t].at = "ask" /\ UNCHANGED <<file, remote, calls, faults, kept>>
  BY DEF Chat!Ask, Chat!At
<1>3. answer \in Seq(ChaTurns)
  <2> DEFINE n == IF Len(remote) < HistoryLimit THEN Len(remote) ELSE HistoryLimit
  <2>1. remote \in Seq(ChaTurns) /\ Len(remote) \in Nat
    BY <1>0 DEF ChaTyped
  <2>2. n \in Int /\ n <= Len(remote)
    BY <2>1, ChaAssumed
  <2>3. Chat!First(remote, HistoryLimit) = SubSeq(remote, 1, n)
    BY DEF Chat!First
  <2> HIDE DEF n
  <2>4. \A i \in 1..Len(remote) : remote[i] \in ChaTurns
    BY <2>1, ChaNumbers
  <2>5. \A i \in 1..n : remote[i] \in ChaTurns
    BY <2>1, <2>2, <2>4
  <2>6. SubSeq(remote, 1, n) \in Seq(ChaTurns)
    BY <2>2, <2>5, SubSeqProperties
  <2> QED BY <1>1, <2>3, <2>6, EmptySeq
<1>4. task[t] \in ChaTask /\ task[t].due = {}
  BY <1>0, <1>2, ChaFields DEF ChaDue
<1>5. /\ [task[t] EXCEPT !.at = "answer", !.rows = answer] \in ChaTask
      /\ [task[t] EXCEPT !.at = "answer", !.rows = answer].at = "answer"
      /\ [task[t] EXCEPT !.at = "answer", !.rows = answer].due = {}
  BY <1>3, <1>4 DEF ChaTask, ChaPlaces
<1>6. \A u \in ChatThreads : task'[u] = IF u = t THEN [task[t] EXCEPT !.at = "answer", !.rows = answer] ELSE task[u]
  BY <1>0, <1>1 DEF ChaTyped
<1>7. task' \in [ChatThreads -> ChaTask]
  BY <1>0, <1>1, <1>5 DEF ChaTyped
<1>8. ChaTyped' /\ calls' >= calls
  BY <1>0, <1>2, <1>7, ChaAssumed DEF ChaTyped
<1>9. ChaQuiet(t)
  BY <1>2, <1>5, <1>6 DEF ChaQuiet, ChaAppending, Within
<1> QED BY <1>2, <1>6, <1>8, <1>9, ChaMoves

LEMMA ChaReturn ==
  ASSUME ChaInv, NEW t \in ChatThreads, Chat!Return(t)
  PROVE  ChaInv'
<1>0. ChaTyped
  BY DEF ChaInv
<1>1. task[t].at = "answer" /\ task' = [task EXCEPT ![t] = Chat!Idle] /\ UNCHANGED <<file, remote, calls, faults, kept>>
  BY DEF Chat!Return, Chat!At
<1>2. \A u \in ChatThreads : task'[u] = IF u = t THEN Chat!Idle ELSE task[u]
  BY <1>0, <1>1 DEF ChaTyped
<1>3. ChaTyped' /\ calls' >= calls
  BY <1>0, <1>1, ChaIdle, ChaAssumed DEF ChaTyped
<1>4. ChaQuiet(t)
  BY <1>1, <1>2, ChaIdle DEF ChaQuiet, ChaAppending
<1> QED BY <1>1, <1>2, <1>3, <1>4, ChaMoves

LEMMA ChaKill ==
  ASSUME ChaInv, NEW p \in ChatWorkers, Chat!Kill(p)
  PROVE  ChaInv'
<1> DEFINE hurt == \E t \in ChatThreads : ChatWorkerOf[t] = p /\ task[t].at = "write"
           left == IF hurt THEN Chat!Withdrawn ELSE task
<1>0. ChaTyped
  BY DEF ChaInv
<1>1. /\ faults < MaxFaults /\ faults' = faults + 1
      /\ task' = [t \in ChatThreads |-> IF ChatWorkerOf[t] = p THEN Chat!Idle ELSE left[t]]
      /\ kept' = IF hurt THEN {} ELSE kept
      /\ UNCHANGED <<file, remote, calls>>
  BY DEF Chat!Kill, Chat!At
<1>2. faults' \in 0..MaxFaults /\ calls' \in 0..MaxChats /\ calls' >= calls
  BY <1>0, <1>1, ChaAssumed DEF ChaTyped
<1>3. CASE hurt
  <2>1. kept' = {} /\ \A u \in ChatThreads : task'[u] = IF ChatWorkerOf[u] = p THEN Chat!Idle ELSE Chat!Withdrawn[u]
    BY <1>1, <1>3
  <2>2. \A u \in ChatThreads : task'[u] \in ChaTask /\ ChaTurn(u)' /\ ChaGivenUp(u)
    BY <1>2, <2>1, ChaIdle, ChaWithdrawn
  <2>3. task' \in [ChatThreads -> ChaTask]
    BY <1>1, <2>2
  <2>4. ChaTyped'
    BY <1>0, <1>1, <1>2, <2>1, <2>3 DEF ChaTyped
  <2> QED BY <1>1, <1>2, <2>1, <2>2, <2>4, ChaGivesUp
<1>4. CASE ~hurt
  <2>1. kept' = kept /\ \A u \in ChatThreads : task'[u] = IF ChatWorkerOf[u] = p THEN Chat!Idle ELSE task[u]
    BY <1>1, <1>4
  <2>2. \A u \in ChatThreads : ChatWorkerOf[u] = p => task[u].at # "write"
    BY <1>4
  <2>3. \A u \in ChatThreads : task'[u] \in ChaTask
    BY <1>0, <2>1, ChaIdle, ChaFields
  <2>4. task' \in [ChatThreads -> ChaTask]
    BY <1>1, <2>3
  <2>5. ChaTyped'
    BY <1>0, <1>1, <1>2, <2>1, <2>4 DEF ChaTyped
  <2>6. \A u \in ChatThreads : task'[u] = task[u] \/ ChaQuiet(u)
    BY <2>1, <2>2, ChaIdle DEF ChaQuiet, ChaAppending
  <2> QED BY <1>1, <1>2, <2>1, <2>5, <2>6, ChaMoves
<1> QED BY <1>3, <1>4

LEMMA ChaActs ==
  ASSUME ChaInv, Chat!Next
  PROVE  ChaInv'
BY ChaAppendTurn, ChaTruncate, ChaWrite, ChaInsert, ChaFileFails, ChaHistory, ChaAsk, ChaReturn, ChaKill DEF Chat!Next

LEMMA ChaStep ==
  ASSUME ChaInv, [Chat!Next]_(Chat!vars)
  PROVE  ChaInv'
<1>1. CASE UNCHANGED Chat!vars
  <2>1. UNCHANGED <<file, remote, task, calls, faults, kept>>
    BY <1>1 DEF Chat!vars
  <2> QED BY <1>1, <2>1 DEF ChaInv, ChaTyped, ChaFile, ChaKept, ChaTurn, ChaAlone, ChaDue, Chat!Rows
<1> QED BY <1>1, ChaActs

LEMMA ChaPromised ==
  ASSUME ChaInv
  PROVE  Chat!TypeOK /\ Chat!TurnsKept /\ Chat!FileInOrder /\ Chat!HistoryIsCurrent
<1>0. ChaTyped /\ ChaFile /\ ChaKept
  BY DEF ChaInv
<1>1. \A s \in Seq(ChaTurns) : DOMAIN s = 1..Len(s)
  OBVIOUS
<1>2. ASSUME NEW s \in Seq(ChaTurns), NEW S, Within(S, s)
      PROVE  S \subseteq Chat!ToSet(s)
  BY <1>1, <1>2 DEF Within, Chat!ToSet
<1>3. Chat!TypeOK
  <2>1. file = Torn \/ (file \in Seq(ChaTurns) /\ Len(file) <= MaxTurns)
    BY <1>0 DEF ChaFile
  <2> QED BY <1>0, <2>1, ChaFields DEF Chat!TypeOK, ChaTyped, Chat!Turns, ChaTurns, Chat!Appending, ChaPlaces
<1>4. Chat!TurnsKept
  <2>1. ASSUME \A t \in ChatThreads : task[t].at # "write"
        PROVE  Within(kept, Chat!Rows)
    BY <1>0, <2>1 DEF ChaKept, Tops, Within
  <2> QED BY <1>2, <2>1, ChaRows DEF Chat!TurnsKept, Chat!At
<1>5. Chat!FileInOrder
  <2>1. file # Torn => file \in Seq(ChaTurns) /\ Ascends(file)
    BY <1>0 DEF ChaFile
  <2> QED BY <1>1, <2>1 DEF Chat!FileInOrder, Chat!Increasing, Ascends
<1>6. Chat!HistoryIsCurrent
  <2>1. ASSUME NEW t \in ChatThreads, task[t].at = "answer"
        PROVE  Within(task[t].due, task[t].rows) /\ task[t].rows \in Seq(ChaTurns)
    BY <1>0, <2>1, ChaFields DEF ChaInv, ChaDue
  <2> QED BY <1>2, <2>1 DEF Chat!HistoryIsCurrent, Chat!At
<1> QED BY <1>3, <1>4, <1>5, <1>6

(* The turns of one chat: those no other worker disturbed stay until newer *)
(* ones displace them, the file is in their order, and no history that     *)
(* begins while nobody rewrites it answers without the newest of them.     *)
THEOREM ChatKept == Chat!Spec => [](Chat!TypeOK /\ Chat!TurnsKept /\ Chat!FileInOrder /\ Chat!HistoryIsCurrent)
<1>1. Chat!Init => ChaInv
  BY ChaStart
<1>2. ChaInv /\ [Chat!Next]_(Chat!vars) => ChaInv'
  BY ChaStep
<1> QED BY <1>1, <1>2, ChaPromised, PTL DEF Chat!Spec

-----------------------------------------------------------------------------
(***************************************************************************)
(* The citations of a memo: every verdict is one the report gives reason   *)
(* for, and the gauge is of the verdicts it was made from.                 *)
(***************************************************************************)
Citations == INSTANCE CitationCheck WITH Names <- Named

ASSUME CitationParameters == Citations!CitationAssumption

Verdicts ==
  [cited : Citations!Texts, kind : Citations!Kinds \cup {"unknown"}, jev : BOOLEAN, status : Citations!Statuses]

CitEarned(x) ==
  LET said == Citations!Says(x.cited) IN
  ~x.jev =>
    /\ x.status = "verified" => \E y \in said : Citations!Agrees(x.cited, y)
    /\ x.status = "value_mismatch" => \E y \in said : y = None \/ ~Citations!Agrees(x.cited, y)
    /\ x.status = "concept_missing" => said = {}
    /\ x.status = "uncheckable" => x.cited.shape = "other"

CitationsInv ==
  /\ report \in Reports /\ memo \in Seq(Citations!Texts) /\ checks \in Seq(Verdicts)
  /\ \E m \in Memos : \E k \in 0..Len(m) : memo = SubSeq(m, k + 1, Len(m)) /\ Len(checks) = k
  /\ \A k \in DOMAIN checks : CitEarned(checks[k])
  /\ gauge # None =>
       /\ memo = <<>>
       /\ gauge = [verified |-> Citations!Count({"verified"}),
                   checkable |-> Citations!Count(Citations!Statuses \ {"uncheckable"})]

(* A finite set of numbers has a least one.                                *)
LEMMA HasLeast ==
  ASSUME NEW S, S \subseteq Nat, IsFiniteSet(S), S # {}
  PROVE  \E m \in S : \A k \in S : m <= k
<1> DEFINE below == [m \in S |-> {k \in S : k < m}]
           T == {below[m] : m \in S}
<1>1. IsWellFoundedOn(StrictSubsetOrdering(S), FiniteSubsetsOf(S))
  BY FS_StrictSubsetOrderingWellFounded
<1>2. \A m \in S : below[m] \in SUBSET S /\ below[m] \in T
  OBVIOUS
<1>3. T \subseteq FiniteSubsetsOf(S) /\ T # {}
  <2>1. \A U \in SUBSET S : IsFiniteSet(U)
    BY FS_Subset
  <2> QED BY <1>2, <2>1 DEF FiniteSubsetsOf
<1>4. \E U \in T : \A V \in T : ~(<<V, U>> \in StrictSubsetOrdering(S))
  <2> HIDE DEF T, below
  <2> QED BY <1>1, <1>3, WFMin
<1>5. PICK m \in S : \A V \in T : ~(<<V, below[m]>> \in StrictSubsetOrdering(S))
  BY <1>4
<1>6. ASSUME NEW k \in S, k < m
      PROVE  FALSE
  <2>0. /\ below[k] = {y \in S : y < k} /\ below[m] = {y \in S : y < m}
        /\ k \in Nat /\ m \in Nat /\ \A y \in S : y \in Nat
    OBVIOUS
  <2>1. below[k] \in SUBSET below[m] /\ k \in below[m] /\ k \notin below[k]
    <3> HIDE DEF below, T
    <3>1. ASSUME NEW y \in below[k]
          PROVE  y \in below[m]
      <4>1. y \in S /\ y < k
        BY <2>0
      <4>2. y \in Nat
        BY <2>0, <4>1
      <4>3. y < m
        BY <1>6, <2>0, <4>1, <4>2
      <4> QED BY <2>0, <4>1, <4>3
    <3>2. k \in below[m] /\ k \notin below[k]
      BY <1>6, <2>0
    <3> QED BY <3>1, <3>2
  <2>2. <<below[k], below[m]>> \in StrictSubsetOrdering(S)
    BY <1>2, <2>1 DEF StrictSubsetOrdering
  <2> QED BY <1>2, <1>5, <2>2
<1> QED BY <1>6

LEMMA CitFirst ==
  ASSUME NEW n \in Nat, NEW S, S \subseteq 1..n, S # {}
  PROVE  Citations!First(S) \in S /\ \A k \in S : Citations!First(S) <= k
<1>1. IsFiniteSet(1..n)
  BY FS_Interval
<1>2. IsFiniteSet(S)
  BY <1>1, FS_Subset
<1>3. S \subseteq Nat
  OBVIOUS
<1> QED BY <1>2, <1>3, HasLeast DEF Citations!First

(* What the report holds, where there is one.                              *)
LEMMA CitReport ==
  ASSUME CitationsInv, report # None
  PROVE  /\ {report.facts, report.metrics, report.path} \subseteq [Named -> Citations!Values]
         /\ \A seq \in {report.citations, report.sections, report.earnings, report.exa} :
              Len(seq) \in Nat /\ DOMAIN seq = 1..Len(seq)
BY CitationParameters DEF CitationsInv, Citations!CitationAssumption

LEMMA CitXbrl ==
  ASSUME CitationsInv, NEW c \in Citations!Texts, c.shape = "xbrl"
  PROVE  LET says == Citations!CheckXbrl(c, report) IN
         /\ says \in Citations!Statuses \ {"uncheckable"}
         /\ says = "verified" => \E y \in Citations!Says(c) : Citations!Agrees(c, y)
         /\ says = "value_mismatch" => \E y \in Citations!Says(c) : y = None \/ ~Citations!Agrees(c, y)
         /\ says = "concept_missing" => Citations!Says(c) = {}
<1> DEFINE cands == Candidates[c.name]
           In(part) == {k \in DOMAIN cands : part[cands[k]] # None}
           found == Citations!Found(cands, report.facts, report.metrics)
<1>1. c.name \in Named /\ c.name # None /\ c.value # None
  BY DEF Citations!Texts
<1>2. Len(cands) \in Nat /\ DOMAIN cands = 1..Len(cands)
  BY <1>1, CitationParameters DEF Citations!CitationAssumption
<1>3. CASE report = None
  BY <1>1, <1>3 DEF Citations!CheckXbrl, Citations!Says, Citations!Statuses
<1>4. CASE report # None
  <2>1. Citations!Says(c) =
          {part[n] : part \in {report.facts, report.metrics}, n \in {cands[k] : k \in DOMAIN cands}} \ {None}
    BY <1>4 DEF Citations!Says
  <2>2. \A part : In(part) # {} => Citations!First(In(part)) \in In(part)
    BY <1>2, CitFirst
  <2>3. ASSUME NEW part \in {report.facts, report.metrics}, In(part) # {}
        PROVE  /\ part[cands[Citations!First(In(part))]] \in Citations!Says(c)
               /\ part[cands[Citations!First(In(part))]] # None
    <3>1. Citations!First(In(part)) \in In(part)
      BY <2>2, <2>3
    <3>2. \A n \in {cands[k] : k \in DOMAIN cands} : part[n] # None => part[n] \in Citations!Says(c)
      BY <2>1
    <3> QED BY <3>1, <3>2
  <2>4. found # None => found \in Citations!Says(c)
    BY <2>3 DEF Citations!Found
  <2>5. found = None => Citations!Says(c) = {}
    <3>1. found = None => In(report.facts) = {} /\ In(report.metrics) = {}
      BY <2>3 DEF Citations!Found
    <3> QED BY <2>1, <3>1
  <2>6. Citations!CheckXbrl(c, report) =
          IF found = None THEN "concept_missing" ELSE Citations!Compared(c.value, found)
    BY <1>1, <1>4 DEF Citations!CheckXbrl
  <2>7. found # None =>
          /\ Citations!Agrees(c, found) <=> Citations!Match(c.value, found)
    BY <1>1 DEF Citations!Agrees
  <2> HIDE DEF found, cands
  <2> QED BY <2>4, <2>5, <2>6, <2>7 DEF Citations!Compared, Citations!Statuses
<1> QED BY <1>3, <1>4

LEMMA CitTrend ==
  ASSUME CitationsInv, NEW c \in Citations!Texts, c.shape = "trend"
  PROVE  LET says == Citations!CheckTrend(c, report) IN
         /\ says \in Citations!Statuses \ {"uncheckable"}
         /\ says = "verified" => \E y \in Citations!Says(c) : Citations!Agrees(c, y)
         /\ says = "value_mismatch" => \E y \in Citations!Says(c) : y = None \/ ~Citations!Agrees(c, y)
         /\ says = "concept_missing" => Citations!Says(c) = {}
<1>1. c.name # None /\ c.value # None
  BY DEF Citations!Texts
<1>2. Citations!Says(c) = IF report = None THEN {} ELSE {report.path[c.name]} \ {None}
  BY DEF Citations!Says
<1>3. Citations!Match(c.value, report.path[c.name]) => Citations!Agrees(c, report.path[c.name])
  BY DEF Citations!Agrees
<1>4. report.path[c.name] # None /\ ~Citations!Match(c.value, report.path[c.name])
      => ~Citations!Agrees(c, report.path[c.name])
  BY <1>1 DEF Citations!Agrees
<1> QED BY <1>1, <1>2, <1>3, <1>4 DEF Citations!CheckTrend, Citations!Compared, Citations!Statuses

(* Whether or not an entry is dated, its date earns the verdict.           *)
LEMMA CitDated ==
  ASSUME NEW c \in Citations!Texts, c.shape \notin {"xbrl", "trend"}, NEW x
  PROVE  /\ Citations!Dated(c.value, x) \in {"verified", "value_mismatch"}
         /\ Citations!Dated(c.value, x) = "verified" => Citations!Agrees(c, x)
         /\ Citations!Dated(c.value, x) = "value_mismatch" => ~Citations!Agrees(c, x)
BY DEF Citations!Dated, Citations!Agrees

LEMMA CitFiling ==
  ASSUME CitationsInv, NEW c \in Citations!Texts, c.shape = "filing"
  PROVE  LET says == Citations!CheckFiling(c, report) IN
         /\ says \in Citations!Statuses \ {"uncheckable"}
         /\ says = "verified" => \E y \in Citations!Says(c) : Citations!Agrees(c, y)
         /\ says = "value_mismatch" => \E y \in Citations!Says(c) : y = None \/ ~Citations!Agrees(c, y)
         /\ says = "concept_missing" => Citations!Says(c) = {}
<1> DEFINE hits == {k \in DOMAIN report.citations :
                      report.citations[k].form = c.form /\ Citations!Mentions(c.name, report.citations[k].item)}
           date == report.citations[Citations!First(hits)].filed
<1>1. c.form # None /\ c.name # None
  BY DEF Citations!Texts
<1>2. Citations!Says(c) = IF report = None THEN {} ELSE {report.citations[k].filed : k \in hits}
  BY DEF Citations!Says
<1>3. report # None /\ hits # {} => Citations!First(hits) \in hits
  BY CitFirst, CitReport
<1>4. report # None /\ hits # {} => date \in Citations!Says(c)
  BY <1>2, <1>3
<1>5. report # None /\ hits = {} => Citations!Says(c) = {}
  BY <1>2
<1>6. Citations!CheckFiling(c, report) =
        IF report = None \/ hits = {} THEN "concept_missing" ELSE Citations!Dated(c.value, date)
  BY <1>1 DEF Citations!CheckFiling
<1> HIDE DEF hits, date
<1> QED BY <1>2, <1>4, <1>5, <1>6, CitDated DEF Citations!Statuses

LEMMA CitSection ==
  ASSUME CitationsInv, NEW c \in Citations!Texts, c.shape = "8-K"
  PROVE  LET says == Citations!CheckSection(c, report) IN
         /\ says \in Citations!Statuses \ {"uncheckable"}
         /\ says = "verified" => \E y \in Citations!Says(c) : Citations!Agrees(c, y)
         /\ says = "value_mismatch" => \E y \in Citations!Says(c) : y = None \/ ~Citations!Agrees(c, y)
         /\ says = "concept_missing" => Citations!Says(c) = {}
<1> DEFINE hits == {k \in DOMAIN report.sections : Citations!Mentions(c.name, report.sections[k].item)}
           listed == {k \in DOMAIN report.earnings : Citations!Mentions(c.name, report.earnings[k].item)}
           date == report.sections[Citations!First(hits)].filed
<1>1. c.name # None
  BY DEF Citations!Texts
<1>2. Citations!Says(c) =
        IF report = None THEN {} ELSE {report.sections[k].filed : k \in hits} \cup {None : k \in listed}
  BY DEF Citations!Says
<1>3. report # None /\ hits # {} => Citations!First(hits) \in hits
  BY CitFirst, CitReport
<1>4. report # None /\ hits # {} => date \in Citations!Says(c)
  BY <1>2, <1>3
<1>5. report # None /\ hits = {} => Citations!Says(c) = {None : k \in listed}
  BY <1>2
<1>6. Citations!CheckSection(c, report) =
        IF report = None THEN "concept_missing"
        ELSE IF hits # {} THEN Citations!Dated(c.value, date)
        ELSE IF listed # {} THEN "verified" ELSE "concept_missing"
  BY <1>1 DEF Citations!CheckSection, Citations!SameItem
<1>7. Citations!Agrees(c, None)
  BY DEF Citations!Agrees
<1> HIDE DEF hits, date, listed
<1> QED BY <1>2, <1>4, <1>5, <1>6, <1>7, CitDated DEF Citations!Statuses

LEMMA CitExa ==
  ASSUME CitationsInv, NEW c \in Citations!Texts, c.shape = "exa"
  PROVE  LET says == Citations!CheckExa(c, report) IN
         /\ says \in Citations!Statuses \ {"uncheckable"}
         /\ says = "verified" => \E y \in Citations!Says(c) : Citations!Agrees(c, y)
         /\ says = "value_mismatch" => \E y \in Citations!Says(c) : y = None \/ ~Citations!Agrees(c, y)
         /\ says = "concept_missing" => Citations!Says(c) = {}
<1> DEFINE hits == {k \in DOMAIN report.exa : Citations!Mentions(c.name, report.exa[k].domain)}
<1>1. c.name # None
  BY DEF Citations!Texts
<1>2. Citations!Says(c) = IF report = None THEN {} ELSE {report.exa[k].date : k \in hits}
  BY DEF Citations!Says
<1>3. \A x : Citations!Agrees(c, x) <=> (c.value = None \/ x = None \/ c.value = x)
  BY DEF Citations!Agrees
<1>4. Citations!CheckExa(c, report) =
        IF report = None \/ hits = {} THEN "concept_missing"
        ELSE IF c.value = None \/ \E k \in hits : report.exa[k].date = c.value THEN "verified"
        ELSE "value_mismatch"
  BY <1>1 DEF Citations!CheckExa
<1>5. report # None /\ hits = {} => Citations!Says(c) = {}
  BY <1>2
<1>6. ASSUME report # None, hits # {}
      PROVE  /\ c.value = None \/ (\E k \in hits : report.exa[k].date = c.value) =>
                  \E y \in Citations!Says(c) : Citations!Agrees(c, y)
             /\ ~(c.value = None \/ \E k \in hits : report.exa[k].date = c.value) =>
                  \E y \in Citations!Says(c) : y = None \/ ~Citations!Agrees(c, y)
  BY <1>2, <1>3, <1>6
<1> HIDE DEF hits
<1> QED BY <1>2, <1>4, <1>5, <1>6 DEF Citations!Statuses

LEMMA CitCalendar ==
  ASSUME CitationsInv, NEW c \in Citations!Texts, c.shape = "calendar"
  PROVE  LET says == Citations!CheckCalendar(report) IN
         /\ says \in Citations!Statuses \ {"uncheckable"}
         /\ says = "verified" => \E y \in Citations!Says(c) : Citations!Agrees(c, y)
         /\ says = "value_mismatch" => \E y \in Citations!Says(c) : y = None \/ ~Citations!Agrees(c, y)
         /\ says = "concept_missing" => Citations!Says(c) = {}
BY DEF Citations!CheckCalendar, Citations!Says, Citations!Agrees, Citations!Statuses

(* The pattern that comes first is the text's own.                         *)
LEMMA CitKind ==
  ASSUME NEW c \in Citations!Texts, NEW answer
  PROVE  LET info == Citations!Classify(c, answer) IN
         /\ Citations!Patterns(c) = {} <=> c.shape = "other"
         /\ c.shape = "other" => info.kind = answer
         /\ c.shape # "other" =>
              /\ info.form = c.form /\ info.name = c.name /\ info.value = c.value
              /\ info.kind =
                   CASE c.shape = "xbrl" -> "sec_xbrl" [] c.shape = "trend" -> "sec_trend_pack"
                     [] c.shape = "filing" -> "sec_filing" [] c.shape = "8-K" -> "sec_earnings_section"
                     [] c.shape = "calendar" -> "earnings_calendar" [] OTHER -> "exa"
<1> DEFINE hits == {k \in DOMAIN Citations!Ladder : Citations!Ladder[k] \in Citations!Patterns(c)}
<1>1. c.shape \in Citations!Shapes
  BY DEF Citations!Texts
<1>2. /\ DOMAIN Citations!Ladder = 1..6
      /\ Citations!Ladder[1] = "sec_earnings_section" /\ Citations!Ladder[2] = "sec_xbrl"
      /\ Citations!Ladder[3] = "sec_filing" /\ Citations!Ladder[4] = "sec_trend_pack"
      /\ Citations!Ladder[5] = "earnings_calendar" /\ Citations!Ladder[6] = "exa"
  BY DEF Citations!Ladder
<1>3. \A k \in DOMAIN Citations!Ladder : k = 1 \/ k = 2 \/ k = 3 \/ k = 4 \/ k = 5 \/ k = 6
  BY <1>2
<1>4. CASE c.shape = "other"
  <2>1. Citations!Patterns(c) = {}
    BY <1>4 DEF Citations!Patterns
  <2> QED BY <1>4, <2>1 DEF Citations!Classify
<1>5. ASSUME NEW k \in 1..6, hits = {k}
      PROVE  Citations!First(hits) = k
  <2>1. hits \subseteq 1..6 /\ hits # {}
    BY <1>5
  <2>2. Citations!First(hits) \in hits
    BY <2>1, CitFirst
  <2> QED BY <1>5, <2>2
<1>6. ASSUME hits = {1, 3}
      PROVE  Citations!First(hits) = 1
  <2>1. hits \subseteq 1..6 /\ hits # {}
    BY <1>6
  <2>2. Citations!First(hits) \in hits /\ \A k \in hits : Citations!First(hits) <= k
    BY <2>1, CitFirst
  <2> QED BY <1>6, <2>2
<1>7. ASSUME c.shape # "other", NEW k \in 1..6, Citations!First(hits) = k, hits # {}
      PROVE  /\ Citations!Classify(c, answer).kind = Citations!Ladder[k]
             /\ Citations!Classify(c, answer).form = c.form /\ Citations!Classify(c, answer).name = c.name
             /\ Citations!Classify(c, answer).value = c.value
  BY <1>7 DEF Citations!Classify
<1>8. CASE c.shape = "8-K"
  <2>1. Citations!Patterns(c) = {"sec_earnings_section"} \/ Citations!Patterns(c) = {"sec_earnings_section", "sec_filing"}
    BY <1>8 DEF Citations!Patterns
  <2>2. hits = {1} \/ hits = {1, 3}
    BY <1>2, <1>3, <2>1
  <2>3. Citations!First(hits) = 1 /\ hits # {}
    BY <1>5, <1>6, <2>2
  <2> QED BY <1>2, <1>7, <1>8, <2>1, <2>3
<1>9. CASE c.shape = "xbrl"
  <2>1. Citations!Patterns(c) = {"sec_xbrl"}
    BY <1>9 DEF Citations!Patterns
  <2>2. hits = {2}
    BY <1>2, <1>3, <2>1
  <2> QED BY <1>2, <1>5, <1>7, <1>9, <2>1, <2>2
<1>10. CASE c.shape = "trend"
  <2>1. Citations!Patterns(c) = {"sec_trend_pack"}
    BY <1>10 DEF Citations!Patterns
  <2>2. hits = {4}
    BY <1>2, <1>3, <2>1
  <2> QED BY <1>2, <1>5, <1>7, <1>10, <2>1, <2>2
<1>11. CASE c.shape = "filing"
  <2>1. Citations!Patterns(c) = {"sec_filing"}
    BY <1>11 DEF Citations!Patterns
  <2>2. hits = {3}
    BY <1>2, <1>3, <2>1
  <2> QED BY <1>2, <1>5, <1>7, <1>11, <2>1, <2>2
<1>12. CASE c.shape = "calendar"
  <2>1. Citations!Patterns(c) = {"earnings_calendar"}
    BY <1>12 DEF Citations!Patterns
  <2>2. hits = {5}
    BY <1>2, <1>3, <2>1
  <2> QED BY <1>2, <1>5, <1>7, <1>12, <2>1, <2>2
<1>13. CASE c.shape = "exa"
  <2>1. Citations!Patterns(c) = {"exa"}
    BY <1>13 DEF Citations!Patterns
  <2>2. hits = {6}
    BY <1>2, <1>3, <2>1
  <2> QED BY <1>2, <1>5, <1>7, <1>13, <2>1, <2>2
<1> QED BY <1>1, <1>4, <1>8, <1>9, <1>10, <1>11, <1>12, <1>13 DEF Citations!Shapes

(* A checker reads the fields of a text and no more.                       *)
LEMMA CitChecks ==
  ASSUME CitationsInv, NEW c \in Citations!Texts, NEW answer \in Citations!Kinds \cup {"unknown"},
         Citations!Patterns(c) # {} => answer = "unknown"
  PROVE  CitEarned([cited |-> c, kind |-> Citations!Classify(c, answer).kind,
                    jev |-> Citations!Patterns(c) = {} /\ answer # "unknown",
                    status |-> Citations!Status(Citations!Classify(c, answer), report)])
<1> DEFINE info == Citations!Classify(c, answer)
           says == Citations!Status(info, report)
<1>1. c.shape \in Citations!Shapes
  BY DEF Citations!Texts
<1>2. ASSUME c.shape # "other"
      PROVE  /\ says \in Citations!Statuses \ {"uncheckable"}
             /\ says = "verified" => \E y \in Citations!Says(c) : Citations!Agrees(c, y)
             /\ says = "value_mismatch" => \E y \in Citations!Says(c) : y = None \/ ~Citations!Agrees(c, y)
             /\ says = "concept_missing" => Citations!Says(c) = {}
  <2>0. info.form = c.form /\ info.name = c.name /\ info.value = c.value
    BY <1>2, CitKind
  <2>1. CASE c.shape = "xbrl"
    <3>1. says = Citations!CheckXbrl(info, report)
      BY <2>1, CitKind DEF Citations!Status
    <3>2. says = Citations!CheckXbrl(c, report)
      BY <2>0, <3>1 DEF Citations!CheckXbrl
    <3> QED BY <2>1, <3>2, CitXbrl
  <2>2. CASE c.shape = "trend"
    <3>1. says = Citations!CheckTrend(info, report)
      BY <2>2, CitKind DEF Citations!Status
    <3>2. says = Citations!CheckTrend(c, report)
      BY <2>0, <3>1 DEF Citations!CheckTrend
    <3> QED BY <2>2, <3>2, CitTrend
  <2>3. CASE c.shape = "filing"
    <3>1. says = Citations!CheckFiling(info, report)
      BY <2>3, CitKind DEF Citations!Status
    <3>2. says = Citations!CheckFiling(c, report)
      BY <2>0, <3>1 DEF Citations!CheckFiling
    <3> QED BY <2>3, <3>2, CitFiling
  <2>4. CASE c.shape = "8-K"
    <3>1. says = Citations!CheckSection(info, report)
      BY <2>4, CitKind DEF Citations!Status
    <3>2. says = Citations!CheckSection(c, report)
      BY <2>0, <3>1 DEF Citations!CheckSection
    <3> QED BY <2>4, <3>2, CitSection
  <2>5. CASE c.shape = "calendar"
    <3>1. says = Citations!CheckCalendar(report)
      BY <2>5, CitKind DEF Citations!Status
    <3> QED BY <2>5, <3>1, CitCalendar
  <2>6. CASE c.shape = "exa"
    <3>1. says = Citations!CheckExa(info, report)
      BY <2>6, CitKind DEF Citations!Status
    <3>2. says = Citations!CheckExa(c, report)
      BY <2>0, <3>1 DEF Citations!CheckExa
    <3> QED BY <2>6, <3>2, CitExa
  <2> QED BY <1>1, <1>2, <2>1, <2>2, <2>3, <2>4, <2>5, <2>6 DEF Citations!Shapes
<1>3. ASSUME c.shape = "other", answer = "unknown"
      PROVE  says = "uncheckable"
  BY <1>3, CitKind DEF Citations!Status
<1>4. Citations!Patterns(c) = {} <=> c.shape = "other"
  BY CitKind
<1> HIDE DEF info, says
<1>5. CASE c.shape = "other" /\ answer # "unknown"
  BY <1>4, <1>5 DEF CitEarned
<1>6. CASE c.shape = "other" /\ answer = "unknown"
  BY <1>3, <1>6 DEF CitEarned, info, says
<1>7. CASE c.shape # "other"
  BY <1>2, <1>7 DEF CitEarned, info, says, Citations!Statuses
<1> QED BY <1>5, <1>6, <1>7

LEMMA CitationsStart ==
  ASSUME Citations!Init
  PROVE  CitationsInv
<1>1. memo \in Memos /\ memo \in Seq(Citations!Texts) /\ checks = <<>> /\ gauge = None /\ report \in Reports
  BY CitationParameters DEF Citations!Init, Citations!CitationAssumption
<1>2. memo = SubSeq(memo, 1, Len(memo)) /\ 0 \in 0..Len(memo) /\ Len(checks) = 0
  BY <1>1
<1>3. \E m \in Memos : \E k \in 0..Len(m) : memo = SubSeq(m, k + 1, Len(m)) /\ Len(checks) = k
  BY <1>1, <1>2
<1> QED BY <1>1, <1>3 DEF CitationsInv

(* The report does not change, and so not what it gives reason for.        *)
LEMMA CitStays ==
  ASSUME UNCHANGED report
  PROVE  \A x : CitEarned(x)' <=> CitEarned(x')
BY DEF CitEarned, Citations!Says

(* A check takes the next text of the memo and adds its verdict.           *)
LEMMA CitationsCheck ==
  ASSUME CitationsInv, NEW answer \in Citations!Kinds \cup {"unknown"}, Citations!Check(answer)
  PROVE  CitationsInv'
<1> DEFINE text == Head(memo)
           info == Citations!Classify(text, answer)
           verdict == [cited |-> text, kind |-> info.kind, jev |-> Citations!Patterns(text) = {} /\ answer # "unknown",
                       status |-> Citations!Status(info, report)]
<1>0. /\ memo # <<>> /\ memo' = Tail(memo) /\ checks' = Append(checks, verdict) /\ report' = report /\ gauge' = gauge
      /\ Citations!Patterns(text) # {} => answer = "unknown"
      /\ gauge = None
  BY DEF Citations!Check, CitationsInv
<1>1. text \in Citations!Texts /\ Tail(memo) \in Seq(Citations!Texts)
  BY <1>0 DEF CitationsInv
<1>2. CitEarned(verdict)
  BY <1>0, <1>1, CitChecks
<1>3. verdict \in Verdicts
  <2>1. info.kind \in Citations!Kinds \cup {"unknown"}
    BY <1>1, CitKind DEF Citations!Texts, Citations!Shapes, Citations!Kinds
  <2>2. Citations!Status(info, report) \in Citations!Statuses
    <3>1. \A x, y : Citations!Dated(x, y) \in Citations!Statuses /\ Citations!Compared(x, y) \in Citations!Statuses
      BY DEF Citations!Dated, Citations!Compared, Citations!Statuses
    <3>2. /\ Citations!CheckXbrl(info, report) \in Citations!Statuses
          /\ Citations!CheckTrend(info, report) \in Citations!Statuses
          /\ Citations!CheckFiling(info, report) \in Citations!Statuses
      BY <3>1 DEF Citations!CheckXbrl, Citations!CheckTrend, Citations!CheckFiling, Citations!Statuses
    <3>3. /\ Citations!CheckSection(info, report) \in Citations!Statuses
          /\ Citations!CheckCalendar(report) \in Citations!Statuses
          /\ Citations!CheckExa(info, report) \in Citations!Statuses
      BY <3>1 DEF Citations!CheckSection, Citations!CheckCalendar, Citations!CheckExa, Citations!Statuses
    <3> HIDE DEF info
    <3> QED BY <3>2, <3>3, <2>1 DEF Citations!Status, Citations!Kinds, Citations!Statuses
  <2> QED BY <1>1, <2>1, <2>2 DEF Verdicts
<1> HIDE DEF verdict
<1>4. /\ checks \in Seq(Verdicts) /\ Append(checks, verdict) \in Seq(Verdicts)
      /\ DOMAIN Append(checks, verdict) = 1..(Len(checks) + 1)
      /\ Len(checks) \in Nat /\ DOMAIN checks = 1..Len(checks)
      /\ Append(checks, verdict)[Len(checks) + 1] = verdict
      /\ \A k \in 1..Len(checks) : Append(checks, verdict)[k] = checks[k]
  BY <1>3 DEF CitationsInv
<1>5. \A x : CitEarned(x)' <=> CitEarned(x')
  BY <1>0, CitStays
<1>6. \A k \in DOMAIN checks' : CitEarned(checks[k])'
  <2>1. \A k \in DOMAIN checks : CitEarned(checks[k])
    BY DEF CitationsInv
  <2>2. \A k \in DOMAIN Append(checks, verdict) : CitEarned(Append(checks, verdict)[k])
    BY <1>2, <1>4, <2>1
  <2> QED BY <1>0, <1>5, <2>2
<1>7. \E m \in Memos : \E k \in 0..Len(m) : memo' = SubSeq(m, k + 1, Len(m)) /\ Len(checks') = k
  <2>0. PICK m \in Memos : \E k \in 0..Len(m) : memo = SubSeq(m, k + 1, Len(m)) /\ Len(checks) = k
    BY DEF CitationsInv
  <2>1. PICK k \in 0..Len(m) : memo = SubSeq(m, k + 1, Len(m)) /\ Len(checks) = k
    BY <2>0
  <2>2. m \in Seq(Citations!Texts) /\ Len(m) \in Nat
    BY CitationParameters DEF Citations!CitationAssumption
  <2>3. k # Len(m)
    BY <1>0, <2>1, <2>2
  <2>4. Tail(memo) = SubSeq(m, (k + 1) + 1, Len(m))
    BY <2>1, <2>2, <2>3
  <2>5. Len(Append(checks, verdict)) = k + 1
    BY <1>4, <2>1
  <2>6. k + 1 \in 0..Len(m)
    BY <2>2, <2>3
  <2> QED BY <1>0, <2>4, <2>5, <2>6
<1> QED BY <1>0, <1>1, <1>4, <1>6, <1>7 DEF CitationsInv

LEMMA CitationsStep ==
  ASSUME CitationsInv, [Citations!Next]_(Citations!vars)
  PROVE  CitationsInv'
<1>1. CASE UNCHANGED Citations!vars
  <2>1. UNCHANGED <<report, memo, checks, gauge>>
    BY <1>1 DEF Citations!vars
  <2>2. \A x : CitEarned(x)' <=> CitEarned(x')
    BY <2>1, CitStays
  <2> QED BY <2>1, <2>2 DEF CitationsInv, Citations!Count
<1>2. CASE Citations!Aggregate
  <2>1. /\ memo = <<>> /\ UNCHANGED <<report, memo, checks>>
        /\ gauge' = [verified |-> Citations!Count({"verified"}),
                     checkable |-> Citations!Count(Citations!Statuses \ {"uncheckable"})]
    BY <1>2 DEF Citations!Aggregate
  <2>2. \A x : CitEarned(x)' <=> CitEarned(x')
    BY <2>1, CitStays
  <2> QED BY <2>1, <2>2 DEF CitationsInv, Citations!Count
<1> QED BY <1>1, <1>2, CitationsCheck DEF Citations!Next

LEMMA CitationsPromised ==
  ASSUME CitationsInv
  PROVE  Citations!TypeOK /\ Citations!VerdictsAreEarned
<1> DEFINE Of(statuses) == {k \in DOMAIN checks : checks[k].status \in statuses}
<1>1. Len(checks) \in Nat /\ DOMAIN checks = 1..Len(checks) /\ \A k \in DOMAIN checks : checks[k] \in Verdicts
  BY DEF CitationsInv
<1>2. \A statuses : IsFiniteSet(Of(statuses)) /\ Cardinality(Of(statuses)) \in Nat
  <2>1. IsFiniteSet(1..Len(checks))
    BY <1>1, FS_Interval
  <2>2. \A statuses : Of(statuses) \subseteq 1..Len(checks)
    BY <1>1
  <2> HIDE DEF Of
  <2> QED BY <2>1, <2>2, FS_Subset, FS_CardinalityType
<1>3. \A statuses : Citations!Count(statuses) = Cardinality(Of(statuses))
  BY DEF Citations!Count, Citations!Cardinality, Cardinality
<1>4. Citations!TypeOK
  <2>1. gauge = None \/ gauge \in [verified : Nat, checkable : Nat]
    <3>1. Citations!Count({"verified"}) \in Nat /\ Citations!Count(Citations!Statuses \ {"uncheckable"}) \in Nat
      BY <1>2, <1>3
    <3> QED BY <3>1 DEF CitationsInv
  <2>2. \A k \in DOMAIN checks : checks[k].kind \in Citations!Kinds \cup {"unknown"} /\ checks[k].status \in Citations!Statuses
    BY <1>1 DEF Verdicts
  <2> QED BY <2>1, <2>2 DEF Citations!TypeOK, CitationsInv
<1>5. ASSUME gauge # None
      PROVE  gauge.verified = gauge.checkable
               <=> \A k \in DOMAIN checks : checks[k].status \in {"verified", "uncheckable"}
  <2> DEFINE well == Of({"verified"})
             all == Of(Citations!Statuses \ {"uncheckable"})
  <2>1. gauge.verified = Cardinality(well) /\ gauge.checkable = Cardinality(all)
    BY <1>3, <1>5 DEF CitationsInv
  <2>2. well \subseteq all /\ IsFiniteSet(all)
    BY <1>2 DEF Citations!Statuses
  <2>3. Cardinality(well) = Cardinality(all) <=> well = all
    <3> HIDE DEF well, all
    <3> QED BY <2>2, FS_Subset
  <2>4. well = all <=> \A k \in DOMAIN checks : checks[k].status \in {"verified", "uncheckable"}
    BY <1>1 DEF Verdicts, Citations!Statuses
  <2> QED BY <2>1, <2>3, <2>4
<1>6. \A k \in DOMAIN checks : CitEarned(checks[k])
  BY DEF CitationsInv
<1> QED BY <1>4, <1>5, <1>6 DEF Citations!VerdictsAreEarned, CitEarned

(* A memo's citations: what the patterns know is verified, refuted or      *)
(* found missing only as the report has it, and the gauge is full only if  *)
(* nothing failed.                                                         *)
THEOREM CitationsKept == Citations!Spec => [](Citations!TypeOK /\ Citations!VerdictsAreEarned)
BY CitationsStart, CitationsStep, CitationsPromised, PTL DEF Citations!Spec

-----------------------------------------------------------------------------
(***************************************************************************)
(* The alerts of a watchlist: the page holds those that come first, what   *)
(* is not returned was dropped as immaterial or came after all that was.   *)
(***************************************************************************)
Alerts == INSTANCE AlertDigest WITH Signals <- Ridges, sent <- posted

ASSUME AlertParameters == Alerts!DigestAssumption

AleOrder(S, R) ==
  /\ \A x \in S : <<x, x>> \notin R
  /\ \A x, y \in S : x # y => <<x, y>> \in R \/ <<y, x>> \in R
  /\ \A x, y, z \in S : <<x, y>> \in R /\ <<y, z>> \in R => <<x, z>> \in R

(* A function that takes no value twice takes as many as it has arguments. *)
LEMMA AleImage ==
  ASSUME NEW K, IsFiniteSet(K), NEW f, \A i, j \in K : f[i] = f[j] => i = j
  PROVE  IsFiniteSet({f[i] : i \in K}) /\ Cardinality({f[i] : i \in K}) = Cardinality(K)
<1> DEFINE T == {f[i] : i \in K}
           g == [i \in K |-> f[i]]
<1>1. g \in Surjection(K, T)
  BY DEF Surjection
<1>2. g \in Injection(K, T)
  BY DEF Injection, IsInjective
<1> HIDE DEF T, g
<1>3. IsFiniteSet(T) /\ (Cardinality(T) = Cardinality(K) <=> g \in Injection(K, T))
  BY <1>1, FS_Surjection
<1> QED BY <1>2, <1>3 DEF T

(* A finite set in order is a sequence of it, each member once, the one    *)
(* that is before another at the smaller place.                            *)
LEMMA AleSorted ==
  ASSUME NEW S, IsFiniteSet(S), NEW R, AleOrder(S, R)
  PROVE  LET s == Alerts!Sorted(S, R) IN
         /\ Cardinality(S) \in Nat
         /\ s \in [1..Cardinality(S) -> S]
         /\ \A x \in S : \E n \in 1..Cardinality(S) : s[n] = x
         /\ \A m, n \in 1..Cardinality(S) : m < n => <<s[m], s[n]>> \in R
<1> DEFINE behind == [x \in S |-> {y \in S : <<y, x>> \in R}]
           count == [x \in S |-> Cardinality(behind[x])]
           size == Cardinality(S)
           s == Alerts!Sorted(S, R)
<1>1. size \in Nat
  BY FS_CardinalityType
<1>2. ASSUME NEW x \in S
      PROVE  /\ IsFiniteSet(behind[x]) /\ count[x] \in 0..(size - 1)
  <2>1. behind[x] \in SUBSET S /\ x \notin behind[x]
    BY DEF AleOrder
  <2> HIDE DEF behind
  <2>2. IsFiniteSet(behind[x]) /\ Cardinality(behind[x]) <= size /\ (size = Cardinality(behind[x]) => S = behind[x])
    BY <2>1, FS_Subset
  <2>3. Cardinality(behind[x]) \in Nat
    BY <2>2, FS_CardinalityType
  <2> HIDE DEF size
  <2> QED BY <1>1, <2>1, <2>2, <2>3
<1>3. ASSUME NEW x \in S, NEW y \in S, <<x, y>> \in R
      PROVE  count[x] < count[y]
  <2>1. behind[x] \in SUBSET behind[y]
    BY <1>3 DEF AleOrder
  <2>2. x \in behind[y] /\ x \notin behind[x]
    BY <1>3 DEF AleOrder
  <2>3. IsFiniteSet(behind[y])
    BY <1>2
  <2> HIDE DEF behind
  <2>4. Cardinality(behind[x]) <= Cardinality(behind[y])
        /\ (Cardinality(behind[y]) = Cardinality(behind[x]) => behind[y] = behind[x])
    BY <2>1, <2>3, FS_Subset
  <2>5. count[x] \in Nat /\ count[y] \in Nat
    BY <1>2
  <2>6. count[x] = Cardinality(behind[x]) /\ count[y] = Cardinality(behind[y])
    OBVIOUS
  <2> HIDE DEF count
  <2> QED BY <2>2, <2>4, <2>5, <2>6
<1>4. \A x, y \in S : count[x] = count[y] => x = y
  <2> SUFFICES ASSUME NEW x \in S, NEW y \in S, x # y
               PROVE  count[x] # count[y]
    OBVIOUS
  <2>1. count[x] < count[y] \/ count[y] < count[x]
    BY <1>3 DEF AleOrder
  <2>2. count[x] \in Int /\ count[y] \in Int
    <3>1. count[x] \in 0..(size - 1) /\ count[y] \in 0..(size - 1)
      BY <1>2
    <3> HIDE DEF count, size
    <3> QED BY <1>1, <3>1
  <2> HIDE DEF count
  <2> QED BY <2>1, <2>2
<1>5. \A k \in 0..(size - 1) : \E x \in S : count[x] = k
  <2>1. IsFiniteSet(0..(size - 1)) /\ Cardinality(0..(size - 1)) = size
    BY <1>1, FS_Interval
  <2>2. count \in [S -> 0..(size - 1)]
    BY <1>2
  <2>3. count \in Injection(S, 0..(size - 1))
    <3> HIDE DEF count
    <3> QED BY <1>4, <2>2 DEF Injection, IsInjective
  <2>4. count \in Surjection(S, 0..(size - 1))
    <3> HIDE DEF count
    <3> QED BY <2>1, <2>3, FS_Injection
  <2> HIDE DEF count
  <2> QED BY <2>4 DEF Surjection
<1>6. DOMAIN s = 1..size /\ \A n \in 1..size : s[n] \in S /\ count[s[n]] = n - 1
  <2>1. \A X : Alerts!Cardinality(X) = Cardinality(X)
    BY DEF Alerts!Cardinality, Cardinality
  <2>2. s = [n \in 1..size |-> CHOOSE x \in S : Alerts!Cardinality({y \in S : <<y, x>> \in R}) = n - 1]
    BY <2>1 DEF Alerts!Sorted
  <2>3. ASSUME NEW n \in 1..size
        PROVE  s[n] \in S /\ count[s[n]] = n - 1
    <3>1. n - 1 \in 0..(size - 1)
      BY <1>1
    <3>2. \E x \in S : Alerts!Cardinality({y \in S : <<y, x>> \in R}) = n - 1
      BY <1>5, <2>1, <3>1
    <3>3. s[n] = CHOOSE x \in S : Alerts!Cardinality({y \in S : <<y, x>> \in R}) = n - 1
      BY <2>2
    <3>4. s[n] \in S /\ Alerts!Cardinality({y \in S : <<y, s[n]>> \in R}) = n - 1
      BY <3>2, <3>3
    <3> QED BY <2>1, <3>4
  <2> QED BY <2>2, <2>3
<1>7. s \in [1..size -> S]
  BY <1>6 DEF Alerts!Sorted
<1>8. ASSUME NEW x \in S
      PROVE  \E n \in 1..size : s[n] = x
  <2>1. count[x] + 1 \in 1..size /\ (count[x] + 1) - 1 = count[x]
    BY <1>1, <1>2
  <2> QED BY <1>4, <1>6, <2>1
<1>9. ASSUME NEW m \in 1..size, NEW n \in 1..size, m < n
      PROVE  <<s[m], s[n]>> \in R
  <2>1. s[m] \in S /\ s[n] \in S /\ count[s[m]] < count[s[n]] /\ count[s[m]] \in Int /\ count[s[n]] \in Int
    <3>1. s[m] \in S /\ s[n] \in S /\ count[s[m]] = m - 1 /\ count[s[n]] = n - 1
      BY <1>6
    <3> HIDE DEF count, s, size
    <3> QED BY <1>1, <1>9, <3>1
  <2>2. s[m] # s[n] /\ ~(<<s[n], s[m]>> \in R)
    <3> HIDE DEF count, s
    <3> QED BY <1>3, <2>1
  <2> QED BY <2>1, <2>2 DEF AleOrder
<1> QED BY <1>1, <1>7, <1>8, <1>9

AleLevels == {None} \cup Alerts!Items(Alerts!Levels)
AleScored == [rank : DOMAIN rows, kind : Alerts!Kinds, level : AleLevels]
AleQueue == Alerts!Queue
AleFirst == {p \in AleQueue \X AleQueue : Alerts!Before(p[1], p[2])}

(* The page holds alerts that fired, none twice, and before all others.    *)
AlePaged ==
  /\ page \in Seq(AleQueue) /\ Len(page) = Alerts!Room
  /\ \A i, j \in DOMAIN page : page[i] = page[j] => i = j
  /\ \A x \in AleQueue \ Alerts!Items(page) : \A k \in DOMAIN page : Alerts!Before(page[k], x)

AleDigested ==
  /\ digest.alerts \in Seq(AleScored) /\ IsFiniteSet(digest.dropped)
  /\ digest.count = Len(digest.alerts)
  /\ digest.high = Cardinality(Alerts!OfHigh(digest.alerts))

AlertsInv ==
  /\ rows \in Seq(Alerts!Rows) /\ limit \in Caps /\ floor \in AleLevels
  /\ posted \in {None, "digest", "no alerts", "no high alerts"}
  /\ page # None => AlePaged
  /\ digest # None => AleDigested
  /\ posted # None => digest # None
  /\ Alerts!QueueIsFair /\ Alerts!NothingWithheld

LEMMA AleAssumed ==
  /\ Batches \subseteq Seq(Alerts!Rows) /\ Caps \subseteq Nat \ {0}
  /\ None \notin {"noise", "minor", "material", "urgent", "digest", "no alerts", "no high alerts"}
BY AlertParameters DEF Alerts!DigestAssumption

LEMMA AlePlaces ==
  /\ \A kind \in Alerts!Kinds : /\ Alerts!Place(Alerts!Alphabet, kind) \in 1..10
                                /\ Alerts!Alphabet[Alerts!Place(Alerts!Alphabet, kind)] = kind
  /\ \A level \in Alerts!Items(Alerts!Levels) : Alerts!Place(Alerts!Levels, level) \in 1..4
<1>1. ASSUME NEW seq, NEW x, NEW k \in DOMAIN seq, seq[k] = x
      PROVE  Alerts!Place(seq, x) \in DOMAIN seq /\ seq[Alerts!Place(seq, x)] = x
  BY <1>1 DEF Alerts!Place
<1>2. /\ DOMAIN Alerts!Alphabet = 1..10
      /\ Alerts!Alphabet[1] = "auction-above-value" /\ Alerts!Alphabet[2] = "auction-below-value"
      /\ Alerts!Alphabet[3] = "fresh-long-flow" /\ Alerts!Alphabet[4] = "fresh-short-flow"
      /\ Alerts!Alphabet[5] = "high-volatility" /\ Alerts!Alphabet[6] = "priority-setup"
      /\ Alerts!Alphabet[7] = "ridge-buy" /\ Alerts!Alphabet[8] = "ridge-buy-setup"
      /\ Alerts!Alphabet[9] = "ridge-sell" /\ Alerts!Alphabet[10] = "risk-lane"
  BY DEF Alerts!Alphabet
<1>3. \A kind \in Alerts!Kinds : \E k \in DOMAIN Alerts!Alphabet : Alerts!Alphabet[k] = kind
  BY <1>2 DEF Alerts!Kinds, Alerts!High
<1>4. DOMAIN Alerts!Levels = 1..4
  BY DEF Alerts!Levels
<1>5. \A kind \in Alerts!Kinds : /\ Alerts!Place(Alerts!Alphabet, kind) \in 1..10
                                 /\ Alerts!Alphabet[Alerts!Place(Alerts!Alphabet, kind)] = kind
  BY <1>1, <1>2, <1>3
<1>6. \A level \in Alerts!Items(Alerts!Levels) : Alerts!Place(Alerts!Levels, level) \in 1..4
  BY <1>1, <1>4 DEF Alerts!Items
<1> QED BY <1>5, <1>6

(* What fired is finite, and each alert is of a row and a kind.            *)
LEMMA AleFired ==
  ASSUME rows \in Seq(Alerts!Rows)
  PROVE  /\ IsFiniteSet(AleQueue) /\ Cardinality(AleQueue) \in Nat
         /\ \A x \in AleQueue : /\ x = [rank |-> x.rank, kind |-> x.kind]
                                /\ x.rank \in DOMAIN rows /\ x.rank \in Nat /\ x.kind \in Alerts!Kinds
                                /\ rows[x.rank].score \in Int
                                /\ Alerts!Severity(x.kind) \in {2, 3}
                                /\ Alerts!Place(Alerts!Alphabet, x.kind) \in Int
<1> DEFINE D == DOMAIN rows
           alert == [p \in D \X Alerts!Kinds |-> [rank |-> p[1], kind |-> p[2]]]
           T == {alert[p] : p \in D \X Alerts!Kinds}
<1>1. D = 1..Len(rows) /\ Len(rows) \in Nat /\ \A k \in D : rows[k] \in Alerts!Rows
  OBVIOUS
<1>2. IsFiniteSet(Alerts!Kinds)
  <2>1. Alerts!Alphabet \in [1..10 -> Alerts!Kinds]
    BY DEF Alerts!Alphabet, Alerts!Kinds, Alerts!High
  <2>2. Alerts!Alphabet \in Surjection(1..10, Alerts!Kinds)
    BY <2>1, AlePlaces DEF Surjection
  <2>3. IsFiniteSet(1..10)
    <3>1. \A n \in Nat : IsFiniteSet(1..n)
      BY FS_Interval
    <3> QED BY <3>1
  <2> QED BY <2>2, <2>3, FS_Surjection
<1>3. IsFiniteSet(D \X Alerts!Kinds)
  <2>1. IsFiniteSet(D)
    BY <1>1, FS_Interval
  <2> HIDE DEF D
  <2> QED BY <1>2, <2>1, FS_Product
<1>4. IsFiniteSet(T)
  <2>1. alert \in Surjection(D \X Alerts!Kinds, T)
    BY DEF Surjection
  <2> HIDE DEF D, alert, T
  <2> QED BY <1>3, <2>1, FS_Surjection
<1>5. ASSUME NEW x \in AleQueue
      PROVE  \E k \in D, kind \in Alerts!Kinds : x = [rank |-> k, kind |-> kind]
  BY <1>5 DEF AleQueue, Alerts!Queue, Alerts!Fired
<1>6. AleQueue \in SUBSET T
  <2>1. \A k \in D, kind \in Alerts!Kinds : <<k, kind>> \in D \X Alerts!Kinds /\ alert[<<k, kind>>] = [rank |-> k, kind |-> kind]
    OBVIOUS
  <2>2. ASSUME NEW x \in AleQueue
        PROVE  x \in T
    <3>1. PICK k \in D, kind \in Alerts!Kinds : x = [rank |-> k, kind |-> kind]
      BY <1>5
    <3> HIDE DEF alert, D
    <3> QED BY <2>1, <3>1
  <2> HIDE DEF T
  <2> QED BY <2>2
<1>7. IsFiniteSet(AleQueue) /\ Cardinality(AleQueue) \in Nat
  <2> HIDE DEF T
  <2> QED BY <1>4, <1>6, FS_Subset, FS_CardinalityType
<1>8. \A k \in D : rows[k].score \in Int /\ k \in Nat
  BY <1>1 DEF Alerts!Rows
<1>9. \A kind \in Alerts!Kinds : Alerts!Severity(kind) \in {2, 3} /\ Alerts!Place(Alerts!Alphabet, kind) \in Int
  BY AlePlaces DEF Alerts!Severity
<1> QED BY <1>5, <1>7, <1>8, <1>9

(* alert_sort_key, one component after the other.                          *)
LEMMA AleKeys ==
  ASSUME rows \in Seq(Alerts!Rows), NEW x \in AleQueue, NEW y \in AleQueue
  PROVE  Alerts!Before(x, y) <=>
           \/ Alerts!Severity(x.kind) > Alerts!Severity(y.kind)
           \/ /\ Alerts!Severity(x.kind) = Alerts!Severity(y.kind)
              /\ \/ rows[x.rank].score > rows[y.rank].score
                 \/ /\ rows[x.rank].score = rows[y.rank].score
                    /\ \/ x.rank < y.rank
                       \/ /\ x.rank = y.rank
                          /\ Alerts!Place(Alerts!Alphabet, x.kind) < Alerts!Place(Alerts!Alphabet, y.kind)
<1> DEFINE Key(z) == <<-Alerts!Severity(z.kind), -rows[z.rank].score, z.rank, Alerts!Place(Alerts!Alphabet, z.kind)>>
           Less(k) == Key(x)[k] < Key(y)[k] /\ \A j \in 1..(k - 1) : Key(x)[j] = Key(y)[j]
<1>0. Alerts!Before(x, y) <=> \E k \in 1..4 : Less(k)
  BY DEF Alerts!Before
<1>1. Alerts!Before(x, y) <=> Less(1) \/ Less(2) \/ Less(3) \/ Less(4)
  <2> HIDE DEF Less
  <2> QED BY <1>0
<1>2. \A z : /\ Key(z)[1] = -Alerts!Severity(z.kind) /\ Key(z)[2] = -rows[z.rank].score
             /\ Key(z)[3] = z.rank /\ Key(z)[4] = Alerts!Place(Alerts!Alphabet, z.kind)
  OBVIOUS
<1> HIDE DEF Key
<1>3. /\ Less(1) <=> Key(x)[1] < Key(y)[1]
      /\ Less(2) <=> Key(x)[2] < Key(y)[2] /\ Key(x)[1] = Key(y)[1]
      /\ Less(3) <=> Key(x)[3] < Key(y)[3] /\ Key(x)[1] = Key(y)[1] /\ Key(x)[2] = Key(y)[2]
      /\ Less(4) <=> Key(x)[4] < Key(y)[4] /\ Key(x)[1] = Key(y)[1] /\ Key(x)[2] = Key(y)[2] /\ Key(x)[3] = Key(y)[3]
  OBVIOUS
<1> HIDE DEF Less
<1>4. /\ Alerts!Severity(x.kind) \in Int /\ Alerts!Severity(y.kind) \in Int
      /\ rows[x.rank].score \in Int /\ rows[y.rank].score \in Int /\ x.rank \in Int /\ y.rank \in Int
      /\ Alerts!Place(Alerts!Alphabet, x.kind) \in Int /\ Alerts!Place(Alerts!Alphabet, y.kind) \in Int
  BY AleFired
<1>6. /\ Key(x)[1] < Key(y)[1] <=> Alerts!Severity(x.kind) > Alerts!Severity(y.kind)
      /\ Key(x)[1] = Key(y)[1] <=> Alerts!Severity(x.kind) = Alerts!Severity(y.kind)
      /\ Key(x)[2] < Key(y)[2] <=> rows[x.rank].score > rows[y.rank].score
      /\ Key(x)[2] = Key(y)[2] <=> rows[x.rank].score = rows[y.rank].score
  <2>1. Key(x)[1] < Key(y)[1] <=> Alerts!Severity(x.kind) > Alerts!Severity(y.kind)
    BY <1>2, <1>4
  <2>2. Key(x)[1] = Key(y)[1] <=> Alerts!Severity(x.kind) = Alerts!Severity(y.kind)
    BY <1>2, <1>4
  <2>0. \A i, j \in Int : (-i < -j <=> i > j) /\ (-i = -j <=> i = j)
    OBVIOUS
  <2>a. /\ -rows[x.rank].score < -rows[y.rank].score <=> rows[x.rank].score > rows[y.rank].score
        /\ -rows[x.rank].score = -rows[y.rank].score <=> rows[x.rank].score = rows[y.rank].score
    BY ONLY <1>4, <2>0, Zenon
  <2>b. Key(x)[2] = -rows[x.rank].score /\ Key(y)[2] = -rows[y.rank].score
    BY <1>2
  <2>3. Key(x)[2] < Key(y)[2] <=> rows[x.rank].score > rows[y.rank].score
    BY <2>a, <2>b, Zenon
  <2>4. Key(x)[2] = Key(y)[2] <=> rows[x.rank].score = rows[y.rank].score
    BY <2>a, <2>b, Zenon
  <2> QED BY <2>1, <2>2, <2>3, <2>4
<1>7. /\ Key(x)[3] < Key(y)[3] <=> x.rank < y.rank
      /\ Key(x)[3] = Key(y)[3] <=> x.rank = y.rank
      /\ Key(x)[4] < Key(y)[4] <=> Alerts!Place(Alerts!Alphabet, x.kind) < Alerts!Place(Alerts!Alphabet, y.kind)
  BY <1>2
<1> QED BY <1>1, <1>3, <1>6, <1>7

LEMMA AleOrdered ==
  ASSUME rows \in Seq(Alerts!Rows)
  PROVE  AleOrder(AleQueue, AleFirst)
<1>1. \A x, y \in AleQueue : <<x, y>> \in AleFirst <=> Alerts!Before(x, y)
  BY DEF AleFirst
<1>2. ASSUME NEW x \in AleQueue, NEW y \in AleQueue, x # y
      PROVE  Alerts!Before(x, y) \/ Alerts!Before(y, x)
  <2>1. x.rank # y.rank \/ Alerts!Place(Alerts!Alphabet, x.kind) # Alerts!Place(Alerts!Alphabet, y.kind)
    BY <1>2, AleFired, AlePlaces
  <2> QED BY <2>1, AleKeys, AleFired
<1>3. ASSUME NEW x \in AleQueue
      PROVE  ~Alerts!Before(x, x)
  BY AleKeys, AleFired
<1>4. ASSUME NEW x \in AleQueue, NEW y \in AleQueue, NEW z \in AleQueue, Alerts!Before(x, y), Alerts!Before(y, z)
      PROVE  Alerts!Before(x, z)
  BY <1>4, AleKeys, AleFired
<1> QED BY <1>1, <1>2, <1>3, <1>4 DEF AleOrder

LEMMA AleRoom ==
  ASSUME rows \in Seq(Alerts!Rows), limit \in Caps
  PROVE  /\ Alerts!Room \in Nat /\ Alerts!Room <= Cardinality(AleQueue)
         /\ Alerts!Room = IF Cardinality(AleQueue) < limit THEN Cardinality(AleQueue) ELSE limit
<1>1. Alerts!Cardinality(AleQueue) = Cardinality(AleQueue) /\ Alerts!Queue = AleQueue
  BY DEF Alerts!Cardinality, Cardinality, AleQueue
<1>2. Cardinality(AleQueue) \in Nat /\ limit \in Nat
  BY AleFired, AleAssumed
<1> QED BY <1>1, <1>2 DEF Alerts!Room

LEMMA AlertsStart ==
  ASSUME Alerts!Init
  PROVE  AlertsInv
<1>1. PICK batch \in Batches : rows = Alerts!Ranked(batch)
  BY DEF Alerts!Init
<1> DEFINE D == DOMAIN batch
           R == Alerts!Better(batch)
           order == Alerts!Order(batch)
<1>2. D = 1..Len(batch) /\ Len(batch) \in Nat /\ \A k \in D : batch[k] \in Alerts!Rows
  <2>1. batch \in Seq(Alerts!Rows)
    BY AleAssumed
  <2> QED BY <2>1
<1>3. AleOrder(D, R)
  <2>1. \A i \in D : batch[i].score \in Int /\ i \in Int
    BY <1>2 DEF Alerts!Rows
  <2>2. \A i, j \in D : <<i, j>> \in R <=> \/ batch[i].score > batch[j].score
                                            \/ (batch[i].score = batch[j].score /\ i < j)
    BY DEF Alerts!Better
  <2> HIDE DEF D, R
  <2> QED BY <2>1, <2>2 DEF AleOrder
<1>4. IsFiniteSet(D) /\ Cardinality(D) = Len(batch)
  <2>1. \A n \in Nat : IsFiniteSet(1..n) /\ Cardinality(1..n) = n
    BY FS_Interval
  <2> HIDE DEF D
  <2> QED BY <1>2, <2>1
<1>5. order \in [D -> D]
  <2>0. order = Alerts!Sorted(D, R)
    BY Zenon DEF Alerts!Order
  <2> HIDE DEF D, R, order
  <2>1. order \in [1..Cardinality(D) -> D]
    BY <1>3, <1>4, <2>0, AleSorted
  <2> QED BY <1>2, <1>4, <2>1
<1>6. rows = [k \in D |-> batch[order[k]]]
  BY <1>1 DEF Alerts!Ranked
<1>7. rows \in Seq(Alerts!Rows)
  <2> HIDE DEF order
  <2>1. \A k \in D : batch[order[k]] \in Alerts!Rows
    BY <1>2, <1>5
  <2> QED BY <1>2, <1>6, <2>1
<1>8. page = None /\ digest = None /\ posted = None /\ limit \in Caps /\ floor \in AleLevels
  BY DEF Alerts!Init, AleLevels
<1> QED BY <1>7, <1>8, AleAssumed DEF AlertsInv, Alerts!QueueIsFair, Alerts!NothingWithheld

(* What fired is of the rows, and what was told of the digest and them.    *)
LEMMA AleStays ==
  ASSUME UNCHANGED <<rows, limit>>
  PROVE  /\ AleQueue' = AleQueue /\ Alerts!Room' = Alerts!Room /\ AleLevels' = AleLevels
         /\ \A x, y : Alerts!Before(x, y)' <=> Alerts!Before(x', y')
<1>1. AleQueue' = AleQueue
  BY DEF AleQueue, Alerts!Queue, Alerts!Fired
<1>2. Alerts!Room' = Alerts!Room
  BY <1>1 DEF Alerts!Room, AleQueue
<1>3. \A x, y : Alerts!Before(x, y)' <=> Alerts!Before(x', y')
  BY DEF Alerts!Before
<1> QED BY <1>1, <1>2, <1>3 DEF AleLevels

LEMMA AleTold ==
  ASSUME AlertsInv, UNCHANGED <<rows, limit, floor, digest, posted>>
  PROVE  /\ Alerts!QueueIsFair' /\ Alerts!NothingWithheld'
         /\ digest # None => AleDigested'
<1>1. AleQueue' = AleQueue /\ Alerts!Room' = Alerts!Room
  BY AleStays
<1>2. Alerts!QueueIsFair'
  <2>1. Alerts!Returned' = Alerts!Returned
    BY DEF Alerts!Returned, Alerts!Items
  <2>2. Alerts!PageIsUsed' <=> Alerts!PageIsUsed
    BY <1>1, <2>1 DEF Alerts!PageIsUsed
  <2>3. Alerts!FloorHolds' <=> Alerts!FloorHolds
    BY DEF Alerts!FloorHolds, Alerts!Items
  <2>4. Alerts!CutIsFair' <=> Alerts!CutIsFair
    BY <1>1, <2>1, Zenon DEF Alerts!CutIsFair, Alerts!Dropped, AleQueue
  <2> QED BY <2>2, <2>3, <2>4 DEF AlertsInv, Alerts!QueueIsFair
<1>3. Alerts!NothingWithheld'
  BY <1>1 DEF AlertsInv, Alerts!NothingWithheld, Alerts!Dropped, AleQueue
<1> QED BY <1>2, <1>3 DEF AlertsInv, AleDigested, AleScored

(* The page is the beginning of the queue, in order.                       *)
LEMMA AlertsPage ==
  ASSUME AlertsInv, Alerts!Page
  PROVE  AlertsInv'
<1> DEFINE queue == Alerts!Sorted(AleQueue, AleFirst)
           size == Cardinality(AleQueue)
<1>1. rows \in Seq(Alerts!Rows) /\ limit \in Caps
  BY DEF AlertsInv
<1>2. page' = SubSeq(queue, 1, Alerts!Room) /\ UNCHANGED <<rows, limit, floor, digest, posted>>
  BY DEF Alerts!Page, AleQueue, AleFirst
<1>3. /\ size \in Nat /\ queue \in [1..size -> AleQueue]
      /\ \A x \in AleQueue : \E n \in 1..size : queue[n] = x
      /\ \A m, n \in 1..size : m < n => <<queue[m], queue[n]>> \in AleFirst
  BY <1>1, AleFired, AleOrdered, AleSorted
<1>4. Alerts!Room \in Nat /\ Alerts!Room <= size
  BY <1>1, AleRoom
<1>5. \A x, y \in AleQueue : <<x, y>> \in AleFirst => Alerts!Before(x, y) /\ x # y
  BY <1>1, AleOrdered DEF AleFirst, AleOrder
<1> HIDE DEF queue, size
<1>6. /\ page' \in Seq(AleQueue) /\ Len(page') = Alerts!Room /\ DOMAIN page' = 1..Alerts!Room
      /\ \A k \in 1..Alerts!Room : page'[k] = queue[k]
  BY <1>2, <1>3, <1>4
<1>7. ASSUME NEW i \in 1..size, NEW j \in 1..size, queue[i] = queue[j]
      PROVE  i = j
  <2>1. queue[i] \in AleQueue /\ <<queue[i], queue[i]>> \notin AleFirst
    BY <1>3, <1>5
  <2>2. ~(i < j) /\ ~(j < i) /\ i \in Int /\ j \in Int
    BY <1>3, <1>7, <2>1
  <2> QED BY <2>2
<1>8. \A i, j \in DOMAIN page' : page'[i] = page'[j] => i = j
  BY <1>3, <1>4, <1>6, <1>7
<1>9. ASSUME NEW x \in AleQueue \ Alerts!Items(page'), NEW k \in DOMAIN page'
      PROVE  Alerts!Before(page'[k], x)
  <2>1. PICK n \in 1..size : queue[n] = x
    BY <1>3
  <2>2. n \notin 1..Alerts!Room
    BY <1>6, <2>1 DEF Alerts!Items
  <2>3. k \in 1..size /\ k < n /\ page'[k] = queue[k]
    BY <1>3, <1>4, <1>6, <2>2
  <2> QED BY <1>3, <1>5, <2>1, <2>3
<1>10. AleQueue' = AleQueue /\ Alerts!Room' = Alerts!Room /\ AleLevels' = AleLevels
       /\ \A x, y \in AleQueue : Alerts!Before(x, y)' <=> Alerts!Before(x, y)
  BY <1>2, AleStays
<1>11. AlePaged'
  <2>1. \A x \in AleQueue \ Alerts!Items(page)' : \A k \in DOMAIN page' : Alerts!Before(page'[k], x)
    BY <1>9 DEF Alerts!Items
  <2>2. \A k \in DOMAIN page' : page'[k] \in AleQueue
    BY <1>6
  <2>3. \A x \in AleQueue \ Alerts!Items(page)' : \A k \in DOMAIN page' : Alerts!Before(page[k], x)'
    BY <1>10, <2>1, <2>2
  <2> QED BY <1>6, <1>8, <1>10, <2>3 DEF AlePaged
<1>12. Alerts!QueueIsFair' /\ Alerts!NothingWithheld' /\ (digest # None => AleDigested')
  BY <1>2, AleTold DEF AlertsInv
<1> QED BY <1>2, <1>10, <1>11, <1>12 DEF AlertsInv

LEMMA AleSeq ==
  ASSUME NEW S, NEW n \in Nat, NEW s \in [1..n -> S]
  PROVE  s \in Seq(S) /\ Len(s) = n
OBVIOUS

LEMMA AleSize ==
  ASSUME NEW S
  PROVE  Alerts!Cardinality(S) = Cardinality(S)
BY DEF Alerts!Cardinality, Cardinality

(* What is kept of the page stays in its order; the rest is dropped.       *)
LEMMA AlertsDeliver ==
  ASSUME AlertsInv, Alerts!Deliver
  PROVE  AlertsInv'
<1>1. /\ rows \in Seq(Alerts!Rows) /\ limit \in Caps /\ floor \in AleLevels
      /\ AlePaged /\ posted = None
      /\ UNCHANGED <<rows, limit, page, floor, posted>>
  BY DEF AlertsInv, Alerts!Deliver
<1> DEFINE D == DOMAIN page
<1>2. PICK level \in [D -> AleLevels] :
        LET scored == [k \in D |-> [rank |-> page[k].rank, kind |-> page[k].kind, level |-> level[k]]]
            stays == {k \in D : Alerts!Kept(level[k])}
            order == Alerts!Sorted(stays, {p \in stays \X stays : p[1] < p[2]})
            alerts == [n \in DOMAIN order |-> scored[order[n]]]
        IN digest' = [alerts |-> alerts, count |-> Len(alerts), high |-> Alerts!Cardinality(Alerts!OfHigh(alerts)),
                      dropped |-> {scored[k] : k \in D \ stays}]
  BY Zenon DEF Alerts!Deliver, AleLevels
<1> DEFINE scored == [k \in D |-> [rank |-> page[k].rank, kind |-> page[k].kind, level |-> level[k]]]
           K == {k \in D : Alerts!Kept(level[k])}
           R == {p \in K \X K : p[1] < p[2]}
           order == Alerts!Sorted(K, R)
           size == Cardinality(K)
           alerts == [n \in DOMAIN order |-> scored[order[n]]]
           dropped == {scored[k] : k \in D \ K}
<1>3. digest' = [alerts |-> alerts, count |-> Len(alerts), high |-> Alerts!Cardinality(Alerts!OfHigh(alerts)),
                 dropped |-> dropped]
  BY <1>2, Zenon
<1>4. D = 1..Len(page) /\ Len(page) \in Nat /\ (\A k \in D : page[k] \in AleQueue)
      /\ (\A i, j \in D : page[i] = page[j] => i = j)
  BY <1>1 DEF AlePaged
<1>5. ASSUME NEW k \in D
      PROVE  /\ page[k].rank \in DOMAIN rows /\ page[k].kind \in Alerts!Kinds /\ level[k] \in AleLevels
             /\ page[k] = [rank |-> page[k].rank, kind |-> page[k].kind]
  <2>1. page[k] \in AleQueue /\ level[k] \in AleLevels
    BY <1>4
  <2> HIDE DEF D
  <2> QED BY <1>1, <2>1, AleFired
<1>6. ASSUME NEW k \in D
      PROVE  /\ scored[k] = [rank |-> page[k].rank, kind |-> page[k].kind, level |-> level[k]]
             /\ scored[k] \in AleScored
  BY <1>5 DEF AleScored
<1>6a. \A k \in D : scored[k].rank = page[k].rank /\ scored[k].kind = page[k].kind /\ scored[k].level = level[k]
  <2> HIDE DEF D
  <2> QED BY <1>6
<1>7. IsFiniteSet(D) /\ Cardinality(D) = Len(page)
  <2>1. \A n \in Nat : IsFiniteSet(1..n) /\ Cardinality(1..n) = n
    BY FS_Interval
  <2> HIDE DEF D
  <2> QED BY <1>4, <2>1
<1>8. K \in SUBSET D
  OBVIOUS
<1>9. /\ IsFiniteSet(K) /\ IsFiniteSet(D \ K) /\ size \in Nat /\ Cardinality(D \ K) \in Nat
      /\ size + Cardinality(D \ K) = Len(page)
  <2> HIDE DEF D, K
  <2>1. IsFiniteSet(K) /\ IsFiniteSet(D \ K)
    BY <1>7, <1>8, FS_Subset, FS_Difference
  <2>2. size \in Nat /\ Cardinality(D \ K) \in Nat
    BY <2>1, FS_CardinalityType
  <2>3. Cardinality(D \ K) = Cardinality(D) - Cardinality(D \cap K)
    BY <1>7, <2>1, FS_Difference
  <2>4. D \cap K = K
    BY <1>8
  <2>5. Cardinality(D \ K) = Len(page) - size
    BY <1>7, <2>3, <2>4
  <2>6. size + Cardinality(D \ K) = Len(page)
    <3> HIDE DEF size
    <3>1. \A i, j, k \in Int : j = k - i => i + j = k
      OBVIOUS
    <3> QED BY <1>4, <2>2, <2>5, <3>1
  <2> QED BY <2>1, <2>2, <2>6
<1>10. AleOrder(K, R)
  <2>1. \A k \in K : k \in Int
    BY <1>4
  <2> HIDE DEF K
  <2> QED BY <2>1 DEF AleOrder
<1>11. /\ order \in [1..size -> K]
       /\ \A k \in K : \E n \in 1..size : order[n] = k
  <2> HIDE DEF K, R
  <2> QED BY <1>9, <1>10, AleSorted
<1>12. /\ DOMAIN alerts = 1..size /\ alerts \in Seq(AleScored) /\ Len(alerts) = size
       /\ \A n \in 1..size : order[n] \in K /\ alerts[n] = scored[order[n]]
  <2> HIDE DEF D, K, R, order, scored, size
  <2>1. \A n \in 1..size : order[n] \in K /\ alerts[n] = scored[order[n]] /\ alerts[n] \in AleScored
    BY <1>6, <1>8, <1>11
  <2>2. alerts \in [1..size -> AleScored]
    BY <1>11, <2>1
  <2>3. alerts \in Seq(AleScored) /\ Len(alerts) = size
    BY <1>9, <2>2, AleSeq
  <2> QED BY <2>1, <2>2, <2>3
<1>13. Alerts!Items(alerts) = {scored[k] : k \in K}
  <2> HIDE DEF K, R, order, scored, size, alerts
  <2>1. ASSUME NEW n \in DOMAIN alerts
        PROVE  alerts[n] \in {scored[k] : k \in K}
    BY <1>12
  <2>2. ASSUME NEW k \in K
        PROVE  \E n \in DOMAIN alerts : scored[k] = alerts[n]
    BY <1>11, <1>12
  <2> QED BY <2>1, <2>2 DEF Alerts!Items
<1>14. Alerts!Returned' = {page[k] : k \in K}
  <2>1. Alerts!Returned' = {[rank |-> z.rank, kind |-> z.kind] : z \in Alerts!Items(alerts)}
    <3> HIDE DEF alerts, dropped
    <3> QED BY <1>3 DEF Alerts!Returned, Alerts!Items
  <2>2. \A k \in K : [rank |-> scored[k].rank, kind |-> scored[k].kind] = page[k]
    <3> HIDE DEF scored, K, D
    <3> QED BY <1>5, <1>6a, <1>8
  <2> DEFINE pair(z) == [rank |-> z.rank, kind |-> z.kind]
  <2>3. \A k \in K : pair(scored[k]) = page[k]
    BY <2>2
  <2>4. Alerts!Returned' = {pair(z) : z \in {scored[k] : k \in K}}
    BY <1>13, <2>1
  <2> HIDE DEF K, scored, alerts, pair
  <2> QED BY <2>3, <2>4
<1>15. Cardinality(Alerts!Returned') = size
  <2>1. \A i, j \in K : page[i] = page[j] => i = j
    BY <1>4
  <2> HIDE DEF K
  <2> QED BY <1>9, <1>14, <2>1, AleImage
<1>16. IsFiniteSet(dropped) /\ Cardinality(dropped) = Cardinality(D \ K)
  <2>1. \A i, j \in D \ K : scored[i] = scored[j] => i = j
    <3> SUFFICES ASSUME NEW i \in D, NEW j \in D, scored[i] = scored[j]
                 PROVE  i = j
      OBVIOUS
    <3> HIDE DEF scored, D
    <3>1. page[i].rank = page[j].rank /\ page[i].kind = page[j].kind
      BY <1>6a
    <3>2. page[i] = page[j]
      BY <1>5, <3>1
    <3> QED BY <1>4, <3>2
  <2> HIDE DEF D, K, scored
  <2> QED BY <1>9, <2>1, AleImage
<1>17. /\ Alerts!Room' = Alerts!Room /\ AleQueue' = AleQueue /\ AleLevels' = AleLevels
       /\ Alerts!Room = Len(page)
  BY <1>1, AleStays DEF AlePaged
<1> HIDE DEF D, scored, R, order, alerts, dropped, size
<1>18. /\ digest'.alerts = alerts /\ digest'.count = Len(alerts) /\ digest'.dropped = dropped
       /\ digest'.high = Cardinality(Alerts!OfHigh(alerts))
  BY <1>3, AleSize
<1>19. Alerts!PageIsUsed'
  BY <1>9, <1>12, <1>15, <1>16, <1>17, <1>18, AleSize DEF Alerts!PageIsUsed
<1>20. Alerts!FloorHolds'
  <2>1. ASSUME NEW k \in D, k \notin K
        PROVE  floor # None /\ level[k] # None
               /\ Alerts!Place(Alerts!Levels, level[k]) < Alerts!Place(Alerts!Levels, floor)
    <3>1. ~Alerts!Kept(level[k])
      BY <2>1
    <3>2. floor # None /\ level[k] # None
      BY <3>1 DEF Alerts!Kept
    <3>3. /\ Alerts!Place(Alerts!Levels, level[k]) \in 1..4 /\ Alerts!Place(Alerts!Levels, floor) \in 1..4
      BY <1>1, <1>5, <3>2, AlePlaces DEF AleLevels
    <3> QED BY <3>1, <3>2, <3>3 DEF Alerts!Kept
  <2>2. ASSUME NEW k \in K, floor # None, level[k] # None
        PROVE  Alerts!Place(Alerts!Levels, level[k]) >= Alerts!Place(Alerts!Levels, floor)
    BY <2>2 DEF Alerts!Kept
  <2>3. \A z \in dropped : floor # None /\ z.level # None
               /\ Alerts!Place(Alerts!Levels, z.level) < Alerts!Place(Alerts!Levels, floor)
    BY <1>6a, <2>1 DEF dropped
  <2>4. \A z \in Alerts!Items(alerts) : floor # None /\ z.level # None =>
               Alerts!Place(Alerts!Levels, z.level) >= Alerts!Place(Alerts!Levels, floor)
    BY <1>6a, <1>8, <1>13, <2>2
  <2>5. Alerts!Items(digest.alerts)' = Alerts!Items(alerts)
    BY <1>18 DEF Alerts!Items
  <2> QED BY <1>1, <1>18, <2>3, <2>4, <2>5 DEF Alerts!FloorHolds
<1>21. Alerts!CutIsFair'
  <2>1. ASSUME NEW x \in AleQueue, x \in Alerts!Items(page), x \notin Alerts!Returned'
        PROVE  \E z \in dropped : z.rank = x.rank /\ z.kind = x.kind
    <3>1. PICK k \in D : x = page[k]
      BY <2>1 DEF Alerts!Items, D
    <3>2. k \notin K
      BY <1>14, <2>1, <3>1
    <3>3. scored[k] \in dropped
      BY <3>2 DEF dropped
    <3> QED BY <1>6a, <3>1, <3>3
  <2>2. ASSUME NEW x \in AleQueue, x \notin Alerts!Items(page), NEW y \in Alerts!Returned'
        PROVE  \/ Alerts!Severity(y.kind) > Alerts!Severity(x.kind)
               \/ /\ Alerts!Severity(y.kind) = Alerts!Severity(x.kind)
                  /\ rows[y.rank].score >= rows[x.rank].score
    <3>1. PICK k \in D : y = page[k]
      BY <1>8, <1>14, <2>2
    <3>2. Alerts!Before(y, x) /\ y \in AleQueue
      BY <1>1, <1>4, <2>2, <3>1 DEF AlePaged, D
    <3> QED BY <1>1, <3>2, AleKeys, AleFired
  <2>3. \A x \in AleQueue' \ Alerts!Returned' :
           \/ \E z \in digest'.dropped : z.rank = x.rank /\ z.kind = x.kind
           \/ \A y \in Alerts!Returned' : \/ Alerts!Severity(y.kind) > Alerts!Severity(x.kind)
                                          \/ /\ Alerts!Severity(y.kind) = Alerts!Severity(x.kind)
                                             /\ rows'[y.rank].score >= rows'[x.rank].score
    BY <1>1, <1>17, <1>18, <2>1, <2>2, Zenon
  <2> QED BY <2>3, Zenon DEF Alerts!CutIsFair, Alerts!Dropped, AleQueue
<1>22. Alerts!QueueIsFair'
  BY <1>19, <1>20, <1>21 DEF Alerts!QueueIsFair
<1>23. posted' = None /\ Alerts!NothingWithheld'
  BY <1>1, AleAssumed DEF Alerts!NothingWithheld
<1>24. AlePaged'
  <2>1. \A x, y \in AleQueue : Alerts!Before(x, y)' <=> Alerts!Before(x, y)
    BY <1>1, AleStays
  <2>2. Alerts!Items(page)' = Alerts!Items(page)
    BY <1>1 DEF Alerts!Items
  <2>3. \A x \in AleQueue \ Alerts!Items(page) : \A k \in DOMAIN page : Alerts!Before(page[k], x)'
    BY <1>1, <1>4, <2>1 DEF AlePaged, D
  <2> QED BY <1>1, <1>17, <2>2, <2>3 DEF AlePaged
<1>25. AleDigested'
  <2>1. Alerts!OfHigh(digest.alerts)' = Alerts!OfHigh(alerts)
    BY <1>18 DEF Alerts!OfHigh
  <2>2. AleScored' = AleScored
    BY <1>1, <1>17 DEF AleScored
  <2> QED BY <1>12, <1>16, <1>18, <2>1, <2>2 DEF AleDigested
<1> QED BY <1>1, <1>17, <1>22, <1>23, <1>24, <1>25 DEF AlertsInv

(* A webhook gets no digest without alerts, and, if it is for High ones,   *)
(* none without one; then all that fired and was not dropped would have to *)
(* come after what was returned.                                           *)
LEMMA AlertsSend ==
  ASSUME AlertsInv, NEW severity, Alerts!Send(severity)
  PROVE  AlertsInv'
<1>0. /\ digest # None /\ AleDigested /\ rows \in Seq(Alerts!Rows)
      /\ Alerts!PageIsUsed /\ Alerts!FloorHolds /\ Alerts!CutIsFair
  BY DEF AlertsInv, Alerts!Send, Alerts!QueueIsFair
<1>1. /\ UNCHANGED <<rows, limit, page, floor, digest>>
      /\ posted' \in {"digest", "no alerts", "no high alerts"}
      /\ posted' = "no alerts" => digest.count = 0
      /\ posted' = "no high alerts" => digest.count # 0 /\ digest.high = 0
  BY DEF Alerts!Send
<1>2. AleQueue' = AleQueue /\ Alerts!Room' = Alerts!Room /\ AleLevels' = AleLevels
      /\ \A x, y \in AleQueue : Alerts!Before(x, y)' <=> Alerts!Before(x, y)
  BY <1>1, AleStays
<1>3. Cardinality(Alerts!Returned) = digest.count /\ digest.count \in Nat
      /\ Cardinality(Alerts!Returned) + Cardinality(digest.dropped) = Alerts!Room
      /\ Cardinality(digest.dropped) \in Nat
  <2>1. Cardinality(digest.dropped) \in Nat
    BY <1>0, FS_CardinalityType DEF AleDigested
  <2>2. digest.count \in Nat
    <3>1. digest.alerts \in Seq(AleScored) /\ digest.count = Len(digest.alerts)
      BY <1>0 DEF AleDigested
    <3> QED BY <3>1
  <2> QED BY <1>0, <2>1, <2>2, AleSize DEF Alerts!PageIsUsed, AleDigested
<1>4. ASSUME digest.count = 0
      PROVE  Cardinality(digest.dropped) = Alerts!Room
  BY <1>3, <1>4
<1>5. ASSUME digest.count # 0, digest.high = 0, NEW x \in AleQueue, Alerts!Severity(x.kind) = 3
      PROVE  Alerts!Dropped(x)
  <2>1. Alerts!OfHigh(digest.alerts) = {}
    <3>1. IsFiniteSet(DOMAIN digest.alerts)
      <4>0. digest.alerts \in Seq(AleScored)
        BY <1>0 DEF AleDigested
      <4>1. DOMAIN digest.alerts = 1..Len(digest.alerts) /\ Len(digest.alerts) \in Nat
        BY <4>0
      <4> QED BY <4>1, FS_Interval
    <3>2. Alerts!OfHigh(digest.alerts) \in SUBSET DOMAIN digest.alerts
      BY DEF Alerts!OfHigh
    <3>3. IsFiniteSet(Alerts!OfHigh(digest.alerts))
      BY <3>1, <3>2, FS_Subset
    <3>4. Cardinality(Alerts!OfHigh(digest.alerts)) = 0
      BY <1>0, <1>5 DEF AleDigested
    <3> QED BY <3>3, <3>4, FS_EmptySet
  <2>2. \A z \in Alerts!Items(digest.alerts) : z.kind \in Alerts!Kinds /\ z.kind \notin Alerts!High
    <3>1. \A k \in DOMAIN digest.alerts : digest.alerts[k] \in AleScored
      <4>1. digest.alerts \in Seq(AleScored)
        BY <1>0 DEF AleDigested
      <4> QED BY <4>1
    <3> QED BY <2>1, <3>1 DEF Alerts!Items, Alerts!OfHigh, AleScored
  <2>3. \A y \in Alerts!Returned : Alerts!Severity(y.kind) = 2
    BY <2>2 DEF Alerts!Returned, Alerts!Severity
  <2>4. Alerts!Returned # {}
    <3>1. Cardinality({}) = 0
      BY FS_EmptySet
    <3> QED BY <1>3, <1>5, <3>1
  <2>5. PICK y \in Alerts!Returned : TRUE
    BY <2>4
  <2>6. x \notin Alerts!Returned
    BY <1>5, <2>3
  <2>7. ~(Alerts!Severity(y.kind) > Alerts!Severity(x.kind)) /\ Alerts!Severity(y.kind) # Alerts!Severity(x.kind)
    BY <1>5, <2>3
  <2> QED BY <1>0, <2>5, <2>6, <2>7, Zenon DEF Alerts!CutIsFair, AleQueue
<1>6. \A x : Alerts!Dropped(x)' <=> Alerts!Dropped(x')
  BY <1>1 DEF Alerts!Dropped
<1>7. Alerts!NothingWithheld'
  <2>1. posted' = "no alerts" => Cardinality(digest'.dropped) = Alerts!Room'
    BY <1>1, <1>2, <1>4
  <2>2. posted' = "no high alerts" => \A x \in AleQueue' : Alerts!Severity(x.kind) = 3 =>
           \E z \in digest'.dropped : z.rank = x.rank /\ z.kind = x.kind
    BY <1>1, <1>2, <1>5, Zenon DEF Alerts!Dropped
  <2> QED BY <2>1, <2>2, AleSize, Zenon DEF Alerts!NothingWithheld, Alerts!Dropped, AleQueue
<1>8. Alerts!QueueIsFair'
  <2>1. Alerts!Returned' = Alerts!Returned
    BY <1>1 DEF Alerts!Returned, Alerts!Items
  <2>2. Alerts!PageIsUsed'
    BY <1>0, <1>1, <1>2, <2>1 DEF Alerts!PageIsUsed
  <2>3. Alerts!FloorHolds'
    BY <1>0, <1>1 DEF Alerts!FloorHolds, Alerts!Items
  <2>4. Alerts!CutIsFair'
    BY <1>0, <1>1, <1>2, <2>1, Zenon DEF Alerts!CutIsFair, Alerts!Dropped, AleQueue
  <2> QED BY <2>2, <2>3, <2>4 DEF Alerts!QueueIsFair
<1>9. (page # None => AlePaged)'
  <2>1. Alerts!Items(page)' = Alerts!Items(page)
    BY <1>1 DEF Alerts!Items
  <2>2. ASSUME page # None
        PROVE  \A x \in AleQueue \ Alerts!Items(page) : \A k \in DOMAIN page : Alerts!Before(page[k], x)'
    <3>1. AlePaged
      BY <2>2 DEF AlertsInv
    <3>2. \A k \in DOMAIN page : page[k] \in AleQueue
      BY <3>1 DEF AlePaged
    <3> QED BY <1>1, <1>2, <3>1, <3>2 DEF AlePaged
  <2> QED BY <1>1, <1>2, <2>1, <2>2 DEF AlertsInv, AlePaged
<1>10. AleDigested'
  BY <1>0, <1>1, <1>2 DEF AleDigested, AleScored, Alerts!OfHigh
<1> QED BY <1>0, <1>1, <1>2, <1>7, <1>8, <1>9, <1>10 DEF AlertsInv

LEMMA AlertsStep ==
  ASSUME AlertsInv, [Alerts!Next]_(Alerts!vars)
  PROVE  AlertsInv'
<1>1. CASE Alerts!Page
  BY <1>1, AlertsPage
<1>2. CASE Alerts!Deliver
  BY <1>2, AlertsDeliver
<1>3. ASSUME NEW severity \in {"any", "high"}, Alerts!Send(severity)
      PROVE  AlertsInv'
  BY <1>3, AlertsSend
<1>4. CASE UNCHANGED Alerts!vars
  <2>1. UNCHANGED <<rows, limit, page, floor, digest, posted>>
    BY <1>4 DEF Alerts!vars
  <2>2. Alerts!QueueIsFair' /\ Alerts!NothingWithheld' /\ (digest # None => AleDigested')
    BY <2>1, AleTold
  <2>3. AleQueue' = AleQueue /\ Alerts!Room' = Alerts!Room /\ AleLevels' = AleLevels
        /\ \A x, y \in AleQueue : Alerts!Before(x, y)' <=> Alerts!Before(x, y)
    BY <2>1, AleStays
  <2>4. (page # None => AlePaged)'
    <3>1. Alerts!Items(page)' = Alerts!Items(page)
      BY <2>1 DEF Alerts!Items
    <3>2. ASSUME page # None
          PROVE  \A x \in AleQueue \ Alerts!Items(page) : \A k \in DOMAIN page : Alerts!Before(page[k], x)'
      <4>1. AlePaged
        BY <3>2 DEF AlertsInv
      <4>2. \A k \in DOMAIN page : page[k] \in AleQueue
        BY <4>1 DEF AlePaged
      <4> QED BY <2>1, <2>3, <4>1, <4>2 DEF AlePaged
    <3> QED BY <2>1, <2>3, <3>1, <3>2 DEF AlertsInv, AlePaged
  <2> QED BY <2>1, <2>2, <2>3, <2>4 DEF AlertsInv
<1> QED BY <1>1, <1>2, <1>3, <1>4 DEF Alerts!Next

LEMMA AlertsPromised ==
  ASSUME AlertsInv
  PROVE  Alerts!TypeOK /\ Alerts!QueueIsFair /\ Alerts!NothingWithheld
<1>1. ASSUME page # None
      PROVE  page \in Seq([rank : DOMAIN rows, kind : Alerts!Kinds])
  <2>1. rows \in Seq(Alerts!Rows) /\ page \in Seq(AleQueue)
    BY <1>1 DEF AlertsInv, AlePaged
  <2>2. \A x \in AleQueue : x \in [rank : DOMAIN rows, kind : Alerts!Kinds]
    BY <2>1, AleFired
  <2>3. DOMAIN page = 1..Len(page) /\ Len(page) \in Nat
        /\ \A k \in DOMAIN page : page[k] \in [rank : DOMAIN rows, kind : Alerts!Kinds]
    BY <2>1, <2>2
  <2>4. page \in [1..Len(page) -> [rank : DOMAIN rows, kind : Alerts!Kinds]]
    BY <2>1, <2>3
  <2> QED BY <2>3, <2>4, AleSeq
<1>2. ASSUME digest # None
      PROVE  digest.alerts \in Seq([rank : DOMAIN rows, kind : Alerts!Kinds, level : {None} \cup Alerts!Items(Alerts!Levels)])
  BY <1>2 DEF AlertsInv, AleDigested, AleScored, AleLevels
<1> QED BY <1>1, <1>2 DEF AlertsInv, Alerts!TypeOK, AleLevels

(* build_alert_digest and deliver_alert_webhook keep the queue fair and    *)
(* withhold nothing, whatever fires and however it is scored.              *)
THEOREM AlertsKept ==
  Alerts!Spec => [](Alerts!TypeOK /\ Alerts!QueueIsFair /\ Alerts!NothingWithheld)
<1>1. Alerts!Init => AlertsInv
  BY AlertsStart
<1>2. AlertsInv /\ [Alerts!Next]_(Alerts!vars) => AlertsInv'
  BY AlertsStep
<1> QED BY <1>1, <1>2, AlertsPromised, PTL DEF Alerts!Spec
=============================================================================
