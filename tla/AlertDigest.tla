------------------------------ MODULE AlertDigest ------------------------------
(***************************************************************************)
(* build_alert_digest: from the ranked rows of a watchlist to the queue of *)
(* alerts, its page, the scores Jev gives it, and the digest; and what a   *)
(* scheduled rule sends of it to its webhook.  An alert is the row and the *)
(* kind that fired; its texts are left out.                                *)
(***************************************************************************)
EXTENDS Integers, Sequences, FiniteSets

CONSTANTS
  Lanes, Signals, Locations,   \* what a row says of its ticker
  Batches,     \* sequences of rows, as their tickers came in
  Caps,        \* values of max_alerts
  None         \* no lane or signal, not scored, no floor

Rows == [score : Int, lane : Lanes, short : BOOLEAN, long : BOOLEAN, ridge : Signals,
         auction : Locations, volatile : BOOLEAN]

DigestAssumption ==
  /\ Batches \subseteq Seq(Rows) /\ Caps \subseteq Nat \ {0}
  /\ None \notin {"noise", "minor", "material", "urgent", "digest", "no alerts", "no high alerts"}

VARIABLES
  rows,      \* the cockpit's rows, ranked
  limit,     \* max_alerts
  page,      \* the capped queue of alerts
  floor,     \* min_materiality
  digest,    \* alerts returned, the counts made from them, and, as history, what was dropped
  sent       \* what a rule's webhook gets

vars == <<rows, limit, page, floor, digest, sent>>

High == {"priority-setup", "risk-lane", "fresh-short-flow", "ridge-sell", "ridge-buy"}
Kinds == High \cup {"fresh-long-flow", "ridge-buy-setup", "auction-above-value", "auction-below-value",
                    "high-volatility"}
Severity(kind) == IF kind \in High THEN 3 ELSE 2

(* The kinds in the order of their ids.                                    *)
Alphabet == <<"auction-above-value", "auction-below-value", "fresh-long-flow", "fresh-short-flow",
  "high-volatility", "priority-setup", "ridge-buy", "ridge-buy-setup", "ridge-sell", "risk-lane">>

Levels == <<"noise", "minor", "material", "urgent">>
Items(seq) == {seq[k] : k \in DOMAIN seq}
Place(seq, x) == CHOOSE k \in DOMAIN seq : seq[k] = x

(* A finite set in order: the n-th has n - 1 others of it before itself.   *)
Sorted(S, R) ==
  [n \in 1..Cardinality(S) |-> CHOOSE x \in S : Cardinality({y \in S : <<y, x>> \in R}) = n - 1]

(* build_cockpit_response: the best score first, equal scores as they came. *)
Better(batch) ==
  {p \in (DOMAIN batch) \X (DOMAIN batch) :
     \/ batch[p[1]].score > batch[p[2]].score
     \/ batch[p[1]].score = batch[p[2]].score /\ p[1] < p[2]}

Order(batch) == Sorted(DOMAIN batch, Better(batch))

Ranked(batch) == [k \in DOMAIN batch |-> batch[Order(batch)[k]]]

TypeOK ==
  /\ limit \in Caps /\ floor \in {None} \cup Items(Levels)
  /\ page = None \/ page \in Seq([rank : DOMAIN rows, kind : Kinds])
  /\ digest = None \/ digest.alerts \in Seq([rank : DOMAIN rows, kind : Kinds, level : {None} \cup Items(Levels)])
  /\ sent \in {None, "digest", "no alerts", "no high alerts"}

Init ==
  /\ \E batch \in Batches : rows = Ranked(batch)
  /\ limit \in Caps /\ floor \in {None} \cup Items(Levels)
  /\ page = None /\ digest = None /\ sent = None
-----------------------------------------------------------------------------
RidgeKind(signal) ==
  CASE signal = "BUY" -> {"ridge-buy"} [] signal = "BUY SETUP" -> {"ridge-buy-setup"}
    [] signal = "SELL" -> {"ridge-sell"} [] OTHER -> {}

(* row_alerts: a fresh short hides a fresh long.                           *)
Fired(row) ==
  {kind \in Kinds :
     \/ kind = "priority-setup" /\ row.lane = "Priority"
     \/ kind = "risk-lane" /\ row.lane = "Risk"
     \/ kind = "fresh-short-flow" /\ row.short
     \/ kind = "fresh-long-flow" /\ row.long /\ ~row.short
     \/ kind \in RidgeKind(row.ridge)
     \/ kind = "auction-above-value" /\ row.auction = "above value"
     \/ kind = "auction-below-value" /\ row.auction = "below value"
     \/ kind = "high-volatility" /\ row.volatile}

Queue == UNION {{[rank |-> k, kind |-> kind] : kind \in Fired(rows[k])} : k \in DOMAIN rows}

(* Mutation: the queue stays in the order of the rows.                     *)
BeforeByRank(x, y) ==
  x.rank < y.rank \/ (x.rank = y.rank /\ Place(Alphabet, x.kind) < Place(Alphabet, y.kind))

(* alert_sort_key: severity, the row's score, its rank, the alert's id.    *)
Before(x, y) ==
  LET Key(z) == <<-Severity(z.kind), -rows[z.rank].score, z.rank, Place(Alphabet, z.kind)>>
  IN \E k \in 1..4 : Key(x)[k] < Key(y)[k] /\ \A j \in 1..(k - 1) : Key(x)[j] = Key(y)[j]

(* As many alerts as the page takes.                                       *)
Room == IF Cardinality(Queue) < limit THEN Cardinality(Queue) ELSE limit

Page ==
  /\ page = None
  /\ page' = SubSeq(Sorted(Queue, {p \in Queue \X Queue : Before(p[1], p[2])}), 1, Room)
  /\ UNCHANGED <<rows, limit, floor, digest, sent>>

(* Mutation: an alert without a score is dropped.                          *)
KeptIfScored(level) == level # None /\ (floor # None => Place(Levels, level) >= Place(Levels, floor))

(* filter_alerts_by_materiality: only a known level is held to the floor.  *)
Kept(level) == floor = None \/ level = None \/ Place(Levels, level) >= Place(Levels, floor)

OfHigh(alerts) == {k \in DOMAIN alerts : alerts[k].kind \in High}

(* The page is scored as one, in order, and filtered; the digest counts    *)
(* what is left.                                                           *)
Deliver ==
  /\ page # None /\ digest = None
  /\ \E level \in [DOMAIN page -> {None} \cup Items(Levels)] :
       LET scored == [k \in DOMAIN page |->
             [rank |-> page[k].rank, kind |-> page[k].kind, level |-> level[k]]]
           kept == {k \in DOMAIN page : Kept(level[k])}
           order == Sorted(kept, {p \in kept \X kept : p[1] < p[2]})
           alerts == [n \in DOMAIN order |-> scored[order[n]]]
       IN digest' = [alerts |-> alerts, count |-> Len(alerts), high |-> Cardinality(OfHigh(alerts)),
                     dropped |-> {scored[k] : k \in DOMAIN page \ kept}]
  /\ UNCHANGED <<rows, limit, page, floor, sent>>

(* Mutation: a rule for High alerts gets digests of nothing else.          *)
SendAllHigh(severity) ==
  /\ digest # None /\ sent = None
  /\ sent' = IF digest.count = 0 THEN "no alerts"
             ELSE IF severity = "high" /\ digest.high < digest.count THEN "no high alerts" ELSE "digest"
  /\ UNCHANGED <<rows, limit, page, floor, digest>>

(* deliver_alert_webhook: what keeps a digest from its webhook.            *)
Send(severity) ==
  /\ digest # None /\ sent = None
  /\ sent' = IF digest.count = 0 THEN "no alerts"
             ELSE IF severity = "high" /\ digest.high = 0 THEN "no high alerts" ELSE "digest"
  /\ UNCHANGED <<rows, limit, page, floor, digest>>

Next == Page \/ Deliver \/ \E severity \in {"any", "high"} : Send(severity)

Spec == Init /\ [][Next]_vars
-----------------------------------------------------------------------------
Dropped(x) == \E z \in digest.dropped : z.rank = x.rank /\ z.kind = x.kind

Returned == {[rank |-> alert.rank, kind |-> alert.kind] : alert \in Items(digest.alerts)}

(* The page is used up: what is on it is returned, once, or was dropped.    *)
PageIsUsed ==
  /\ Cardinality(Returned) = digest.count
  /\ Cardinality(Returned) + Cardinality(digest.dropped) = Room

(* What was dropped is known to be immaterial, what is returned is not.    *)
FloorHolds ==
  /\ \A z \in digest.dropped :
       floor # None /\ z.level # None /\ Place(Levels, z.level) < Place(Levels, floor)
  /\ \A z \in Items(digest.alerts) :
       floor # None /\ z.level # None => Place(Levels, z.level) >= Place(Levels, floor)

(* What fired and is not returned was dropped, or comes after all that is. *)
CutIsFair ==
  \A x \in Queue \ Returned :
    \/ Dropped(x)
    \/ \A y \in Returned : \/ Severity(y.kind) > Severity(x.kind)
                           \/ /\ Severity(y.kind) = Severity(x.kind)
                              /\ rows[y.rank].score >= rows[x.rank].score

(* An alert that fired and is not returned is known to be immaterial, or   *)
(* the page is full of alerts that come before it: more severe ones, or as *)
(* severe ones of a better row.  Nothing is returned twice.                *)
QueueIsFair == digest # None => PageIsUsed /\ FloorHolds /\ CutIsFair

(* A digest is kept from a webhook as empty only if every alert that fired *)
(* is immaterial or the immaterial ones filled the page; and for want of a *)
(* High alert only if every one that fired is immaterial, for the page is  *)
(* cut after the sort.                                                     *)
NothingWithheld ==
  /\ sent = "no alerts" =>
       Cardinality(digest.dropped) = Room
  /\ sent = "no high alerts" =>
       \A x \in Queue : Severity(x.kind) = 3 => Dropped(x)
=============================================================================
