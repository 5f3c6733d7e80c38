----------------------------- MODULE CitationCheck -----------------------------
(***************************************************************************)
(* verify_citations: the citations of a memo, one after the other, are     *)
(* classified by patterns, or by Jev when none matches, and looked up in   *)
(* the report the memo was written from.                                   *)
(*                                                                         *)
(* A citation's text is what the patterns read from it: its shape, the     *)
(* form, item, concept, path or domain it names, and the value or date it  *)
(* cites.  A report part is what the lookups read of it.                   *)
(***************************************************************************)
EXTENDS Naturals, Sequences, FiniteSets

CONSTANTS
  Names,        \* concepts, paths, items and domains
  Inside,       \* pairs of names of which the first is part of the second's text
  Candidates,   \* _XBRL_CONCEPT_ALIASES: per name the concepts to look for, in order
  Words,        \* a value that is no number
  Memos,        \* the citations of each memo, in order
  Reports,      \* the reports they may be checked against
  None          \* absent, or not extracted

Shapes == {"xbrl", "trend", "filing", "8-K", "calendar", "exa", "other"}
Values == Nat \cup {Words, None}

(* What a text's own pattern needs is there: only a date is optional.      *)
Texts ==
  {c \in [shape : Shapes, form : STRING \cup {None}, name : Names \cup {None}, value : Values] :
     /\ c.shape \in {"xbrl", "trend"} => None \notin {c.name, c.value}
     /\ c.shape = "filing" => None \notin {c.form, c.name}
     /\ c.shape \in {"8-K", "exa"} => c.name # None}

CitationAssumption ==
  /\ Inside \subseteq Names \X Names
  /\ Candidates \in [Names -> Seq(Names)]
  /\ Memos \subseteq Seq(Texts)
  /\ \A r \in Reports \ {None} :
       /\ {r.facts, r.metrics, r.path} \subseteq [Names -> Values]
       /\ r.citations \in Seq([form : STRING, item : Names, filed : Values])
       /\ r.sections \in Seq([item : Names, filed : Values])
       /\ r.earnings \in Seq([item : Names])
       /\ r.exa \in Seq([domain : Names, date : Values])

VARIABLES
  report,   \* the report, or None
  memo,     \* citations not checked yet
  checks,   \* a check per citation
  gauge     \* the result's counts

vars == <<report, memo, checks, gauge>>

Kinds == {"sec_xbrl", "sec_filing", "sec_trend_pack", "sec_earnings_section", "earnings_calendar", "exa"}
Statuses == {"verified", "value_mismatch", "concept_missing", "uncheckable"}

TypeOK ==
  /\ report \in Reports
  /\ \E m \in Memos : \E k \in 0..Len(m) : memo = SubSeq(m, k + 1, Len(m)) /\ Len(checks) = k
  /\ \A k \in DOMAIN checks : checks[k].kind \in Kinds \cup {"unknown"} /\ checks[k].status \in Statuses
  /\ gauge = None \/ gauge \in [verified : Nat, checkable : Nat]

Init == report \in Reports /\ memo \in Memos /\ checks = <<>> /\ gauge = None
-----------------------------------------------------------------------------
(* The patterns that match a text.  A dated item of an 8-K also looks like *)
(* any other filing.                                                       *)
Patterns(c) ==
  CASE c.shape = "xbrl" -> {"sec_xbrl"}
    [] c.shape = "trend" -> {"sec_trend_pack"}
    [] c.shape = "filing" -> {"sec_filing"}
    [] c.shape = "8-K" -> {"sec_earnings_section"} \cup (IF c.value = None THEN {} ELSE {"sec_filing"})
    [] c.shape = "calendar" -> {"earnings_calendar"}
    [] c.shape = "exa" -> {"exa"}
    [] OTHER -> {}

(* Mutation: the generic filing pattern is tried first.                    *)
LadderByForm ==
  <<"sec_xbrl", "sec_filing", "sec_earnings_section", "sec_trend_pack", "earnings_calendar", "exa">>

Ladder ==
  <<"sec_earnings_section", "sec_xbrl", "sec_filing", "sec_trend_pack", "earnings_calendar", "exa">>

First(hits) == CHOOSE k \in hits : \A j \in hits : k <= j

(* The first pattern that matches, with its fields; else Jev's answer, a   *)
(* kind without fields.  An error or an unsure answer is "unknown".        *)
Classify(c, answer) ==
  LET hits == {k \in DOMAIN Ladder : Ladder[k] \in Patterns(c)} IN
  IF hits = {} THEN [kind |-> answer, form |-> None, name |-> None, value |-> None]
  ELSE [kind |-> Ladder[First(hits)], form |-> c.form, name |-> c.name, value |-> c.value]

(* _values_match: within half a percent of the larger one.                 *)
Match(x, y) ==
  \/ x = y
  \/ /\ Words \notin {x, y}
     /\ 200 * (IF x > y THEN x - y ELSE y - x) <= (IF x > y THEN x ELSE y)

Compared(cited, found) == IF Match(cited, found) THEN "verified" ELSE "value_mismatch"

(* Mutation: the trend pack is looked at first, and alone if it has any.   *)
FoundLatest(cands, facts, metrics) ==
  LET In(part) == {k \in DOMAIN cands : part[cands[k]] # None} IN
  IF In(metrics) # {} THEN metrics[cands[First(In(metrics))]] ELSE None

(* Company facts first, then the latest value of the trend pack's metrics. *)
Found(cands, facts, metrics) ==
  LET In(part) == {k \in DOMAIN cands : part[cands[k]] # None} IN
  IF In(facts) # {} THEN facts[cands[First(In(facts))]]
  ELSE IF In(metrics) # {} THEN metrics[cands[First(In(metrics))]] ELSE None

CheckXbrl(i, r) ==
  IF None \in {i.name, i.value} THEN "uncheckable"
  ELSE IF r = None THEN "concept_missing"
  ELSE LET found == Found(Candidates[i.name], r.facts, r.metrics) IN
       IF found = None THEN "concept_missing" ELSE Compared(i.value, found)

CheckTrend(i, r) ==
  IF None \in {i.name, i.value} THEN "uncheckable"
  ELSE IF r = None \/ r.path[i.name] = None THEN "concept_missing"
  ELSE Compared(i.value, r.path[i.name])

(* The date of an entry only matters if both sides have one.               *)
Dated(cited, filed) ==
  IF cited # None /\ filed # None /\ cited # filed THEN "value_mismatch" ELSE "verified"

(* The label of a source pack's citation holds its item, and the item of   *)
(* the memo may be part of it.                                             *)
Mentions(name, item) == name = item \/ <<name, item>> \in Inside

CheckFiling(i, r) ==
  IF None \in {i.form, i.name} THEN "uncheckable"
  ELSE IF r = None THEN "concept_missing"
  ELSE LET hits == {k \in DOMAIN r.citations :
                      r.citations[k].form = i.form /\ Mentions(i.name, r.citations[k].item)} IN
       IF hits = {} THEN "concept_missing" ELSE Dated(i.value, r.citations[First(hits)].filed)

(* An item that was not extracted is the empty text, part of every label.  *)
SameItem(name, item) == name = None \/ Mentions(name, item)

(* Mutation: only the list of the SEC source pack is looked at.            *)
CheckSectionOnce(i, r) ==
  IF r = None THEN "concept_missing"
  ELSE IF \E k \in DOMAIN r.earnings : SameItem(i.name, r.earnings[k].item) THEN "verified"
  ELSE "concept_missing"

(* The earnings pack's sections, else the list of the SEC source pack.     *)
CheckSection(i, r) ==
  IF r = None THEN "concept_missing"
  ELSE LET hits == {k \in DOMAIN r.sections : SameItem(i.name, r.sections[k].item)} IN
       IF hits # {} THEN Dated(i.value, r.sections[First(hits)].filed)
       ELSE IF \E k \in DOMAIN r.earnings : SameItem(i.name, r.earnings[k].item) THEN "verified"
       ELSE "concept_missing"

CheckCalendar(r) == IF r # None /\ r.calendar THEN "verified" ELSE "concept_missing"

(* A domain is looked for anywhere in the URL; any of its articles may     *)
(* have the date.                                                          *)
CheckExa(i, r) ==
  IF i.name = None THEN "uncheckable"
  ELSE IF r = None THEN "concept_missing"
  ELSE LET hits == {k \in DOMAIN r.exa : Mentions(i.name, r.exa[k].domain)} IN
       IF hits = {} THEN "concept_missing"
       ELSE IF i.value = None \/ \E k \in hits : r.exa[k].date = i.value THEN "verified"
       ELSE "value_mismatch"

Status(i, r) ==
  CASE i.kind = "sec_xbrl" -> CheckXbrl(i, r)
    [] i.kind = "sec_filing" -> CheckFiling(i, r)
    [] i.kind = "sec_trend_pack" -> CheckTrend(i, r)
    [] i.kind = "sec_earnings_section" -> CheckSection(i, r)
    [] i.kind = "earnings_calendar" -> CheckCalendar(r)
    [] i.kind = "exa" -> CheckExa(i, r)
    [] OTHER -> "uncheckable"
-----------------------------------------------------------------------------
Check(answer) ==
  /\ memo # <<>>
  /\ LET text == Head(memo) info == Classify(text, answer) IN
       /\ Patterns(text) # {} => answer = "unknown"
       /\ checks' = Append(checks,
            [cited |-> text, kind |-> info.kind, jev |-> Patterns(text) = {} /\ answer # "unknown",
             status |-> Status(info, report)])
  /\ memo' = Tail(memo)
  /\ UNCHANGED <<report, gauge>>

Count(statuses) == Cardinality({k \in DOMAIN checks : checks[k].status \in statuses})

(* percent_verified is verified / checkable, or 1 if nothing is checkable. *)
Aggregate ==
  /\ memo = <<>> /\ gauge = None
  /\ gauge' = [verified |-> Count({"verified"}), checkable |-> Count(Statuses \ {"uncheckable"})]
  /\ UNCHANGED <<report, memo, checks>>

Next == (\E answer \in Kinds \cup {"unknown"} : Check(answer)) \/ Aggregate

Spec == Init /\ [][Next]_vars
-----------------------------------------------------------------------------
(* Everything the report says of what a citation names.                    *)
Says(c) ==
  IF report = None THEN {} ELSE
  CASE c.shape = "xbrl" ->
         {part[n] : part \in {report.facts, report.metrics},
                    n \in {Candidates[c.name][k] : k \in DOMAIN Candidates[c.name]}} \ {None}
    [] c.shape = "trend" -> {report.path[c.name]} \ {None}
    [] c.shape = "filing" ->
         {report.citations[k].filed : k \in {k \in DOMAIN report.citations :
            report.citations[k].form = c.form /\ Mentions(c.name, report.citations[k].item)}}
    [] c.shape = "8-K" ->
         {report.sections[k].filed : k \in {k \in DOMAIN report.sections : Mentions(c.name, report.sections[k].item)}}
         \cup {None : k \in {k \in DOMAIN report.earnings : Mentions(c.name, report.earnings[k].item)}}
    [] c.shape = "calendar" -> IF report.calendar THEN {None} ELSE {}
    [] c.shape = "exa" ->
         {report.exa[k].date : k \in {k \in DOMAIN report.exa : Mentions(c.name, report.exa[k].domain)}}
    [] OTHER -> {}

Agrees(c, x) ==
  None \in {c.value, x} \/ (IF c.shape \in {"xbrl", "trend"} THEN Match(c.value, x) ELSE c.value = x)

(* A citation the patterns know is verified only if the report says what   *)
(* it cites, a mismatch only if the report says something else of it or    *)
(* does not date it, missing only if the report says nothing of it; and    *)
(* the gauge is full only if nothing failed: the ladder of patterns, the   *)
(* order of the report's parts and the early returns of the checkers lose  *)
(* and invent nothing.                                                     *)
VerdictsAreEarned ==
  /\ \A k \in DOMAIN checks :
       LET said == Says(checks[k].cited) IN
       ~checks[k].jev =>
         /\ checks[k].status = "verified" => \E x \in said : Agrees(checks[k].cited, x)
         /\ checks[k].status = "value_mismatch" => \E x \in said : x = None \/ ~Agrees(checks[k].cited, x)
         /\ checks[k].status = "concept_missing" => said = {}
         /\ checks[k].status = "uncheckable" => checks[k].cited.shape = "other"
  /\ gauge # None =>
       (gauge.verified = gauge.checkable <=>
          \A k \in DOMAIN checks : checks[k].status \in {"verified", "uncheckable"})

(* What the docstring of _classify_citation_with_jev promises: a label of  *)
(* Jev's, which brings no fields, never leads to a verified citation.      *)
FieldlessNeverVerified ==
  \A k \in DOMAIN checks : checks[k].jev => checks[k].status # "verified"
=============================================================================
