---------------------------- MODULE AlertScheduler ----------------------------
(***************************************************************************)
(* The daily alert scheduler: POST /api/alerts/scheduled/run and the       *)
(* Supabase tables it drives.  One call of the endpoint is a batch; the    *)
(* cron job, its retries and an operator may run several at once, in       *)
(* different worker processes.  A batch reads the due rules once and then  *)
(* works through them with single REST requests, each of which may fail    *)
(* before or after Supabase applied it; any failure ends the whole batch.  *)
(*                                                                         *)
(* External, modelled from its migration: the unique index that allows one *)
(* scheduled run per rule and day.                                         *)
(***************************************************************************)
EXTENDS Integers, Sequences, FiniteSets, TLC

CONSTANTS
  Rules,          \* active daily rules
  Hooked,         \* those with delivery_channel "webhook"
  Batches,        \* calls of the endpoint that may be in progress at once
  MaxDay,         \* days modelled: 1..MaxDay (0 stands for a null date)
  Limit,          \* scheduled_rule_limit
  ManualDays,     \* run_date values an operator asks for
  MayForce,       \* values of `force` an operator asks for
  MaxFaults,      \* bound on store failures and worker crashes
  Nobody          \* no rule in hand

ASSUME SchedulerAssumption ==
  /\ MaxDay \in Nat \ {0}
  /\ Hooked \subseteq Rules
  /\ ManualDays \subseteq 1..MaxDay
  /\ MayForce \subseteq BOOLEAN
  /\ MaxFaults \in Nat
  /\ Nobody \notin Rules

(* The order the rules were created in: any one.                           *)
Creation == CHOOSE s \in [1..Cardinality(Rules) -> Rules] : \A r \in Rules : \E i \in DOMAIN s : s[i] = r

(* No call of the endpoint has a name.                                     *)
Interchangeable == Permutations(Batches)

Days == 1..MaxDay
Keys == Rules \X Days

VARIABLES
  today,      \* the UTC date
  order,      \* rules by updated_at, oldest first
  lastRun,    \* alert_rules.last_run_date
  runs,       \* status of the scheduled alert_runs row of a rule and day
  delivery,   \* its delivery_status
  logged,     \* statuses in alert_deliveries, per rule and day
  posted,     \* history: digests the webhook has received, per rule and day
  pc, runDate, queue, rule, built, sent,   \* per batch: its local variables
  faults

db == <<order, lastRun, runs, delivery, logged>>
local == <<runDate, queue, rule, built, sent>>
vars == <<today, db, posted, pc, local, faults>>

RequestSteps == {"insert", "log", "status", "mark"}

TypeOK ==
  /\ today \in Days
  /\ lastRun \in [Rules -> 0..MaxDay]
  /\ runs \in [Keys -> {"none", "success", "failed"}]
  /\ delivery \in [Keys -> {"none", "success", "failed", "skipped"}]
  /\ logged \in [Keys -> SUBSET {"success", "failed", "skipped"}]
  /\ posted \in [Keys -> Nat]
  /\ pc \in [Batches -> {"idle", "evaluate", "post"} \cup RequestSteps]
  /\ runDate \in [Batches -> Days]
  /\ rule \in [Batches -> Rules \cup {Nobody}]
  /\ \A b \in Batches : pc[b] \in RequestSteps \cup {"post"} => rule[b] \in Rules
  /\ built \in [Batches -> {"alerts", "quiet", "error"}]
  /\ sent \in [Batches -> {"none", "success", "failed", "skipped"}]
  /\ faults \in 0..MaxFaults

Key(b) == <<rule[b], runDate[b]>>

Goto(b, label) == pc' = [pc EXCEPT ![b] = label]

Init ==
  /\ today = 1
  /\ order = Creation
  /\ lastRun = [r \in Rules |-> 0]
  /\ runs = [k \in Keys |-> "none"]
  /\ delivery = [k \in Keys |-> "none"]
  /\ logged = [k \in Keys |-> {}]
  /\ posted = [k \in Keys |-> 0]
  /\ pc = [b \in Batches |-> "idle"]
  /\ runDate = [b \in Batches |-> 1]
  /\ queue = [b \in Batches |-> <<>>]
  /\ rule = [b \in Batches |-> Nobody]
  /\ built = [b \in Batches |-> "quiet"]
  /\ sent = [b \in Batches |-> "none"]
  /\ faults = 0

-----------------------------------------------------------------------------
(* Mutations of the definitions below: bugs the properties must catch.     *)

(* Only rules with a null last_run_date are due.                           *)
DueRulesOnce(d, force) == SelectSeq(order, LAMBDA r : force \/ lastRun[r] = 0)

(* The digest is sent before its run row is inserted.                      *)
EvaluateSendsFirst(b) ==
  /\ pc[b] = "evaluate"
  /\ \E r \in Rules, outcome \in {"alerts", "quiet", "error"} :
       /\ r = Head(queue[b])
       /\ rule' = [rule EXCEPT ![b] = r]
       /\ built' = [built EXCEPT ![b] = outcome]
       /\ Goto(b, IF outcome = "alerts" /\ r \in Hooked THEN "post" ELSE "insert")
  /\ queue' = [queue EXCEPT ![b] = Tail(@)]
  /\ sent' = [sent EXCEPT ![b] = "none"]
  /\ UNCHANGED <<today, db, posted, runDate, faults>>

(* A rule that cannot be evaluated is marked without a failed run row.     *)
EvaluateForgetsRun(b) ==
  /\ pc[b] = "evaluate"
  /\ \E r \in Rules, outcome \in {"alerts", "quiet", "error"} :
       /\ r = Head(queue[b])
       /\ rule' = [rule EXCEPT ![b] = r]
       /\ built' = [built EXCEPT ![b] = outcome]
       /\ Goto(b, IF outcome = "error" THEN "mark" ELSE "insert")
  /\ queue' = [queue EXCEPT ![b] = Tail(@)]
  /\ sent' = [sent EXCEPT ![b] = "none"]
  /\ UNCHANGED <<today, db, posted, runDate, faults>>

(* No unique index: a second scheduled run of the day is accepted.         *)
WriteRunTwice(b) ==
  /\ runs' = [runs EXCEPT ![Key(b)] = IF built[b] = "error" THEN "failed" ELSE "success"]
  /\ UNCHANGED <<order, lastRun, delivery, logged>>

(* mark_rule_ran writes the day after the run date.                        *)
WriteMarkAhead(b) ==
  /\ lastRun' = [lastRun EXCEPT ![rule[b]] = runDate[b] + 1]
  /\ order' = Append(SelectSeq(order, LAMBDA r : r # rule[b]), rule[b])
  /\ UNCHANGED <<runs, delivery, logged>>

(* The status is updated although no delivery was logged.                  *)
PostUnlogged(b) ==
  /\ pc[b] = "post"
  /\ \E status \in {"success", "failed", "skipped"} : sent' = [sent EXCEPT ![b] = status]
  /\ posted' = [posted EXCEPT ![Key(b)] = @ + 1]
  /\ Goto(b, "status")
  /\ UNCHANGED <<today, db, runDate, queue, rule, built, faults>>
-----------------------------------------------------------------------------
(* list_due_rules: active rules by updated_at, those that have not run on  *)
(* or after d unless forced; the endpoint keeps the first Limit of them.   *)
DueRules(d, force) == SelectSeq(order, LAMBDA r : force \/ lastRun[r] < d)

FirstOf(s, n) == SubSeq(s, 1, IF Len(s) < n THEN Len(s) ELSE n)

Start(b, d, force) ==
  /\ pc[b] = "idle"
  /\ DueRules(d, force) # <<>>
  /\ runDate' = [runDate EXCEPT ![b] = d]
  /\ queue' = [queue EXCEPT ![b] = FirstOf(DueRules(d, force), Limit)]
  /\ Goto(b, "evaluate")
  /\ UNCHANGED <<today, db, posted, rule, built, sent, faults>>

(* The cron job asks for the current date without force.                   *)
CronStart(b) == Start(b, today, FALSE)

ManualStart(b) == \E d \in ManualDays, force \in MayForce : Start(b, d, force)

(* build_alerts_response for the next rule: alerts, no alerts, or an       *)
(* exception that is recorded as a failed run.                             *)
Evaluate(b) ==
  /\ pc[b] = "evaluate"
  /\ \E r \in Rules, outcome \in {"alerts", "quiet", "error"} :
       /\ r = Head(queue[b])
       /\ rule' = [rule EXCEPT ![b] = r]
       /\ built' = [built EXCEPT ![b] = outcome]
  /\ queue' = [queue EXCEPT ![b] = Tail(@)]
  /\ sent' = [sent EXCEPT ![b] = "none"]
  /\ Goto(b, "insert")
  /\ UNCHANGED <<today, db, posted, runDate, faults>>

(* The rows a request writes, whether or not its answer arrives.           *)
WriteRun(b) ==
  /\ runs[Key(b)] = "none"
  /\ runs' = [runs EXCEPT ![Key(b)] = IF built[b] = "error" THEN "failed" ELSE "success"]
  /\ UNCHANGED <<order, lastRun, delivery, logged>>

WriteDelivery(b) ==
  /\ logged' = [logged EXCEPT ![Key(b)] = @ \cup {sent[b]}]
  /\ UNCHANGED <<order, lastRun, runs, delivery>>

WriteStatus(b) ==
  /\ delivery' = [delivery EXCEPT ![Key(b)] = sent[b]]
  /\ UNCHANGED <<order, lastRun, runs, logged>>

WriteMark(b) ==
  /\ lastRun' = [lastRun EXCEPT ![rule[b]] = runDate[b]]
  /\ order' = Append(SelectSeq(order, LAMBDA r : r # rule[b]), rule[b])
  /\ UNCHANGED <<runs, delivery, logged>>

(* An AlertStoreError or a requests exception ends the batch.              *)
EndBatch(b) ==
  /\ queue' = [queue EXCEPT ![b] = <<>>]
  /\ rule' = [rule EXCEPT ![b] = Nobody]
  /\ built' = [built EXCEPT ![b] = "quiet"]
  /\ sent' = [sent EXCEPT ![b] = "none"]
  /\ Goto(b, "idle")
  /\ UNCHANGED runDate

InsertRun(b) ==
  /\ pc[b] = "insert"
  /\ WriteRun(b)
  /\ Goto(b, IF built[b] # "error" /\ rule[b] \in Hooked THEN "post" ELSE "mark")
  /\ UNCHANGED <<today, posted, local, faults>>

(* The unique index refuses a second scheduled run of the day: 409, which  *)
(* _request raises.                                                        *)
Conflict(b) ==
  /\ pc[b] = "insert"
  /\ runs[Key(b)] # "none"
  /\ EndBatch(b)
  /\ UNCHANGED <<today, db, posted, faults>>

(* deliver_alert_webhook: skipped without alerts; otherwise the POST may   *)
(* arrive or not, and an answer may be lost after it arrived.              *)
Post(b) ==
  /\ pc[b] = "post"
  /\ \/ /\ built[b] = "quiet"
        /\ sent' = [sent EXCEPT ![b] = "skipped"]
        /\ UNCHANGED posted
     \/ /\ built[b] = "alerts"
        /\ \E status \in {"success", "failed"} : sent' = [sent EXCEPT ![b] = status]
        /\ posted' = [posted EXCEPT ![Key(b)] = @ + 1]
     \/ /\ built[b] = "alerts"
        /\ sent' = [sent EXCEPT ![b] = "failed"]
        /\ UNCHANGED posted
  /\ Goto(b, "log")
  /\ UNCHANGED <<today, db, runDate, queue, rule, built, faults>>

InsertDelivery(b) ==
  /\ pc[b] = "log"
  /\ WriteDelivery(b)
  /\ Goto(b, "status")
  /\ UNCHANGED <<today, posted, local, faults>>

UpdateStatus(b) ==
  /\ pc[b] = "status"
  /\ WriteStatus(b)
  /\ Goto(b, "mark")
  /\ UNCHANGED <<today, posted, local, faults>>

(* mark_rule_ran, then the next rule or the end of the batch.              *)
MarkRan(b) ==
  /\ pc[b] = "mark"
  /\ WriteMark(b)
  /\ IF queue[b] = <<>>
     THEN EndBatch(b)
     ELSE /\ rule' = [rule EXCEPT ![b] = Nobody]
          /\ Goto(b, "evaluate")
          /\ UNCHANGED <<runDate, queue, built, sent>>
  /\ UNCHANGED <<today, posted, faults>>

(* A request fails before or after Supabase applied it, or the worker dies *)
(* between two requests.                                                   *)
Fault(b) ==
  /\ pc[b] # "idle"
  /\ faults < MaxFaults
  /\ faults' = faults + 1
  /\ EndBatch(b)
  /\ \/ UNCHANGED db
     \/ pc[b] = "insert" /\ WriteRun(b)
     \/ pc[b] = "log" /\ WriteDelivery(b)
     \/ pc[b] = "status" /\ WriteStatus(b)
     \/ pc[b] = "mark" /\ WriteMark(b)
  /\ UNCHANGED <<today, posted>>

NextDay ==
  /\ today < MaxDay
  /\ today' = today + 1
  /\ UNCHANGED <<db, posted, pc, local, faults>>

(* What a batch does once it is started.                                   *)
Work(b) ==
  \/ Evaluate(b) \/ InsertRun(b) \/ Conflict(b) \/ Post(b)
  \/ InsertDelivery(b) \/ UpdateStatus(b) \/ MarkRan(b)

Next ==
  \/ \E b \in Batches : CronStart(b) \/ ManualStart(b) \/ Work(b) \/ Fault(b)
  \/ NextDay

Spec == Init /\ [][Next]_vars

(* The cron job keeps calling, and a started batch proceeds: every request *)
(* has a timeout.                                                          *)
FairSpec ==
  /\ Spec
  /\ WF_vars(NextDay)
  /\ \A b \in Batches : WF_vars(CronStart(b)) /\ WF_vars(Work(b))

-----------------------------------------------------------------------------
(* A rule's digest reaches its webhook at most once per run date, whatever *)
(* the overlap of batches, retries, forced runs and failures.              *)
DeliveredAtMostOnce == \A k \in Keys : posted[k] <= 1

(* No digest is sent, and no delivery logged, without the run row it       *)
(* belongs to; a run that failed sends nothing.                            *)
DeliveryHasRun ==
  \A k \in Keys : posted[k] > 0 \/ logged[k] # {} => runs[k] = "success"

(* The status shown on a run is backed by a logged delivery, there is one  *)
(* status per run, and "success" is only said of a digest that arrived.    *)
StatusIsBacked ==
  \A k \in Keys :
    /\ delivery[k] # "none" => logged[k] = {delivery[k]}
    /\ "success" \in logged[k] => posted[k] = 1

(* last_run_date names a day on which the rule has a run row.              *)
MarkedHasRun == \A r \in Rules : lastRun[r] # 0 => runs[<<r, lastRun[r]>>] # "none"

(* Every daily rule runs: it gets a row on the last day modelled.          *)
EveryRuleRuns == \A r \in Rules : <>(runs[<<r, MaxDay>>] # "none")

=============================================================================
