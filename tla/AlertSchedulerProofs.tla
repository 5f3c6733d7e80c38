------------------------- MODULE AlertSchedulerProofs -------------------------
(***************************************************************************)
(* The delivery guarantees of the scheduler for any number of rules, days, *)
(* overlapping batches and failures.  The run row is the lock: a batch     *)
(* past its insert owns the rule and day until it ends (Owned), because    *)
(* the unique index lets nobody else insert.                               *)
(***************************************************************************)
EXTENDS AlertScheduler, TLAPS

Delivering == {"post", "log", "status"}

(* What a batch between insert_run and mark_rule_ran knows of its key.     *)
Owned ==
  \A b \in Batches :
    /\ pc[b] \in Delivering => runs[Key(b)] = "success"
    /\ pc[b] = "mark" => runs[Key(b)] # "none"
    /\ pc[b] \in {"insert", "post"} => sent[b] = "none"
    /\ pc[b] = "post" => posted[Key(b)] = 0
    /\ pc[b] \in {"post", "log"} => logged[Key(b)] = {}
    /\ pc[b] = "status" => logged[Key(b)] = {sent[b]}
    /\ pc[b] \in Delivering => delivery[Key(b)] = "none"
    /\ pc[b] \in {"log", "status"} =>
         /\ sent[b] # "none"
         /\ sent[b] = "success" => posted[Key(b)] = 1

(* No two batches deliver for the same rule and day.                       *)
Alone ==
  \A b, c \in Batches :
    b # c /\ pc[b] \in Delivering /\ pc[c] \in Delivering => Key(b) # Key(c)

(* A key without a run row is untouched.                                   *)
Untouched ==
  \A k \in Keys :
    runs[k] # "success" => posted[k] = 0 /\ logged[k] = {} /\ delivery[k] = "none"

IInv ==
  /\ TypeOK /\ Owned /\ Alone /\ Untouched
  /\ DeliveredAtMostOnce /\ StatusIsBacked /\ MarkedHasRun

LEMMA KeyExists ==
  ASSUME TypeOK, NEW b \in Batches, pc[b] \in RequestSteps \cup {"post"}
  PROVE  Key(b) \in Keys /\ rule[b] \in Rules /\ runDate[b] \in Days
PROOF BY DEF TypeOK, Key, Keys

LEMMA InitIInv == Init => IInv
PROOF BY SchedulerAssumption
      DEF Init, IInv, TypeOK, Owned, Alone, Untouched, DeliveredAtMostOnce,
          StatusIsBacked, MarkedHasRun, Delivering, RequestSteps, Keys, Days

(* Steps that change no table, no webhook, and take one batch out of the   *)
(* delivering part or leave it outside.                                    *)
LEMMA QuietStep ==
  ASSUME IInv, TypeOK', UNCHANGED <<lastRun, runs, delivery, logged, posted>>,
         NEW b \in Batches, pc'[b] \in {"idle", "evaluate", "insert"},
         pc'[b] = "insert" => sent'[b] = "none",
         \A c \in Batches \ {b} :
           /\ pc'[c] = pc[c] /\ rule'[c] = rule[c] /\ runDate'[c] = runDate[c]
           /\ sent'[c] = sent[c]
  PROVE  IInv'
<1> USE DEF IInv, Delivering
<1>1. \A c \in Batches \ {b} : Key(c)' = Key(c)
  BY DEF Key
<1>2. Owned'
  BY <1>1 DEF Owned
<1>3. Alone'
  BY <1>1 DEF Alone
<1>4. Untouched' /\ DeliveredAtMostOnce' /\ StatusIsBacked' /\ MarkedHasRun'
  BY DEF Untouched, DeliveredAtMostOnce, StatusIsBacked, MarkedHasRun
<1> QED BY <1>2, <1>3, <1>4

LEMMA StartStep ==
  ASSUME IInv, NEW b \in Batches, NEW d \in Days, NEW f \in BOOLEAN, Start(b, d, f)
  PROVE  IInv'
<1>1. TypeOK'
  BY DEF IInv, TypeOK, Start, Goto, db, RequestSteps
<1> QED BY <1>1, QuietStep DEF IInv, TypeOK, Start, Goto, db

LEMMA EvaluateStep ==
  ASSUME IInv, NEW b \in Batches, Evaluate(b)
  PROVE  IInv'
<1>1. TypeOK'
  BY DEF IInv, TypeOK, Evaluate, Goto, db, RequestSteps
<1> QED BY <1>1, QuietStep DEF IInv, TypeOK, Evaluate, Goto, db

LEMMA ConflictStep ==
  ASSUME IInv, NEW b \in Batches, Conflict(b)
  PROVE  IInv'
<1>1. TypeOK'
  BY DEF IInv, TypeOK, Conflict, EndBatch, Goto, db, RequestSteps
<1> QED BY <1>1, QuietStep DEF IInv, TypeOK, Conflict, EndBatch, Goto, db

LEMMA NextDayStep ==
  ASSUME IInv, NextDay
  PROVE  IInv'
<1>1. TypeOK'
  BY SchedulerAssumption DEF IInv, TypeOK, NextDay, Days, db, local
<1>2. \A b : Key(b)' = Key(b)
  BY DEF NextDay, Key, local
<1> QED BY <1>1, <1>2 DEF IInv, NextDay, Owned, Alone, Untouched, DeliveredAtMostOnce,
            StatusIsBacked, MarkedHasRun, db, local

(* The step of one batch leaves the local variables of the others alone.   *)
OthersKeep(b) ==
  \A c \in Batches \ {b} :
    /\ pc'[c] = pc[c] /\ rule'[c] = rule[c] /\ runDate'[c] = runDate[c]
    /\ sent'[c] = sent[c]

(* insert_run, answered or not: the batch goes on to deliver, to mark, or  *)
(* ends.                                                                   *)
LEMMA WriteRunStep ==
  ASSUME IInv, TypeOK', NEW b \in Batches, pc[b] = "insert", WriteRun(b),
         UNCHANGED posted, OthersKeep(b),
         \/ pc'[b] = "idle"
         \/ /\ pc'[b] = IF built[b] # "error" /\ rule[b] \in Hooked THEN "post" ELSE "mark"
            /\ UNCHANGED <<rule, runDate>>
            /\ sent'[b] = "none"
  PROVE  IInv'
<1> USE DEF IInv, Delivering, OthersKeep
<1>1. PICK k \in Keys : k = Key(b)
  BY KeyExists DEF RequestSteps
<1>2. /\ runs[k] = "none"
      /\ runs' = [runs EXCEPT ![k] = IF built[b] = "error" THEN "failed" ELSE "success"]
      /\ UNCHANGED <<order, lastRun, delivery, logged>>
  BY <1>1 DEF WriteRun
<1>3. posted[k] = 0 /\ logged[k] = {} /\ delivery[k] = "none"
  BY <1>2 DEF Untouched
<1>4. \A c \in Batches \ {b} :
        Key(c)' = Key(c) /\ (pc[c] \in Delivering \cup {"mark"} => Key(c) # k)
  BY <1>2 DEF Owned, Key
<1>5. pc'[b] # "idle" => Key(b)' = k
  BY <1>1 DEF Key
<1>6. runs'[k] \in {"success", "failed"} /\ (pc'[b] = "post" => runs'[k] = "success")
  BY <1>2 DEF TypeOK
<1>7. \A j \in Keys : j # k => runs'[j] = runs[j]
  BY <1>2 DEF TypeOK
<1>8. \A c \in Batches \ {b} : pc[c] \in RequestSteps \cup {"post"} => Key(c) \in Keys
  BY KeyExists
<1>9. Owned'
  <2> SUFFICES ASSUME NEW c \in Batches PROVE Owned!(c)'
    BY DEF Owned
  <2>1. CASE c = b
    BY <1>2, <1>3, <1>5, <1>6, <2>1
  <2>2. CASE c # b
    <3>1. Owned!(c)
      BY DEF Owned
    <3> QED BY <1>2, <1>4, <1>7, <1>8, <2>2, <3>1 DEF RequestSteps
  <2> QED BY <2>1, <2>2
<1>10. Alone'
  BY <1>4, <1>5 DEF Alone
<1>11. Untouched' /\ DeliveredAtMostOnce' /\ StatusIsBacked'
  BY <1>2, <1>3, <1>7 DEF Untouched, DeliveredAtMostOnce, StatusIsBacked
<1>12. MarkedHasRun'
  <2> SUFFICES ASSUME NEW r \in Rules, lastRun[r] # 0
               PROVE  runs'[<<r, lastRun[r]>>] # "none"
    BY <1>2 DEF MarkedHasRun
  <2>1. <<r, lastRun[r]>> \in Keys /\ runs[<<r, lastRun[r]>>] # "none"
    BY SchedulerAssumption DEF MarkedHasRun, TypeOK, Keys, Days
  <2> QED BY <1>2, <1>7, <2>1
<1> QED BY <1>9, <1>10, <1>11, <1>12

LEMMA WriteDeliveryStep ==
  ASSUME IInv, TypeOK', NEW b \in Batches, pc[b] = "log", WriteDelivery(b),
         UNCHANGED posted, OthersKeep(b),
         \/ pc'[b] = "idle"
         \/ pc'[b] = "status" /\ UNCHANGED <<rule, runDate, sent>>
  PROVE  IInv'
<1> USE DEF IInv, Delivering, OthersKeep
<1>1. PICK k \in Keys : k = Key(b)
  BY KeyExists DEF RequestSteps
<1>2. /\ logged' = [logged EXCEPT ![k] = @ \cup {sent[b]}]
      /\ UNCHANGED <<order, lastRun, runs, delivery>>
  BY <1>1 DEF WriteDelivery
<1>3. /\ logged[k] = {} /\ delivery[k] = "none" /\ runs[k] = "success"
      /\ sent[b] # "none" /\ (sent[b] = "success" => posted[k] = 1)
  BY <1>1 DEF Owned
<1>4. \A c \in Batches \ {b} :
        Key(c)' = Key(c) /\ (pc[c] \in Delivering => Key(c) # k)
  BY <1>1 DEF Alone, Key
<1>5. pc'[b] # "idle" => Key(b)' = k
  BY <1>1 DEF Key
<1>6. logged'[k] = {sent[b]} /\ \A j \in Keys : j # k => logged'[j] = logged[j]
  BY <1>2, <1>3 DEF TypeOK
<1>7. \A c \in Batches \ {b} : pc[c] \in RequestSteps \cup {"post"} => Key(c) \in Keys
  BY KeyExists
<1>8. Owned'
  <2> SUFFICES ASSUME NEW c \in Batches PROVE Owned!(c)'
    BY DEF Owned
  <2>1. CASE c = b
    BY <1>2, <1>3, <1>5, <1>6, <2>1
  <2>2. CASE c # b
    <3>1. Owned!(c)
      BY DEF Owned
    <3> QED BY <1>2, <1>4, <1>6, <1>7, <2>2, <3>1 DEF RequestSteps
  <2> QED BY <2>1, <2>2
<1>9. Alone'
  BY <1>1, <1>4, <1>5 DEF Alone
<1>10. Untouched' /\ DeliveredAtMostOnce' /\ StatusIsBacked' /\ MarkedHasRun'
  BY <1>2, <1>3, <1>6 DEF Untouched, DeliveredAtMostOnce, StatusIsBacked, MarkedHasRun
<1> QED BY <1>8, <1>9, <1>10

LEMMA WriteStatusStep ==
  ASSUME IInv, TypeOK', NEW b \in Batches, pc[b] = "status", WriteStatus(b),
         UNCHANGED posted, OthersKeep(b),
         \/ pc'[b] = "idle"
         \/ pc'[b] = "mark" /\ UNCHANGED <<rule, runDate, sent>>
  PROVE  IInv'
<1> USE DEF IInv, Delivering, OthersKeep
<1>1. PICK k \in Keys : k = Key(b)
  BY KeyExists DEF RequestSteps
<1>2. /\ delivery' = [delivery EXCEPT ![k] = sent[b]]
      /\ UNCHANGED <<order, lastRun, runs, logged>>
  BY <1>1 DEF WriteStatus
<1>3. /\ logged[k] = {sent[b]} /\ runs[k] = "success"
      /\ sent[b] # "none" /\ (sent[b] = "success" => posted[k] = 1)
  BY <1>1 DEF Owned
<1>4. \A c \in Batches \ {b} :
        Key(c)' = Key(c) /\ (pc[c] \in Delivering => Key(c) # k)
  BY <1>1 DEF Alone, Key
<1>5. pc'[b] # "idle" => Key(b)' = k
  BY <1>1 DEF Key
<1>6. delivery'[k] = sent[b] /\ \A j \in Keys : j # k => delivery'[j] = delivery[j]
  BY <1>2 DEF TypeOK
<1>7. \A c \in Batches \ {b} : pc[c] \in RequestSteps \cup {"post"} => Key(c) \in Keys
  BY KeyExists
<1>8. Owned'
  <2> SUFFICES ASSUME NEW c \in Batches PROVE Owned!(c)'
    BY DEF Owned
  <2>1. CASE c = b
    BY <1>2, <1>3, <1>5, <1>6, <2>1
  <2>2. CASE c # b
    <3>1. Owned!(c)
      BY DEF Owned
    <3> QED BY <1>2, <1>4, <1>6, <1>7, <2>2, <3>1 DEF RequestSteps
  <2> QED BY <2>1, <2>2
<1>9. Alone'
  BY <1>1, <1>4, <1>5 DEF Alone
<1>10. Untouched' /\ DeliveredAtMostOnce' /\ StatusIsBacked' /\ MarkedHasRun'
  BY <1>2, <1>3, <1>6 DEF Untouched, DeliveredAtMostOnce, StatusIsBacked, MarkedHasRun
<1> QED BY <1>8, <1>9, <1>10

LEMMA WriteMarkStep ==
  ASSUME IInv, TypeOK', NEW b \in Batches, pc[b] = "mark", WriteMark(b),
         UNCHANGED posted, OthersKeep(b), pc'[b] \in {"idle", "evaluate"}
  PROVE  IInv'
<1> USE DEF IInv, Delivering, OthersKeep
<1>1. PICK k \in Keys : k = Key(b) /\ k = <<rule[b], runDate[b]>>
  BY KeyExists DEF RequestSteps, Key
<1>2. /\ lastRun' = [lastRun EXCEPT ![rule[b]] = runDate[b]]
      /\ UNCHANGED <<runs, delivery, logged>>
  BY DEF WriteMark
<1>3. rule[b] \in Rules /\ runDate[b] \in Days /\ runs[k] # "none"
  BY <1>1, KeyExists DEF Owned, RequestSteps
<1>4. \A c \in Batches \ {b} : Key(c)' = Key(c)
  BY DEF Key
<1>5. Owned'
  BY <1>2, <1>4 DEF Owned
<1>6. Alone'
  BY <1>4 DEF Alone
<1>7. Untouched' /\ DeliveredAtMostOnce' /\ StatusIsBacked'
  BY <1>2 DEF Untouched, DeliveredAtMostOnce, StatusIsBacked
<1>8. MarkedHasRun'
  BY <1>1, <1>2, <1>3 DEF MarkedHasRun, TypeOK
<1> QED BY <1>5, <1>6, <1>7, <1>8

LEMMA PostStep ==
  ASSUME IInv, NEW b \in Batches, Post(b)
  PROVE  IInv'
<1> USE DEF IInv, Delivering
<1>1. PICK k \in Keys : k = Key(b)
  BY KeyExists DEF Post
<1>2. TypeOK'
  BY <1>1 DEF TypeOK, Post, Goto, RequestSteps, db
<1>3. /\ posted[k] = 0 /\ logged[k] = {} /\ delivery[k] = "none" /\ runs[k] = "success"
      /\ UNCHANGED <<lastRun, runs, delivery, logged, rule, runDate>>
      /\ pc' = [pc EXCEPT ![b] = "log"] /\ pc[b] = "post"
  BY <1>1 DEF Owned, Post, Goto, db
<1>4. /\ sent'[b] \in {"success", "failed", "skipped"}
      /\ \A c \in Batches \ {b} : sent'[c] = sent[c]
      /\ \A j \in Keys : j # k => posted'[j] = posted[j]
      /\ posted'[k] \in {0, 1} /\ (sent'[b] = "success" => posted'[k] = 1)
  <2>1. CASE built[b] = "quiet" /\ sent' = [sent EXCEPT ![b] = "skipped"] /\ posted' = posted
    BY <1>3, <2>1 DEF TypeOK
  <2>2. CASE /\ \E status \in {"success", "failed"} : sent' = [sent EXCEPT ![b] = status]
             /\ posted' = [posted EXCEPT ![k] = @ + 1]
    BY <1>3, <2>2 DEF TypeOK
  <2>3. CASE sent' = [sent EXCEPT ![b] = "failed"] /\ posted' = posted
    BY <1>3, <2>3 DEF TypeOK
  <2> QED BY <1>1, <2>1, <2>2, <2>3 DEF Post
<1>5. \A c \in Batches : Key(c)' = Key(c)
  BY <1>3 DEF Key
<1>6. \A c \in Batches \ {b} : pc'[c] = pc[c] /\ (pc[c] \in Delivering => Key(c) # k)
  BY <1>1, <1>3 DEF Alone, TypeOK
<1>7. \A c \in Batches \ {b} : pc[c] \in RequestSteps \cup {"post"} => Key(c) \in Keys
  BY KeyExists
<1>8. Owned'
  <2> SUFFICES ASSUME NEW c \in Batches PROVE Owned!(c)'
    BY DEF Owned
  <2>1. CASE c = b
    BY <1>1, <1>3, <1>4, <1>5, <2>1 DEF TypeOK
  <2>2. CASE c # b
    <3>1. Owned!(c)
      BY DEF Owned
    <3> QED BY <1>3, <1>4, <1>5, <1>6, <1>7, <2>2, <3>1 DEF RequestSteps
  <2> QED BY <2>1, <2>2
<1>9. Alone'
  BY <1>3, <1>5 DEF Alone, TypeOK
<1>10. Untouched' /\ DeliveredAtMostOnce' /\ StatusIsBacked' /\ MarkedHasRun'
  BY <1>3, <1>4 DEF Untouched, DeliveredAtMostOnce, StatusIsBacked, MarkedHasRun
<1> QED BY <1>2, <1>8, <1>9, <1>10

LEMMA RequestStep ==
  ASSUME IInv, NEW b \in Batches,
         InsertRun(b) \/ InsertDelivery(b) \/ UpdateStatus(b) \/ MarkRan(b)
  PROVE  IInv'
<1> USE DEF IInv
<1>1. CASE InsertRun(b)
  <2>1. Key(b) \in Keys
    BY <1>1, KeyExists DEF InsertRun, RequestSteps
  <2>2. TypeOK'
    BY <1>1, <2>1 DEF InsertRun, WriteRun, TypeOK, Goto, RequestSteps, local
  <2>3. OthersKeep(b)
    BY <1>1 DEF InsertRun, OthersKeep, TypeOK, Goto, local
  <2>4. sent[b] = "none"
    BY <1>1 DEF InsertRun, Owned
  <2> QED BY <1>1, <2>2, <2>3, <2>4, WriteRunStep DEF InsertRun, TypeOK, Goto, local
<1>2. CASE InsertDelivery(b)
  <2>1. Key(b) \in Keys /\ sent[b] # "none"
    BY <1>2, KeyExists DEF InsertDelivery, RequestSteps, Owned
  <2>2. TypeOK'
    BY <1>2, <2>1 DEF InsertDelivery, WriteDelivery, TypeOK, Goto, RequestSteps, local
  <2>3. OthersKeep(b)
    BY <1>2 DEF InsertDelivery, OthersKeep, TypeOK, Goto, local
  <2> QED BY <1>2, <2>2, <2>3, WriteDeliveryStep DEF InsertDelivery, TypeOK, Goto, local
<1>3. CASE UpdateStatus(b)
  <2>1. Key(b) \in Keys
    BY <1>3, KeyExists DEF UpdateStatus, RequestSteps
  <2>2. TypeOK'
    BY <1>3, <2>1 DEF UpdateStatus, WriteStatus, TypeOK, Goto, RequestSteps, local
  <2>3. OthersKeep(b)
    BY <1>3 DEF UpdateStatus, OthersKeep, TypeOK, Goto, local
  <2> QED BY <1>3, <2>2, <2>3, WriteStatusStep DEF UpdateStatus, TypeOK, Goto, local
<1>4. CASE MarkRan(b)
  <2>1. rule[b] \in Rules /\ runDate[b] \in Days
    BY <1>4, KeyExists DEF MarkRan, RequestSteps
  <2>2. pc' = [pc EXCEPT ![b] = "idle"] \/ pc' = [pc EXCEPT ![b] = "evaluate"]
    BY <1>4 DEF MarkRan, EndBatch, Goto
  <2>3. TypeOK'
    <3>1. lastRun' \in [Rules -> 0..MaxDay]
      BY <1>4, <2>1, SchedulerAssumption DEF MarkRan, WriteMark, TypeOK, Days
    <3>2. UNCHANGED <<today, runs, delivery, logged, posted, faults, runDate>>
      BY <1>4 DEF MarkRan, WriteMark, EndBatch
    <3>3. /\ rule' = [rule EXCEPT ![b] = Nobody]
          /\ built' \in [Batches -> {"alerts", "quiet", "error"}]
          /\ sent' \in [Batches -> {"none", "success", "failed", "skipped"}]
      BY <1>4 DEF MarkRan, EndBatch, TypeOK
    <3> QED BY <2>2, <3>1, <3>2, <3>3 DEF TypeOK, RequestSteps
  <2>4. OthersKeep(b)
    BY <1>4, <2>2 DEF MarkRan, EndBatch, OthersKeep, TypeOK
  <2> QED BY <1>4, <2>2, <2>3, <2>4, WriteMarkStep DEF MarkRan, TypeOK
<1> QED BY <1>1, <1>2, <1>3, <1>4

LEMMA FaultStep ==
  ASSUME IInv, NEW b \in Batches, Fault(b)
  PROVE  IInv'
<1> USE DEF IInv
<1>1. /\ pc' = [pc EXCEPT ![b] = "idle"] /\ faults' \in 0..MaxFaults
      /\ UNCHANGED <<today, posted, runDate>>
      /\ OthersKeep(b)
  BY SchedulerAssumption DEF Fault, EndBatch, Goto, OthersKeep, TypeOK
<1>2. /\ rule' \in [Batches -> Rules \cup {Nobody}]
      /\ built' \in [Batches -> {"alerts", "quiet", "error"}]
      /\ sent' \in [Batches -> {"none", "success", "failed", "skipped"}]
      /\ \A c \in Batches : pc'[c] \in RequestSteps \cup {"post"} => rule'[c] \in Rules
  BY <1>1 DEF Fault, EndBatch, TypeOK, RequestSteps
<1>3. pc[b] \in RequestSteps => Key(b) \in Keys /\ rule[b] \in Rules /\ runDate[b] \in Days
  BY KeyExists
<1>4. CASE UNCHANGED db
  <2>1. TypeOK'
    BY <1>1, <1>2, <1>4 DEF TypeOK, db
  <2> QED BY <1>1, <1>4, <2>1, QuietStep DEF TypeOK, db, OthersKeep
<1>5. CASE pc[b] = "insert" /\ WriteRun(b)
  <2>1. TypeOK'
    BY <1>1, <1>2, <1>3, <1>5 DEF TypeOK, WriteRun, RequestSteps
  <2> QED BY <1>1, <1>5, <2>1, WriteRunStep DEF TypeOK
<1>6. CASE pc[b] = "log" /\ WriteDelivery(b)
  <2>1. TypeOK'
    BY <1>1, <1>2, <1>3, <1>6 DEF TypeOK, WriteDelivery, RequestSteps, Owned
  <2> QED BY <1>1, <1>6, <2>1, WriteDeliveryStep DEF TypeOK
<1>7. CASE pc[b] = "status" /\ WriteStatus(b)
  <2>1. TypeOK'
    BY <1>1, <1>2, <1>3, <1>7 DEF TypeOK, WriteStatus, RequestSteps
  <2> QED BY <1>1, <1>7, <2>1, WriteStatusStep DEF TypeOK
<1>8. CASE pc[b] = "mark" /\ WriteMark(b)
  <2>1. lastRun' \in [Rules -> 0..MaxDay]
    BY <1>3, <1>8, SchedulerAssumption DEF WriteMark, TypeOK, Days, RequestSteps
  <2>2. TypeOK'
    BY <1>1, <1>2, <1>8, <2>1 DEF TypeOK, WriteMark
  <2> QED BY <1>1, <1>8, <2>2, WriteMarkStep DEF TypeOK
<1> QED BY <1>4, <1>5, <1>6, <1>7, <1>8 DEF Fault

THEOREM NextIInv == ASSUME IInv, [Next]_vars PROVE IInv'
<1>1. CASE UNCHANGED vars
  BY <1>1 DEF IInv, TypeOK, Owned, Alone, Untouched, DeliveredAtMostOnce,
              StatusIsBacked, MarkedHasRun, Key, vars, db, local
<1>2. ASSUME NEW b \in Batches, CronStart(b) PROVE IInv'
  BY <1>2, StartStep DEF CronStart, IInv, TypeOK
<1>3. ASSUME NEW b \in Batches, ManualStart(b) PROVE IInv'
  BY <1>3, StartStep, SchedulerAssumption DEF ManualStart, Days
<1>4. ASSUME NEW b \in Batches, Work(b) PROVE IInv'
  BY <1>4, EvaluateStep, ConflictStep, PostStep, RequestStep DEF Work
<1>5. ASSUME NEW b \in Batches, Fault(b) PROVE IInv'
  BY <1>5, FaultStep
<1> QED BY <1>1, <1>2, <1>3, <1>4, <1>5, NextDayStep DEF Next

(* The run row is a lock on the delivery of its rule and day.              *)
THEOREM RunRowOwnsDelivery == Spec => []IInv
<1>1. IInv /\ [Next]_vars => IInv'
  BY NextIInv
<1> QED BY InitIInv, <1>1, PTL DEF Spec

(* The scheduler's state stays well typed.                                 *)
THEOREM TypeCorrect == Spec => []TypeOK
<1>1. IInv => TypeOK
  BY DEF IInv
<1> QED BY RunRowOwnsDelivery, <1>1, PTL

(* A rule's digest is sent at most once per run date, for any number of    *)
(* overlapping batches, forced runs and failures.                          *)
THEOREM AtMostOnce == Spec => []DeliveredAtMostOnce
<1>1. IInv => DeliveredAtMostOnce
  BY DEF IInv
<1> QED BY RunRowOwnsDelivery, <1>1, PTL

(* Nothing is sent or logged without a successful run row.                 *)
THEOREM DeliveriesHaveRuns == Spec => []DeliveryHasRun
<1>1. IInv => DeliveryHasRun
  BY DEF IInv, TypeOK, Untouched, DeliveryHasRun
<1> QED BY RunRowOwnsDelivery, <1>1, PTL

(* The delivery status of a run agrees with its delivery log.              *)
THEOREM StatusesBacked == Spec => []StatusIsBacked
<1>1. IInv => StatusIsBacked
  BY DEF IInv
<1> QED BY RunRowOwnsDelivery, <1>1, PTL

(* A rule is only marked as run on a day it has a row for.                 *)
THEOREM MarksHaveRuns == Spec => []MarkedHasRun
<1>1. IInv => MarkedHasRun
  BY DEF IInv
<1> QED BY RunRowOwnsDelivery, <1>1, PTL
=============================================================================
