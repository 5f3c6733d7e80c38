------------------------------- MODULE WorkerPool -------------------------------
(***************************************************************************)
(* concurrent.futures.ThreadPoolExecutor as the server uses it: jobs are   *)
(* submitted in an order, at most MaxWorkers run, and leaving the with     *)
(* block waits for all of them, the queued ones too, however it is left.   *)
(***************************************************************************)
EXTENDS Naturals, Sequences, FiniteSets

CONSTANTS
  MaxWorkers,
  None        \* no job, no value

PoolAssumption == MaxWorkers \in Nat \ {0}

VARIABLE jobs   \* per submitted job: queued, running or how it ended

Pending(j) == jobs[j] \in {"queued", "running"}
Running == {j \in DOMAIN jobs : jobs[j] = "running"}
Queued == {j \in DOMAIN jobs : jobs[j] = "queued"}

AllQueued(names) == [n \in names |-> "queued"]

(* A free worker takes the job submitted first: none of those before it is *)
(* queued any more.                                                        *)
Start(j, before) ==
  /\ j \in Queued /\ before \cap Queued = {}
  /\ Cardinality(Running) < MaxWorkers
  /\ jobs' = [jobs EXCEPT ![j] = "running"]

Finish(j, outcome) ==
  /\ j \in Running
  /\ jobs' = [jobs EXCEPT ![j] = outcome]

Idle == \A j \in DOMAIN jobs : ~Pending(j)
=============================================================================
