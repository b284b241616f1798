------------------------------ MODULE JobLifecycle ------------------------------
(***************************************************************************)
(* The life of an import job, as the knowledge base keeps it: a job is     *)
(* filed, it waits, it runs, and it completes, is cancelled or is parked   *)
(* (failed, interrupted, or waiting for the OCR pack).  A completed job    *)
(* stays completed, and only a running one completes; a parked one may be  *)
(* requeued, and does not run before.  A request that was under way may    *)
(* cancel a parked job, and requeue or run a cancelled one.  ImportJobs    *)
(* implements this.                                                        *)
(***************************************************************************)
CONSTANT Jobs

VARIABLE stage

Init == stage = [j \in Jobs |-> "none"]

Step(j, from, to) == stage[j] = from /\ stage' = [stage EXCEPT ![j] = to]

File(j)     == Step(j, "none", "waiting")
Run(j)      == Step(j, "waiting", "running") \/ Step(j, "cancelled", "running")
Complete(j) == Step(j, "running", "completed")
Cancel(j)   == \E from \in {"waiting", "running", "parked"} : Step(j, from, "cancelled")
Park(j)     == Step(j, "running", "parked") \/ Step(j, "waiting", "parked")
Requeue(j)  == Step(j, "parked", "waiting") \/ Step(j, "cancelled", "waiting")

\* the application starts again: what was not finished is parked
Interrupt ==
  stage' = [j \in Jobs |-> IF stage[j] \in {"waiting", "running"} THEN "parked"
                           ELSE stage[j]]

Next ==
  \/ \E j \in Jobs : \/ File(j) \/ Run(j) \/ Complete(j)
                     \/ Cancel(j) \/ Park(j) \/ Requeue(j)
  \/ Interrupt

Spec == Init /\ [][Next]_stage
=============================================================================
