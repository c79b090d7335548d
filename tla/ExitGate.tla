------------------------------ MODULE ExitGate ------------------------------
(***************************************************************************)
(* What a pipeline relies on when it runs kube-chainsaw as a gate          *)
(* (site/docs/reference/cli.md, Exit Codes): the process ends, and how it  *)
(* ends says whether findings block the pipeline.  A job that ended with a *)
(* verdict has left a complete report in the file it asked for.            *)
(***************************************************************************)

VARIABLES
  job,     \* [blocked, wantsFile, faulty]: what the run is about; constant
  code,    \* "running", then "pass" (0), "blocked" (1) or "error" (2)
  report   \* the output file: "untouched", "complete" or "damaged"

vars == <<job, code, report>>

Job == [blocked : BOOLEAN, wantsFile : BOOLEAN, faulty : BOOLEAN]

Init ==
  /\ job \in Job
  /\ code = "running"
  /\ report = "untouched"

WriteReport ==
  /\ code = "running" /\ job.wantsFile /\ report = "untouched"
  /\ ~job.faulty
  /\ report' = "complete"
  /\ UNCHANGED <<job, code>>

\* What a failed write leaves behind is not promised.
WriteFails ==
  /\ code = "running" /\ job.wantsFile /\ report = "untouched"
  /\ ~job.faulty
  /\ report' \in {"untouched", "damaged"}
  /\ code' = "error"
  /\ UNCHANGED job

GiveVerdict ==
  /\ code = "running"
  /\ ~job.faulty
  /\ report = IF job.wantsFile THEN "complete" ELSE "untouched"
  /\ code' = IF job.blocked THEN "blocked" ELSE "pass"
  /\ UNCHANGED <<job, report>>

\* A faulty job (bad arguments, manifests or suppressions) ends in an error that
\* leaves the output file alone.
GiveUp ==
  /\ code = "running"
  /\ job.faulty /\ report = "untouched"
  /\ code' = "error"
  /\ UNCHANGED <<job, report>>

Next == WriteReport \/ WriteFails \/ GiveVerdict \/ GiveUp

Steps == Init /\ [][Next]_vars

Fairness == WF_vars(Next)

Spec == Steps /\ Fairness

=============================================================================
