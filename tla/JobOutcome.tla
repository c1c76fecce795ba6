----------------------------- MODULE JobOutcome -----------------------------
(***************************************************************************)
(* What a background job promises to somebody who reads committed rows:    *)
(* it is accepted once, its work takes effect at most once and in the same *)
(* instant as the row says so, and the one thing that may still happen to  *)
(* a job that has ended is that a cancel decided earlier re-labels it.     *)
(***************************************************************************)
EXTENDS Naturals

CONSTANT Jobs

VARIABLES shownJob,   \* the status a reader sees
          jobDone     \* how often the job's work has taken full effect

outcomeVars == <<shownJob, jobDone>>

OutcomeInit ==
  /\ shownJob = [j \in Jobs |-> "absent"]
  /\ jobDone = [j \in Jobs |-> 0]

AcceptJob(j) ==
  /\ shownJob[j] = "absent"
  /\ shownJob' = [shownJob EXCEPT ![j] = "pending"]
  /\ UNCHANGED jobDone

CompleteJob(j) ==
  /\ shownJob[j] \in {"absent", "pending"} /\ jobDone[j] = 0
  /\ shownJob' = [shownJob EXCEPT ![j] = "succeeded"]
  /\ jobDone' = [jobDone EXCEPT ![j] = 1]

\* One nobody could run may be refused after it was cancelled.
RefuseJob(j) ==
  /\ shownJob[j] \in {"absent", "pending", "cancelled"} /\ jobDone[j] = 0
  /\ shownJob' = [shownJob EXCEPT ![j] = "failed"]
  /\ UNCHANGED jobDone

RelabelJob(j) ==
  /\ shownJob[j] \in {"pending", "succeeded", "failed"}
  /\ shownJob' = [shownJob EXCEPT ![j] = "cancelled"]
  /\ UNCHANGED jobDone

OutcomeNext ==
  \E j \in Jobs : AcceptJob(j) \/ CompleteJob(j) \/ RefuseJob(j) \/ RelabelJob(j)

JobOutcomeSpec == OutcomeInit /\ [][OutcomeNext]_outcomeVars
=============================================================================
