---------------------------- MODULE JobLifecycle ----------------------------
(***************************************************************************)
(* Background jobs: rows submitted through the API, workers that take them *)
(* from the queue or from the recovery sweep, cancellations, and the event *)
(* stream a browser follows one job through.                               *)
(*                                                                         *)
(* JobService.run is one transaction: the claim, the handler's own writes  *)
(* and the outcome are committed together (worker.py _run_job), so the     *)
(* RUNNING status is never seen from outside; the row's lock is held       *)
(* meanwhile.  A handler that raises is recorded and committed; one that   *)
(* breaks the session takes the claim with it.                             *)
(*                                                                         *)
(* A worker may take any job that was submitted: the queue delivers an id  *)
(* once or more or, lost, leaves it to the sweep.                          *)
(***************************************************************************)
EXTENDS Naturals, FiniteSets

CONSTANTS Jobs,        \* jobs ever submitted
          JobWorkers,  \* worker replicas
          NoJob,       \* an idle worker's job
          NoOwner,     \* nobody holds the row's lock
          Unhandled,   \* jobs of a kind this build has no handler for
          Breaking,    \* jobs whose handler may break its session
          MaxJobCrashes\* bound: crashes of workers

ASSUME JobConstants ==
  /\ NoJob \notin Jobs /\ NoOwner \notin JobWorkers
  /\ Unhandled \subseteq Jobs /\ Breaking \subseteq Jobs
  /\ MaxJobCrashes \in Nat

VARIABLES
  jobRow,     \* committed rows: status and cancel_requested
  jobEffects, \* how often a job's work was committed in full
  jobDebris,  \* jobs that failed with part of their work committed
  jobLock,    \* the worker whose open transaction has written the row
  jobPc,      \* where each worker is
  jobHeld,    \* the job each worker is at
  sweepList,  \* what is left of each worker's recovery sweep
  jobCancel,  \* cancel requests that have read the row and not written it
  watcher,    \* the event stream of each job
  lastSent,   \* the last status it sent
  jobCrashes

jobVars == <<jobRow, jobEffects, jobDebris, jobLock, jobPc, jobHeld, sweepList,
             jobCancel, watcher, lastSent, jobCrashes>>

JobTerminal == {"succeeded", "failed", "cancelled"}
JobStatus == {"absent", "pending", "running"} \cup JobTerminal
JobRow == [status: JobStatus, cancel: BOOLEAN]
NoJobRow == [status |-> "absent", cancel |-> FALSE]

JobTypeOK ==
  /\ jobRow \in [Jobs -> JobRow]
  /\ jobEffects \in [Jobs -> Nat]
  /\ jobDebris \subseteq Jobs
  /\ jobLock \in [Jobs -> JobWorkers \cup {NoOwner}]
  /\ jobPc \in [JobWorkers -> {"idle", "skip", "reject", "claim", "running"}]
  /\ jobHeld \in [JobWorkers -> Jobs \cup {NoJob}]
  /\ sweepList \in [JobWorkers -> SUBSET Jobs]
  /\ jobCancel \in [Jobs -> {"none", "ask", "stop"}]
  /\ watcher \in [Jobs -> {"off", "open", "closed", "expired"}]
  /\ lastSent \in [Jobs -> JobStatus]
  /\ jobCrashes \in 0..MaxJobCrashes

-----------------------------------------------------------------------------
SetStatus(j, s) == jobRow' = [jobRow EXCEPT ![j].status = s]

\* Mutated: the sweep asks for the jobs a worker left running.
RunningJobs == {j \in Jobs : jobRow[j].status = "running"}

PendingJobs == {j \in Jobs : jobRow[j].status = "pending"}
JobFree(j) == jobLock[j] = NoOwner
GoIdle(w) ==
  /\ jobPc' = [jobPc EXCEPT ![w] = "idle"]
  /\ jobHeld' = [jobHeld EXCEPT ![w] = NoJob]
ReleaseJob(j) == jobLock' = [jobLock EXCEPT ![j] = NoOwner]

JobInit ==
  /\ jobRow = [j \in Jobs |-> NoJobRow]
  /\ jobEffects = [j \in Jobs |-> 0]
  /\ jobDebris = {}
  /\ jobLock = [j \in Jobs |-> NoOwner]
  /\ jobPc = [w \in JobWorkers |-> "idle"]
  /\ jobHeld = [w \in JobWorkers |-> NoJob]
  /\ sweepList = [w \in JobWorkers |-> {}]
  /\ jobCancel = [j \in Jobs |-> "none"]
  /\ watcher = [j \in Jobs |-> "off"]
  /\ lastSent = [j \in Jobs |-> "absent"]
  /\ jobCrashes = 0

-----------------------------------------------------------------------------
(* The API.                                                                *)

\* POST /jobs and the retry of an earlier job, which is a new job: the row is
\* committed with the request and the id pushed afterwards.
SubmitJob(j) ==
  /\ jobRow[j] = NoJobRow
  /\ SetStatus(j, "pending")
  /\ UNCHANGED <<jobEffects, jobDebris, jobLock, jobPc, jobHeld, sweepList,
                 jobCancel, watcher, lastSent, jobCrashes>>

\* A deployment without workers runs the job inside the request.
SubmitJobInline(j) ==
  /\ jobRow[j] = NoJobRow /\ j \notin Unhandled
  /\ \/ /\ SetStatus(j, "succeeded")
        /\ jobEffects' = [jobEffects EXCEPT ![j] = @ + 1]
        /\ UNCHANGED jobDebris
     \/ /\ SetStatus(j, "failed")
        /\ jobDebris' = jobDebris \cup {j}
        /\ UNCHANGED jobEffects
  /\ UNCHANGED <<jobLock, jobPc, jobHeld, sweepList, jobCancel, watcher, lastSent, jobCrashes>>

\* A cancel reads the row: a RUNNING job is asked to stop, a pending one is to
\* be cancelled, one that has ended is refused.
CancelJobRead(j) ==
  /\ jobCancel[j] = "none"
  /\ jobRow[j].status \in {"pending", "running"}
  /\ jobCancel' = [jobCancel EXCEPT
       ![j] = IF jobRow[j].status = "running" THEN "ask" ELSE "stop"]
  /\ UNCHANGED <<jobRow, jobEffects, jobDebris, jobLock, jobPc, jobHeld,
                 sweepList, watcher, lastSent, jobCrashes>>

\* Mutated: a job that has ended meanwhile is left as it is.
CancelJobUnlessEnded(j) ==
  /\ jobCancel[j] # "none" /\ JobFree(j)
  /\ jobRow' = [jobRow EXCEPT ![j] = IF @.status = "pending"
                                     THEN [@ EXCEPT !.status = "cancelled"] ELSE @]
  /\ jobCancel' = [jobCancel EXCEPT ![j] = "none"]
  /\ UNCHANGED <<jobEffects, jobDebris, jobLock, jobPc, jobHeld, sweepList,
                 watcher, lastSent, jobCrashes>>

\* Its UPDATE waits for the row's lock and then overwrites what it finds.
CancelJobWrite(j) ==
  /\ jobCancel[j] # "none" /\ JobFree(j)
  /\ jobRow' = [jobRow EXCEPT ![j] = IF jobCancel[j] = "stop"
                                     THEN [@ EXCEPT !.status = "cancelled"]
                                     ELSE [@ EXCEPT !.cancel = TRUE]]
  /\ jobCancel' = [jobCancel EXCEPT ![j] = "none"]
  /\ UNCHANGED <<jobEffects, jobDebris, jobLock, jobPc, jobHeld, sweepList,
                 watcher, lastSent, jobCrashes>>

-----------------------------------------------------------------------------
(* Workers.                                                                *)

\* The recovery sweep lists jobs still pending and fails RUNNING rows whose
\* heartbeat went quiet (_tick_recovery, reclaim_stale).
SweepJobs(w) ==
  /\ jobPc[w] = "idle" /\ sweepList[w] = {}
  /\ \E batch \in SUBSET PendingJobs \ {{}} :
       sweepList' = [sweepList EXCEPT ![w] = batch]
  /\ \E quiet \in SUBSET {j \in Jobs : jobRow[j].status = "running" /\ JobFree(j)} :
       jobRow' = [j \in Jobs |-> IF j \in quiet
                                 THEN [jobRow[j] EXCEPT !.status = "failed"]
                                 ELSE jobRow[j]]
  /\ UNCHANGED <<jobEffects, jobDebris, jobLock, jobPc, jobHeld, jobCancel,
                 watcher, lastSent, jobCrashes>>

\* run() reads the row and decides; a job that has ended is left alone.
TakeJob(w, j) ==
  /\ jobPc[w] = "idle" /\ jobRow[j].status # "absent"
  /\ sweepList[w] # {} => j \in sweepList[w]
  /\ sweepList' = [sweepList EXCEPT ![w] = @ \ {j}]
  /\ IF jobRow[j].status \in JobTerminal
     THEN UNCHANGED <<jobPc, jobHeld>>
     ELSE /\ jobHeld' = [jobHeld EXCEPT ![w] = j]
          /\ jobPc' = [jobPc EXCEPT ![w] = CASE jobRow[j].cancel -> "skip"
                                             [] ~jobRow[j].cancel /\ j \in Unhandled -> "reject"
                                             [] OTHER -> "claim"]
  /\ UNCHANGED <<jobRow, jobEffects, jobDebris, jobLock, jobCancel, watcher, lastSent, jobCrashes>>

\* Mutated: the claim reads the row instead of updating it conditionally.
ClaimJobByReading(w) ==
  LET j == jobHeld[w] IN
  /\ jobPc[w] = "claim"
  /\ IF jobRow[j].status = "pending"
     THEN /\ jobLock' = [jobLock EXCEPT ![j] = w]
          /\ jobPc' = [jobPc EXCEPT ![w] = "running"]
          /\ UNCHANGED jobHeld
     ELSE GoIdle(w) /\ UNCHANGED jobLock
  /\ UNCHANGED <<jobRow, jobEffects, jobDebris, sweepList, jobCancel, watcher, lastSent, jobCrashes>>

\* Mutated: the claim does not ask for a pending row.
ClaimJobAnyway(w) ==
  LET j == jobHeld[w] IN
  /\ jobPc[w] = "claim" /\ JobFree(j)
  /\ jobLock' = [jobLock EXCEPT ![j] = w]
  /\ jobPc' = [jobPc EXCEPT ![w] = "running"]
  /\ UNCHANGED <<jobRow, jobEffects, jobDebris, jobHeld, sweepList, jobCancel,
                 watcher, lastSent, jobCrashes>>

\* The claim: one conditional UPDATE, which waits for the row's lock.
ClaimJob(w) ==
  LET j == jobHeld[w] IN
  /\ jobPc[w] = "claim" /\ JobFree(j)
  /\ IF jobRow[j].status = "pending"
     THEN /\ jobLock' = [jobLock EXCEPT ![j] = w]
          /\ jobPc' = [jobPc EXCEPT ![w] = "running"]
          /\ UNCHANGED jobHeld
     ELSE GoIdle(w) /\ UNCHANGED jobLock
  /\ UNCHANGED <<jobRow, jobEffects, jobDebris, sweepList, jobCancel, watcher, lastSent, jobCrashes>>

\* A job nobody can run, or asked to stop before it started, is ended by a
\* plain update of what was read.
EndUnstarted(w) ==
  /\ jobPc[w] \in {"skip", "reject"} /\ JobFree(jobHeld[w])
  /\ SetStatus(jobHeld[w], IF jobPc[w] = "skip" THEN "cancelled" ELSE "failed")
  /\ GoIdle(w)
  /\ UNCHANGED <<jobEffects, jobDebris, jobLock, sweepList, jobCancel, watcher, lastSent, jobCrashes>>

\* The handler returned: a cancel that was committed meanwhile wins.
FinishJob(w) ==
  LET j == jobHeld[w] IN
  /\ jobPc[w] = "running"
  /\ SetStatus(j, IF jobRow[j].cancel THEN "cancelled" ELSE "succeeded")
  /\ jobEffects' = [jobEffects EXCEPT ![j] = @ + 1]
  /\ ReleaseJob(j) /\ GoIdle(w)
  /\ UNCHANGED <<jobDebris, sweepList, jobCancel, watcher, lastSent, jobCrashes>>

\* The handler raised: the failure is committed, and so is whatever the
\* handler had written by then.
FailJob(w) ==
  LET j == jobHeld[w] IN
  /\ jobPc[w] = "running"
  /\ SetStatus(j, "failed")
  /\ jobDebris' = jobDebris \cup {j}
  /\ ReleaseJob(j) /\ GoIdle(w)
  /\ UNCHANGED <<jobEffects, sweepList, jobCancel, watcher, lastSent, jobCrashes>>

\* The handler broke the session: recording the failure raises too, and the
\* claim is rolled back with everything else.
BreakJob(w) ==
  /\ jobPc[w] = "running" /\ jobHeld[w] \in Breaking
  /\ ReleaseJob(jobHeld[w]) /\ GoIdle(w)
  /\ UNCHANGED <<jobRow, jobEffects, jobDebris, sweepList, jobCancel, watcher, lastSent, jobCrashes>>

\* A worker dies: its transaction is rolled back, its sweep forgotten.
CrashJobWorker(w) ==
  /\ jobPc[w] # "idle" \/ sweepList[w] # {}
  /\ jobCrashes < MaxJobCrashes
  /\ jobCrashes' = jobCrashes + 1
  /\ jobLock' = [j \in Jobs |-> IF jobLock[j] = w THEN NoOwner ELSE jobLock[j]]
  /\ sweepList' = [sweepList EXCEPT ![w] = {}]
  /\ GoIdle(w)
  /\ UNCHANGED <<jobRow, jobEffects, jobDebris, jobCancel, watcher, lastSent>>

-----------------------------------------------------------------------------
(* The event stream of one job (stream.py watch).                          *)

\* Mutated: the end of the job closes the stream unsaid.
CloseSilently(j) ==
  IF jobRow[j].status \in JobTerminal
  THEN watcher' = [watcher EXCEPT ![j] = "closed"] /\ UNCHANGED lastSent
  ELSE /\ lastSent' = [lastSent EXCEPT ![j] = jobRow[j].status]
       /\ watcher' = [watcher EXCEPT ![j] = "open"]

\* A poll reads the committed row, sends its status when it differs from the
\* last one sent, and ends the stream after a terminal one.
SendStatus(j) ==
  /\ lastSent' = [lastSent EXCEPT ![j] = jobRow[j].status]
  /\ watcher' = [watcher EXCEPT
       ![j] = IF jobRow[j].status \in JobTerminal THEN "closed" ELSE "open"]

OpenWatch(j) ==
  /\ jobRow[j].status # "absent" /\ watcher[j] \in {"off", "expired"}
  /\ SendStatus(j)
  /\ UNCHANGED <<jobRow, jobEffects, jobDebris, jobLock, jobPc, jobHeld,
                 sweepList, jobCancel, jobCrashes>>

PollWatch(j) ==
  /\ watcher[j] = "open"
  /\ SendStatus(j)
  /\ UNCHANGED <<jobRow, jobEffects, jobDebris, jobLock, jobPc, jobHeld,
                 sweepList, jobCancel, jobCrashes>>

ExpireWatch(j) ==
  /\ watcher[j] = "open"
  /\ watcher' = [watcher EXCEPT ![j] = "expired"]
  /\ UNCHANGED <<jobRow, jobEffects, jobDebris, jobLock, jobPc, jobHeld,
                 sweepList, jobCancel, lastSent, jobCrashes>>

-----------------------------------------------------------------------------
JobApi(j) ==
  \/ SubmitJob(j) \/ SubmitJobInline(j)
  \/ CancelJobRead(j) \/ CancelJobWrite(j)
  \/ OpenWatch(j) \/ PollWatch(j) \/ ExpireWatch(j)

JobWorker(w) ==
  \/ SweepJobs(w)
  \/ \E j \in Jobs : TakeJob(w, j)
  \/ ClaimJob(w) \/ EndUnstarted(w)
  \/ FinishJob(w) \/ FailJob(w) \/ BreakJob(w)
  \/ CrashJobWorker(w)

JobNext == (\E j \in Jobs : JobApi(j)) \/ (\E w \in JobWorkers : JobWorker(w))

JobSpec == JobInit /\ [][JobNext]_jobVars

\* Workers keep sweeping, a sweep takes up every job still pending, a handler
\* ends, the database grants a lock to whoever keeps asking for it, and an open
\* stream keeps polling.
SweepAll(w) == SweepJobs(w) /\ sweepList'[w] = PendingJobs
TakeSwept(w) == \E j \in sweepList[w] : TakeJob(w, j)
EndHandler(w) == FinishJob(w) \/ FailJob(w) \/ BreakJob(w)

-----------------------------------------------------------------------------
(* Properties.                                                             *)

\* However often an id is delivered, by the queue or by several sweeps, two
\* workers are never inside the handler of one job (JobRepository.claim).
OneHandlerPerJob ==
  \A v, w \in JobWorkers :
    jobPc[v] = "running" /\ jobPc[w] = "running" /\ jobHeld[v] = jobHeld[w] => v = w

\* The row answers for the work: a success has done it exactly once, a failure
\* or a job still pending has not done it, and only a cancel may hide it.
JobWorkAccounted ==
  \A j \in Jobs :
    /\ jobEffects[j] <= 1
    /\ jobRow[j].status = "succeeded" => jobEffects[j] = 1
    /\ jobEffects[j] = 1 => jobRow[j].status \in {"succeeded", "cancelled"}

\* To a reader of committed rows the whole machinery is JobOutcome.
JobPromise == INSTANCE JobOutcome
  WITH shownJob <- [j \in Jobs |-> jobRow[j].status], jobDone <- jobEffects
JobKeepsPromise == JobPromise!JobOutcomeSpec

\* A stream that was closed told its reader how the job ended; the only thing
\* that may have changed since is a cancel decided before that.
ClosedStreamToldTheEnd ==
  \A j \in Jobs :
    watcher[j] = "closed" =>
      /\ lastSent[j] \in JobTerminal
      /\ jobRow[j].status \in {lastSent[j], "cancelled"} \/ j \in Unhandled

\* Whatever message or worker is lost, a job whose handler does not break its
\* session comes to an end: the sweep finds it.
JobsSettle ==
  \A j \in Jobs \ Breaking :
    jobRow[j].status = "pending" ~> jobRow[j].status \in JobTerminal

\* A cancel the API accepted ends the job as cancelled, also when a worker was
\* inside its handler at the time and even if that handler always breaks.
JobCancelTakesEffect ==
  \A j \in Jobs \ Unhandled :
    jobCancel[j] = "stop" ~> jobRow[j].status = "cancelled"
=============================================================================
