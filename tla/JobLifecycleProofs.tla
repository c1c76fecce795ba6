------------------------- MODULE JobLifecycleProofs -------------------------
(***************************************************************************)
(* What JobLifecycle guarantees for any number of jobs, workers and        *)
(* crashes.                                                                *)
(***************************************************************************)
EXTENDS JobLifecycle, TLAPS

USE JobConstants

(***************************************************************************)
(* The inductive invariant.  Nothing of a handler in progress is committed,*)
(* so what keeps two workers apart is the row's lock: it is held exactly   *)
(* by the worker inside the handler, and under it the row stays pending.   *)
(***************************************************************************)

(* A row is locked by the worker inside its handler, and by nobody else. *)
LocksMatch ==
  \A j \in Jobs, w \in JobWorkers :
    jobLock[j] = w <=> (jobPc[w] = "running" /\ jobHeld[w] = j)

(* What a worker decided when it read its job still holds: only a job of a kind
   without handler is to be refused, and the row it is inside of is pending. *)
WorkersMatch ==
  \A w \in JobWorkers :
    /\ jobPc[w] # "skip"
    /\ jobPc[w] # "idle" => jobHeld[w] \in Jobs /\ jobRow[jobHeld[w]].status # "absent"
    /\ jobPc[w] = "running" => jobRow[jobHeld[w]].status = "pending"
    /\ jobPc[w] = "reject" => jobHeld[w] \in Unhandled
    /\ jobPc[w] \in {"claim", "running"} => jobHeld[w] \notin Unhandled

(* No committed row is running or asked to stop, and a row answers for its work. *)
RowsMatch ==
  \A j \in Jobs :
    /\ jobRow[j].status # "running" /\ jobRow[j].cancel = FALSE
    /\ jobCancel[j] # "ask" /\ (jobCancel[j] = "stop" => jobRow[j].status # "absent")
    /\ jobEffects[j] \in {0, 1}
    /\ jobRow[j].status = "succeeded" => jobEffects[j] = 1
    /\ jobEffects[j] = 1 => jobRow[j].status \in {"succeeded", "cancelled"}
    /\ j \in Unhandled => jobEffects[j] = 0

JobInv == /\ JobTypeOK /\ LocksMatch /\ WorkersMatch /\ RowsMatch
          /\ ClosedStreamToldTheEnd

(* The invariant holds at the start. *)
LEMMA JobInvInit == JobInit => JobInv
<1> SUFFICES ASSUME JobInit PROVE JobInv
  OBVIOUS
<1> USE DEF JobInit, NoJobRow
<1>1. JobTypeOK
  BY DEF JobTypeOK, JobRow, JobStatus, JobTerminal
<1>2. LocksMatch /\ WorkersMatch
  BY DEF LocksMatch, WorkersMatch
<1>3. RowsMatch
  BY DEF RowsMatch
<1>4. ClosedStreamToldTheEnd
  BY DEF ClosedStreamToldTheEnd
<1> QED
  BY <1>1, <1>2, <1>3, <1>4 DEF JobInv

(* What the operations write keeps the rows rows and the counters numbers. *)
LEMMA StatusSet ==
  ASSUME JobTypeOK, NEW j \in Jobs, NEW s \in JobStatus, SetStatus(j, s)
  PROVE  jobRow' \in [Jobs -> JobRow]
<1>1. [jobRow[j] EXCEPT !.status = s] \in JobRow
  BY DEF JobTypeOK, JobRow
<1> QED
  BY <1>1 DEF JobTypeOK, SetStatus

LEMMA WorkCounted ==
  ASSUME JobTypeOK, NEW j \in Jobs, jobEffects' = [jobEffects EXCEPT ![j] = @ + 1]
  PROVE  jobEffects' \in [Jobs -> Nat]
<1>1. PICK n \in Nat : n = jobEffects[j] + 1
  BY jobEffects[j] + 1 \in Nat DEF JobTypeOK
<1> QED
  BY <1>1 DEF JobTypeOK

(* Every step keeps it. *)
LEMMA JobInvNext == JobInv /\ [JobNext]_jobVars => JobInv'
<1> SUFFICES ASSUME JobInv, [JobNext]_jobVars PROVE JobInv'
  OBVIOUS
<1> USE DEF JobInv, JobTypeOK, JobRow, JobStatus, JobTerminal
<1>1. ASSUME NEW j \in Jobs, SubmitJob(j) PROVE JobInv'
  <2>1. JobTypeOK'
    BY <1>1 DEF SubmitJob, SetStatus, NoJobRow
  <2>2. LocksMatch'
    BY <1>1 DEF LocksMatch, SubmitJob, SetStatus, NoJobRow
  <2>3. WorkersMatch'
    BY <1>1 DEF WorkersMatch, LocksMatch, RowsMatch, SubmitJob, SetStatus, NoJobRow
  <2>4. RowsMatch'
    BY <1>1 DEF RowsMatch, WorkersMatch, SubmitJob, SetStatus, NoJobRow
  <2>5. ClosedStreamToldTheEnd'
    BY <1>1 DEF ClosedStreamToldTheEnd, RowsMatch, WorkersMatch, SubmitJob, SetStatus, NoJobRow
  <2> QED
    BY <2>1, <2>2, <2>3, <2>4, <2>5
<1>2. ASSUME NEW j \in Jobs, SubmitJobInline(j) PROVE JobInv'
  <2>1. JobTypeOK'
    <3>1. jobRow' \in [Jobs -> JobRow]
      BY <1>2, StatusSet DEF SubmitJobInline
    <3>2. jobEffects' \in [Jobs -> Nat] /\ jobDebris' \subseteq Jobs
      <4>1. CASE jobEffects' = [jobEffects EXCEPT ![j] = @ + 1] /\ jobDebris' = jobDebris
        BY <4>1, WorkCounted
      <4>2. CASE jobEffects' = jobEffects /\ jobDebris' = jobDebris \cup {j}
        BY <4>2
      <4> QED
        BY <1>2, <4>1, <4>2 DEF SubmitJobInline
    <3>3. jobLock' \in [Jobs -> JobWorkers \cup {NoOwner}]
      BY <1>2 DEF SubmitJobInline, SetStatus, NoJobRow
    <3>4. jobPc' \in [JobWorkers -> {"idle", "skip", "reject", "claim", "running"}]
      BY <1>2 DEF SubmitJobInline, SetStatus, NoJobRow
    <3>5. jobHeld' \in [JobWorkers -> Jobs \cup {NoJob}]
      BY <1>2 DEF SubmitJobInline, SetStatus, NoJobRow
    <3>6. sweepList' \in [JobWorkers -> SUBSET Jobs] /\ jobCancel' \in [Jobs -> {"none", "ask", "stop"}]
      BY <1>2 DEF SubmitJobInline, SetStatus, NoJobRow
    <3>7. /\ watcher' \in [Jobs -> {"off", "open", "closed", "expired"}]
          /\ lastSent' \in [Jobs -> JobStatus] /\ jobCrashes' \in 0..MaxJobCrashes
      BY <1>2 DEF SubmitJobInline, SetStatus, NoJobRow
    <3> QED
      BY <3>1, <3>2, <3>3, <3>4, <3>5, <3>6, <3>7
  <2>2. LocksMatch'
    BY <1>2 DEF LocksMatch, SubmitJobInline
  <2>3. WorkersMatch'
    BY <1>2 DEF WorkersMatch, LocksMatch, RowsMatch, SubmitJobInline, SetStatus, NoJobRow
  <2>4. RowsMatch'
    BY <1>2 DEF RowsMatch, WorkersMatch, SubmitJobInline, SetStatus, NoJobRow
  <2>5. ClosedStreamToldTheEnd'
    BY <1>2 DEF ClosedStreamToldTheEnd, RowsMatch, WorkersMatch, SubmitJobInline, SetStatus, NoJobRow
  <2> QED
    BY <2>1, <2>2, <2>3, <2>4, <2>5
<1>3. ASSUME NEW j \in Jobs, CancelJobRead(j) PROVE JobInv'
  <2>1. JobTypeOK'
    BY <1>3 DEF CancelJobRead
  <2>2. LocksMatch'
    BY <1>3 DEF LocksMatch, CancelJobRead
  <2>3. WorkersMatch'
    BY <1>3 DEF WorkersMatch, LocksMatch, RowsMatch, CancelJobRead
  <2>4. RowsMatch'
    BY <1>3 DEF RowsMatch, WorkersMatch, CancelJobRead
  <2>5. ClosedStreamToldTheEnd'
    BY <1>3 DEF ClosedStreamToldTheEnd, RowsMatch, WorkersMatch, CancelJobRead
  <2> QED
    BY <2>1, <2>2, <2>3, <2>4, <2>5
<1>4. ASSUME NEW j \in Jobs, CancelJobWrite(j) PROVE JobInv'
  <2>1. JobTypeOK'
    <3>1. jobRow' \in [Jobs -> JobRow]
      <4>1. jobCancel[j] = "stop"
        BY <1>4 DEF CancelJobWrite, RowsMatch
      <4> QED
        BY <1>4, <4>1, StatusSet DEF CancelJobWrite, SetStatus
    <3>2. jobEffects' \in [Jobs -> Nat] /\ jobDebris' \subseteq Jobs
      BY <1>4 DEF CancelJobWrite, JobFree
    <3>3. jobLock' \in [Jobs -> JobWorkers \cup {NoOwner}]
      BY <1>4 DEF CancelJobWrite, JobFree
    <3>4. jobPc' \in [JobWorkers -> {"idle", "skip", "reject", "claim", "running"}]
      BY <1>4 DEF CancelJobWrite, JobFree
    <3>5. jobHeld' \in [JobWorkers -> Jobs \cup {NoJob}]
      BY <1>4 DEF CancelJobWrite, JobFree
    <3>6. sweepList' \in [JobWorkers -> SUBSET Jobs] /\ jobCancel' \in [Jobs -> {"none", "ask", "stop"}]
      BY <1>4 DEF CancelJobWrite, JobFree
    <3>7. /\ watcher' \in [Jobs -> {"off", "open", "closed", "expired"}]
          /\ lastSent' \in [Jobs -> JobStatus] /\ jobCrashes' \in 0..MaxJobCrashes
      BY <1>4 DEF CancelJobWrite, JobFree
    <3> QED
      BY <3>1, <3>2, <3>3, <3>4, <3>5, <3>6, <3>7
  <2>2. LocksMatch'
    BY <1>4 DEF LocksMatch, CancelJobWrite, JobFree
  <2>3. WorkersMatch'
    BY <1>4 DEF WorkersMatch, LocksMatch, RowsMatch, CancelJobWrite, JobFree
  <2>4. RowsMatch'
    BY <1>4 DEF RowsMatch, WorkersMatch, CancelJobWrite, JobFree
  <2>5. ClosedStreamToldTheEnd'
    BY <1>4 DEF ClosedStreamToldTheEnd, RowsMatch, WorkersMatch, CancelJobWrite, JobFree
  <2> QED
    BY <2>1, <2>2, <2>3, <2>4, <2>5
<1>5. ASSUME NEW j \in Jobs, OpenWatch(j) PROVE JobInv'
  <2>1. JobTypeOK'
    BY <1>5 DEF OpenWatch, SendStatus
  <2>2. LocksMatch'
    BY <1>5 DEF LocksMatch, OpenWatch, SendStatus
  <2>3. WorkersMatch'
    BY <1>5 DEF WorkersMatch, LocksMatch, RowsMatch, OpenWatch, SendStatus
  <2>4. RowsMatch'
    BY <1>5 DEF RowsMatch, WorkersMatch, OpenWatch, SendStatus
  <2>5. ClosedStreamToldTheEnd'
    BY <1>5 DEF ClosedStreamToldTheEnd, RowsMatch, WorkersMatch, OpenWatch, SendStatus
  <2> QED
    BY <2>1, <2>2, <2>3, <2>4, <2>5
<1>6. ASSUME NEW j \in Jobs, PollWatch(j) PROVE JobInv'
  <2>1. JobTypeOK'
    BY <1>6 DEF PollWatch, SendStatus
  <2>2. LocksMatch'
    BY <1>6 DEF LocksMatch, PollWatch, SendStatus
  <2>3. WorkersMatch'
    BY <1>6 DEF WorkersMatch, LocksMatch, RowsMatch, PollWatch, SendStatus
  <2>4. RowsMatch'
    BY <1>6 DEF RowsMatch, WorkersMatch, PollWatch, SendStatus
  <2>5. ClosedStreamToldTheEnd'
    BY <1>6 DEF ClosedStreamToldTheEnd, RowsMatch, WorkersMatch, PollWatch, SendStatus
  <2> QED
    BY <2>1, <2>2, <2>3, <2>4, <2>5
<1>7. ASSUME NEW j \in Jobs, ExpireWatch(j) PROVE JobInv'
  <2>1. JobTypeOK'
    BY <1>7 DEF ExpireWatch
  <2>2. LocksMatch'
    BY <1>7 DEF LocksMatch, ExpireWatch
  <2>3. WorkersMatch'
    BY <1>7 DEF WorkersMatch, LocksMatch, RowsMatch, ExpireWatch
  <2>4. RowsMatch'
    BY <1>7 DEF RowsMatch, WorkersMatch, ExpireWatch
  <2>5. ClosedStreamToldTheEnd'
    BY <1>7 DEF ClosedStreamToldTheEnd, RowsMatch, WorkersMatch, ExpireWatch
  <2> QED
    BY <2>1, <2>2, <2>3, <2>4, <2>5
<1>8. ASSUME NEW w \in JobWorkers, SweepJobs(w) PROVE JobInv'
  <2>1. JobTypeOK'
    BY <1>8 DEF SweepJobs, PendingJobs
  <2>2. LocksMatch'
    BY <1>8 DEF LocksMatch, SweepJobs, PendingJobs
  <2>3. WorkersMatch'
    BY <1>8 DEF WorkersMatch, LocksMatch, RowsMatch, SweepJobs, PendingJobs
  <2>4. RowsMatch'
    BY <1>8 DEF RowsMatch, WorkersMatch, SweepJobs, PendingJobs
  <2>5. ClosedStreamToldTheEnd'
    BY <1>8 DEF ClosedStreamToldTheEnd, RowsMatch, WorkersMatch, SweepJobs, PendingJobs
  <2> QED
    BY <2>1, <2>2, <2>3, <2>4, <2>5
<1>9. ASSUME NEW w \in JobWorkers, NEW j \in Jobs, TakeJob(w, j) PROVE JobInv'
  <2>1. JobTypeOK'
    <3>1. jobRow' \in [Jobs -> JobRow]
      BY <1>9 DEF TakeJob
    <3>2. jobEffects' \in [Jobs -> Nat] /\ jobDebris' \subseteq Jobs
      BY <1>9 DEF TakeJob
    <3>3. jobLock' \in [Jobs -> JobWorkers \cup {NoOwner}]
      BY <1>9 DEF TakeJob
    <3>4. jobPc' \in [JobWorkers -> {"idle", "skip", "reject", "claim", "running"}]
      BY <1>9 DEF TakeJob
    <3>5. jobHeld' \in [JobWorkers -> Jobs \cup {NoJob}]
      BY <1>9 DEF TakeJob
    <3>6. sweepList' \in [JobWorkers -> SUBSET Jobs] /\ jobCancel' \in [Jobs -> {"none", "ask", "stop"}]
      BY <1>9 DEF TakeJob
    <3>7. /\ watcher' \in [Jobs -> {"off", "open", "closed", "expired"}]
          /\ lastSent' \in [Jobs -> JobStatus] /\ jobCrashes' \in 0..MaxJobCrashes
      BY <1>9 DEF TakeJob
    <3> QED
      BY <3>1, <3>2, <3>3, <3>4, <3>5, <3>6, <3>7
  <2>2. LocksMatch'
    BY <1>9 DEF LocksMatch, TakeJob
  <2>3. WorkersMatch'
    BY <1>9 DEF WorkersMatch, LocksMatch, RowsMatch, TakeJob
  <2>4. RowsMatch'
    BY <1>9 DEF RowsMatch, WorkersMatch, TakeJob
  <2>5. ClosedStreamToldTheEnd'
    BY <1>9 DEF ClosedStreamToldTheEnd, RowsMatch, WorkersMatch, TakeJob
  <2> QED
    BY <2>1, <2>2, <2>3, <2>4, <2>5
<1>10. ASSUME NEW w \in JobWorkers, ClaimJob(w) PROVE JobInv'
  <2>1. JobTypeOK'
    <3>1. jobRow' \in [Jobs -> JobRow]
      BY <1>10 DEF ClaimJob, JobFree, GoIdle
    <3>2. jobEffects' \in [Jobs -> Nat] /\ jobDebris' \subseteq Jobs
      BY <1>10 DEF ClaimJob, JobFree, GoIdle
    <3>3. jobLock' \in [Jobs -> JobWorkers \cup {NoOwner}]
      BY <1>10 DEF ClaimJob, JobFree, GoIdle
    <3>4. jobPc' \in [JobWorkers -> {"idle", "skip", "reject", "claim", "running"}]
      BY <1>10 DEF ClaimJob, JobFree, GoIdle
    <3>5. jobHeld' \in [JobWorkers -> Jobs \cup {NoJob}]
      BY <1>10 DEF ClaimJob, JobFree, GoIdle
    <3>6. sweepList' \in [JobWorkers -> SUBSET Jobs] /\ jobCancel' \in [Jobs -> {"none", "ask", "stop"}]
      BY <1>10 DEF ClaimJob, JobFree, GoIdle
    <3>7. /\ watcher' \in [Jobs -> {"off", "open", "closed", "expired"}]
          /\ lastSent' \in [Jobs -> JobStatus] /\ jobCrashes' \in 0..MaxJobCrashes
      BY <1>10 DEF ClaimJob, JobFree, GoIdle
    <3> QED
      BY <3>1, <3>2, <3>3, <3>4, <3>5, <3>6, <3>7
  <2>2. LocksMatch'
    BY <1>10 DEF LocksMatch, ClaimJob, JobFree, GoIdle
  <2>3. WorkersMatch'
    BY <1>10 DEF WorkersMatch, LocksMatch, RowsMatch, ClaimJob, JobFree, GoIdle
  <2>4. RowsMatch'
    BY <1>10 DEF RowsMatch, WorkersMatch, ClaimJob, JobFree, GoIdle
  <2>5. ClosedStreamToldTheEnd'
    BY <1>10 DEF ClosedStreamToldTheEnd, RowsMatch, WorkersMatch, ClaimJob, JobFree, GoIdle
  <2> QED
    BY <2>1, <2>2, <2>3, <2>4, <2>5
<1>11. ASSUME NEW w \in JobWorkers, EndUnstarted(w) PROVE JobInv'
  <2>1. JobTypeOK'
    <3>1. jobRow' \in [Jobs -> JobRow]
      <4>1. jobHeld[w] \in Jobs
        BY <1>11 DEF EndUnstarted, WorkersMatch
      <4> QED
        BY <1>11, <4>1, StatusSet DEF EndUnstarted
    <3>2. jobEffects' \in [Jobs -> Nat] /\ jobDebris' \subseteq Jobs
      BY <1>11 DEF EndUnstarted, JobFree, GoIdle, SetStatus
    <3>3. jobLock' \in [Jobs -> JobWorkers \cup {NoOwner}]
      BY <1>11 DEF EndUnstarted, JobFree, GoIdle, SetStatus
    <3>4. jobPc' \in [JobWorkers -> {"idle", "skip", "reject", "claim", "running"}]
      BY <1>11 DEF EndUnstarted, JobFree, GoIdle, SetStatus
    <3>5. jobHeld' \in [JobWorkers -> Jobs \cup {NoJob}]
      BY <1>11 DEF EndUnstarted, JobFree, GoIdle, SetStatus
    <3>6. sweepList' \in [JobWorkers -> SUBSET Jobs] /\ jobCancel' \in [Jobs -> {"none", "ask", "stop"}]
      BY <1>11 DEF EndUnstarted, JobFree, GoIdle, SetStatus
    <3>7. /\ watcher' \in [Jobs -> {"off", "open", "closed", "expired"}]
          /\ lastSent' \in [Jobs -> JobStatus] /\ jobCrashes' \in 0..MaxJobCrashes
      BY <1>11 DEF EndUnstarted, JobFree, GoIdle, SetStatus
    <3> QED
      BY <3>1, <3>2, <3>3, <3>4, <3>5, <3>6, <3>7
  <2>2. LocksMatch'
    BY <1>11 DEF LocksMatch, EndUnstarted, JobFree, GoIdle, SetStatus
  <2>3. WorkersMatch'
    BY <1>11 DEF WorkersMatch, LocksMatch, RowsMatch, EndUnstarted, JobFree, GoIdle, SetStatus
  <2>4. RowsMatch'
    BY <1>11 DEF RowsMatch, WorkersMatch, EndUnstarted, JobFree, GoIdle, SetStatus
  <2>5. ClosedStreamToldTheEnd'
    BY <1>11 DEF ClosedStreamToldTheEnd, RowsMatch, WorkersMatch, EndUnstarted, JobFree, GoIdle, SetStatus
  <2> QED
    BY <2>1, <2>2, <2>3, <2>4, <2>5
<1>12. ASSUME NEW w \in JobWorkers, FinishJob(w) PROVE JobInv'
  <2>1. JobTypeOK'
    <3>1. jobRow' \in [Jobs -> JobRow]
      <4>1. jobHeld[w] \in Jobs
        BY <1>12 DEF FinishJob, WorkersMatch
      <4> QED
        BY <1>12, <4>1, StatusSet DEF FinishJob
    <3>2. jobEffects' \in [Jobs -> Nat] /\ jobDebris' \subseteq Jobs
      <4>1. jobHeld[w] \in Jobs
        BY <1>12 DEF FinishJob, WorkersMatch
      <4> QED
        BY <1>12, <4>1, WorkCounted DEF FinishJob
    <3>3. jobLock' \in [Jobs -> JobWorkers \cup {NoOwner}]
      BY <1>12 DEF FinishJob, ReleaseJob, GoIdle, SetStatus
    <3>4. jobPc' \in [JobWorkers -> {"idle", "skip", "reject", "claim", "running"}]
      BY <1>12 DEF FinishJob, ReleaseJob, GoIdle, SetStatus
    <3>5. jobHeld' \in [JobWorkers -> Jobs \cup {NoJob}]
      BY <1>12 DEF FinishJob, ReleaseJob, GoIdle, SetStatus
    <3>6. sweepList' \in [JobWorkers -> SUBSET Jobs] /\ jobCancel' \in [Jobs -> {"none", "ask", "stop"}]
      BY <1>12 DEF FinishJob, ReleaseJob, GoIdle, SetStatus
    <3>7. /\ watcher' \in [Jobs -> {"off", "open", "closed", "expired"}]
          /\ lastSent' \in [Jobs -> JobStatus] /\ jobCrashes' \in 0..MaxJobCrashes
      BY <1>12 DEF FinishJob, ReleaseJob, GoIdle, SetStatus
    <3> QED
      BY <3>1, <3>2, <3>3, <3>4, <3>5, <3>6, <3>7
  <2>2. LocksMatch'
    BY <1>12 DEF LocksMatch, FinishJob, ReleaseJob, GoIdle, SetStatus
  <2>3. WorkersMatch'
    BY <1>12 DEF WorkersMatch, LocksMatch, RowsMatch, FinishJob, ReleaseJob, GoIdle, SetStatus
  <2>4. RowsMatch'
    BY <1>12 DEF RowsMatch, WorkersMatch, FinishJob, ReleaseJob, GoIdle, SetStatus
  <2>5. ClosedStreamToldTheEnd'
    BY <1>12 DEF ClosedStreamToldTheEnd, RowsMatch, WorkersMatch, FinishJob, ReleaseJob, GoIdle, SetStatus
  <2> QED
    BY <2>1, <2>2, <2>3, <2>4, <2>5
<1>13. ASSUME NEW w \in JobWorkers, FailJob(w) PROVE JobInv'
  <2>1. JobTypeOK'
    <3>1. jobRow' \in [Jobs -> JobRow]
      <4>1. jobHeld[w] \in Jobs
        BY <1>13 DEF FailJob, WorkersMatch
      <4> QED
        BY <1>13, <4>1, StatusSet DEF FailJob
    <3>2. jobEffects' \in [Jobs -> Nat] /\ jobDebris' \subseteq Jobs
      <4>1. jobHeld[w] \in Jobs
        BY <1>13 DEF FailJob, WorkersMatch
      <4> QED
        BY <1>13, <4>1 DEF FailJob
    <3>3. jobLock' \in [Jobs -> JobWorkers \cup {NoOwner}]
      BY <1>13 DEF FailJob, ReleaseJob, GoIdle, SetStatus
    <3>4. jobPc' \in [JobWorkers -> {"idle", "skip", "reject", "claim", "running"}]
      BY <1>13 DEF FailJob, ReleaseJob, GoIdle, SetStatus
    <3>5. jobHeld' \in [JobWorkers -> Jobs \cup {NoJob}]
      BY <1>13 DEF FailJob, ReleaseJob, GoIdle, SetStatus
    <3>6. sweepList' \in [JobWorkers -> SUBSET Jobs] /\ jobCancel' \in [Jobs -> {"none", "ask", "stop"}]
      BY <1>13 DEF FailJob, ReleaseJob, GoIdle, SetStatus
    <3>7. /\ watcher' \in [Jobs -> {"off", "open", "closed", "expired"}]
          /\ lastSent' \in [Jobs -> JobStatus] /\ jobCrashes' \in 0..MaxJobCrashes
      BY <1>13 DEF FailJob, ReleaseJob, GoIdle, SetStatus
    <3> QED
      BY <3>1, <3>2, <3>3, <3>4, <3>5, <3>6, <3>7
  <2>2. LocksMatch'
    BY <1>13 DEF LocksMatch, FailJob, ReleaseJob, GoIdle, SetStatus
  <2>3. WorkersMatch'
    BY <1>13 DEF WorkersMatch, LocksMatch, RowsMatch, FailJob, ReleaseJob, GoIdle, SetStatus
  <2>4. RowsMatch'
    BY <1>13 DEF RowsMatch, WorkersMatch, FailJob, ReleaseJob, GoIdle, SetStatus
  <2>5. ClosedStreamToldTheEnd'
    BY <1>13 DEF ClosedStreamToldTheEnd, RowsMatch, WorkersMatch, FailJob, ReleaseJob, GoIdle, SetStatus
  <2> QED
    BY <2>1, <2>2, <2>3, <2>4, <2>5
<1>14. ASSUME NEW w \in JobWorkers, BreakJob(w) PROVE JobInv'
  <2>1. JobTypeOK'
    BY <1>14 DEF BreakJob, ReleaseJob, GoIdle
  <2>2. LocksMatch'
    BY <1>14 DEF LocksMatch, BreakJob, ReleaseJob, GoIdle
  <2>3. WorkersMatch'
    BY <1>14 DEF WorkersMatch, LocksMatch, RowsMatch, BreakJob, ReleaseJob, GoIdle
  <2>4. RowsMatch'
    BY <1>14 DEF RowsMatch, WorkersMatch, BreakJob, ReleaseJob, GoIdle
  <2>5. ClosedStreamToldTheEnd'
    BY <1>14 DEF ClosedStreamToldTheEnd, RowsMatch, WorkersMatch, BreakJob, ReleaseJob, GoIdle
  <2> QED
    BY <2>1, <2>2, <2>3, <2>4, <2>5
<1>15. ASSUME NEW w \in JobWorkers, CrashJobWorker(w) PROVE JobInv'
  <2>1. JobTypeOK'
    BY <1>15 DEF CrashJobWorker, GoIdle
  <2>2. LocksMatch'
    BY <1>15 DEF LocksMatch, CrashJobWorker, GoIdle
  <2>3. WorkersMatch'
    BY <1>15 DEF WorkersMatch, LocksMatch, RowsMatch, CrashJobWorker, GoIdle
  <2>4. RowsMatch'
    BY <1>15 DEF RowsMatch, WorkersMatch, CrashJobWorker, GoIdle
  <2>5. ClosedStreamToldTheEnd'
    BY <1>15 DEF ClosedStreamToldTheEnd, RowsMatch, WorkersMatch, CrashJobWorker, GoIdle
  <2> QED
    BY <2>1, <2>2, <2>3, <2>4, <2>5
<1>16. CASE UNCHANGED jobVars
  BY <1>16 DEF jobVars, LocksMatch, WorkersMatch, RowsMatch, ClosedStreamToldTheEnd
<1> QED
  BY <1>1, <1>2, <1>3, <1>4, <1>5, <1>6, <1>7, <1>8, <1>9, <1>10, <1>11, <1>12, <1>13, <1>14, <1>15, <1>16
     DEF JobNext, JobApi, JobWorker

(* The invariant, at all times. *)
THEOREM JobInvariance == JobSpec => []JobInv
BY JobInvInit, JobInvNext, PTL DEF JobSpec

(* Every variable keeps its type. *)
THEOREM JobTypeCorrect == JobSpec => []JobTypeOK
BY JobInvariance, PTL DEF JobInv

(***************************************************************************)
(* What follows from it.                                                   *)
(***************************************************************************)

(* However often the queue and the sweeps deliver a job, two workers are never
   inside its handler: each would hold the lock of its row (JobRepository.claim). *)
THEOREM OneHandlerPerJobHolds == JobSpec => []OneHandlerPerJob
<1>1. JobInv => OneHandlerPerJob
  <2> SUFFICES ASSUME JobInv, NEW v \in JobWorkers, NEW w \in JobWorkers,
                      jobPc[v] = "running", jobPc[w] = "running", jobHeld[v] = jobHeld[w]
               PROVE  v = w
    BY DEF OneHandlerPerJob
  <2>1. jobHeld[v] \in Jobs
    BY DEF JobInv, WorkersMatch
  <2> QED
    BY <2>1 DEF JobInv, LocksMatch
<1> QED
  BY <1>1, JobInvariance, PTL

(* A stream that was closed told its reader how the job ended, and only a cancel
   decided earlier may have changed that (watch). *)
THEOREM ClosedStreamToldTheEndHolds == JobSpec => []ClosedStreamToldTheEnd
BY JobInvariance, PTL DEF JobInv

(* A row answers for the work of its job: a success has done it once, a failure or
   a job still pending has not done it, and only a cancel hides it (run). *)
THEOREM JobWorkAccountedHolds == JobSpec => []JobWorkAccounted
<1>1. JobInv => JobWorkAccounted
  BY DEF JobInv, RowsMatch, JobWorkAccounted
<1> QED
  BY <1>1, JobInvariance, PTL

(***************************************************************************)
(* Jobs as a reader of committed rows sees them.                           *)
(***************************************************************************)

ShownJobs == [j \in Jobs |-> jobRow[j].status]

(* What a step makes of the rows: nothing, or one of the four things that may
   happen to one job. *)
JobBecomes(j, s) == ShownJobs' = [ShownJobs EXCEPT ![j] = s]

LEMMA StatusShown ==
  ASSUME JobTypeOK, NEW j \in Jobs, NEW s \in JobStatus, SetStatus(j, s)
  PROVE  JobBecomes(j, s) /\ ShownJobs[j] = jobRow[j].status
<1>1. \A i \in Jobs : jobRow'[i].status = IF i = j THEN s ELSE jobRow[i].status
  BY DEF JobTypeOK, JobRow, SetStatus
<1> QED
  BY <1>1 DEF JobBecomes, ShownJobs

(* Every step of the machinery is a step of the promise, or none. *)
LEMMA JobStepsKeepPromise ==
  JobInv /\ [JobNext]_jobVars => [JobPromise!OutcomeNext]_(JobPromise!outcomeVars)
<1> SUFFICES ASSUME JobInv, [JobNext]_jobVars
             PROVE  [JobPromise!OutcomeNext]_(JobPromise!outcomeVars)
  OBVIOUS
<1> USE DEF JobStatus, JobTerminal
<1>0. JobTypeOK
  BY DEF JobInv
<1> DEFINE Still == ShownJobs' = ShownJobs /\ jobEffects' = jobEffects
           Moves(j) == \/ JobPromise!AcceptJob(j) \/ JobPromise!CompleteJob(j)
                       \/ JobPromise!RefuseJob(j) \/ JobPromise!RelabelJob(j)
<1>1. ASSUME NEW j \in Jobs, JobApi(j) PROVE Still \/ Moves(j)
  <2>1. CASE SubmitJob(j)
    <3>1. SetStatus(j, "pending") /\ jobRow[j].status = "absent" /\ jobEffects' = jobEffects
      BY <2>1 DEF SubmitJob, NoJobRow
    <3>2. JobBecomes(j, "pending") /\ ShownJobs[j] = jobRow[j].status
      BY <1>0, <3>1, StatusShown
    <3>3. JobPromise!AcceptJob(j)
      BY <3>1, <3>2 DEF JobPromise!AcceptJob, JobBecomes, ShownJobs
    <3> QED
      BY <3>3
  <2>2. CASE SubmitJobInline(j)
    <3>1. jobRow[j].status = "absent" /\ jobEffects[j] = 0
      BY <2>2 DEF SubmitJobInline, NoJobRow, JobInv, RowsMatch
    <3>2. CASE SetStatus(j, "succeeded") /\ jobEffects' = [jobEffects EXCEPT ![j] = @ + 1]
      <4>1. JobBecomes(j, "succeeded") /\ ShownJobs[j] = jobRow[j].status
        BY <1>0, <3>2, StatusShown
      <4>2. JobPromise!CompleteJob(j)
        BY <3>1, <3>2, <4>1 DEF JobPromise!CompleteJob, JobBecomes, ShownJobs
      <4> QED
        BY <4>2
    <3>3. CASE SetStatus(j, "failed") /\ jobEffects' = jobEffects
      <4>1. JobBecomes(j, "failed") /\ ShownJobs[j] = jobRow[j].status
        BY <1>0, <3>3, StatusShown
      <4>2. JobPromise!RefuseJob(j)
        BY <3>1, <3>3, <4>1 DEF JobPromise!RefuseJob, JobBecomes, ShownJobs
      <4> QED
        BY <4>2
    <3> QED
      BY <2>2, <3>2, <3>3 DEF SubmitJobInline
  <2>3. CASE CancelJobWrite(j)
    <3>1. jobCancel[j] = "stop"
      BY <2>3 DEF CancelJobWrite, JobInv, JobTypeOK, RowsMatch
    <3>2. SetStatus(j, "cancelled") /\ jobEffects' = jobEffects
      BY <2>3, <3>1 DEF CancelJobWrite, SetStatus
    <3>3. jobRow[j].status \in {"pending", "succeeded", "failed", "cancelled"}
      BY <3>1 DEF JobInv, JobTypeOK, RowsMatch, JobRow, JobStatus, JobTerminal
    <3>4. JobBecomes(j, "cancelled") /\ ShownJobs[j] = jobRow[j].status
      BY <3>2, StatusShown DEF JobInv
    <3>5. CASE jobRow[j].status = "cancelled"
      BY <3>2, <3>4, <3>5 DEF JobBecomes, ShownJobs
    <3>6. CASE jobRow[j].status # "cancelled"
      <4>1. JobPromise!RelabelJob(j)
        BY <3>2, <3>3, <3>4, <3>6 DEF JobPromise!RelabelJob, JobBecomes, ShownJobs
      <4> QED
        BY <4>1
    <3> QED
      BY <3>5, <3>6
  <2>4. CASE CancelJobRead(j) \/ OpenWatch(j) \/ PollWatch(j) \/ ExpireWatch(j)
    BY <2>4 DEF CancelJobRead, OpenWatch, PollWatch, ExpireWatch, ShownJobs
  <2> QED
    BY <1>1, <2>1, <2>2, <2>3, <2>4 DEF JobApi
<1>2. ASSUME NEW w \in JobWorkers, JobWorker(w), NEW held, held = jobHeld[w]
      PROVE  Still \/ (held \in Jobs /\ Moves(held))
  <2> held = jobHeld[w]
    BY <1>2
  <2>1. CASE SweepJobs(w)
    <3>1. jobRow' = jobRow
      BY <2>1 DEF SweepJobs, JobInv, JobTypeOK, RowsMatch
    <3> QED
      BY <2>1, <3>1 DEF SweepJobs, ShownJobs
  <2>2. CASE EndUnstarted(w)
    <3>1. jobPc[w] = "reject" /\ held \in Jobs /\ jobEffects[held] = 0
      BY <2>2 DEF EndUnstarted, JobInv, WorkersMatch, RowsMatch
    <3>2. SetStatus(held, "failed") /\ jobEffects' = jobEffects
      BY <2>2, <3>1 DEF EndUnstarted
    <3>3. jobRow[held].status \in {"pending", "failed", "cancelled"}
      BY <2>2, <3>1 DEF EndUnstarted, JobInv, JobTypeOK, WorkersMatch, RowsMatch, JobRow,
                        JobStatus, JobTerminal
    <3>4. JobBecomes(held, "failed") /\ ShownJobs[held] = jobRow[held].status
      BY <3>1, <3>2, StatusShown DEF JobInv
    <3>5. CASE jobRow[held].status = "failed"
      BY <3>1, <3>2, <3>4, <3>5 DEF JobBecomes, ShownJobs
    <3>6. CASE jobRow[held].status # "failed"
      <4>1. JobPromise!RefuseJob(held)
        BY <3>1, <3>2, <3>3, <3>4, <3>6 DEF JobPromise!RefuseJob, JobBecomes, ShownJobs
      <4> QED
        BY <3>1, <4>1
    <3> QED
      BY <3>5, <3>6
  <2>3. CASE FinishJob(w)
    <3>1. /\ held \in Jobs /\ jobRow[held].status = "pending" /\ jobRow[held].cancel = FALSE
          /\ jobEffects[held] = 0
      BY <2>3 DEF FinishJob, JobInv, WorkersMatch, RowsMatch
    <3>2. SetStatus(held, "succeeded") /\ jobEffects' = [jobEffects EXCEPT ![held] = @ + 1]
      BY <2>3, <3>1 DEF FinishJob
    <3>3. JobBecomes(held, "succeeded") /\ ShownJobs[held] = jobRow[held].status
      BY <1>0, <3>1, <3>2, StatusShown
    <3>4. JobPromise!CompleteJob(held)
      BY <3>1, <3>2, <3>3 DEF JobPromise!CompleteJob, JobBecomes, ShownJobs
    <3> QED
      BY <3>1, <3>4
  <2>4. CASE FailJob(w)
    <3>1. held \in Jobs /\ jobRow[held].status = "pending" /\ jobEffects[held] = 0
      BY <2>4 DEF FailJob, JobInv, WorkersMatch, RowsMatch
    <3>2. SetStatus(held, "failed") /\ jobEffects' = jobEffects
      BY <2>4 DEF FailJob
    <3>3. JobBecomes(held, "failed") /\ ShownJobs[held] = jobRow[held].status
      BY <1>0, <3>1, <3>2, StatusShown
    <3>4. JobPromise!RefuseJob(held)
      BY <3>1, <3>2, <3>3 DEF JobPromise!RefuseJob, JobBecomes, ShownJobs
    <3> QED
      BY <3>1, <3>4
  <2>5. CASE \/ (\E i \in Jobs : TakeJob(w, i)) \/ ClaimJob(w)
             \/ BreakJob(w) \/ CrashJobWorker(w)
    BY <2>5 DEF TakeJob, ClaimJob, BreakJob, CrashJobWorker, ShownJobs
  <2> QED
    BY <1>2, <2>1, <2>2, <2>3, <2>4, <2>5 DEF JobWorker
<1>3. CASE UNCHANGED jobVars
  BY <1>3 DEF jobVars, ShownJobs, JobPromise!outcomeVars
<1>4. CASE JobNext
  <2> HIDE DEF Still, Moves
  <2>1. Still \/ \E j \in Jobs : Moves(j)
    <3>1. CASE \E j \in Jobs : JobApi(j)
      <4>1. PICK j \in Jobs : JobApi(j)
        BY <3>1
      <4>2. Still \/ Moves(j)
        BY <1>1, <4>1
      <4> QED
        BY <4>2
    <3>2. CASE \E w \in JobWorkers : JobWorker(w)
      <4>1. PICK w \in JobWorkers : JobWorker(w)
        BY <3>2
      <4>2. PICK held : held = jobHeld[w]
        OBVIOUS
      <4>3. Still \/ (held \in Jobs /\ Moves(held))
        BY <1>2, <4>1, <4>2
      <4> QED
        BY <4>3
    <3> QED
      BY <1>4, <3>1, <3>2 DEF JobNext
  <2> QED
    BY <2>1 DEF Still, Moves, JobPromise!OutcomeNext, JobPromise!outcomeVars, ShownJobs
<1> QED
  BY <1>3, <1>4

(* Seen through committed rows, jobs are accepted once, completed or refused at
   once with their work, and re-labelled by a cancel at most: the queue, the
   sweeps, the crashes and the retries are not to be seen. *)
THEOREM JobsImplement == JobSpec => JobKeepsPromise
<1>1. JobInit => JobPromise!OutcomeInit
  BY DEF JobInit, NoJobRow, JobPromise!OutcomeInit
<1> QED
  BY <1>1, JobInvariance, JobStepsKeepPromise, PTL DEF JobSpec, JobKeepsPromise, JobPromise!JobOutcomeSpec
=============================================================================
