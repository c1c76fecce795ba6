------------------------- MODULE ExecutionLifecycle -------------------------
(***************************************************************************)
(* The life of an Execution: the API inserts a row and pushes its id, a    *)
(* fleet of workers pops ids and runs them, each worker also sweeps up     *)
(* rows nobody picked up, users cancel, and workers and Redis crash.  Some *)
(* executions run inline, inside the transaction that submits them: all of *)
(* them in the inline deployment, pipeline steps in either.                *)
(*                                                                         *)
(* What a transaction has done and not committed is the heart of it.       *)
(* `row' is what every other session reads; a worker that won the claim    *)
(* holds the row's write lock (`lock') until its transaction ends, because *)
(* the one commit in the code is the one at the end of the session         *)
(* (core/database.py).  The RUNNING status it wrote lives only in that     *)
(* transaction: it is worker state here (pc = "running"), never part of    *)
(* `row'.  PostgreSQL runs at READ COMMITTED: an UPDATE of a locked row    *)
(* waits for the lock, then acts on the newest committed version.          *)
(***************************************************************************)
EXTENDS Naturals, Sequences, FiniteSets

CONSTANTS
  Workers,          \* worker replicas
  NoWorker,         \* nobody holds a row's lock
  NumExecutions,    \* executions ever submitted; ids are in order of creation
  MaxAttempts,      \* settings.execution_max_attempts
  RecoveryBatch,    \* worker.RECOVERY_BATCH
  MaxCrashes,       \* bound: crashes of workers and restarts of Redis, together
  MayRaise,         \* executions whose plugin can raise
  MayReturn         \* executions whose plugin can return an outcome

Executions == 1 .. NumExecutions

ASSUME LifecycleAssumption ==
  /\ NoWorker \notin Workers
  /\ NumExecutions \in Nat
  /\ MaxAttempts \in Nat \ {0}
  /\ RecoveryBatch \in Nat \ {0}
  /\ MaxCrashes \in Nat
  /\ MayRaise \subseteq Executions
  /\ MayReturn \subseteq Executions

VARIABLES
  row,        \* the committed executions table
  results,    \* how many committed Result rows name each execution
  lock,       \* whose open transaction has updated the row
  pc,         \* where each worker is
  ex,         \* the execution a worker is busy with
  todo,       \* what is left of a worker's recovery sweep
  sweeping,   \* the workers inside a recovery sweep
  queue,      \* the Redis list
  saved,      \* the Redis list as last written to disk
  unpushed,   \* committed by submit(), the after_commit push not done yet
  cancels,    \* per execution, the open cancel request
  created,    \* how many executions were submitted
  aged,       \* how many of them are older than RECOVERY_AFTER_SECONDS
  crashes

dbVars     == <<row, results, lock>>
workerVars == <<pc, ex, todo, sweeping>>
redisVars  == <<queue, saved>>
apiVars    == <<unpushed, cancels, created>>
vars       == <<dbVars, workerVars, redisVars, apiVars, aged, crashes>>

(***************************************************************************)
(* Rows                                                                    *)
(***************************************************************************)
Terminal == {"succeeded", "failed", "cancelled"}
Status   == {"absent", "pending", "running"} \cup Terminal
Row      == [status: Status, cancel: BOOLEAN, attempts: Nat, result: BOOLEAN]

NoRow  == [status |-> "absent",  cancel |-> FALSE, attempts |-> 0, result |-> FALSE]
NewRow == [status |-> "pending", cancel |-> FALSE, attempts |-> 0, result |-> FALSE]

WithStatus(r, s) == [r EXCEPT !.status = s]

(* The row as its run leaves it: a cancel request seen at the checkpoint    *)
(* keeps the result from being stored.                                      *)
Settled(r) ==
  IF r.cancel THEN [r EXCEPT !.status = "cancelled", !.attempts = @ + 1]
  ELSE [r EXCEPT !.status = "succeeded", !.attempts = @ + 1, !.result = TRUE]

(* The row as a failed run leaves it, where that write survives. *)
Failed(r) == [r EXCEPT !.status = "failed", !.attempts = @ + 1]

Exhausted(r) == r.attempts >= MaxAttempts

(* Mutant: nothing is written before the plugin is called. *)
UnlockedAlways(e) == e \in Executions

(* An UPDATE of the row does not have to wait for another transaction. *)
Unlocked(e) == lock[e] = NoWorker

(* repository.update(entity): a second read of the row, the entity copied   *)
(* over it, and an UPDATE of the columns whose value differs from that      *)
(* read - with no guard on what the row has become by the time it runs.     *)
Columns == {"status", "cancel", "attempts", "result"}

ChangedButStatus(entity, seen) ==   \* mutant: the status is not among them
  {c \in Columns \ {"status"} : entity[c] # seen[c]}

Changed(entity, seen) == {c \in Columns : entity[c] # seen[c]}

Overwrite(r, entity, columns) ==
  [status   |-> IF "status" \in columns THEN entity.status ELSE r.status,
   cancel   |-> IF "cancel" \in columns THEN entity.cancel ELSE r.cancel,
   attempts |-> IF "attempts" \in columns THEN entity.attempts ELSE r.attempts,
   result   |-> IF "result" \in columns THEN entity.result ELSE r.result]

(* What cancel() makes of the row it read. *)
AskedToStop(r) ==
  IF r.status = "running" THEN [r EXCEPT !.cancel = TRUE] ELSE WithStatus(r, "cancelled")

(* A cancel request: not open, decided from its first read, or writing.     *)
NoCancel == [at |-> "none", entity |-> NoRow, columns |-> {}]
Cancels  == [at: {"none", "decided", "writing"}, entity: Row, columns: SUBSET Columns]

Pending == {e \in Executions : row[e].status = "pending"}

(* list(status="pending", limit=RECOVERY_BATCH): the newest ones. *)
NewestPending ==
  {e \in Pending : Cardinality({f \in Pending : f > e}) < RecoveryBatch}

(* Mutant: the comparison with the cutoff the wrong way round. *)
StrandedYoung == {e \in NewestPending : e > aged}

(* Of those, the ones created before the cutoff. *)
Stranded == {e \in NewestPending : e <= aged}

(***************************************************************************)
(* The API                                                                 *)
(***************************************************************************)

(* POST /executions, queued: the row is committed with the request; the     *)
(* push onto Redis comes after the commit.                                  *)
Submit(e) ==
  /\ e = created + 1
  /\ created' = e
  /\ row' = [row EXCEPT ![e] = NewRow]
  /\ unpushed' = unpushed \cup {e}
  /\ UNCHANGED <<results, lock, workerVars, redisVars, cancels, aged, crashes>>

(* An execution that runs inside the session that submits it, and is seen   *)
(* once that session commits.  run() re-raises what the plugin raised: a    *)
(* request's get_session() then rolls everything back, the row with it; a   *)
(* pipeline catches it around each step, and the failed row is committed.   *)
SubmitInline(e) ==
  /\ e = created + 1
  /\ created' = e
  /\ \/ /\ e \in MayReturn
        /\ row' = [row EXCEPT ![e] = Settled(NewRow)]
        /\ results' = [results EXCEPT ![e] = @ + 1]
     \/ /\ e \in MayRaise
        /\ row' = [row EXCEPT ![e] = Failed(NewRow)]
        /\ results' = results
     \/ /\ e \in MayRaise
        /\ UNCHANGED <<row, results>>
  /\ UNCHANGED <<lock, workerVars, redisVars, unpushed, cancels, aged, crashes>>

Push(e) ==
  /\ e \in unpushed
  /\ unpushed' = unpushed \ {e}
  /\ queue' = Append(queue, e)
  /\ UNCHANGED <<dbVars, workerVars, saved, cancels, created, aged, crashes>>

(* Redis refused the push, which is only logged. *)
LosePush(e) ==
  /\ e \in unpushed
  /\ unpushed' = unpushed \ {e}
  /\ UNCHANGED <<dbVars, workerVars, redisVars, cancels, created, aged, crashes>>

(* POST /executions/{id}/cancel reads the committed row and decides.  A     *)
(* terminal one is refused (ValidationError), which changes nothing.        *)
CancelRead(e) ==
  /\ cancels[e].at = "none"
  /\ row[e].status \in {"pending", "running"}
  /\ cancels' = [cancels EXCEPT ![e] = [at |-> "decided", entity |-> AskedToStop(row[e]),
                                        columns |-> {}]]
  /\ UNCHANGED <<dbVars, workerVars, redisVars, unpushed, created, aged, crashes>>

(* update() reads the row again to work out which columns to write ...      *)
CancelReload(e) ==
  /\ cancels[e].at = "decided"
  /\ cancels' = [cancels EXCEPT ![e].at = "writing",
                                ![e].columns = Changed(cancels[e].entity, row[e])]
  /\ UNCHANGED <<dbVars, workerVars, redisVars, unpushed, created, aged, crashes>>

(* ... and writes them as soon as no run holds the row, then commits.       *)
CancelWrite(e) ==
  /\ cancels[e].at = "writing"
  /\ Unlocked(e)
  /\ row' = [row EXCEPT ![e] = Overwrite(@, cancels[e].entity, cancels[e].columns)]
  /\ cancels' = [cancels EXCEPT ![e] = NoCancel]
  /\ UNCHANGED <<results, lock, workerVars, redisVars, unpushed, created, aged, crashes>>

(***************************************************************************)
(* A worker                                                                *)
(***************************************************************************)

(* blpop is destructive: from here the message exists only in the worker. *)
Pop(w) ==
  /\ pc[w] = "idle"
  /\ queue # <<>>
  /\ ex' = [ex EXCEPT ![w] = Head(queue)]
  /\ queue' = Tail(queue)
  /\ pc' = [pc EXCEPT ![w] = "fetch"]
  /\ UNCHANGED <<dbVars, todo, sweeping, saved, apiVars, aged, crashes>>

(* The recovery sweep lists its candidates in a session of its own ...     *)
Sweep(w) ==
  /\ pc[w] = "idle"
  /\ todo' = [todo EXCEPT ![w] = Stranded]
  /\ sweeping' = sweeping \cup {w}
  /\ pc' = [pc EXCEPT ![w] = "sweep"]
  /\ UNCHANGED <<dbVars, ex, redisVars, apiVars, aged, crashes>>

(* ... runs them one by one, newest first ...                              *)
Recover(w) ==
  /\ pc[w] = "sweep"
  /\ \E e \in todo[w] :
       /\ \A f \in todo[w] : f <= e
       /\ ex' = [ex EXCEPT ![w] = e]
       /\ todo' = [todo EXCEPT ![w] = @ \ {e}]
  /\ pc' = [pc EXCEPT ![w] = "fetch"]
  /\ UNCHANGED <<dbVars, sweeping, redisVars, apiVars, aged, crashes>>

(* ... and ends by failing the committed RUNNING rows whose heartbeat has   *)
(* gone quiet.  Which of them have is left open, so heartbeats need no      *)
(* state of their own.                                                      *)
Reclaim(w) ==
  /\ pc[w] = "sweep"
  /\ todo[w] = {}
  /\ \E quiet \in SUBSET {e \in Executions : row[e].status = "running"} :
       /\ \A e \in quiet : Unlocked(e)
       /\ row' = [e \in Executions |-> IF e \in quiet THEN WithStatus(row[e], "failed")
                                                      ELSE row[e]]
  /\ sweeping' = sweeping \ {w}
  /\ pc' = [pc EXCEPT ![w] = "idle"]
  /\ UNCHANGED <<results, lock, ex, todo, redisVars, apiVars, aged, crashes>>

(* Where a worker goes when the execution it took has been dealt with. *)
Returned(w) == IF w \in sweeping THEN "sweep" ELSE "idle"

(* ExecutionService.run up to the claim: what to do is decided from a read. *)
Fetch(w) ==
  LET r == row[ex[w]] IN
  /\ pc[w] = "fetch"
  /\ pc' = [pc EXCEPT ![w] = CASE r.status \in Terminal -> Returned(w)
                               [] r.status \notin Terminal /\ Exhausted(r) -> "giveUp"
                               [] r.status \notin Terminal /\ ~Exhausted(r) /\ r.cancel -> "skip"
                               [] OTHER -> "claim"]
  /\ UNCHANGED <<dbVars, ex, todo, sweeping, redisVars, apiVars, aged, crashes>>

(* Mutant: the claim trusts the read that came before it. *)
ClaimableOnceRead(e) == e \in Executions

(* The claim's WHERE clause, evaluated on the newest committed version. *)
Claimable(e) == row[e].status = "pending"

(* The first UPDATE of run().  The claim takes the row only if it is still  *)
(* PENDING and keeps it locked; the two early exits (gave up, cancelled     *)
(* before it started) write unconditionally and commit at once.             *)
Start(w) ==
  LET e == ex[w] IN
  /\ pc[w] \in {"claim", "giveUp", "skip"}
  /\ Unlocked(e)
  /\ IF pc[w] = "claim" /\ Claimable(e)
     THEN /\ lock' = [lock EXCEPT ![e] = w]
          /\ pc' = [pc EXCEPT ![w] = "running"]
     ELSE /\ lock' = lock
          /\ pc' = [pc EXCEPT ![w] = Returned(w)]
  /\ row' = IF pc[w] = "claim" THEN row
            ELSE [row EXCEPT ![e] = WithStatus(@, IF pc[w] = "giveUp" THEN "failed"
                                                                      ELSE "cancelled")]
  /\ UNCHANGED <<results, ex, todo, sweeping, redisVars, apiVars, aged, crashes>>

(* The plugin returned: cancellation is checked, then the Result is stored, *)
(* the row settled, and the session committed.                              *)
Succeed(w) ==
  LET e == ex[w] IN
  /\ pc[w] = "running"
  /\ e \in MayReturn
  /\ row' = [row EXCEPT ![e] = Settled(@)]
  /\ results' = IF row[e].cancel THEN results ELSE [results EXCEPT ![e] = @ + 1]
  /\ lock' = [lock EXCEPT ![e] = NoWorker]
  /\ pc' = [pc EXCEPT ![w] = Returned(w)]
  /\ UNCHANGED <<ex, todo, sweeping, redisVars, apiVars, aged, crashes>>

(* The plugin raised: run() writes FAILED and re-raises, and session_scope  *)
(* answers any exception by rolling back, that write and the claim with it. *)
Raise(w) ==
  /\ pc[w] = "running"
  /\ ex[w] \in MayRaise
  /\ lock' = [lock EXCEPT ![ex[w]] = NoWorker]
  /\ pc' = [pc EXCEPT ![w] = "logging"]
  /\ UNCHANGED <<row, results, ex, todo, sweeping, redisVars, apiVars, aged, crashes>>

(* Worker._run_execution logs what was raised and carries on. *)
Log(w) ==
  /\ pc[w] = "logging"
  /\ pc' = [pc EXCEPT ![w] = Returned(w)]
  /\ UNCHANGED <<dbVars, ex, todo, sweeping, redisVars, apiVars, aged, crashes>>

(***************************************************************************)
(* Failures and time                                                       *)
(***************************************************************************)

(* A worker is killed and restarted: the database rolls its transaction     *)
(* back, the message or the sweep it held is gone.                          *)
Crash(w) ==
  /\ crashes < MaxCrashes
  /\ pc[w] # "idle"
  /\ crashes' = crashes + 1
  /\ lock' = [e \in Executions |-> IF lock[e] = w THEN NoWorker ELSE lock[e]]
  /\ pc' = [pc EXCEPT ![w] = "idle"]
  /\ todo' = [todo EXCEPT ![w] = {}]
  /\ sweeping' = sweeping \ {w}
  /\ UNCHANGED <<row, results, ex, redisVars, apiVars, aged>>

(* The API dies: open cancel requests roll back, and of the submissions     *)
(* already committed nothing is pushed any more.                            *)
ApiRestart ==
  /\ crashes < MaxCrashes
  /\ crashes' = crashes + 1
  /\ unpushed' = {}
  /\ cancels' = [e \in Executions |-> NoCancel]
  /\ UNCHANGED <<dbVars, workerVars, redisVars, created, aged>>

(* Redis runs with periodic snapshots, so a restart forgets recent pushes   *)
(* and brings back messages already popped.                                 *)
Snapshot ==
  /\ saved # queue
  /\ saved' = queue
  /\ UNCHANGED <<dbVars, workerVars, queue, apiVars, aged, crashes>>

RedisRestart ==
  /\ crashes < MaxCrashes
  /\ crashes' = crashes + 1
  /\ queue' = saved
  /\ UNCHANGED <<dbVars, workerVars, saved, apiVars, aged>>

(* RECOVERY_AFTER_SECONDS pass since the creation of one more execution. *)
Age ==
  /\ aged < created
  /\ aged' = aged + 1
  /\ UNCHANGED <<dbVars, workerVars, redisVars, apiVars, crashes>>

(***************************************************************************)
(* Specification                                                           *)
(***************************************************************************)
Init ==
  /\ row = [e \in Executions |-> NoRow]
  /\ results = [e \in Executions |-> 0]
  /\ lock = [e \in Executions |-> NoWorker]
  /\ pc = [w \in Workers |-> "idle"]
  /\ ex \in [Workers -> {0}]
  /\ todo = [w \in Workers |-> {}]
  /\ sweeping = {}
  /\ queue = <<>>
  /\ saved = <<>>
  /\ unpushed = {}
  /\ cancels = [e \in Executions |-> NoCancel]
  /\ created = 0
  /\ aged = 0
  /\ crashes = 0

Api(e) ==
  \/ Submit(e) \/ SubmitInline(e) \/ Push(e) \/ LosePush(e)
  \/ CancelRead(e) \/ CancelReload(e) \/ CancelWrite(e)

Worker(w) ==
  \/ Pop(w) \/ Sweep(w) \/ Recover(w) \/ Reclaim(w)
  \/ Fetch(w) \/ Start(w) \/ Succeed(w) \/ Raise(w) \/ Log(w)

Next ==
  \/ \E e \in Executions : Api(e)
  \/ \E w \in Workers : Worker(w) \/ Crash(w)
  \/ ApiRestart \/ Snapshot \/ RedisRestart \/ Age

Spec == Init /\ [][Next]_vars

(* A worker never stops looping (Pop and Sweep recur whatever else it      *)
(* does), a plugin call ends, time passes, after_commit runs, and the       *)
(* database grants a row lock in the order it was asked for.                *)
Fairness ==
  /\ \A e \in Executions : WF_vars(Push(e) \/ LosePush(e))
                           /\ WF_vars(CancelReload(e)) /\ SF_vars(CancelWrite(e))
  /\ \A w \in Workers :
       /\ SF_vars(Pop(w)) /\ SF_vars(Sweep(w))
       /\ WF_vars(Recover(w) \/ Reclaim(w) \/ Fetch(w) \/ Log(w))
       /\ SF_vars(Start(w))
       /\ WF_vars(Succeed(w) \/ Raise(w))
  /\ WF_vars(Age)

FairSpec == Spec /\ Fairness

(***************************************************************************)
(* Properties                                                              *)
(***************************************************************************)
Running(w, e) == pc[w] = "running" /\ ex[w] = e

(* Every variable has the shape the code gives it. *)
TypeOK ==
  /\ row \in [Executions -> Row]
  /\ results \in [Executions -> Nat]
  /\ lock \in [Executions -> Workers \cup {NoWorker}]
  /\ pc \in [Workers -> {"idle", "sweep", "fetch", "claim", "giveUp", "skip",
                         "running", "logging"}]
  /\ ex \in [Workers -> Executions \cup {0}]
  /\ todo \in [Workers -> SUBSET Executions]
  /\ sweeping \subseteq Workers
  /\ queue \in Seq(Executions)
  /\ saved \in Seq(Executions)
  /\ unpushed \subseteq Executions
  /\ cancels \in [Executions -> Cancels]
  /\ created \in 0 .. NumExecutions
  /\ aged \in 0 .. NumExecutions
  /\ crashes \in 0 .. MaxCrashes

(* However often an id is delivered - queue, Redis redelivery, any number   *)
(* of recovery sweeps - two workers are never inside its plugin at once     *)
(* (worker.py: "each execution is claimed exactly once").                   *)
SingleOwner ==
  \A e \in Executions : \A v, w \in Workers : Running(v, e) /\ Running(w, e) => v = w

(* One submission yields at most one stored Result, however many workers    *)
(* and retries it took; the row never points at a Result that is not there; *)
(* and only a cancellation can part a stored Result from its row.           *)
ResultsAccounted ==
  \A e \in Executions :
    /\ results[e] <= 1
    /\ row[e].result => results[e] = 1
    /\ results[e] = 1 /\ ~row[e].result => row[e].status = "cancelled"

(* A success is never shown without the Result it claims. *)
SuccessHasResult ==
  \A e \in Executions : row[e].status = "succeeded" => row[e].result

(* RUNNING is never committed: a claim becomes visible only with the run's  *)
(* outcome.  So heartbeats, the reclaim of abandoned runs and the           *)
(* cancel-while-running branch of cancel() never find a row to act on.      *)
RunningNeverCommitted ==
  \A e \in Executions : row[e].status # "running"

(* Once a cancellation is committed nothing takes it back: no queued        *)
(* message, sweep or run already in progress turns the execution into       *)
(* anything else.                                                           *)
CancelledForGood ==
  [][\A e \in Executions : row[e].status = "cancelled" => row'[e] = row[e]]_vars

(* The lock of a row is held exactly by the worker inside that row's run,   *)
(* and nothing but that run can change the row: it is still PENDING.        *)
LockDiscipline ==
  /\ \A w \in Workers : \A e \in Executions : lock[e] = w <=> Running(w, e)
  /\ \A e \in Executions : lock[e] # NoWorker => row[e].status = "pending"
  /\ \A w \in Workers : pc[w] \in {"fetch", "claim", "running", "logging"} => ex[w] \in Executions
  /\ \A w \in Workers : pc[w] \notin {"giveUp", "skip"}

(* What each status says about the rest of the row and its Results. *)
RowConsistent(e) ==
  /\ row[e].status \in {"absent", "pending", "succeeded", "failed", "cancelled"}
  /\ row[e].cancel = FALSE
  /\ row[e].status \in {"absent", "pending"} => row[e].attempts = 0 /\ ~row[e].result /\ results[e] = 0
  /\ row[e].status = "succeeded" => row[e].result /\ results[e] = 1
  /\ row[e].status = "failed" => ~row[e].result /\ results[e] = 0
  /\ row[e].status = "cancelled" => results[e] \in {0, 1} /\ (row[e].result => results[e] = 1)
  /\ e > created => row[e].status = "absent"

(* What an open cancel request knows of the row it is about to overwrite. *)
RequestConsistent(e) ==
  /\ cancels[e].at # "none" =>
       /\ cancels[e].entity = WithStatus(NewRow, "cancelled")
       /\ row[e].status \in {"pending", "succeeded"}
  /\ cancels[e].at = "writing" => "status" \in cancels[e].columns

(* The inductive invariant behind the safety properties above. *)
IInv ==
  /\ TypeOK
  /\ LockDiscipline
  /\ \A e \in Executions : RowConsistent(e) /\ RequestConsistent(e)

(* Outsiders see the atomic life-cycle of ExecutionOutcome. *)
Shown == [e \in Executions |-> row[e].status]

Outcome == INSTANCE ExecutionOutcome WITH shown <- Shown, stored <- results

OutcomeSpec == Outcome!Spec

(* Whatever is lost on the way - the push, the message, the worker, Redis   *)
(* itself - an execution whose plugin does not raise reaches the end.       *)
EventuallySettled ==
  \A e \in Executions \ MayRaise :
    row[e].status = "pending" ~> row[e].status \in Terminal

(* Once the API stays up, an accepted cancellation ends the execution even  *)
(* if its plugin raises every time it is retried: the request waits for     *)
(* the run in progress and then takes effect.                               *)
CancelTakesEffect ==
  \A e \in Executions :
    cancels[e].at # "none" /\ crashes = MaxCrashes ~> row[e].status = "cancelled"

(***************************************************************************)
(* What the repository says of itself and this code does not do            *)
(***************************************************************************)

(* services.py, _run_execution: "nothing is written down: a cancelled       *)
(* execution that points at a result is offering an answer nobody wanted,   *)
(* and the result row would belong to no one".                              *)
CancelledHasNoResult ==
  \A e \in Executions : row[e].status = "cancelled" => results[e] = 0

(* worker.py, _run_execution, on an exception out of run():                 *)
(* "ExecutionService already recorded the failure on the row".              *)
FailureRecorded ==
  \A w \in Workers : pc[w] = "logging" => row[ex[w]].status = "failed"

=============================================================================
