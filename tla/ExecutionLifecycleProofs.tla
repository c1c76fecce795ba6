---------------------- MODULE ExecutionLifecycleProofs ----------------------
(***************************************************************************)
(* What ExecutionLifecycle guarantees for any number of workers,            *)
(* executions, crashes and sweeps.                                          *)
(***************************************************************************)
EXTENDS ExecutionLifecycle, TLAPS

USE LifecycleAssumption DEF Executions

(***************************************************************************)
(* Types                                                                   *)
(***************************************************************************)

(* The shapes of the rows the operations build. *)
LEMMA RowShapes ==
  /\ NoRow \in Row /\ NewRow \in Row
  /\ \A r \in Row : /\ Settled(r) \in Row
                    /\ Failed(r) \in Row
                    /\ AskedToStop(r) \in Row
                    /\ \A s \in Status : WithStatus(r, s) \in Row
  /\ \A r, entity \in Row : \A columns : Overwrite(r, entity, columns) \in Row
<1> USE DEF Row, Status, Terminal
<1>1. NoRow \in Row /\ NewRow \in Row
  BY DEF NoRow, NewRow
<1>2. ASSUME NEW r \in Row PROVE Settled(r) \in Row
  <2>1. PICK n \in Nat : n = r.attempts + 1
    BY r.attempts + 1 \in Nat
  <2>2. Settled(r) = IF r.cancel THEN [r EXCEPT !.status = "cancelled", !.attempts = n]
                     ELSE [r EXCEPT !.status = "succeeded", !.attempts = n, !.result = TRUE]
    BY <2>1 DEF Settled
  <2> QED
    BY <2>2
<1>6. ASSUME NEW r \in Row PROVE Failed(r) \in Row
  <2>1. PICK n \in Nat : n = r.attempts + 1
    BY r.attempts + 1 \in Nat
  <2>2. Failed(r) = [r EXCEPT !.status = "failed", !.attempts = n]
    BY <2>1 DEF Failed
  <2> QED
    BY <2>2
<1>3. ASSUME NEW r \in Row, NEW s \in Status PROVE WithStatus(r, s) \in Row
  BY DEF WithStatus
<1>4. ASSUME NEW r \in Row PROVE AskedToStop(r) \in Row
  BY <1>3 DEF AskedToStop
<1>5. ASSUME NEW r \in Row, NEW entity \in Row, NEW columns
      PROVE  Overwrite(r, entity, columns) \in Row
  BY DEF Overwrite
<1> QED
  BY <1>1, <1>2, <1>3, <1>4, <1>5, <1>6

LEMMA InitTypeOK == Init => TypeOK
BY RowShapes DEF Init, TypeOK, NoCancel, Cancels, Columns

LEMMA NextTypeOK == TypeOK /\ [Next]_vars => TypeOK'
<1> SUFFICES ASSUME TypeOK, [Next]_vars PROVE TypeOK'
  OBVIOUS
<1> USE DEF TypeOK, dbVars, workerVars, redisVars, apiVars
<1>1. ASSUME NEW e \in Executions, Submit(e) PROVE TypeOK'
  BY <1>1, RowShapes DEF Submit
<1>2. ASSUME NEW e \in Executions, SubmitInline(e) PROVE TypeOK'
  <2>1. PICK n \in Nat : n = results[e] + 1
    BY results[e] + 1 \in Nat
  <2>2. \/ row' = [row EXCEPT ![e] = Settled(NewRow)] /\ results' = [results EXCEPT ![e] = n]
        \/ row' = [row EXCEPT ![e] = Failed(NewRow)] /\ results' = results
        \/ row' = row /\ results' = results
    BY <1>2, <2>1 DEF SubmitInline
  <2>3. Settled(NewRow) \in Row /\ Failed(NewRow) \in Row
    BY RowShapes
  <2>4. row' \in [Executions -> Row]
    BY <2>2, <2>3
  <2>5. results' \in [Executions -> Nat]
    BY <2>2
  <2> QED
    BY <1>2, <2>4, <2>5 DEF SubmitInline
<1>3. ASSUME NEW e \in Executions, Push(e) PROVE TypeOK'
  BY <1>3 DEF Push
<1>4. ASSUME NEW e \in Executions, LosePush(e) PROVE TypeOK'
  BY <1>4 DEF LosePush
<1>5. ASSUME NEW e \in Executions, CancelRead(e) PROVE TypeOK'
  BY <1>5, RowShapes DEF CancelRead, Cancels
<1>6. ASSUME NEW e \in Executions, CancelReload(e) PROVE TypeOK'
  BY ZenonT(30), <1>6 DEF CancelReload, Cancels, Changed
<1>7. ASSUME NEW e \in Executions, CancelWrite(e) PROVE TypeOK'
  BY <1>7, RowShapes DEF CancelWrite, Cancels, NoCancel
<1>8. ASSUME NEW w \in Workers, Pop(w) PROVE TypeOK'
  BY SMTT(30), <1>8 DEF Pop
<1>9. ASSUME NEW w \in Workers, Sweep(w) PROVE TypeOK'
  BY <1>9 DEF Sweep, Stranded, NewestPending, Pending
<1>10. ASSUME NEW w \in Workers, Recover(w) PROVE TypeOK'
  BY <1>10 DEF Recover
<1>11. ASSUME NEW w \in Workers, Reclaim(w) PROVE TypeOK'
  BY <1>11, RowShapes DEF Reclaim, Status, Terminal
<1>12. ASSUME NEW w \in Workers, Fetch(w) PROVE TypeOK'
  BY <1>12 DEF Fetch, Returned
<1>13. ASSUME NEW w \in Workers, Start(w) PROVE TypeOK'
  <2>1. ex[w] \in Executions =>
          /\ WithStatus(row[ex[w]], "failed") \in Row
          /\ WithStatus(row[ex[w]], "cancelled") \in Row
    BY RowShapes DEF Status, Terminal
  <2>2. row' \in [Executions -> Row]
    BY <1>13, <2>1 DEF Start
  <2>3. \/ lock' = [lock EXCEPT ![ex[w]] = w] /\ pc' = [pc EXCEPT ![w] = "running"]
        \/ lock' = lock /\ pc' = [pc EXCEPT ![w] = Returned(w)]
    BY <1>13 DEF Start, Claimable
  <2>4. Returned(w) \in {"sweep", "idle"}
    BY DEF Returned
  <2>5. lock' \in [Executions -> Workers \cup {NoWorker}]
    <3>1. ASSUME NEW x, NEW f \in [Executions -> Workers \cup {NoWorker}]
          PROVE  [f EXCEPT ![x] = w] \in [Executions -> Workers \cup {NoWorker}]
      OBVIOUS
    <3>2. CASE lock' = lock
      BY <3>2
    <3>3. CASE lock' = [lock EXCEPT ![ex[w]] = w]
      <4>1. lock \in [Executions -> Workers \cup {NoWorker}]
        OBVIOUS
      <4> QED
        BY <3>1, <3>3, <4>1, Zenon
    <3> QED
      BY <2>3, <3>2, <3>3
  <2>6. pc' \in [Workers -> {"idle", "sweep", "fetch", "claim", "giveUp", "skip",
                             "running", "logging"}]
    BY <2>3, <2>4
  <2> QED
    BY <1>13, <2>2, <2>5, <2>6 DEF Start
<1>14. ASSUME NEW w \in Workers, Succeed(w) PROVE TypeOK'
  <2>1. ex[w] \in Executions /\ Settled(row[ex[w]]) \in Row /\ results[ex[w]] + 1 \in Nat
    BY <1>14, RowShapes DEF Succeed
  <2>2. row' \in [Executions -> Row] /\ results' \in [Executions -> Nat]
    BY <1>14, <2>1 DEF Succeed
  <2> QED
    BY <1>14, <2>2 DEF Succeed, Returned
<1>15. ASSUME NEW w \in Workers, Raise(w) PROVE TypeOK'
  BY <1>15 DEF Raise
<1>16. ASSUME NEW w \in Workers, Log(w) PROVE TypeOK'
  BY <1>16 DEF Log, Returned
<1>17. ASSUME NEW w \in Workers, Crash(w) PROVE TypeOK'
  BY <1>17 DEF Crash
<1>18. CASE ApiRestart
  BY <1>18, RowShapes DEF ApiRestart, NoCancel, Cancels
<1>19. CASE Snapshot
  BY <1>19 DEF Snapshot
<1>20. CASE RedisRestart
  BY <1>20 DEF RedisRestart
<1>21. CASE Age
  BY <1>21 DEF Age
<1>22. CASE UNCHANGED vars
  BY <1>22 DEF vars
<1> QED
  BY <1>1, <1>2, <1>3, <1>4, <1>5, <1>6, <1>7, <1>8, <1>9, <1>10, <1>11, <1>12, <1>13,
     <1>14, <1>15, <1>16, <1>17, <1>18, <1>19, <1>20, <1>21, <1>22 DEF Next, Api, Worker

(* Every behaviour of the lifecycle keeps every variable in its type. *)
THEOREM TypeCorrect == Spec => []TypeOK
BY InitTypeOK, NextTypeOK, PTL DEF Spec

(***************************************************************************)
(* The inductive invariant                                                 *)
(***************************************************************************)
RowsConsistent == \A e \in Executions : RowConsistent(e) /\ RequestConsistent(e)

LEMMA InitIInv == Init => IInv
<1> SUFFICES ASSUME Init PROVE IInv
  OBVIOUS
<1>1. LockDiscipline
  BY DEF Init, LockDiscipline, Running
<1>2. ASSUME NEW e \in Executions PROVE RowConsistent(e) /\ RequestConsistent(e)
  BY DEF Init, RowConsistent, RequestConsistent, NoRow, NoCancel
<1> QED
  BY InitTypeOK, <1>1, <1>2 DEF IInv

(* The API: what it does to rows, and that it leaves the runs alone.        *)
LEMMA ApiIInv ==
  ASSUME IInv, NEW e \in Executions, Api(e)
  PROVE  LockDiscipline' /\ RowsConsistent'
<1> USE DEF IInv
<1>1. ASSUME Submit(e) PROVE LockDiscipline' /\ RowsConsistent'
  <2>1. row[e].status = "absent"
    BY <1>1 DEF Submit, RowConsistent, TypeOK
  <2>2. LockDiscipline'
    BY <1>1, <2>1 DEF Submit, LockDiscipline, Running, workerVars, TypeOK
  <2>3. ASSUME NEW f \in Executions PROVE RowConsistent(f)' /\ RequestConsistent(f)'
    BY <1>1, <2>1 DEF Submit, RowConsistent, RequestConsistent, NewRow, TypeOK
  <2> QED
    BY <2>2, <2>3 DEF RowsConsistent
<1>2. ASSUME SubmitInline(e) PROVE LockDiscipline' /\ RowsConsistent'
  <2>1. row[e].status = "absent"
    BY <1>2 DEF SubmitInline, RowConsistent, TypeOK
  <2>2. results[e] = 0 /\ lock[e] = NoWorker
    BY <2>1 DEF RowConsistent, LockDiscipline
  <2>3. /\ Settled(NewRow).status = "succeeded" /\ Settled(NewRow).cancel = FALSE
        /\ Settled(NewRow).result
        /\ Failed(NewRow).status = "failed" /\ Failed(NewRow).cancel = FALSE
        /\ ~Failed(NewRow).result
    BY DEF Settled, Failed, NewRow
  <2>4. cancels' = cancels /\ created' = e /\ e = created + 1
    BY <1>2 DEF SubmitInline
  <2>5. ASSUME NEW f \in Executions, row'[f] = row[f], results'[f] = results[f]
        PROVE  RowConsistent(f)' /\ RequestConsistent(f)'
    <3>1. f > created' => f > created
      BY <2>4 DEF TypeOK
    <3>2. RowConsistent(f) /\ RequestConsistent(f)
      OBVIOUS
    <3> QED
      BY <2>4, <2>5, <3>1, <3>2 DEF RowConsistent, RequestConsistent
  <2>6. CASE row' = row /\ results' = results
    <3>1. LockDiscipline'
      BY <1>2, <2>6 DEF SubmitInline, LockDiscipline, Running, workerVars
    <3> QED
      BY <2>5, <2>6, <3>1 DEF RowsConsistent
  <2>7. ASSUME NEW r \in Row, NEW n \in Nat,
               row' = [row EXCEPT ![e] = r], results' = [results EXCEPT ![e] = n],
               \/ r.status = "succeeded" /\ r.result /\ n = 1
               \/ r.status = "failed" /\ ~r.result /\ n = 0,
               r.cancel = FALSE
        PROVE  LockDiscipline' /\ RowsConsistent'
    <3>1. row'[e] = r /\ results'[e] = n
      BY <2>7 DEF TypeOK
    <3>2. \A f \in Executions : f # e => row'[f] = row[f] /\ results'[f] = results[f]
      BY <2>7 DEF TypeOK
    <3>3. LockDiscipline'
      BY <1>2, <2>2, <3>2 DEF SubmitInline, LockDiscipline, Running, workerVars
    <3>4. RowConsistent(e)'
      <4>1. ~(e > created')
        BY <2>4
      <4> QED
        BY <2>7, <3>1, <4>1 DEF RowConsistent
    <3>5. RequestConsistent(e)'
      BY <2>1, <2>4 DEF RequestConsistent
    <3> QED
      BY <2>5, <3>2, <3>3, <3>4, <3>5 DEF RowsConsistent
  <2>8. Settled(NewRow) \in Row /\ Failed(NewRow) \in Row
    BY RowShapes
  <2>9. \/ row' = row /\ results' = results
        \/ row' = [row EXCEPT ![e] = Settled(NewRow)] /\ results' = [results EXCEPT ![e] = 1]
        \/ row' = [row EXCEPT ![e] = Failed(NewRow)] /\ results' = [results EXCEPT ![e] = 0]
    <3>1. results = [results EXCEPT ![e] = 0]
      BY <2>2 DEF TypeOK
    <3> QED
      BY <1>2, <2>2, <3>1 DEF SubmitInline
  <2> QED
    BY <2>3, <2>6, <2>7, <2>8, <2>9
<1>3. ASSUME Push(e) \/ LosePush(e) PROVE LockDiscipline' /\ RowsConsistent'
  BY <1>3 DEF Push, LosePush, LockDiscipline, RowsConsistent, RowConsistent, RequestConsistent,
              Running, dbVars, workerVars
<1>4. ASSUME CancelRead(e) PROVE LockDiscipline' /\ RowsConsistent'
  <2>1. LockDiscipline'
    BY <1>4 DEF CancelRead, LockDiscipline, Running, dbVars, workerVars
  <2>2. ASSUME NEW f \in Executions PROVE RowConsistent(f)' /\ RequestConsistent(f)'
    BY <1>4 DEF CancelRead, RowConsistent, RequestConsistent, AskedToStop, WithStatus, NewRow,
                dbVars, TypeOK, Row, Cancels
  <2> QED
    BY <2>1, <2>2 DEF RowsConsistent
<1>5. ASSUME CancelReload(e) PROVE LockDiscipline' /\ RowsConsistent'
  <2>1. LockDiscipline'
    BY <1>5 DEF CancelReload, LockDiscipline, Running, dbVars, workerVars
  <2>2. ASSUME NEW f \in Executions PROVE RowConsistent(f)' /\ RequestConsistent(f)'
    BY SMTT(30), <1>5 DEF CancelReload, RowConsistent, RequestConsistent, WithStatus, NewRow,
                Changed, Columns, dbVars, TypeOK, Row, Cancels
  <2> QED
    BY <2>1, <2>2 DEF RowsConsistent
<1>6. ASSUME CancelWrite(e) PROVE LockDiscipline' /\ RowsConsistent'
  <2>1. /\ row'[e].status = "cancelled" /\ row'[e].cancel = FALSE
        /\ row'[e].result => row[e].result
    <3>1. /\ cancels[e].entity.status = "cancelled" /\ cancels[e].entity.cancel = FALSE
          /\ cancels[e].entity.result = FALSE /\ "status" \in cancels[e].columns
      BY <1>6 DEF CancelWrite, RequestConsistent, WithStatus, NewRow
    <3>2. row'[e] = Overwrite(row[e], cancels[e].entity, cancels[e].columns)
      BY <1>6 DEF CancelWrite, TypeOK
    <3> QED
      BY <3>1, <3>2 DEF Overwrite, RowConsistent
  <2>2. LockDiscipline'
    BY <1>6, <2>1 DEF CancelWrite, Unlocked, LockDiscipline, Running, workerVars, TypeOK
  <2>3. ASSUME NEW f \in Executions PROVE RowConsistent(f)' /\ RequestConsistent(f)'
    BY <1>6, <2>1 DEF CancelWrite, RowConsistent, RequestConsistent, NoCancel, TypeOK
  <2> QED
    BY <2>2, <2>3 DEF RowsConsistent
<1> QED
  BY <1>1, <1>2, <1>3, <1>4, <1>5, <1>6 DEF Api

(* A worker: it changes a row only from inside the run that locked it.      *)
LEMMA WorkerIInv ==
  ASSUME IInv, NEW w \in Workers, Worker(w)
  PROVE  LockDiscipline' /\ RowsConsistent'
<1> USE DEF IInv
<1>1. ASSUME Pop(w) PROVE LockDiscipline' /\ RowsConsistent'
  <2>1. Head(queue) \in Executions
    BY <1>1 DEF Pop, TypeOK
  <2>2. LockDiscipline'
    BY <1>1, <2>1 DEF Pop, LockDiscipline, Running, dbVars, TypeOK
  <2> QED
    BY <1>1, <2>2 DEF Pop, RowsConsistent, RowConsistent, RequestConsistent, dbVars, apiVars
<1>2. ASSUME Sweep(w) \/ Log(w) PROVE LockDiscipline' /\ RowsConsistent'
  <2>1. LockDiscipline'
    BY SMTT(30), <1>2 DEF Sweep, Log, Returned, LockDiscipline, Running, dbVars, TypeOK
  <2> QED
    BY <1>2, <2>1 DEF Sweep, Log, RowsConsistent, RowConsistent, RequestConsistent, dbVars, apiVars
<1>3. ASSUME Recover(w) PROVE LockDiscipline' /\ RowsConsistent'
  <2>1. LockDiscipline'
    BY <1>3 DEF Recover, LockDiscipline, Running, dbVars, TypeOK
  <2> QED
    BY <1>3, <2>1 DEF Recover, RowsConsistent, RowConsistent, RequestConsistent, dbVars, apiVars
<1>4. ASSUME Reclaim(w) PROVE LockDiscipline' /\ RowsConsistent'
  <2>1. row' = row
    BY <1>4 DEF Reclaim, RowConsistent, TypeOK
  <2>2. LockDiscipline'
    BY <1>4, <2>1 DEF Reclaim, LockDiscipline, Running, TypeOK
  <2> QED
    BY <1>4, <2>1, <2>2 DEF Reclaim, RowsConsistent, RowConsistent, RequestConsistent, apiVars
<1>5. ASSUME Fetch(w) PROVE LockDiscipline' /\ RowsConsistent'
  <2>1. ex[w] \in Executions
    BY <1>5 DEF Fetch, LockDiscipline
  <2>2. row[ex[w]].status \notin Terminal => ~Exhausted(row[ex[w]]) /\ ~row[ex[w]].cancel
    BY <2>1 DEF RowConsistent, Exhausted, Terminal
  <2>3. pc' = [pc EXCEPT ![w] = Returned(w)] \/ pc' = [pc EXCEPT ![w] = "claim"]
    BY <1>5, <2>2 DEF Fetch
  <2>4. LockDiscipline'
    <3>1. row' = row /\ lock' = lock /\ ex' = ex /\ pc[w] = "fetch"
      BY <1>5 DEF Fetch, dbVars
    <3>2. pc'[w] \in {"idle", "sweep", "claim"}
      BY <2>3 DEF Returned, TypeOK
    <3>3. \A v \in Workers : v # w => pc'[v] = pc[v]
      BY <2>3 DEF TypeOK
    <3> QED
      BY <2>1, <3>1, <3>2, <3>3 DEF LockDiscipline, Running
  <2> QED
    BY <1>5, <2>4 DEF Fetch, RowsConsistent, RowConsistent, RequestConsistent, dbVars, apiVars
<1>6. ASSUME Start(w) PROVE LockDiscipline' /\ RowsConsistent'
  <2>1. pc[w] = "claim" /\ ex[w] \in Executions
    BY <1>6 DEF Start, LockDiscipline
  <2>2. row' = row
    BY <1>6, <2>1 DEF Start
  <2>3. ASSUME Claimable(ex[w]) PROVE LockDiscipline'
    <3>1. lock' = [lock EXCEPT ![ex[w]] = w] /\ pc' = [pc EXCEPT ![w] = "running"] /\ ex' = ex
      BY <1>6, <2>1, <2>3 DEF Start
    <3>2. lock[ex[w]] = NoWorker /\ row[ex[w]].status = "pending"
      BY <1>6, <2>3 DEF Start, Claimable, Unlocked
    <3> QED
      BY <2>1, <2>2, <3>1, <3>2 DEF LockDiscipline, Running, TypeOK
  <2>4. ASSUME ~Claimable(ex[w]) PROVE LockDiscipline'
    <3>1. lock' = lock /\ pc' = [pc EXCEPT ![w] = Returned(w)] /\ ex' = ex
      BY <1>6, <2>4 DEF Start
    <3> QED
      BY <2>1, <2>2, <3>1 DEF Returned, LockDiscipline, Running, TypeOK
  <2>5. RowsConsistent'
    BY <1>6, <2>2 DEF Start, RowsConsistent, RowConsistent, RequestConsistent, apiVars
  <2> QED
    BY <2>3, <2>4, <2>5
<1>7. ASSUME Succeed(w) PROVE LockDiscipline' /\ RowsConsistent'
  <2> DEFINE e == ex[w]
  <2>1. e \in Executions /\ lock[e] = w /\ row[e].status = "pending"
    BY <1>7 DEF Succeed, LockDiscipline, Running
  <2>2. row[e].cancel = FALSE /\ results[e] = 0
    BY <2>1 DEF RowConsistent
  <2>3. /\ row' = [row EXCEPT ![e] = Settled(row[e])]
        /\ results' = [results EXCEPT ![e] = 1]
    BY <1>7, <2>2 DEF Succeed
  <2>4. row'[e].status = "succeeded" /\ row'[e].cancel = FALSE /\ row'[e].result
    BY <2>1, <2>2, <2>3 DEF Settled, TypeOK, Row
  <2>5. LockDiscipline'
    BY <1>7, <2>1, <2>3 DEF Succeed, Returned, LockDiscipline, Running, TypeOK
  <2>6. cancels' = cancels /\ created' = created
    BY <1>7 DEF Succeed, apiVars
  <2>7. ASSUME NEW f \in Executions, f # e PROVE RowConsistent(f)' /\ RequestConsistent(f)'
    <3>1. row'[f] = row[f] /\ results'[f] = results[f]
      BY <2>3, <2>7 DEF TypeOK
    <3> QED
      BY <2>6, <3>1 DEF RowConsistent, RequestConsistent
  <2>8. ASSUME NEW f \in Executions, f = e PROVE RowConsistent(f)' /\ RequestConsistent(f)'
    <3>1. results'[f] = 1 /\ row'[f].status = "succeeded" /\ row'[f].cancel = FALSE /\ row'[f].result
      BY <2>1, <2>3, <2>4, <2>8 DEF TypeOK
    <3>2. ~(f > created) /\ row[f].status = "pending"
      BY <2>1, <2>8 DEF RowConsistent
    <3>3. RequestConsistent(f)'
      BY <2>6, <3>1, <3>2 DEF RequestConsistent
    <3> QED
      BY <2>6, <3>1, <3>2, <3>3 DEF RowConsistent
  <2>9. \A f \in Executions : RowConsistent(f)' /\ RequestConsistent(f)'
    BY <2>7, <2>8
  <2> QED
    BY <2>5, <2>9 DEF RowsConsistent
<1>8. ASSUME Raise(w) PROVE LockDiscipline' /\ RowsConsistent'
  <2>1. LockDiscipline'
    BY <1>8 DEF Raise, LockDiscipline, Running, TypeOK
  <2> QED
    BY <1>8, <2>1 DEF Raise, RowsConsistent, RowConsistent, RequestConsistent, apiVars
<1> QED
  BY <1>1, <1>2, <1>3, <1>4, <1>5, <1>6, <1>7, <1>8 DEF Worker

LEMMA NextIInv == IInv /\ [Next]_vars => IInv'
<1> SUFFICES ASSUME IInv, [Next]_vars PROVE LockDiscipline' /\ RowsConsistent'
  BY NextTypeOK DEF IInv, RowsConsistent
<1> USE DEF IInv
<1>1. ASSUME NEW w \in Workers, Crash(w) PROVE LockDiscipline' /\ RowsConsistent'
  <2>1. LockDiscipline'
    BY <1>1 DEF Crash, LockDiscipline, Running, TypeOK
  <2> QED
    BY <1>1, <2>1 DEF Crash, RowsConsistent, RowConsistent, RequestConsistent, apiVars
<1>2. CASE ApiRestart
  BY <1>2 DEF ApiRestart, LockDiscipline, RowsConsistent, RowConsistent, RequestConsistent,
              Running, NoCancel, dbVars, workerVars
<1>3. CASE Snapshot \/ RedisRestart \/ Age
  BY <1>3 DEF Snapshot, RedisRestart, Age, LockDiscipline, RowsConsistent, RowConsistent,
              RequestConsistent, Running, dbVars, workerVars, apiVars
<1>4. CASE UNCHANGED vars
  BY <1>4 DEF vars, LockDiscipline, RowsConsistent, RowConsistent, RequestConsistent,
              Running, dbVars, workerVars, apiVars
<1> QED
  BY ApiIInv, WorkerIInv, <1>1, <1>2, <1>3, <1>4 DEF Next

(* The inductive invariant holds in every reachable state. *)
THEOREM Invariance == Spec => []IInv
BY InitIInv, NextIInv, PTL DEF Spec

(* Two workers are never inside the plugin of the same execution.           *)
THEOREM SingleOwnerHolds == Spec => []SingleOwner
<1>1. IInv => SingleOwner
  BY DEF IInv, LockDiscipline, SingleOwner
<1> QED
  BY <1>1, Invariance, PTL

(* At most one Result per submission, and only a cancellation can part it   *)
(* from its row.                                                            *)
THEOREM ResultsAccountedHolds == Spec => []ResultsAccounted
<1>1. ASSUME IInv, NEW e \in Executions
      PROVE  /\ results[e] <= 1
             /\ row[e].result => results[e] = 1
             /\ results[e] = 1 /\ ~row[e].result => row[e].status = "cancelled"
  <2>1. results[e] \in {0, 1}
    BY <1>1 DEF IInv, RowConsistent
  <2> QED
    BY <1>1, <2>1 DEF IInv, RowConsistent
<1>2. IInv => ResultsAccounted
  BY <1>1 DEF ResultsAccounted
<1> QED
  BY <1>2, Invariance, PTL

(* A success always comes with its Result. *)
THEOREM SuccessHasResultHolds == Spec => []SuccessHasResult
<1>1. IInv => SuccessHasResult
  BY DEF IInv, RowConsistent, SuccessHasResult
<1> QED
  BY <1>1, Invariance, PTL

(* No committed row is ever RUNNING: the reclaim sweep, the heartbeat and   *)
(* the cancellation of a running execution have nothing to act on.          *)
THEOREM RunningNeverCommittedHolds == Spec => []RunningNeverCommitted
<1>1. IInv => RunningNeverCommitted
  BY DEF IInv, RowConsistent, RunningNeverCommitted
<1> QED
  BY <1>1, Invariance, PTL

(***************************************************************************)
(* Steps as an outsider sees them                                          *)
(***************************************************************************)

(* The row of e becomes r: accepted, completed, failed or cancelled. *)
RowStep(e, r) ==
  /\ row' = [row EXCEPT ![e] = r]
  /\ \/ row[e].status = "absent" /\ r.status = "pending" /\ results' = results
     \/ /\ row[e].status \in {"absent", "pending"} /\ r.status = "succeeded"
        /\ results[e] = 0 /\ results' = [results EXCEPT ![e] = 1]
     \/ row[e].status = "absent" /\ r.status = "failed" /\ results' = results
     \/ row[e].status \in {"pending", "succeeded"} /\ r.status = "cancelled" /\ results' = results

LEMMA EveryStepIsARowStep ==
  ASSUME IInv, [Next]_vars
  PROVE  (row' = row /\ results' = results) \/ \E e \in Executions : \E r \in Row : RowStep(e, r)
<1> DEFINE Quiet == row' = row /\ results' = results
<1> DEFINE Moves == \E e \in Executions : \E r \in Row : RowStep(e, r)
<1> USE DEF IInv
<1>1. ASSUME NEW e \in Executions, Submit(e) PROVE Moves
  <2>1. row[e].status = "absent" /\ NewRow \in Row /\ NewRow.status = "pending"
    BY <1>1, RowShapes DEF Submit, RowConsistent, NewRow, TypeOK
  <2>2. RowStep(e, NewRow)
    BY <1>1, <2>1 DEF Submit, RowStep
  <2> QED
    BY <2>1, <2>2
<1>2. ASSUME NEW e \in Executions, SubmitInline(e) PROVE Quiet \/ Moves
  <2>1. row[e].status = "absent" /\ results[e] = 0
    BY <1>2 DEF SubmitInline, RowConsistent, TypeOK
  <2>2. Settled(NewRow) \in Row /\ Settled(NewRow).status = "succeeded"
    BY RowShapes DEF Settled, NewRow
  <2>3. Failed(NewRow) \in Row /\ Failed(NewRow).status = "failed"
    BY RowShapes DEF Failed, NewRow
  <2>4. Quiet \/ RowStep(e, Settled(NewRow)) \/ RowStep(e, Failed(NewRow))
    BY <1>2, <2>1, <2>2, <2>3 DEF SubmitInline, RowStep
  <2> QED
    BY <2>2, <2>3, <2>4
<1>3. ASSUME NEW e \in Executions, CancelWrite(e) PROVE Moves
  <2> DEFINE r == Overwrite(row[e], cancels[e].entity, cancels[e].columns)
  <2>1. r \in Row
    BY RowShapes DEF TypeOK, Cancels
  <2>2. /\ cancels[e].entity.status = "cancelled" /\ "status" \in cancels[e].columns
        /\ row[e].status \in {"pending", "succeeded"}
    BY <1>3 DEF CancelWrite, RequestConsistent, WithStatus, NewRow
  <2>3. r.status = "cancelled"
    BY <2>2 DEF Overwrite
  <2>4. RowStep(e, r)
    BY <1>3, <2>2, <2>3 DEF CancelWrite, RowStep
  <2> QED
    BY <2>1, <2>4
<1>4. ASSUME NEW w \in Workers, Succeed(w) PROVE Moves
  <2> DEFINE e == ex[w]
  <2>1. e \in Executions /\ row[e].status = "pending"
    BY <1>4 DEF Succeed, LockDiscipline, Running
  <2>2. row[e].cancel = FALSE /\ results[e] = 0
    BY <2>1 DEF RowConsistent
  <2>3. Settled(row[e]) \in Row /\ Settled(row[e]).status = "succeeded"
    <3>1. row[e] \in Row
      BY <2>1 DEF TypeOK
    <3>2. Settled(row[e]) \in Row
      BY <3>1, RowShapes
    <3>3. Settled(row[e]).status = "succeeded"
      BY <2>2, <3>1 DEF Settled, Row
    <3> QED
      BY <3>2, <3>3
  <2>4. row' = [row EXCEPT ![e] = Settled(row[e])] /\ results' = [results EXCEPT ![e] = 1]
    BY <1>4, <2>2 DEF Succeed
  <2>5. RowStep(e, Settled(row[e]))
    BY <2>1, <2>2, <2>3, <2>4 DEF RowStep
  <2> QED
    BY <2>1, <2>3, <2>5
<1>5. ASSUME NEW w \in Workers, Start(w) PROVE Quiet
  BY <1>5 DEF Start, LockDiscipline
<1>6. ASSUME NEW w \in Workers, Reclaim(w) PROVE Quiet
  BY <1>6 DEF Reclaim, RowConsistent, TypeOK
<1>7. ASSUME NEW e \in Executions, Push(e) \/ LosePush(e) \/ CancelRead(e) \/ CancelReload(e)
      PROVE  Quiet
  BY <1>7 DEF Push, LosePush, CancelRead, CancelReload, dbVars
<1>8. ASSUME NEW w \in Workers,
             \/ Pop(w) \/ Sweep(w) \/ Recover(w) \/ Fetch(w) \/ Raise(w) \/ Log(w) \/ Crash(w)
      PROVE  Quiet
  BY <1>8 DEF Pop, Sweep, Recover, Fetch, Raise, Log, Crash, dbVars
<1>9. CASE ApiRestart \/ Snapshot \/ RedisRestart \/ Age \/ UNCHANGED vars
  BY <1>9 DEF ApiRestart, Snapshot, RedisRestart, Age, vars, dbVars
<1> QED
  BY <1>1, <1>2, <1>3, <1>4, <1>5, <1>6, <1>7, <1>8, <1>9 DEF Next, Api, Worker

(* A committed cancellation is final: no message still queued, no sweep and *)
(* no run in progress turns the execution into anything else.               *)
THEOREM CancelledForGoodHolds == Spec => CancelledForGood
<1>1. ASSUME IInv, [Next]_vars, NEW e \in Executions, row[e].status = "cancelled"
      PROVE  row'[e] = row[e]
  BY <1>1, EveryStepIsARowStep DEF RowStep, IInv, TypeOK
<1>2. IInv /\ [Next]_vars
        => [\A e \in Executions : row[e].status = "cancelled" => row'[e] = row[e]]_vars
  BY <1>1
<1> QED
  BY <1>2, Invariance, PTL DEF Spec, CancelledForGood

(* Queue, workers, sweeps, crashes and retries are invisible: the committed *)
(* rows go through the atomic accept/complete/cancel life of                *)
(* ExecutionOutcome.                                                        *)
THEOREM Implements == Spec => OutcomeSpec
<1>1. Init => Outcome!Init
  BY DEF Init, Outcome!Init, Shown, NoRow
<1>2. ASSUME IInv, [Next]_vars PROVE [Outcome!Next]_(Outcome!vars)
  <2>1. CASE row' = row /\ results' = results
    BY <2>1 DEF Outcome!vars, Shown
  <2>2. ASSUME NEW e \in Executions, NEW r \in Row, RowStep(e, r) PROVE Outcome!Next
    <3>1. Shown' = [Shown EXCEPT ![e] = r.status] /\ Shown[e] = row[e].status
      BY <1>2, <2>2 DEF RowStep, Shown, IInv, TypeOK
    <3>2. \/ Outcome!Accept(e)
          \/ Outcome!Complete(e)
          \/ Outcome!Fail(e)
          \/ Outcome!Cancel(e)
      BY <2>2, <3>1
         DEF RowStep, Outcome!Accept, Outcome!Complete, Outcome!Fail, Outcome!Cancel, Outcome!Become
    <3> QED
      BY <3>2 DEF Outcome!Next
  <2> QED
    BY <1>2, <2>1, <2>2, EveryStepIsARowStep
<1> QED
  BY <1>1, <1>2, Invariance, PTL DEF Spec, OutcomeSpec, Outcome!Spec

=============================================================================
