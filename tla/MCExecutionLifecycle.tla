------------------------ MODULE MCExecutionLifecycle ------------------------
(***************************************************************************)
(* Instances of ExecutionLifecycle for TLC.  The .cfg files choose the      *)
(* sizes; what cannot be written there - which executions' plugins raise    *)
(* and which return - is named here.                                        *)
(***************************************************************************)
EXTENDS ExecutionLifecycle, TLC

CONSTANTS w1, w2   \* two worker replicas

(* Replicas run the same code: permuting them changes no safety property. *)
Replicas == Permutations(Workers)

(* A worker that is idle or between two recoveries has no use for the id of *)
(* the execution it last handled: two states that differ only in it are one. *)
Seen ==
  <<row, results, lock, pc, todo, sweeping, queue, saved, unpushed, cancels, created, aged, crashes,
    [w \in Workers |-> IF pc[w] \in {"idle", "sweep"} THEN 0 ELSE ex[w]]>>

None   == {}
All    == Executions
Newest == {NumExecutions}

=============================================================================
