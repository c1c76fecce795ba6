-------------------------- MODULE ExecutionOutcome --------------------------
(***************************************************************************)
(* What the executions table shows of an execution to somebody who sees     *)
(* only committed data: it appears, and its one effect - a succeeded row    *)
(* together with exactly one stored Result - happens at most once and in    *)
(* one instant, whatever queue, workers, sweeps and crashes lie behind it.  *)
(* One that fails inside the transaction that submitted it appears failed.  *)
(* A cancellation ends it; one decided while the run was still invisible    *)
(* lands after the success and re-labels it, leaving the Result stored.     *)
(***************************************************************************)
EXTENDS Naturals

CONSTANT Executions

VARIABLES
  shown,   \* what a reader sees of each execution
  stored   \* how many Results are stored for it

vars == <<shown, stored>>

Init ==
  /\ shown = [e \in Executions |-> "absent"]
  /\ stored = [e \in Executions |-> 0]

Become(e, s) == shown' = [shown EXCEPT ![e] = s]

(* It is recorded, to be run later. *)
Accept(e) ==
  /\ shown[e] = "absent"
  /\ Become(e, "pending")
  /\ UNCHANGED stored

(* It ran: the row and its Result appear together.  An execution run in     *)
(* the request that submitted it is never seen pending.                     *)
Complete(e) ==
  /\ shown[e] \in {"absent", "pending"}
  /\ stored[e] = 0
  /\ Become(e, "succeeded")
  /\ stored' = [stored EXCEPT ![e] = 1]

Fail(e) ==
  /\ shown[e] = "absent"
  /\ Become(e, "failed")
  /\ UNCHANGED stored

Cancel(e) ==
  /\ shown[e] \in {"pending", "succeeded"}
  /\ Become(e, "cancelled")
  /\ UNCHANGED stored

Next == \E e \in Executions : Accept(e) \/ Complete(e) \/ Fail(e) \/ Cancel(e)

Spec == Init /\ [][Next]_vars

=============================================================================
