-------------------------- MODULE ExecutionLedger --------------------------
(***************************************************************************)
(* What the runtime promises about FlowExecutions, without jobs, leases,   *)
(* goroutines, processes or crashes: an accepted execution stays pending   *)
(* until its outcome is recorded, an operator may reopen an actionable     *)
(* outcome, and a final outcome stands.                                    *)
(***************************************************************************)
CONSTANT Executions

VARIABLES status,   \* the recorded status of every execution
          pending   \* executions some worker will still come back to

ledgerVars == <<status, pending>>

Settled == {"succeeded", "skipped"}
Retryable == {"failed", "indeterminate", "reconciliation-required"}

Init ==
    /\ status = [e \in Executions |-> "absent"]
    /\ pending = {}

\* A new execution is recorded together with its work.
Submit(e) ==
    /\ status[e] = "absent"
    /\ status' = [status EXCEPT ![e] = "queued"]
    /\ pending' = pending \cup {e}

\* An operator reopens an execution that needs one.
Reopen(e) ==
    /\ status[e] \in Retryable
    /\ status' = [status EXCEPT ![e] = "queued"]
    /\ pending' = pending \cup {e}

\* A worker takes up pending work.
Begin(e) ==
    /\ e \in pending
    /\ status[e] \in {"queued", "running"} \cup Retryable
    /\ status' = [status EXCEPT ![e] = "running"]
    /\ UNCHANGED pending

\* An outcome is recorded for pending work.
Record(e, s) ==
    /\ e \in pending
    /\ status[e] \in {"queued", "running"} \cup Retryable
    /\ status' = [status EXCEPT ![e] = s]
    /\ UNCHANGED pending

\* Work is dropped once an outcome is on record.
Drop(e) ==
    /\ status[e] \in Settled \cup Retryable
    /\ pending' = pending \ {e}
    /\ UNCHANGED status

Next ==
    \E e \in Executions :
        \/ Submit(e) \/ Reopen(e) \/ Begin(e) \/ Drop(e)
        \/ \E s \in Settled \cup Retryable : Record(e, s)

Spec == Init /\ [][Next]_ledgerVars
=============================================================================
