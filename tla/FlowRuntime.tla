---------------------------- MODULE FlowRuntime ----------------------------
(***************************************************************************)
(* The durable job queue of the Bridge and the workers that drain it:      *)
(* internal/store/runtime.go (jobs, flow_executions, node_executions),     *)
(* internal/runtime/executor.go (Worker and Executor) and the operator     *)
(* handlers of internal/httpapi/integration.go.                            *)
(*                                                                         *)
(* One Bridge process runs at a time.  Its poll loop hands claimed jobs to *)
(* a bounded number of goroutines; every goroutine takes the mutex of the  *)
(* job's Connection, interprets the Flow of the job's FlowExecution node   *)
(* by node, writes the outcome and settles the job.  The process may crash *)
(* between any two database writes and is restarted with a new worker ID.  *)
(* Meanwhile operators retry, repair, replay and acknowledge executions.   *)
(*                                                                         *)
(* Time is abstract: a lease expires and a backoff elapses as actions of   *)
(* their own, and available_at is kept as the order in which rows became   *)
(* available.  What a node computes or calls is one of the outcomes that   *)
(* classifyNodeError and isRetryableExecutionError tell apart.             *)
(***************************************************************************)
EXTENDS Naturals, FiniteSets

CONSTANTS
    Executions,       \* identities of FlowExecution rows (one per idempotency key)
    Connections,      \* Connections of the Workspace
    ConnectionOf,     \* the Connection of every execution
    Goroutines,       \* slots of the worker's semaphore
    Operators,        \* concurrently served operator requests
    OperatorActions,  \* which operator handlers are exercised
    MaxJobs,          \* bound: rows the jobs table may receive
    NodeCount,        \* nodes on the path of the Flow the event takes
    MaxAttempts,      \* maxAutomaticAttempts
    MaxCrashes,       \* bound: how often the process ends
    SlowRuns,         \* may a lease expire while its goroutine still works?
    StoreErrors,      \* may a database call of the executor fail?
    RetentionEnds,    \* may the retention period of a checkpoint end?
    NoGoroutine,      \* the owner of a free mutex
    NoExecution       \* the execution of a job or request that does not exist

ASSUME ConstantsAssumption ==
    /\ ConnectionOf \in [Executions -> Connections]
    /\ OperatorActions \subseteq {"retry", "repair", "replay", "attention"}
    /\ MaxJobs \in Nat
    /\ NodeCount \in Nat \ {0, 1}
    /\ MaxAttempts \in Nat \ {0}
    /\ MaxCrashes \in Nat
    /\ SlowRuns \in BOOLEAN
    /\ StoreErrors \in BOOLEAN
    /\ RetentionEnds \in BOOLEAN
    /\ NoGoroutine \notin Goroutines
    /\ NoExecution \notin Executions

Jobs == 1 .. MaxJobs
Nodes == 1 .. NodeCount

(***************************************************************************)
(* Statuses, as the columns of the tables spell them; "absent" stands for  *)
(* a row that has not been inserted.                                       *)
(***************************************************************************)
Actionable == {"failed", "indeterminate", "reconciliation-required"}
Final == {"succeeded", "skipped"}
ExecutionStatus == {"absent", "queued", "running"} \cup Final \cup Actionable
AttentionStatus == {"none", "open", "acknowledged"}
JobStatus == {"absent", "queued", "running", "succeeded", "failed"}
JobKind == {"flow.execute", "flow.retry", "flow.repair"}
NodeStatus == {"absent", "running", "succeeded", "failed", "skipped", "indeterminate"}

VARIABLES
    \* jobs
    jobStatus, jobKind, jobExecution, leasedBy, leaseExpired, available, attemptCount,
    before,           \* ORDER BY available_at, created_at, id
    \* flow_executions and node_executions
    status, attention, nodeStatus,
    purged,           \* executions whose input checkpoint lost its output_snapshot
    \* the goroutines running runJob
    pc, gJob, gAttempt, gStatus, gAttention, gNode, gResult,
    lockOwner,        \* Worker.locks
    \* the process
    up, workerID,
    overrun,          \* history: jobs at work whose lease expired under a run of this process
    \* operator requests in flight
    opPc, opExecution, opStatus

jobVars == <<jobStatus, jobKind, jobExecution, leasedBy, leaseExpired, available,
             attemptCount, before>>
executionVars == <<status, attention>>
nodeVars == <<nodeStatus, purged>>
goroutineVars == <<pc, gJob, gAttempt, gStatus, gAttention, gNode, gResult>>
processVars == <<up, workerID, overrun>>
operatorVars == <<opPc, opExecution, opStatus>>
vars == <<jobVars, executionVars, nodeVars, goroutineVars, lockOwner, processVars,
          operatorVars>>

-----------------------------------------------------------------------------
(***************************************************************************)
(* Outcomes of a node, and of the run that ends with it.  "storage" is a   *)
(* database error the executor returns without having recorded a status.   *)
(***************************************************************************)
NodeOutcomes ==
    {"ok",              \* the node returned a value
     "skip",            \* Condition/Filter did not match, or an explicit terminal
     "transient",       \* ProviderError transient or rate-limited
     "permanent",       \* validation, not-found, forbidden, internal ...
     "uncertain",       \* ProviderError timeout, or a reconciliationError to be retried
     "indeterminate"}   \* ProviderError indeterminate, or a reconciliationError that wraps
                        \* a provider error which is not retryable

Outcomes == NodeOutcomes \cup {"none", "storage", "setup"}

\* The node status classifyNodeError derives from the outcome.
classifyNodeError(r) ==
    CASE r = "ok" -> "succeeded"
      [] r = "skip" -> "skipped"
      [] r \in {"uncertain", "indeterminate"} -> "indeterminate"
      [] OTHER -> "failed"

\* The execution status written for a node status.
ExecutionOutcome(r) ==
    IF classifyNodeError(r) = "indeterminate"
    THEN "reconciliation-required"
    ELSE classifyNodeError(r)

isRetryableExecutionError(r) == r \in {"transient", "uncertain"}

\* A run without an error: the execution was final already, succeeded, or was skipped.
NoError(r) == r \in {"none", "ok", "skip"}

\* Attention is kept only beside an actionable status, and defaults to open.
normalizeExecutionAttention(s, a) ==
    IF s \notin Actionable THEN "none"
    ELSE IF a \in {"open", "acknowledged"} THEN a ELSE "open"

\* Mutant: the attention is written without normalization.
UpdateFlowExecutionRaw(e, s, a) ==
    /\ status' = [status EXCEPT ![e] = s]
    /\ attention' = [attention EXCEPT ![e] = a]

\* The unconditional UPDATE of one execution row.
UpdateFlowExecution(e, s, a) ==
    /\ status' = [status EXCEPT ![e] = s]
    /\ attention' = [attention EXCEPT ![e] = normalizeExecutionAttention(s, a)]

-----------------------------------------------------------------------------
(***************************************************************************)
(* Initially the tables are empty and the first process is up.             *)
(***************************************************************************)
Init ==
    /\ jobStatus = [j \in Jobs |-> "absent"]
    /\ jobKind = [j \in Jobs |-> "flow.execute"]
    /\ jobExecution = [j \in Jobs |-> NoExecution]
    /\ leasedBy = [j \in Jobs |-> 0]
    /\ leaseExpired = [j \in Jobs |-> FALSE]
    /\ available = [j \in Jobs |-> FALSE]
    /\ attemptCount = [j \in Jobs |-> 0]
    /\ before = {}
    /\ status = [e \in Executions |-> "absent"]
    /\ attention = [e \in Executions |-> "none"]
    /\ nodeStatus = [e \in Executions |-> [n \in Nodes |-> "absent"]]
    /\ purged = {}
    /\ pc = [g \in Goroutines |-> "idle"]
    /\ gJob = [g \in Goroutines |-> 0]
    /\ gAttempt = [g \in Goroutines |-> 0]
    /\ gStatus = [g \in Goroutines |-> "absent"]
    /\ gAttention = [g \in Goroutines |-> "none"]
    /\ gNode = [g \in Goroutines |-> 1]
    /\ gResult = [g \in Goroutines |-> "none"]
    /\ lockOwner = [c \in Connections |-> NoGoroutine]
    /\ up = TRUE
    /\ workerID = 1
    /\ overrun = {}
    /\ opPc = [o \in Operators |-> "idle"]
    /\ opExecution = [o \in Operators |-> NoExecution]
    /\ opStatus = [o \in Operators |-> "absent"]

-----------------------------------------------------------------------------
(***************************************************************************)
(* The jobs table.                                                         *)
(***************************************************************************)
\* Rows are numbered in the order of their insertion.
NextJob(j) == jobStatus[j] = "absent" /\ \A i \in Jobs : i < j => jobStatus[i] # "absent"

\* Pairs of before without row j.
Without(j) == {p \in before : p[1] # j /\ p[2] # j}

\* Row j becomes available after every row that is available already.
Last(j) == {<<i, j>> : i \in {i \in Jobs : available[i] /\ i # j}}

\* Mutant: the kind of the job is not required.
insertJobWithoutKind(j, e, kind) ==
    /\ NextJob(j)
    /\ jobStatus' = [jobStatus EXCEPT ![j] = "queued"]
    /\ jobKind' = [jobKind EXCEPT ![j] = ""]
    /\ jobExecution' = [jobExecution EXCEPT ![j] = e]
    /\ available' = [available EXCEPT ![j] = TRUE]
    /\ before' = before \cup Last(j)
    /\ UNCHANGED <<leasedBy, leaseExpired, attemptCount>>

insertJob(j, e, kind) ==
    /\ NextJob(j)
    /\ jobStatus' = [jobStatus EXCEPT ![j] = "queued"]
    /\ jobKind' = [jobKind EXCEPT ![j] = kind]
    /\ jobExecution' = [jobExecution EXCEPT ![j] = e]
    /\ available' = [available EXCEPT ![j] = TRUE]
    /\ before' = before \cup Last(j)
    /\ UNCHANGED <<leasedBy, leaseExpired, attemptCount>>

\* Mutant: a running row is claimed without a look at its lease.
ClaimableWhileLeased(j) ==
    \/ jobStatus[j] = "queued" /\ available[j]
    \/ jobStatus[j] = "running"

\* Mutant: a running row is never claimed again.
ClaimableOnce(j) == jobStatus[j] = "queued" /\ available[j]

Claimable(j) ==
    \/ jobStatus[j] = "queued" /\ available[j]
    \/ jobStatus[j] = "running" /\ leaseExpired[j]

\* The row ClaimNextJob selects.
FirstClaimable(j) ==
    /\ Claimable(j)
    /\ \A i \in Jobs : Claimable(i) => <<i, j>> \notin before

\* A row whose lease the process holds: the WHERE leased_by = ? of both updates.
LeasedHere(j) == leasedBy[j] = workerID

\* The UPDATE that ends a run: the new job status, with the lease cleared.
ReleaseJob(j, s) ==
    /\ jobStatus' = [jobStatus EXCEPT ![j] = s]
    /\ leasedBy' = [leasedBy EXCEPT ![j] = 0]
    /\ leaseExpired' = [leaseExpired EXCEPT ![j] = FALSE]
    /\ available' = [available EXCEPT ![j] = FALSE]
    /\ before' = Without(j)
    /\ UNCHANGED <<jobKind, jobExecution, attemptCount>>

CompleteJob(j) == LeasedHere(j) /\ ReleaseJob(j, "succeeded")

FailJob(j, retry) == LeasedHere(j) /\ ReleaseJob(j, IF retry THEN "queued" ELSE "failed")

\* retryAt has come: the row is available again, behind the rows that are.
BackoffElapses(j) ==
    /\ jobStatus[j] = "queued" /\ ~available[j]
    /\ available' = [available EXCEPT ![j] = TRUE]
    /\ before' = before \cup Last(j)
    /\ UNCHANGED <<jobStatus, jobKind, jobExecution, leasedBy, leaseExpired, attemptCount,
                   executionVars, nodeVars, goroutineVars, lockOwner, processVars, operatorVars>>

\* A goroutine of the running process works on job j.
Worked(j) == \E g \in Goroutines : pc[g] # "idle" /\ gJob[g] = j

\* lease_until has passed.  Leases are never renewed, so this may happen under a
\* goroutine that is still at work or waits for its mutex (SlowRuns).
LeaseExpires(j) ==
    /\ jobStatus[j] = "running" /\ ~leaseExpired[j]
    /\ SlowRuns \/ ~Worked(j)
    /\ leaseExpired' = [leaseExpired EXCEPT ![j] = TRUE]
    /\ overrun' = IF Worked(j) THEN overrun \cup {j} ELSE overrun
    /\ UNCHANGED <<jobStatus, jobKind, jobExecution, leasedBy, available, attemptCount, before,
                   executionVars, nodeVars, goroutineVars, lockOwner, up, workerID, operatorVars>>

-----------------------------------------------------------------------------
(***************************************************************************)
(* Acceptance.  A delivery whose idempotency key is known inserts nothing, *)
(* which is a stuttering step here.                                        *)
(***************************************************************************)
AcceptInboundEvent(e, j) ==
    /\ up
    /\ status[e] = "absent"
    /\ status' = [status EXCEPT ![e] = "queued"]
    /\ insertJob(j, e, "flow.execute")
    /\ UNCHANGED <<attention, nodeVars, goroutineVars, lockOwner, processVars, operatorVars>>

\* The execution and its first job are committed as a single unit.
CreateFlowExecutionAndEnqueue(e, j) ==
    /\ status[e] = "absent"
    /\ status' = [status EXCEPT ![e] = "queued"]
    /\ insertJob(j, e, "flow.execute")

\* An operator replays execution e as the new execution f.
replayExecution(e, f, j) ==
    /\ up
    /\ "replay" \in OperatorActions
    /\ status[e] # "absent"
    /\ ConnectionOf[e] = ConnectionOf[f]
    /\ CreateFlowExecutionAndEnqueue(f, j)
    /\ UNCHANGED <<attention, nodeVars, goroutineVars, lockOwner, processVars, operatorVars>>

-----------------------------------------------------------------------------
(***************************************************************************)
(* The worker.                                                             *)
(***************************************************************************)
\* AttemptCount only matters up to MaxAttempts, so the count saturates there.
NextAttempt(j) == IF attemptCount[j] < MaxAttempts THEN attemptCount[j] + 1 ELSE MaxAttempts

ClaimNextJob(g, j) ==
    /\ up
    /\ pc[g] = "idle"
    /\ FirstClaimable(j)
    /\ jobStatus' = [jobStatus EXCEPT ![j] = "running"]
    /\ leasedBy' = [leasedBy EXCEPT ![j] = workerID]
    /\ leaseExpired' = [leaseExpired EXCEPT ![j] = FALSE]
    /\ attemptCount' = [attemptCount EXCEPT ![j] = NextAttempt(j)]
    /\ pc' = [pc EXCEPT ![g] = "claimed"]
    /\ gJob' = [gJob EXCEPT ![g] = j]
    /\ gAttempt' = [gAttempt EXCEPT ![g] = NextAttempt(j)]
    /\ UNCHANGED <<jobKind, jobExecution, available, before, executionVars, nodeVars,
                   gStatus, gAttention, gNode, gResult, lockOwner, processVars, operatorVars>>

\* The execution and the Connection of the job goroutine g works on.
ExecutionOf(g) == jobExecution[gJob[g]]
LockOf(g) == ConnectionOf[ExecutionOf(g)]

\* Mutant: the goroutine does not wait for the mutex.
LockConnectionUnguarded(g) ==
    /\ pc[g] = "claimed"
    /\ lockOwner' = [lockOwner EXCEPT ![LockOf(g)] = g]
    /\ pc' = [pc EXCEPT ![g] = "load"]
    /\ UNCHANGED <<jobVars, executionVars, nodeVars, gJob, gAttempt, gStatus, gAttention,
                   gNode, gResult, processVars, operatorVars>>

LockConnection(g) ==
    /\ pc[g] = "claimed"
    /\ lockOwner[LockOf(g)] = NoGoroutine
    /\ lockOwner' = [lockOwner EXCEPT ![LockOf(g)] = g]
    /\ pc' = [pc EXCEPT ![g] = "load"]
    /\ UNCHANGED <<jobVars, executionVars, nodeVars, gJob, gAttempt, gStatus, gAttention,
                   gNode, gResult, processVars, operatorVars>>

-----------------------------------------------------------------------------
(***************************************************************************)
(* ExecuteInWorkspace, one action per database write.                      *)
(***************************************************************************)
\* Mutants: a final execution is run again; a running one is taken for somebody else's.
LoadEndingAt(g, ends) ==
    /\ pc[g] = "load"
    /\ gStatus' = [gStatus EXCEPT ![g] = status[ExecutionOf(g)]]
    /\ gAttention' = [gAttention EXCEPT ![g] = attention[ExecutionOf(g)]]
    /\ pc' = [pc EXCEPT ![g] = IF status[ExecutionOf(g)] \in ends THEN "finalize" ELSE "start"]
    /\ UNCHANGED <<jobVars, executionVars, nodeVars, gJob, gAttempt, gNode, gResult, lockOwner,
                   processVars, operatorVars>>
LoadFinalAgain(g) == LoadEndingAt(g, {})
Load(g) ==
    /\ pc[g] = "load"
    /\ gStatus' = [gStatus EXCEPT ![g] = status[ExecutionOf(g)]]
    /\ gAttention' = [gAttention EXCEPT ![g] = attention[ExecutionOf(g)]]
    /\ pc' = [pc EXCEPT ![g] = IF status[ExecutionOf(g)] \in Final THEN "finalize" ELSE "start"]
    /\ UNCHANGED <<jobVars, executionVars, nodeVars, gJob, gAttempt, gNode, gResult, lockOwner,
                   processVars, operatorVars>>

Start(g) ==
    /\ pc[g] = "start"
    /\ IF gStatus[g] = "running"
       THEN UNCHANGED executionVars
       ELSE UpdateFlowExecution(ExecutionOf(g), "running", gAttention[g])
    /\ gStatus' = [gStatus EXCEPT ![g] = "running"]
    /\ pc' = [pc EXCEPT ![g] = "enter"]
    /\ UNCHANGED <<jobVars, nodeVars, gJob, gAttempt, gAttention, gNode, gResult, lockOwner,
                   processVars, operatorVars>>

\* The first node is the input connector, the last one the output connector.
IsConnector(n) == n \in {1, NodeCount}

\* Where the loop goes after node n.
AfterNode(n) == IF n = NodeCount THEN "settle" ELSE "enter"
FollowingNode(n) == IF n = NodeCount THEN n ELSE n + 1
ResultAfter(n) == IF n = NodeCount THEN "ok" ELSE "none"

CheckpointedNever(g) == FALSE

\* A connector that succeeded in an earlier attempt is a checkpoint.
Checkpointed(g) ==
    IsConnector(gNode[g]) /\ nodeStatus[ExecutionOf(g)][gNode[g]] = "succeeded"

\* The loop goes on from here: the node itself or, when the input's checkpoint has no value
\* left to propagate, the end, as no other node becomes active.
PropagatedFrom(g) == IF gNode[g] = 1 /\ ExecutionOf(g) \in purged THEN NodeCount ELSE gNode[g]

CreateNodeExecution(e, n) == nodeStatus' = [nodeStatus EXCEPT ![e][n] = "running"]

UpdateNodeExecution(e, n, s) == nodeStatus' = [nodeStatus EXCEPT ![e][n] = s]

\* The loop enters a node: it writes current_node_id, with the status it holds in memory,
\* and either passes the checkpoint or inserts the next attempt of the node.
EnterNode(g) ==
    /\ pc[g] = "enter"
    /\ UpdateFlowExecution(ExecutionOf(g), gStatus[g], gAttention[g])
    /\ IF Checkpointed(g)
       THEN /\ pc' = [pc EXCEPT ![g] = AfterNode(PropagatedFrom(g))]
            /\ gNode' = [gNode EXCEPT ![g] = FollowingNode(PropagatedFrom(g))]
            /\ gResult' = [gResult EXCEPT ![g] = ResultAfter(PropagatedFrom(g))]
            /\ UNCHANGED nodeStatus
       ELSE /\ pc' = [pc EXCEPT ![g] = "call"]
            /\ CreateNodeExecution(ExecutionOf(g), gNode[g])
            /\ UNCHANGED <<gNode, gResult>>
    /\ UNCHANGED <<purged, jobVars, gJob, gAttempt, gStatus, gAttention, lockOwner, processVars,
                   operatorVars>>

\* The retention sweep of Worker.Run clears the snapshots of expired rows and keeps their
\* status.  A run has read its checkpoints before it starts: to it, a sweep that comes
\* between is one that comes after it has passed them.
PurgeExpiredRuntimePayloads(e) ==
    /\ up /\ RetentionEnds
    /\ nodeStatus[e][1] = "succeeded" /\ e \notin purged
    /\ \A g \in Goroutines : pc[g] \in {"start", "enter"} => ExecutionOf(g) # e
    /\ purged' = purged \cup {e}
    /\ UNCHANGED <<jobVars, executionVars, nodeStatus, goroutineVars, lockOwner, processVars,
                   operatorVars>>

\* failExecution: event, FlowVersion, Connection, catalog or graph cannot be used, or the
\* insert of the node attempt fails.
failExecution(g) ==
    /\ \/ pc[g] = "start"
       \/ pc[g] = "enter" /\ StoreErrors /\ ~Checkpointed(g)
    /\ UpdateFlowExecution(ExecutionOf(g), "failed", gAttention[g])
    /\ gResult' = [gResult EXCEPT ![g] = "setup"]
    /\ pc' = [pc EXCEPT ![g] = "finalize"]
    /\ UNCHANGED <<jobVars, nodeVars, gJob, gAttempt, gStatus, gAttention, gNode, lockOwner,
                   processVars, operatorVars>>

\* executeNode returns.  Only a condition or terminal, which is no connector, skips; only a
\* connector calls a provider.
PossibleOutcomes(n) ==
    CASE n = NodeCount -> NodeOutcomes \ {"skip"}
      [] n = 1 -> {"ok", "permanent"}
      [] OTHER -> {"ok", "skip", "permanent"}

ExecuteNode(g, r) ==
    /\ pc[g] = "call"
    /\ r \in PossibleOutcomes(gNode[g])
    /\ gResult' = [gResult EXCEPT ![g] = r]
    /\ pc' = [pc EXCEPT ![g] = "record"]
    /\ UNCHANGED <<jobVars, executionVars, nodeVars, gJob, gAttempt, gStatus, gAttention, gNode,
                   lockOwner, processVars, operatorVars>>

\* The outcome of the node is recorded; the loop goes on after a success.
RecordNode(g) ==
    /\ pc[g] = "record"
    /\ UpdateNodeExecution(ExecutionOf(g), gNode[g], classifyNodeError(gResult[g]))
    /\ IF gResult[g] = "ok"
       THEN /\ pc' = [pc EXCEPT ![g] = AfterNode(gNode[g])]
            /\ gNode' = [gNode EXCEPT ![g] = FollowingNode(gNode[g])]
            /\ gResult' = [gResult EXCEPT ![g] = ResultAfter(gNode[g])]
       ELSE /\ pc' = [pc EXCEPT ![g] = "settle"]
            /\ UNCHANGED <<gNode, gResult>>
    /\ UNCHANGED <<purged, jobVars, executionVars, gJob, gAttempt, gStatus, gAttention, lockOwner,
                   processVars, operatorVars>>

\* The outcome of the run is written with the attention that was loaded.
SettleExecution(g) ==
    /\ pc[g] = "settle"
    /\ UpdateFlowExecution(ExecutionOf(g), ExecutionOutcome(gResult[g]), gAttention[g])
    /\ pc' = [pc EXCEPT ![g] = "finalize"]
    /\ UNCHANGED <<jobVars, nodeVars, gJob, gAttempt, gStatus, gAttention, gNode, gResult,
                   lockOwner, processVars, operatorVars>>

\* runJob returns: the mutex is unlocked and the semaphore slot is free.
Return(g) ==
    /\ pc' = [pc EXCEPT ![g] = "idle"]
    /\ gJob' = [gJob EXCEPT ![g] = 0]
    /\ gAttempt' = [gAttempt EXCEPT ![g] = 0]
    /\ gStatus' = [gStatus EXCEPT ![g] = "absent"]
    /\ gAttention' = [gAttention EXCEPT ![g] = "none"]
    /\ gNode' = [gNode EXCEPT ![g] = 1]
    /\ gResult' = [gResult EXCEPT ![g] = "none"]
    /\ lockOwner' = [lockOwner EXCEPT ![LockOf(g)] = NoGoroutine]
    /\ overrun' = {j \in overrun : \E h \in Goroutines \ {g} : pc[h] # "idle" /\ gJob[h] = j}

\* Mutant: automatic retries are not counted.
FinalizeJobRetryingForever(g) ==
    /\ pc[g] = "finalize"
    /\ IF ~LeasedHere(gJob[g]) THEN UNCHANGED jobVars
       ELSE IF NoError(gResult[g]) THEN CompleteJob(gJob[g])
       ELSE FailJob(gJob[g], isRetryableExecutionError(gResult[g]))
    /\ Return(g)
    /\ UNCHANGED <<executionVars, nodeVars, up, workerID, operatorVars>>

\* runJob ends the job: completed without an error, queued for a retry while attempts are
\* left, failed otherwise.  An error of the update (the lease has moved on) is ignored.
FinalizeJob(g) ==
    /\ pc[g] = "finalize"
    /\ IF ~LeasedHere(gJob[g]) THEN UNCHANGED jobVars
       ELSE IF NoError(gResult[g]) THEN CompleteJob(gJob[g])
       ELSE FailJob(gJob[g], isRetryableExecutionError(gResult[g]) /\ gAttempt[g] < MaxAttempts)
    /\ Return(g)
    /\ UNCHANGED <<executionVars, nodeVars, up, workerID, operatorVars>>

-----------------------------------------------------------------------------
(***************************************************************************)
(* A database call of the executor fails (StoreErrors).                    *)
(***************************************************************************)
\* Mutant: a checkpoint that cannot be written does not stop the run.
StoreCallIgnored(g) ==
    /\ StoreErrors
    /\ pc[g] = "record" /\ gResult[g] = "ok"
    /\ pc' = [pc EXCEPT ![g] = AfterNode(gNode[g])]
    /\ gNode' = [gNode EXCEPT ![g] = FollowingNode(gNode[g])]
    /\ gResult' = [gResult EXCEPT ![g] = ResultAfter(gNode[g])]
    /\ UNCHANGED <<jobVars, executionVars, nodeVars, gJob, gAttempt, gStatus, gAttention,
                   lockOwner, processVars, operatorVars>>

\* A read, a status write or a checkpoint write fails: the error is returned, and is none
\* that isRetryableExecutionError knows.  The write of a failed or skipped outcome is the
\* exception: its error is dropped and the node's own error is returned.
StoreCallFails(g) ==
    /\ StoreErrors
    /\ pc[g] \in {"load", "start", "enter", "record", "settle"}
    /\ pc' = [pc EXCEPT ![g] = "finalize"]
    /\ gResult' = [gResult EXCEPT ![g] =
                     IF pc[g] = "settle" /\ gResult[g] # "ok" THEN gResult[g] ELSE "storage"]
    /\ UNCHANGED <<jobVars, executionVars, nodeVars, gJob, gAttempt, gStatus, gAttention, gNode,
                   lockOwner, processVars, operatorVars>>

\* The error of CompleteJob or FailJob is dropped: the row stays leased.
FinalizeFails(g) ==
    /\ StoreErrors
    /\ pc[g] = "finalize"
    /\ Return(g)
    /\ UNCHANGED <<jobVars, executionVars, nodeVars, up, workerID, operatorVars>>

-----------------------------------------------------------------------------
(***************************************************************************)
(* The process.                                                            *)
(***************************************************************************)
\* The process ends: killed, told to stop, or stopped because ClaimNextJob returned an
\* error.  Goroutines, mutexes and requests in flight are gone; nothing is written.
Crash ==
    /\ up
    /\ workerID <= MaxCrashes
    /\ up' = FALSE
    /\ pc' = [g \in Goroutines |-> "idle"]
    /\ gJob' = [g \in Goroutines |-> 0]
    /\ gAttempt' = [g \in Goroutines |-> 0]
    /\ gStatus' = [g \in Goroutines |-> "absent"]
    /\ gAttention' = [g \in Goroutines |-> "none"]
    /\ gNode' = [g \in Goroutines |-> 1]
    /\ gResult' = [g \in Goroutines |-> "none"]
    /\ lockOwner' = [c \in Connections |-> NoGoroutine]
    /\ overrun' = {}
    /\ opPc' = [o \in Operators |-> "idle"]
    /\ opExecution' = [o \in Operators |-> NoExecution]
    /\ opStatus' = [o \in Operators |-> "absent"]
    /\ UNCHANGED <<jobVars, executionVars, nodeVars, workerID>>

\* Every process draws a new worker ID.
Restart ==
    /\ ~up
    /\ up' = TRUE
    /\ workerID' = workerID + 1
    /\ UNCHANGED <<overrun, jobVars, executionVars, nodeVars, goroutineVars, lockOwner, operatorVars>>

-----------------------------------------------------------------------------
(***************************************************************************)
(* Operator requests read the execution, decide, and then write.           *)
(***************************************************************************)
\* Mutant: the handlers do not look at the status.
MayRequestAlways(kind, s) == kind \in {"retry", "repair", "attention"} /\ s # "absent"

MayRequest(kind, s) ==
    CASE kind = "retry" -> s \in Actionable
      [] kind = "repair" -> s \in Actionable \ {"failed"}
      [] kind = "attention" -> s \in Actionable
      [] OTHER -> FALSE

ReadExecution(o, kind, e) ==
    /\ up
    /\ opPc[o] = "idle"
    /\ kind \in OperatorActions
    /\ MayRequest(kind, status[e])
    /\ opPc' = [opPc EXCEPT ![o] = kind]
    /\ opExecution' = [opExecution EXCEPT ![o] = e]
    /\ opStatus' = [opStatus EXCEPT ![o] = status[e]]
    /\ UNCHANGED <<jobVars, executionVars, nodeVars, goroutineVars, lockOwner, processVars>>

EndRequest(o) ==
    /\ opPc' = [opPc EXCEPT ![o] = "idle"]
    /\ opExecution' = [opExecution EXCEPT ![o] = NoExecution]
    /\ opStatus' = [opStatus EXCEPT ![o] = "absent"]

\* Mutant: the status and the job are not written in one transaction, and the second is lost.
RequeueWithoutJob(o, j) ==
    /\ opPc[o] \in {"retry", "repair"}
    /\ status[opExecution[o]] \in Actionable
    /\ status' = [status EXCEPT ![opExecution[o]] = "queued"]
    /\ attention' = [attention EXCEPT ![opExecution[o]] = "none"]
    /\ EndRequest(o)
    /\ UNCHANGED <<jobVars, nodeVars, goroutineVars, lockOwner, processVars>>

\* Mutant: the transaction trusts the status the handler has read.
RequeueUnchecked(o, j) ==
    /\ opPc[o] \in {"retry", "repair"}
    /\ status' = [status EXCEPT ![opExecution[o]] = "queued"]
    /\ attention' = [attention EXCEPT ![opExecution[o]] = "none"]
    /\ insertJob(j, opExecution[o], IF opPc[o] = "retry" THEN "flow.retry" ELSE "flow.repair")
    /\ EndRequest(o)
    /\ UNCHANGED <<nodeVars, goroutineVars, lockOwner, processVars>>

\* retryExecution and repairExecution: the transaction re-checks the status it replaces.
RequeueFlowExecution(o, j) ==
    /\ opPc[o] \in {"retry", "repair"}
    /\ status[opExecution[o]] \in Actionable
    /\ status' = [status EXCEPT ![opExecution[o]] = "queued"]
    /\ attention' = [attention EXCEPT ![opExecution[o]] = "none"]
    /\ insertJob(j, opExecution[o], IF opPc[o] = "retry" THEN "flow.retry" ELSE "flow.repair")
    /\ EndRequest(o)
    /\ UNCHANGED <<nodeVars, goroutineVars, lockOwner, processVars>>

RequeueConflict(o) ==
    /\ opPc[o] \in {"retry", "repair"}
    /\ status[opExecution[o]] \notin Actionable
    /\ EndRequest(o)
    /\ UNCHANGED <<jobVars, executionVars, nodeVars, goroutineVars, lockOwner, processVars>>

\* updateExecutionAttention: the row is written back as it was read, with attention a.
updateExecutionAttention(o, a) ==
    /\ opPc[o] = "attention"
    /\ UpdateFlowExecution(opExecution[o], opStatus[o], a)
    /\ EndRequest(o)
    /\ UNCHANGED <<jobVars, nodeVars, goroutineVars, lockOwner, processVars>>

-----------------------------------------------------------------------------
RunStep(g) ==
    \/ Load(g) \/ failExecution(g) \/ Start(g) \/ EnterNode(g)
    \/ \E r \in NodeOutcomes : ExecuteNode(g, r)
    \/ RecordNode(g) \/ SettleExecution(g) \/ FinalizeJob(g)

Claim(g) == \E j \in Jobs : ClaimNextJob(g, j)

Operator(o) ==
    \/ \E kind \in OperatorActions, e \in Executions : ReadExecution(o, kind, e)
    \/ \E j \in Jobs : RequeueFlowExecution(o, j)
    \/ RequeueConflict(o)
    \/ \E a \in {"open", "acknowledged"} : updateExecutionAttention(o, a)

Next ==
    \/ \E e \in Executions, j \in Jobs : AcceptInboundEvent(e, j)
    \/ \E e, f \in Executions, j \in Jobs : replayExecution(e, f, j)
    \/ \E j \in Jobs : BackoffElapses(j) \/ LeaseExpires(j)
    \/ \E e \in Executions : PurgeExpiredRuntimePayloads(e)
    \/ \E g \in Goroutines : Claim(g) \/ LockConnection(g) \/ RunStep(g)
    \/ \E g \in Goroutines : StoreCallFails(g) \/ FinalizeFails(g)
    \/ Crash \/ Restart
    \/ \E o \in Operators : Operator(o)

Spec == Init /\ [][Next]_vars

(***************************************************************************)
(* Fairness.  The poll loop ticks, goroutines run and every provider call  *)
(* has a timeout; sync.Mutex hands a contended lock to its longest waiter; *)
(* clocks advance; the supervisor restarts the process.  Deliveries,       *)
(* crashes and operators are not fair.                                     *)
(***************************************************************************)
Fairness ==
    /\ WF_vars(\E g \in Goroutines : Claim(g))
    /\ \A g \in Goroutines : SF_vars(LockConnection(g)) /\ WF_vars(RunStep(g))
    /\ \A j \in Jobs : WF_vars(BackoffElapses(j)) /\ WF_vars(LeaseExpires(j))
    /\ WF_vars(Restart)

FairSpec == Spec /\ Fairness
-----------------------------------------------------------------------------
(***************************************************************************)
(* Safety.                                                                 *)
(***************************************************************************)
GoroutinePc == {"idle", "claimed", "load", "start", "enter", "call", "record", "settle", "finalize"}

JobTypes ==
    /\ jobStatus \in [Jobs -> JobStatus]
    /\ jobKind \in [Jobs -> JobKind]
    /\ jobExecution \in [Jobs -> Executions \cup {NoExecution}]
    /\ leasedBy \in [Jobs -> 0 .. (MaxCrashes + 1)]
    /\ leaseExpired \in [Jobs -> BOOLEAN]
    /\ available \in [Jobs -> BOOLEAN]
    /\ attemptCount \in [Jobs -> 0 .. MaxAttempts]
    /\ before \subseteq Jobs \X Jobs

ExecutionTypes ==
    /\ status \in [Executions -> ExecutionStatus]
    /\ attention \in [Executions -> AttentionStatus]
    /\ nodeStatus \in [Executions -> [Nodes -> NodeStatus]]
    /\ purged \subseteq Executions

GoroutineTypes ==
    /\ pc \in [Goroutines -> GoroutinePc]
    /\ gJob \in [Goroutines -> 0 .. MaxJobs]
    /\ gAttempt \in [Goroutines -> 0 .. MaxAttempts]
    /\ gStatus \in [Goroutines -> ExecutionStatus]
    /\ gAttention \in [Goroutines -> AttentionStatus]
    /\ gNode \in [Goroutines -> Nodes]
    /\ gResult \in [Goroutines -> Outcomes]
    /\ lockOwner \in [Connections -> Goroutines \cup {NoGoroutine}]
    /\ up \in BOOLEAN
    /\ workerID \in 1 .. (MaxCrashes + 1)
    /\ overrun \subseteq Jobs

OperatorTypes ==
    /\ opPc \in [Operators -> {"idle", "retry", "repair", "attention"}]
    /\ opExecution \in [Operators -> Executions \cup {NoExecution}]
    /\ opStatus \in [Operators -> ExecutionStatus]

\* The types of the columns, of the goroutines' locals and of the requests in flight.
TypeOK == JobTypes /\ ExecutionTypes /\ GoroutineTypes /\ OperatorTypes

\* Goroutine g is inside ExecuteInWorkspace, or about to settle its job.
InExecutor(g) == pc[g] \notin {"idle", "claimed"}

\* Two goroutines never execute Flows of one Connection at the same time, even when a lease
\* expires under one of them and the process claims the same job again (Worker.runJob).
SerialPerConnection ==
    \A g, h \in Goroutines :
        g # h /\ InExecutor(g) /\ InExecutor(h) => LockOf(g) # LockOf(h)

LiveJob(j) == jobStatus[j] \in {"queued", "running"}

\* "A queued execution without a job is not recoverable by the worker": as long as an
\* execution is queued or running, some row of the jobs table will bring a worker back to it,
\* whatever crashes (CreateFlowExecutionAndEnqueue, RequeueFlowExecution, FailJob).
NoStrandedExecution ==
    \A e \in Executions :
        status[e] \in {"queued", "running"} => \E j \in Jobs : jobExecution[j] = e /\ LiveJob(j)

\* Leases are never renewed, and leased_by names the process, not the run: the late end of a
\* run that outlived its lease settles whatever claim the row has by then.  That stays with
\* its own job: a goroutine at work on any other job holds the lease of its row, alone, so
\* that CompleteJob and FailJob act on no other run's claim, and the job is free of it again
\* when its last run has returned.
LeaseProtectsRun ==
    \A g \in Goroutines :
        pc[g] # "idle" /\ gJob[g] \notin overrun =>
            /\ jobStatus[gJob[g]] = "running" /\ LeasedHere(gJob[g])
            /\ \A h \in Goroutines \ {g} : pc[h] = "idle" \/ gJob[h] # gJob[g]

\* An execution is reported as succeeded only when the checkpoint of its input and of its
\* output connector says so, through all retries, repairs and restarts (ExecuteInWorkspace).
SuccessIsCheckpointed ==
    \A e \in Executions :
        status[e] = "succeeded" => \A n \in Nodes : IsConnector(n) => nodeStatus[e][n] = "succeeded"

\* Attention is kept beside actionable outcomes and nowhere else, whoever writes the row.
AttentionMatchesStatus ==
    \A e \in Executions : status[e] \in Actionable <=> attention[e] # "none"

(***************************************************************************)
(* What a step never does.                                                 *)
(***************************************************************************)
\* The output of a connector that succeeded is the checkpoint: no later attempt, of this or
\* of another job of the execution, calls the provider again (ExecuteInWorkspace).
CheckpointIsKept ==
    [][\A e \in Executions, n \in Nodes :
         IsConnector(n) /\ nodeStatus[e][n] = "succeeded" => nodeStatus'[e][n] = "succeeded"]_nodeStatus

\* A succeeded or skipped execution keeps that outcome: stale jobs, stale copies in
\* goroutines and concurrent retries cannot reopen it (UpdateFlowExecution).
OutcomeIsFinal ==
    [][\A e \in Executions : status[e] \in Final => status'[e] = status[e]]_status

\* "Acknowledging a failed execution ... never changes the execution outcome"
\* (domain.ExecutionAttentionStatus): updateExecutionAttention leaves a final outcome alone.
\* It does not hold: the request writes back the status it has read.
AcknowledgementKeepsOutcome ==
    [][\A o \in Operators :
         /\ opPc[o] = "attention" /\ opPc'[o] = "idle" /\ up'
         /\ status[opExecution[o]] \in Final
         => status' = status]_vars

\* "The per-Connection mutex keeps related work ordered": of two claimed jobs of one
\* Connection, the one that became available first enters the executor first (Worker.runJob).
\* It does not hold: the goroutines compete for the mutex.
ConnectionWorkIsOrdered ==
    [][\A g, h \in Goroutines :
         /\ pc[g] = "claimed" /\ pc'[g] = "load"
         /\ pc[h] = "claimed" /\ h # g /\ LockOf(g) = LockOf(h)
         => <<gJob[h], gJob[g]>> \notin before]_vars

(***************************************************************************)
(* What the queue promises: the ExecutionLedger, with an execution pending *)
(* as long as some job row is live.                                        *)
(***************************************************************************)
Pending == {e \in Executions : \E j \in Jobs : jobExecution[j] = e /\ LiveJob(j)}

Ledger == INSTANCE ExecutionLedger WITH pending <- Pending

\* The queue, the workers and the operators' retries implement the ledger: an outcome is
\* written only while work is pending, work is dropped only when an outcome is recorded, and
\* a final outcome is never touched again, whatever crashes (runJob, ExecuteInWorkspace).
ImplementsLedger == Ledger!Spec

(***************************************************************************)
(* Liveness, under FairSpec.                                               *)
(***************************************************************************)
\* Every accepted, replayed or requeued execution gets an outcome, across crashes.
ExecutionSettles ==
    \A e \in Executions :
        status[e] \in {"queued", "running"} ~> status[e] \in Final \cup Actionable

\* Every job ends: automatic retries are bounded and no lease is lost for ever.
JobsEnd == \A j \in Jobs : LiveJob(j) ~> ~LiveJob(j)
=============================================================================
