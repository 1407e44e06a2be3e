------------------------- MODULE FlowRuntimeProofs -------------------------
(***************************************************************************)
(* Theorems about FlowRuntime, for every number of executions, jobs,       *)
(* goroutines, operators, nodes, attempts and crashes.                     *)
(***************************************************************************)
EXTENDS FlowRuntime, TLAPS

(***************************************************************************)
(* Rows and requests refer to rows that exist, and a process that is down  *)
(* has crashed within the bound.                                           *)
(***************************************************************************)
Linked ==
    /\ \A j \in Jobs : jobStatus[j] # "absent" => jobExecution[j] \in Executions
    /\ \A g \in Goroutines : pc[g] # "idle" => gJob[g] \in Jobs /\ jobStatus[gJob[g]] # "absent"
    /\ \A o \in Operators : opPc[o] # "idle" => opExecution[o] \in Executions
    /\ ~up => workerID <= MaxCrashes

TypeInv == TypeOK /\ Linked

USE DEF nodeVars

\* Empty tables and idle goroutines are well typed.
LEMMA TypeInvInit == Init => TypeInv
  BY ConstantsAssumption
  DEF Init, TypeInv, TypeOK, JobTypes, ExecutionTypes, GoroutineTypes, OperatorTypes, Linked,
      Jobs, Nodes, JobStatus, JobKind, ExecutionStatus, AttentionStatus, NodeStatus, Outcomes,
      GoroutinePc

\* The job, the execution and the mutex of a busy goroutine exist.
LEMMA BusyGoroutine ==
  ASSUME TypeInv, NEW g \in Goroutines, pc[g] # "idle"
  PROVE  /\ gJob[g] \in Jobs
         /\ ExecutionOf(g) \in Executions
         /\ LockOf(g) \in Connections
  BY ConstantsAssumption DEF TypeInv, TypeOK, JobTypes, Linked, ExecutionOf, LockOf

\* An inserted row is well typed and leaves the other rows alone.
LEMMA InsertedJob ==
  ASSUME TypeInv, NEW e \in Executions, NEW j \in Jobs, NEW kind \in JobKind,
         insertJob(j, e, kind)
  PROVE  /\ JobTypes'
         /\ jobStatus[j] = "absent"
         /\ jobStatus'[j] = "queued"
         /\ jobExecution'[j] = e
         /\ \A i \in Jobs : i # j => jobStatus'[i] = jobStatus[i] /\ jobExecution'[i] = jobExecution[i]
  <1>1. before' \subseteq Jobs \X Jobs
      BY DEF insertJob, Last, TypeInv, TypeOK, JobTypes
  <1>2. QED
      BY <1>1 DEF insertJob, NextJob, TypeInv, TypeOK, JobTypes, JobStatus

\* Every action keeps the types and the references between the tables (TypeInv).
LEMMA TypeInvStep == TypeInv /\ [Next]_vars => TypeInv'
  <1> SUFFICES ASSUME TypeInv, [Next]_vars PROVE TypeInv'
      OBVIOUS
  <1> USE ConstantsAssumption DEF TypeInv
  <1>1. ASSUME NEW e \in Executions, NEW j \in Jobs, AcceptInboundEvent(e, j) PROVE TypeInv'
    <2>1. insertJob(j, e, "flow.execute") /\ "flow.execute" \in JobKind
        BY <1>1 DEF AcceptInboundEvent, JobKind
    <2>2. ExecutionTypes'
        BY <1>1 DEF AcceptInboundEvent, TypeOK, ExecutionTypes, ExecutionStatus
    <2>3. UNCHANGED <<goroutineVars, lockOwner, processVars, operatorVars>>
        BY <1>1 DEF AcceptInboundEvent
    <2>4. QED
        BY <2>1, <2>2, <2>3, InsertedJob
        DEF TypeOK, GoroutineTypes, OperatorTypes, Linked, goroutineVars, processVars, operatorVars
  <1>2. ASSUME NEW e \in Executions, NEW f \in Executions, NEW j \in Jobs, replayExecution(e, f, j)
        PROVE  TypeInv'
    <2>1. insertJob(j, f, "flow.execute") /\ "flow.execute" \in JobKind
        BY <1>2 DEF replayExecution, CreateFlowExecutionAndEnqueue, JobKind
    <2>2. ExecutionTypes'
        BY <1>2 DEF replayExecution, CreateFlowExecutionAndEnqueue, TypeOK, ExecutionTypes, ExecutionStatus
    <2>3. UNCHANGED <<goroutineVars, lockOwner, processVars, operatorVars>>
        BY <1>2 DEF replayExecution, CreateFlowExecutionAndEnqueue
    <2>4. QED
        BY <2>1, <2>2, <2>3, InsertedJob
        DEF TypeOK, GoroutineTypes, OperatorTypes, Linked, goroutineVars, processVars, operatorVars
  <1>3. ASSUME NEW j \in Jobs, BackoffElapses(j) PROVE TypeInv'
      BY <1>3 DEF BackoffElapses, Last, TypeOK, JobTypes, ExecutionTypes, GoroutineTypes,
         OperatorTypes, Linked, goroutineVars, processVars, operatorVars, executionVars
  <1>4. ASSUME NEW j \in Jobs, LeaseExpires(j) PROVE TypeInv'
      BY <1>4 DEF LeaseExpires, TypeOK, JobTypes, ExecutionTypes, GoroutineTypes,
         OperatorTypes, Linked, goroutineVars, processVars, operatorVars, executionVars
  <1>4a. ASSUME NEW e \in Executions, PurgeExpiredRuntimePayloads(e) PROVE TypeInv'
      BY <1>4a DEF PurgeExpiredRuntimePayloads, TypeOK, JobTypes, ExecutionTypes, GoroutineTypes,
         OperatorTypes, Linked, jobVars, goroutineVars, processVars, operatorVars, executionVars
  <1>5. ASSUME NEW g \in Goroutines, NEW j \in Jobs, ClaimNextJob(g, j) PROVE TypeInv'
    <2>1. NextAttempt(j) \in 0 .. MaxAttempts
        BY DEF NextAttempt, TypeOK, JobTypes
    <2>2. jobStatus[j] # "absent"
        BY <1>5 DEF ClaimNextJob, FirstClaimable, Claimable
    <2>3. JobTypes'
        BY <1>5, <2>1 DEF ClaimNextJob, TypeOK, JobTypes, GoroutineTypes, JobStatus
    <2>4. GoroutineTypes'
        BY <1>5, <2>1 DEF ClaimNextJob, TypeOK, GoroutineTypes, GoroutinePc, processVars, Jobs
    <2>5. Linked'
        BY <1>5, <2>2 DEF ClaimNextJob, TypeOK, JobTypes, GoroutineTypes, Linked, processVars, operatorVars
    <2>6. QED
        BY <1>5, <2>3, <2>4, <2>5 DEF ClaimNextJob, TypeOK, ExecutionTypes, OperatorTypes,
           executionVars, operatorVars
  <1>6. ASSUME NEW g \in Goroutines, LockConnection(g) PROVE TypeInv'
      BY <1>6, BusyGoroutine DEF LockConnection, TypeOK, JobTypes, ExecutionTypes, GoroutineTypes,
         OperatorTypes, Linked, GoroutinePc, jobVars, processVars, operatorVars, executionVars
  <1>7. ASSUME NEW g \in Goroutines, RunStep(g) \/ StoreCallFails(g) \/ FinalizeFails(g)
        PROVE  TypeInv'
    <2> USE DEF jobVars, executionVars, processVars, operatorVars, GoroutinePc
    <2>0. ASSUME pc[g] # "idle"
          PROVE  ExecutionOf(g) \in Executions /\ gJob[g] \in Jobs
        BY <2>0, BusyGoroutine
    <2>1. ASSUME NEW e \in Executions, NEW s \in ExecutionStatus, NEW a,
                 UpdateFlowExecution(e, s, a), UNCHANGED nodeVars
          PROVE  ExecutionTypes'
        BY <2>1 DEF UpdateFlowExecution, normalizeExecutionAttention, TypeOK, ExecutionTypes,
           AttentionStatus
    <2>2. ASSUME Return(g), UNCHANGED <<up, workerID>>
          PROVE  GoroutineTypes'
      <3>1. 1 \in Nodes /\ 0 \in 0 .. MaxJobs /\ 0 \in 0 .. MaxAttempts
          BY DEF Nodes
      <3>2. "absent" \in ExecutionStatus /\ "none" \in AttentionStatus /\ "none" \in Outcomes
          BY DEF ExecutionStatus, AttentionStatus, Outcomes
      <3>3. QED
          BY <2>2, <3>1, <3>2 DEF Return, TypeOK, GoroutineTypes
    <2>3. CASE Load(g)
        BY <2>0, <2>3 DEF Load, TypeOK, JobTypes, ExecutionTypes, GoroutineTypes, OperatorTypes, Linked
    <2>4. CASE failExecution(g)
      <3>1. ExecutionTypes'
          BY <2>0, <2>1, <2>4 DEF failExecution, ExecutionStatus, Actionable
      <3>2. QED
          BY <2>4, <3>1 DEF failExecution, TypeOK, JobTypes, GoroutineTypes, OperatorTypes, Linked, Outcomes
    <2>5. CASE Start(g)
      <3>1. ExecutionTypes'
          BY <2>0, <2>1, <2>5 DEF Start, ExecutionStatus, TypeOK, ExecutionTypes
      <3>2. QED
          BY <2>5, <3>1 DEF Start, TypeOK, JobTypes, GoroutineTypes, OperatorTypes, Linked, ExecutionStatus
    <2>6. CASE EnterNode(g)
      <3>1. gNode[g] \in Nodes /\ gStatus[g] \in ExecutionStatus
          BY DEF TypeOK, GoroutineTypes
      <3>2. status' \in [Executions -> ExecutionStatus] /\ attention' \in [Executions -> AttentionStatus]
          BY <2>6, <3>1 DEF EnterNode, UpdateFlowExecution, normalizeExecutionAttention, TypeOK,
             ExecutionTypes, AttentionStatus
      <3>3. nodeStatus' \in [Executions -> [Nodes -> NodeStatus]]
        <4>1. nodeStatus \in [Executions -> [Nodes -> NodeStatus]] /\ "running" \in NodeStatus
            BY DEF TypeOK, ExecutionTypes, NodeStatus
        <4>2. \/ UNCHANGED nodeStatus
              \/ nodeStatus' = [nodeStatus EXCEPT ![ExecutionOf(g)][gNode[g]] = "running"]
            BY <2>6 DEF EnterNode, CreateNodeExecution
        <4>3. nodeStatus[ExecutionOf(g)] \in [Nodes -> NodeStatus]
            BY <2>0, <2>6, <4>1 DEF EnterNode
        <4>4. QED
            BY <4>1, <4>2, <4>3
      <3>4. FollowingNode(PropagatedFrom(g)) \in Nodes /\ ResultAfter(PropagatedFrom(g)) \in Outcomes
            /\ AfterNode(PropagatedFrom(g)) \in GoroutinePc \ {"idle"}
          BY <3>1 DEF PropagatedFrom, FollowingNode, ResultAfter, AfterNode, Nodes, Outcomes, NodeOutcomes
      <3>5. QED
        <4>1. GoroutineTypes'
            BY <2>6, <3>4 DEF EnterNode, CreateNodeExecution, TypeOK, GoroutineTypes
        <4>2. JobTypes' /\ OperatorTypes' /\ ExecutionTypes'
            BY <2>6, <3>2, <3>3 DEF EnterNode, CreateNodeExecution, TypeOK, JobTypes, OperatorTypes, ExecutionTypes
        <4>3. Linked'
            BY <2>6 DEF EnterNode, CreateNodeExecution, TypeOK, GoroutineTypes, Linked
        <4>4. QED
            BY <4>1, <4>2, <4>3 DEF TypeOK
    <2>7. ASSUME NEW r \in NodeOutcomes, ExecuteNode(g, r) PROVE TypeInv'
        BY <2>7 DEF ExecuteNode, TypeOK, JobTypes, ExecutionTypes, GoroutineTypes, OperatorTypes,
           Linked, Outcomes
    <2>8. CASE RecordNode(g)
      <3>1. gNode[g] \in Nodes
          BY DEF TypeOK, GoroutineTypes
      <3>2. classifyNodeError(gResult[g]) \in NodeStatus
          BY DEF classifyNodeError, NodeStatus
      <3>3. nodeStatus' \in [Executions -> [Nodes -> NodeStatus]]
          BY <2>8, <3>2 DEF RecordNode, UpdateNodeExecution, TypeOK, ExecutionTypes
      <3>4. FollowingNode(gNode[g]) \in Nodes /\ ResultAfter(gNode[g]) \in Outcomes
            /\ AfterNode(gNode[g]) \in GoroutinePc \ {"idle"}
          BY <3>1 DEF FollowingNode, ResultAfter, AfterNode, Nodes, Outcomes, NodeOutcomes
      <3>5. QED
        <4>1. GoroutineTypes'
            BY <2>8, <3>4 DEF RecordNode, UpdateNodeExecution, TypeOK, GoroutineTypes
        <4>2. JobTypes' /\ OperatorTypes' /\ ExecutionTypes'
            BY <2>8, <3>3 DEF RecordNode, UpdateNodeExecution, TypeOK, JobTypes, OperatorTypes, ExecutionTypes
        <4>3. Linked'
            BY <2>8 DEF RecordNode, UpdateNodeExecution, TypeOK, GoroutineTypes, Linked
        <4>4. QED
            BY <4>1, <4>2, <4>3 DEF TypeOK
    <2>9. CASE SettleExecution(g)
      <3>1. ExecutionOutcome(gResult[g]) \in ExecutionStatus
          BY DEF ExecutionOutcome, classifyNodeError, ExecutionStatus, Actionable, Final
      <3>2. ExecutionTypes'
          BY <2>0, <2>1, <2>9, <3>1 DEF SettleExecution
      <3>3. QED
          BY <2>9, <3>2 DEF SettleExecution, TypeOK, JobTypes, GoroutineTypes, OperatorTypes, Linked
    <2>10. CASE FinalizeJob(g)
      <3>1. gJob[g] \in Jobs /\ GoroutineTypes'
          BY <2>0, <2>2, <2>10 DEF FinalizeJob
      <3>2. /\ JobTypes' /\ UNCHANGED jobExecution
            /\ \A j \in Jobs : jobStatus[j] # "absent" => jobStatus'[j] # "absent"
            /\ \A j \in Jobs : jobStatus'[j] # "absent" => jobStatus[j] # "absent" \/ j = gJob[g]
        <4>1. ASSUME NEW j \in Jobs, NEW s \in JobStatus \ {"absent"}, ReleaseJob(j, s)
              PROVE  /\ JobTypes' /\ UNCHANGED jobExecution
                     /\ \A i \in Jobs : i # j => jobStatus'[i] = jobStatus[i]
                     /\ jobStatus'[j] # "absent"
          <5>1. before' \subseteq Jobs \X Jobs
              BY <4>1 DEF ReleaseJob, Without, TypeOK, JobTypes
          <5>2. QED
              BY <4>1, <5>1 DEF ReleaseJob, TypeOK, JobTypes
        <4>2. \/ UNCHANGED jobVars
              \/ \E s \in JobStatus \ {"absent"} : ReleaseJob(gJob[g], s)
            BY <2>10 DEF FinalizeJob, CompleteJob, FailJob, JobStatus
        <4>3. QED
            BY <3>1, <4>1, <4>2 DEF TypeOK, JobTypes
      <3>3. QED
          BY <2>0, <2>10, <3>1, <3>2 DEF FinalizeJob, Return, TypeOK, JobTypes, ExecutionTypes,
             GoroutineTypes, OperatorTypes, Linked
    <2>11. CASE StoreCallFails(g)
        BY <2>11 DEF StoreCallFails, TypeOK, JobTypes, ExecutionTypes, GoroutineTypes, OperatorTypes,
           Linked, Outcomes
    <2>12. CASE FinalizeFails(g)
      <3>1. GoroutineTypes'
          BY <2>2, <2>12 DEF FinalizeFails
      <3>2. QED
          BY <2>12, <3>1 DEF FinalizeFails, Return, TypeOK, JobTypes, ExecutionTypes, GoroutineTypes,
             OperatorTypes, Linked
    <2>13. QED
        BY <1>7, <2>3, <2>4, <2>5, <2>6, <2>7, <2>8, <2>9, <2>10, <2>11, <2>12 DEF RunStep
  <1>8. CASE Crash
    <2>1. JobTypes' /\ ExecutionTypes'
        BY <1>8 DEF Crash, TypeOK, JobTypes, ExecutionTypes, jobVars, executionVars
    <2>2. 1 \in Nodes /\ "none" \in Outcomes /\ "idle" \in GoroutinePc
          /\ "absent" \in ExecutionStatus /\ "none" \in AttentionStatus
        BY DEF Nodes, Outcomes, GoroutinePc, ExecutionStatus, AttentionStatus
    <2>3. GoroutineTypes' /\ OperatorTypes'
      <3>1. 0 \in 0 .. MaxJobs /\ 0 \in 0 .. MaxAttempts /\ workerID' \in 1 .. (MaxCrashes + 1)
          BY <1>8 DEF Crash, TypeOK, GoroutineTypes
      <3>2. QED
          BY <1>8, <2>2, <3>1 DEF Crash, GoroutineTypes, OperatorTypes
    <2>4. Linked'
        BY <1>8 DEF Crash, TypeOK, GoroutineTypes, OperatorTypes, Linked, jobVars
    <2>5. QED
        BY <2>1, <2>3, <2>4 DEF TypeOK
  <1>9. CASE Restart
      BY <1>9 DEF Restart, TypeOK, JobTypes, ExecutionTypes, GoroutineTypes, OperatorTypes, Linked,
         jobVars, executionVars, goroutineVars, operatorVars
  <1>10. ASSUME NEW o \in Operators, Operator(o) PROVE TypeInv'
    <2> USE DEF jobVars, executionVars, goroutineVars, processVars
    <2>1. ASSUME NEW kind \in OperatorActions, NEW e \in Executions, ReadExecution(o, kind, e)
          PROVE  TypeInv'
      <3>1. kind \in {"retry", "repair", "attention"}
          BY <2>1 DEF ReadExecution, MayRequest
      <3>2. QED
          BY <2>1, <3>1 DEF ReadExecution, TypeOK, JobTypes, ExecutionTypes, GoroutineTypes,
             OperatorTypes, Linked
    <2>2. ASSUME EndRequest(o) PROVE OperatorTypes' /\ opPc'[o] = "idle"
        BY <2>2 DEF EndRequest, TypeOK, OperatorTypes, ExecutionStatus
    <2>3. ASSUME opPc[o] # "idle" PROVE opExecution[o] \in Executions
        BY <2>3 DEF Linked
    <2>4. ASSUME NEW j \in Jobs, RequeueFlowExecution(o, j) PROVE TypeInv'
      <3> DEFINE kind == IF opPc[o] = "retry" THEN "flow.retry" ELSE "flow.repair"
      <3>1. insertJob(j, opExecution[o], kind) /\ kind \in JobKind /\ opExecution[o] \in Executions
          BY <2>3, <2>4 DEF RequeueFlowExecution, JobKind
      <3>2. ExecutionTypes'
          BY <2>4 DEF RequeueFlowExecution, TypeOK, ExecutionTypes, ExecutionStatus, AttentionStatus
      <3>3. OperatorTypes' /\ UNCHANGED <<goroutineVars, lockOwner, processVars>>
          BY <2>2, <2>4 DEF RequeueFlowExecution
      <3>4. \A p \in Operators : opPc'[p] # "idle" => opExecution'[p] \in Executions
          BY <2>4 DEF RequeueFlowExecution, EndRequest, TypeOK, OperatorTypes, Linked
      <3> HIDE DEF kind
      <3>5. QED
          BY <3>1, <3>2, <3>3, <3>4, InsertedJob DEF TypeOK, GoroutineTypes, Linked
    <2>5. CASE RequeueConflict(o)
        BY <2>2, <2>5 DEF RequeueConflict, EndRequest, TypeOK, JobTypes, ExecutionTypes, GoroutineTypes,
           OperatorTypes, Linked
    <2>6. ASSUME NEW a \in {"open", "acknowledged"}, updateExecutionAttention(o, a) PROVE TypeInv'
      <3>1. OperatorTypes' /\ ExecutionTypes'
          BY <2>2, <2>6 DEF updateExecutionAttention, UpdateFlowExecution, normalizeExecutionAttention,
             TypeOK, ExecutionTypes, OperatorTypes, AttentionStatus
      <3>2. QED
          BY <2>6, <3>1 DEF updateExecutionAttention, EndRequest, TypeOK, JobTypes, GoroutineTypes,
             OperatorTypes, Linked
    <2>7. QED
        BY <1>10, <2>1, <2>4, <2>5, <2>6 DEF Operator
  <1>11. CASE UNCHANGED vars
      BY <1>11 DEF TypeOK, JobTypes, ExecutionTypes, GoroutineTypes, OperatorTypes, Linked, vars,
         jobVars, executionVars, goroutineVars, processVars, operatorVars
  <1>12. QED
      BY <1>1, <1>2, <1>3, <1>4, <1>5, <1>6, <1>7, <1>8, <1>9, <1>10, <1>11, <1>4a DEF Next, Claim

\* Every table, local and request keeps its type, whatever crashes and races (TypeOK).
THEOREM TypeCorrect == Spec => []TypeOK
  <1>1. TypeInv => TypeOK
      BY DEF TypeInv
  <1>2. QED
      BY TypeInvInit, TypeInvStep, <1>1, PTL DEF Spec

-----------------------------------------------------------------------------
(***************************************************************************)
(* Mutual exclusion per Connection.                                        *)
(***************************************************************************)
\* Rows are never deleted and never change their execution.
LEMMA RowsStay ==
  ASSUME TypeInv, [Next]_vars, NEW j \in Jobs, jobStatus[j] # "absent"
  PROVE  jobStatus'[j] # "absent" /\ jobExecution'[j] = jobExecution[j]
  <1> USE DEF TypeInv, TypeOK, JobTypes, jobVars
  <1>1. ASSUME NEW e, NEW i \in Jobs, NEW kind, insertJob(i, e, kind)
        PROVE  jobStatus'[j] # "absent" /\ jobExecution'[j] = jobExecution[j]
      BY <1>1 DEF insertJob, NextJob
  <1>2. ASSUME NEW g \in Goroutines, FinalizeJob(g)
        PROVE  jobStatus'[j] # "absent" /\ jobExecution'[j] = jobExecution[j]
      BY <1>2 DEF FinalizeJob, CompleteJob, FailJob, ReleaseJob
  <1>3. CASE UNCHANGED jobVars
      BY <1>3
  <1>4. ASSUME NEW g \in Goroutines, NEW i \in Jobs, ClaimNextJob(g, i)
        PROVE  jobStatus'[j] # "absent" /\ jobExecution'[j] = jobExecution[j]
      BY <1>4 DEF ClaimNextJob
  <1>5. ASSUME NEW i \in Jobs, BackoffElapses(i) \/ LeaseExpires(i)
        PROVE  jobStatus'[j] # "absent" /\ jobExecution'[j] = jobExecution[j]
      BY <1>5 DEF BackoffElapses, LeaseExpires
  <1>5a. ASSUME NEW e \in Executions, PurgeExpiredRuntimePayloads(e)
         PROVE  jobStatus'[j] # "absent" /\ jobExecution'[j] = jobExecution[j]
      BY <1>5a DEF PurgeExpiredRuntimePayloads
  <1> HIDE DEF TypeInv, TypeOK, JobTypes, jobVars
  <1>6. ASSUME NEW g \in Goroutines, RunStep(g) \/ StoreCallFails(g) \/ FinalizeFails(g) \/ LockConnection(g)
        PROVE  UNCHANGED jobVars \/ FinalizeJob(g)
      BY <1>6 DEF RunStep, Load, failExecution, Start, EnterNode, ExecuteNode, RecordNode,
         SettleExecution, StoreCallFails, FinalizeFails, LockConnection
  <1>7. ASSUME NEW o \in Operators, Operator(o)
        PROVE  UNCHANGED jobVars \/ \E i \in Jobs : \E e, kind : insertJob(i, e, kind)
      BY <1>7 DEF Operator, ReadExecution, RequeueFlowExecution, RequeueConflict, updateExecutionAttention
  <1>8. ASSUME NEW e \in Executions, NEW f \in Executions, NEW i \in Jobs,
               AcceptInboundEvent(e, i) \/ replayExecution(e, f, i)
        PROVE  \E x, kind : insertJob(i, x, kind)
      BY <1>8 DEF AcceptInboundEvent, replayExecution, CreateFlowExecutionAndEnqueue
  <1>9. CASE Crash \/ Restart \/ UNCHANGED vars
      BY <1>3, <1>9 DEF Crash, Restart, vars
  <1>10. QED
      BY <1>1, <1>2, <1>3, <1>4, <1>5, <1>5a, <1>6, <1>7, <1>8, <1>9 DEF Next, Claim

\* Steps that leave the goroutines and their mutexes alone.
QuietStep == UNCHANGED <<goroutineVars, lockOwner>>

\* What a step may be, seen from the goroutines.
LEMMA StepKinds ==
  ASSUME [Next]_vars
  PROVE  \/ QuietStep
         \/ Crash
         \/ \E g \in Goroutines : \/ Claim(g) \/ LockConnection(g) \/ RunStep(g)
                                  \/ StoreCallFails(g) \/ FinalizeFails(g)
  <1>1. ASSUME NEW e \in Executions, NEW f \in Executions, NEW j \in Jobs,
               AcceptInboundEvent(e, j) \/ replayExecution(e, f, j)
        PROVE  QuietStep
      BY <1>1 DEF AcceptInboundEvent, replayExecution, QuietStep
  <1>2. ASSUME NEW j \in Jobs, BackoffElapses(j) \/ LeaseExpires(j) PROVE QuietStep
      BY <1>2 DEF BackoffElapses, LeaseExpires, QuietStep
  <1>2a. ASSUME NEW e \in Executions, PurgeExpiredRuntimePayloads(e) PROVE QuietStep
      BY <1>2a DEF PurgeExpiredRuntimePayloads, QuietStep
  <1>3. ASSUME NEW o \in Operators, Operator(o) PROVE QuietStep
      BY <1>3 DEF Operator, ReadExecution, RequeueFlowExecution, RequeueConflict,
         updateExecutionAttention, QuietStep
  <1>4. CASE Restart \/ UNCHANGED vars
      BY <1>4 DEF Restart, vars, QuietStep
  <1>5. QED
      BY <1>1, <1>2, <1>2a, <1>3, <1>4 DEF Next

\* A goroutine inside runJob works on one job, one execution and one mutex.
LEMMA RunStays ==
  ASSUME TypeInv, [Next]_vars, NEW g \in Goroutines, pc[g] # "idle", pc'[g] # "idle"
  PROVE  /\ gJob'[g] = gJob[g]
         /\ ExecutionOf(g)' = ExecutionOf(g)
         /\ LockOf(g)' = LockOf(g)
  <1> USE DEF TypeInv, TypeOK, GoroutineTypes
  <1>1. gJob'[g] = gJob[g]
    <2>1. CASE QuietStep
        BY <2>1 DEF QuietStep, goroutineVars
    <2>2. CASE Crash
        BY <2>2 DEF Crash
    <2>3. ASSUME NEW h \in Goroutines, Claim(h) PROVE gJob'[g] = gJob[g]
        BY <2>3 DEF Claim, ClaimNextJob
    <2>4. ASSUME NEW h \in Goroutines, LockConnection(h) \/ RunStep(h) \/ StoreCallFails(h) \/ FinalizeFails(h)
          PROVE  gJob'[g] = gJob[g]
        BY <2>4 DEF LockConnection, RunStep, Load, failExecution, Start, EnterNode, ExecuteNode, RecordNode,
           SettleExecution, FinalizeJob, StoreCallFails, FinalizeFails, Return
    <2>5. QED
        BY <2>1, <2>2, <2>3, <2>4, StepKinds
  <1>2. gJob[g] \in Jobs /\ jobStatus[gJob[g]] # "absent"
      BY DEF Linked
  <1>3. QED
      BY <1>1, <1>2, RowsStay DEF ExecutionOf, LockOf

\* Whoever executes a Flow holds the mutex of its Connection.
MutexInv == \A g \in Goroutines : InExecutor(g) => lockOwner[LockOf(g)] = g

\* Only the holder of a mutex unlocks it, and it leaves the executor when it does.
LEMMA MutexStep == TypeInv /\ MutexInv /\ [Next]_vars => MutexInv'
  <1> SUFFICES ASSUME TypeInv, MutexInv, [Next]_vars,
                      NEW h \in Goroutines, InExecutor(h)'
               PROVE  lockOwner'[LockOf(h)'] = h
      BY DEF MutexInv
  <1>1. pc'[h] # "idle" /\ pc'[h] # "claimed"
      BY DEF InExecutor
  <1>2. ASSUME pc[h] # "idle"
        PROVE  LockOf(h)' = LockOf(h) /\ LockOf(h) \in Connections
      BY <1>1, <1>2, RunStays, BusyGoroutine
  <1> USE DEF TypeInv, TypeOK, GoroutineTypes
  <1>3. CASE QuietStep
      BY <1>1, <1>2, <1>3 DEF QuietStep, goroutineVars, MutexInv, InExecutor
  <1>4. CASE Crash
      BY <1>1, <1>4 DEF Crash
  <1>5. ASSUME NEW g \in Goroutines, Claim(g) PROVE lockOwner'[LockOf(h)'] = h
      BY <1>1, <1>2, <1>5 DEF Claim, ClaimNextJob, MutexInv, InExecutor
  <1>6. ASSUME NEW g \in Goroutines, LockConnection(g) PROVE lockOwner'[LockOf(h)'] = h
      BY ConstantsAssumption, <1>1, <1>2, <1>6 DEF LockConnection, MutexInv, InExecutor
  <1>7. ASSUME NEW g \in Goroutines, RunStep(g) \/ StoreCallFails(g) \/ FinalizeFails(g)
        PROVE  lockOwner'[LockOf(h)'] = h
    <2>1. CASE FinalizeJob(g) \/ FinalizeFails(g)
      <3>1. pc[g] = "finalize" /\ Return(g)
          BY <2>1 DEF FinalizeJob, FinalizeFails
      <3>2. h # g /\ InExecutor(h) /\ InExecutor(g)
          BY <1>1, <3>1 DEF Return, InExecutor
      <3>3. LockOf(h) # LockOf(g)
          BY <3>2 DEF MutexInv
      <3>4. QED
          BY <1>2, <3>1, <3>2, <3>3 DEF Return, MutexInv, InExecutor
    <2>2. CASE ~(FinalizeJob(g) \/ FinalizeFails(g))
      <3>1. UNCHANGED lockOwner /\ (pc[h] # pc'[h] => h = g /\ pc[g] \notin {"idle", "claimed"})
          BY <1>7, <2>2 DEF RunStep, Load, failExecution, Start, EnterNode, ExecuteNode, RecordNode,
             SettleExecution, StoreCallFails
      <3>2. QED
          BY <1>1, <1>2, <3>1 DEF MutexInv, InExecutor
    <2>3. QED
        BY <2>1, <2>2
  <1>8. QED
      BY <1>3, <1>4, <1>5, <1>6, <1>7, StepKinds

\* A mutex has one owner, so its holders are one.
LEMMA MutexSerial == TypeInv /\ MutexInv => SerialPerConnection
  BY DEF MutexInv, SerialPerConnection

\* The mutex discipline of runJob holds in every reachable state.
LEMMA MutexInvariant == Spec => [](TypeInv /\ MutexInv)
  <1>1. Init => MutexInv
      BY DEF Init, MutexInv, InExecutor
  <1>2. QED
      BY <1>1, TypeInvInit, TypeInvStep, MutexStep, PTL DEF Spec

\* Flows of one Connection never run side by side, however leases expire, database calls fail
\* and processes crash: Worker.runJob holds the mutex of the Connection throughout.
THEOREM Serial == Spec => []SerialPerConnection
  BY MutexInvariant, MutexSerial, PTL

-----------------------------------------------------------------------------
(***************************************************************************)
(* Who writes the status of an execution.                                  *)
(***************************************************************************)
\* Execution e is put in the queue together with a new row.
Queued(e) ==
    /\ status'[e] = "queued"
    /\ \E j \in Jobs : jobStatus[j] = "absent" /\ jobStatus'[j] = "queued" /\ jobExecution'[j] = e

\* Goroutine g, inside ExecuteInWorkspace, writes the status of its execution.
ExecutorWrites(g, e) ==
    /\ ExecutionOf(g) = e
    /\ \/ pc[g] = "start" /\ pc'[g] = "enter" /\ status'[e] = "running"
       \/ pc[g] = "enter" /\ pc'[g] # "idle" /\ status'[e] = gStatus[g]
       \/ pc[g] \in {"start", "enter"} /\ pc'[g] = "finalize" /\ status'[e] = "failed"
       \/ /\ pc[g] = "settle" /\ pc'[g] = "finalize"
          /\ status'[e] \in Final \cup Actionable

\* Who writes the status of an execution: whoever inserts or requeues it, the executor that
\* runs it, or a handler that acknowledges it.
LEMMA StatusWrites ==
  ASSUME TypeInv, [Next]_vars, NEW e \in Executions, status'[e] # status[e]
  PROVE  \/ status[e] \in {"absent"} \cup Actionable /\ Queued(e)
         \/ \E g \in Goroutines : ExecutorWrites(g, e)
         \/ \E o \in Operators : opPc[o] = "attention" /\ opExecution[o] = e /\ status'[e] = opStatus[o]
  <1> DEFINE Goal == \/ status[e] \in {"absent"} \cup Actionable /\ Queued(e)
                     \/ \E g \in Goroutines : ExecutorWrites(g, e)
                     \/ \E o \in Operators : opPc[o] = "attention" /\ opExecution[o] = e /\ status'[e] = opStatus[o]
  <1> USE DEF TypeInv, TypeOK, ExecutionTypes
  <1>1. ASSUME NEW f \in Executions, NEW j \in Jobs, NEW kind \in JobKind, insertJob(j, f, kind),
               status[f] \in {"absent"} \cup Actionable, status' = [status EXCEPT ![f] = "queued"]
        PROVE  Goal
      BY <1>1, InsertedJob DEF Queued
  <1>2. ASSUME NEW f \in Executions, NEW x \in Executions, NEW j \in Jobs,
               AcceptInboundEvent(f, j) \/ replayExecution(x, f, j)
        PROVE  Goal
      BY <1>1, <1>2 DEF AcceptInboundEvent, replayExecution, CreateFlowExecutionAndEnqueue, JobKind
  <1>3. ASSUME NEW g \in Goroutines, RunStep(g) PROVE Goal
    <2> USE DEF GoroutineTypes, executionVars, UpdateFlowExecution
    <2>1. CASE failExecution(g)
        BY <2>1 DEF failExecution, ExecutorWrites
    <2>2. CASE Start(g)
        BY <2>2 DEF Start, ExecutorWrites
    <2>3. CASE EnterNode(g)
        BY <2>3 DEF EnterNode, AfterNode, ExecutorWrites
    <2>4. CASE SettleExecution(g)
        BY <2>4 DEF SettleExecution, ExecutionOutcome, classifyNodeError, Final, Actionable,
           ExecutorWrites
    <2>5. QED
        BY <1>3, <2>1, <2>2, <2>3, <2>4 DEF RunStep, Load, ExecuteNode, RecordNode, FinalizeJob
  <1>4. ASSUME NEW o \in Operators, Operator(o) PROVE Goal
    <2>1. ASSUME NEW j \in Jobs, RequeueFlowExecution(o, j) PROVE Goal
      <3>1. opExecution[o] \in Executions
          BY <2>1 DEF RequeueFlowExecution, Linked
      <3>2. QED
          BY <1>1, <2>1, <3>1 DEF RequeueFlowExecution, JobKind
    <2>2. ASSUME NEW a \in {"open", "acknowledged"}, updateExecutionAttention(o, a) PROVE Goal
        BY <2>2 DEF updateExecutionAttention, UpdateFlowExecution
    <2>3. QED
        BY <1>4, <2>1, <2>2 DEF Operator, ReadExecution, RequeueConflict, executionVars
  <1>5. QED
      BY <1>2, <1>3, <1>4 DEF Next, Claim, BackoffElapses, LeaseExpires, PurgeExpiredRuntimePayloads,
         ClaimNextJob, LockConnection,
         StoreCallFails, FinalizeFails, Crash, Restart, executionVars, vars

-----------------------------------------------------------------------------
(***************************************************************************)
(* A final outcome stands, as long as no operator acknowledges.            *)
(***************************************************************************)
InRun == {"start", "enter", "call", "record", "settle"}

\* No goroutine is past the status check of ExecuteInWorkspace with an execution that is
\* final: the check is made, and every status is written, under the Connection's mutex.
RunInv ==
    /\ \A o \in Operators : opPc[o] # "attention"
    /\ \A g \in Goroutines : pc[g] \in InRun => status[ExecutionOf(g)] \notin Final
    /\ \A g \in Goroutines : pc[g] \in InRun \ {"start"} => gStatus[g] = "running"

\* Goroutines in a run of the executor did not just write another one's execution.
LEMMA OneExecutor ==
  ASSUME TypeInv, MutexInv, NEW g \in Goroutines, NEW h \in Goroutines,
         InExecutor(g), InExecutor(h), ExecutionOf(g) = ExecutionOf(h)
  PROVE  g = h
  BY DEF MutexInv, LockOf

\* How a goroutine enters a run, and what it holds in memory there.
LEMMA EnterRun ==
  ASSUME TypeInv, RunInv, [Next]_vars, NEW g \in Goroutines, pc'[g] \in InRun
  PROVE  /\ \/ pc[g] \in InRun
            \/ pc[g] = "load" /\ status[ExecutionOf(g)] \notin Final /\ UNCHANGED status
         /\ pc'[g] # "start" => gStatus'[g] = "running"
  <1> USE DEF TypeInv, TypeOK, GoroutineTypes, InRun, RunInv
  <1>1. CASE QuietStep
      BY <1>1 DEF QuietStep, goroutineVars
  <1>2. CASE Crash
      BY <1>2 DEF Crash
  <1>3. ASSUME NEW h \in Goroutines, \/ Claim(h) \/ LockConnection(h) \/ RunStep(h)
                                     \/ StoreCallFails(h) \/ FinalizeFails(h)
        PROVE  (pc'[g] = pc[g] /\ gStatus'[g] = gStatus[g]) \/ h = g
      BY <1>3 DEF Claim, ClaimNextJob, LockConnection, RunStep, Load, failExecution, Start, EnterNode,
         ExecuteNode, RecordNode, SettleExecution, FinalizeJob, StoreCallFails, FinalizeFails, Return
  <1>4. CASE Load(g)
      BY <1>4 DEF Load, executionVars
  <1>5. CASE Start(g)
      BY <1>5 DEF Start
  <1>6. CASE EnterNode(g) \/ RecordNode(g) \/ \E r \in NodeOutcomes : ExecuteNode(g, r)
      BY <1>6 DEF EnterNode, ExecuteNode, RecordNode, AfterNode
  <1>7. ~(Claim(g) \/ LockConnection(g) \/ failExecution(g) \/ SettleExecution(g) \/ FinalizeJob(g)
          \/ StoreCallFails(g) \/ FinalizeFails(g))
      BY DEF Claim, ClaimNextJob, LockConnection, failExecution, SettleExecution, FinalizeJob,
         StoreCallFails, FinalizeFails, Return
  <1>8. QED
      BY <1>1, <1>2, <1>3, <1>4, <1>5, <1>6, <1>7, StepKinds DEF RunStep

\* No request acknowledges unless the handler is exercised.
LEMMA NoAttention ==
  ASSUME "attention" \notin OperatorActions, TypeInv, RunInv, [Next]_vars, NEW o \in Operators
  PROVE  opPc'[o] # "attention"
  <1> USE DEF TypeInv, TypeOK, OperatorTypes, operatorVars
  <1>1. ASSUME NEW p \in Operators, Operator(p) PROVE opPc'[o] # "attention"
      BY <1>1 DEF Operator, ReadExecution, RequeueFlowExecution, RequeueConflict,
         updateExecutionAttention, EndRequest, RunInv
  <1>2. CASE UNCHANGED operatorVars
      BY <1>2 DEF RunInv
  <1>3. CASE Crash
      BY <1>3 DEF Crash
  <1>4. QED
      BY <1>1, <1>2, <1>3 DEF Next, Claim, RunStep, AcceptInboundEvent, replayExecution,
         BackoffElapses, LeaseExpires, PurgeExpiredRuntimePayloads, ClaimNextJob, LockConnection,
         Load, failExecution, Start, EnterNode,
         ExecuteNode, RecordNode, SettleExecution, FinalizeJob, StoreCallFails, FinalizeFails, Restart, vars

\* Without acknowledgements, no step makes an execution final under somebody else's run.
LEMMA RunInvStep ==
  ASSUME "attention" \notin OperatorActions
  PROVE  TypeInv /\ MutexInv /\ RunInv /\ [Next]_vars => RunInv'
  <1> SUFFICES ASSUME TypeInv, MutexInv, RunInv, [Next]_vars PROVE RunInv'
      OBVIOUS
  <1>1. ASSUME NEW g \in Goroutines, pc'[g] \in InRun
        PROVE  status'[ExecutionOf(g)'] \notin Final
    <2>1. pc[g] # "idle" /\ pc'[g] # "idle" /\ InExecutor(g)
        BY <1>1, EnterRun DEF InRun, InExecutor
    <2>2. ExecutionOf(g)' = ExecutionOf(g) /\ ExecutionOf(g) \in Executions
        BY <2>1, RunStays, BusyGoroutine
    <2>3. status[ExecutionOf(g)] \notin Final
        BY <1>1, EnterRun DEF RunInv
    <2>4. CASE status'[ExecutionOf(g)] # status[ExecutionOf(g)]
      <3>1. ASSUME NEW h \in Goroutines, ExecutorWrites(h, ExecutionOf(g))
            PROVE  status'[ExecutionOf(g)] \notin Final
        <4>1. h = g
            BY <2>1, <3>1, OneExecutor DEF ExecutorWrites, InExecutor
        <4>2. QED
            BY <1>1, <3>1, <4>1 DEF ExecutorWrites, RunInv, InRun, Final
      <3>2. QED
          BY <2>2, <2>4, <3>1, StatusWrites DEF Queued, RunInv, Final
    <2>5. QED
        BY <2>2, <2>3, <2>4
  <1>2. QED
      BY <1>1, EnterRun, NoAttention DEF RunInv

\* RunInv holds in every reachable state.
LEMMA RunInvariant ==
  ASSUME "attention" \notin OperatorActions
  PROVE  Spec => [](TypeInv /\ MutexInv /\ RunInv)
  <1>1. Init => RunInv
      BY DEF Init, RunInv, InRun
  <1>2. QED
      BY <1>1, RunInvStep, MutexInvariant, PTL DEF Spec

\* Stale jobs, stale copies in goroutines, expired leases, failing database calls, crashes and
\* retries cannot reopen a succeeded or skipped execution; only an acknowledgement can.
THEOREM OutcomesStand == "attention" \notin OperatorActions => (Spec => OutcomeIsFinal)
  <1> SUFFICES ASSUME "attention" \notin OperatorActions PROVE Spec => OutcomeIsFinal
      OBVIOUS
  <1>1. ASSUME TypeInv, RunInv, [Next]_vars, NEW e \in Executions, status[e] \in Final
        PROVE  status'[e] = status[e]
      BY <1>1, StatusWrites DEF ExecutorWrites, RunInv, InRun, Final, Actionable
  <1>2. TypeInv /\ RunInv /\ [Next]_vars
        => [\A e \in Executions : status[e] \in Final => status'[e] = status[e]]_status
      BY <1>1
  <1>3. QED
      BY <1>2, RunInvariant, PTL DEF Spec, OutcomeIsFinal

-----------------------------------------------------------------------------
(***************************************************************************)
(* A goroutine owns its job, unless the job has been overrun.              *)
(***************************************************************************)
LeaseInv ==
    /\ \A g \in Goroutines : IF pc[g] = "idle" THEN gJob[g] = 0 ELSE up /\ gJob[g] \in Jobs
    /\ \A g \in Goroutines :
         pc[g] # "idle" /\ gJob[g] \notin overrun =>
             /\ jobStatus[gJob[g]] = "running"
             /\ leasedBy[gJob[g]] = workerID
             /\ ~leaseExpired[gJob[g]]
             /\ \A h \in Goroutines \ {g} : gJob[h] # gJob[g]

\* The rows of busy goroutines, as a step that does not concern them leaves them.
SameRow(j) ==
    /\ jobStatus'[j] = jobStatus[j]
    /\ leasedBy'[j] = leasedBy[j]
    /\ leaseExpired'[j] = leaseExpired[j]

\* A step that leaves the rows of busy goroutines alone keeps LeaseInv.
LEMMA LeaseInvFrame ==
  ASSUME TypeInv, LeaseInv, UNCHANGED <<pc, gJob, workerID>>, up => up', overrun \subseteq overrun',
         \A g \in Goroutines : pc[g] # "idle" /\ gJob[g] \notin overrun' => SameRow(gJob[g])
  PROVE  LeaseInv'
  BY DEF LeaseInv, SameRow

\* No claim takes the row of a goroutine at work, and no return settles it, while its lease
\* lasts; when it ends, the job is overrun until the last goroutine has left it.
LEMMA LeaseInvStep == TypeInv /\ LeaseInv /\ [Next]_vars => LeaseInv'
  <1> SUFFICES ASSUME TypeInv, LeaseInv, [Next]_vars PROVE LeaseInv'
      OBVIOUS
  <1> USE DEF goroutineVars, processVars
  <1>0. \A g \in Goroutines : pc[g] # "idle" => gJob[g] \in Jobs
      BY BusyGoroutine
  <1>00. 0 \notin Jobs
      BY DEF Jobs
  <1>1. ASSUME NEW e \in Executions, NEW j \in Jobs, NEW kind \in JobKind, insertJob(j, e, kind),
               UNCHANGED <<pc, gJob, processVars>>
        PROVE  LeaseInv'
    <2>1. \A i \in Jobs : jobStatus[i] = "running" => SameRow(i)
        BY <1>1, InsertedJob DEF SameRow, insertJob
    <2>2. QED
        BY <1>0, <1>1, <2>1, LeaseInvFrame DEF LeaseInv
  <1>2. ASSUME NEW e \in Executions, NEW f \in Executions, NEW j \in Jobs,
               AcceptInboundEvent(e, j) \/ replayExecution(e, f, j)
        PROVE  LeaseInv'
      BY <1>1, <1>2 DEF AcceptInboundEvent, replayExecution, CreateFlowExecutionAndEnqueue, JobKind
  <1>3. ASSUME NEW j \in Jobs, BackoffElapses(j) PROVE LeaseInv'
      BY <1>3, LeaseInvFrame DEF BackoffElapses, SameRow
  <1>4. ASSUME NEW j \in Jobs, LeaseExpires(j) PROVE LeaseInv'
    <2>1. \A i \in Jobs : i # j => SameRow(i)
        BY <1>4 DEF LeaseExpires, SameRow, TypeInv, TypeOK, JobTypes
    <2>2. \A g \in Goroutines : pc[g] # "idle" /\ gJob[g] = j => j \in overrun'
        BY <1>4 DEF LeaseExpires, Worked
    <2>3. overrun \subseteq overrun' /\ UNCHANGED <<pc, gJob, up, workerID>>
        BY <1>4 DEF LeaseExpires
    <2>4. QED
        BY <1>0, <2>1, <2>2, <2>3, LeaseInvFrame
  <1>4a. ASSUME NEW e \in Executions, PurgeExpiredRuntimePayloads(e) PROVE LeaseInv'
      BY <1>4a, LeaseInvFrame DEF PurgeExpiredRuntimePayloads, SameRow, jobVars
  <1>5. ASSUME NEW g \in Goroutines, NEW j \in Jobs, ClaimNextJob(g, j) PROVE LeaseInv'
    <2>1. j \notin overrun => \A h \in Goroutines : gJob[h] # j
        BY <1>00, <1>5 DEF ClaimNextJob, FirstClaimable, Claimable, LeaseInv
    <2>2. /\ UNCHANGED <<up, workerID, overrun>> /\ up /\ pc[g] = "idle"
          /\ pc'[g] # "idle" /\ gJob'[g] = j
          /\ \A h \in Goroutines : h # g => pc'[h] = pc[h] /\ gJob'[h] = gJob[h]
          /\ jobStatus'[j] = "running" /\ leasedBy'[j] = workerID /\ ~leaseExpired'[j]
          /\ \A i \in Jobs : i # j => SameRow(i)
        BY <1>5 DEF ClaimNextJob, SameRow, TypeInv, TypeOK, JobTypes, GoroutineTypes
    <2>3. ASSUME NEW h \in Goroutines, pc'[h] # "idle", gJob'[h] \notin overrun'
          PROVE  /\ jobStatus'[gJob'[h]] = "running" /\ leasedBy'[gJob'[h]] = workerID' /\ ~leaseExpired'[gJob'[h]]
                 /\ \A k \in Goroutines \ {h} : gJob'[k] # gJob'[h]
      <3>1. CASE h = g
          BY <2>1, <2>2, <2>3, <3>1
      <3>2. CASE h # g
        <4>1. pc[h] # "idle" /\ gJob'[h] = gJob[h] /\ gJob[h] \in Jobs /\ gJob[h] \notin overrun
            BY <1>0, <2>2, <2>3, <3>2
        <4>2. gJob[h] # j
            BY <2>1, <4>1
        <4>3. QED
            BY <2>2, <3>2, <4>1, <4>2 DEF LeaseInv, SameRow
      <3>3. QED
          BY <3>1, <3>2
    <2>4. QED
        BY <2>2, <2>3 DEF LeaseInv
  <1>6. ASSUME NEW g \in Goroutines, pc[g] # "idle", UNCHANGED <<jobVars, gJob, processVars>>,
               NEW p, p # "idle", pc' = [pc EXCEPT ![g] = p]
        PROVE  LeaseInv'
      BY <1>6 DEF LeaseInv, jobVars, TypeInv, TypeOK, GoroutineTypes
  <1>7. ASSUME NEW g \in Goroutines, LockConnection(g) \/ StoreCallFails(g) PROVE LeaseInv'
      BY <1>6, <1>7 DEF LockConnection, StoreCallFails
  <1>8. ASSUME NEW g \in Goroutines, RunStep(g), ~FinalizeJob(g) PROVE LeaseInv'
    <2>1. /\ pc[g] # "idle" /\ UNCHANGED <<jobVars, gJob, processVars>>
          /\ \E p : p # "idle" /\ pc' = [pc EXCEPT ![g] = p]
        BY <1>8 DEF RunStep, Load, failExecution, Start, EnterNode, ExecuteNode, RecordNode,
           SettleExecution, AfterNode
    <2>2. QED
        BY <1>6, <2>1
  <1>9. ASSUME NEW g \in Goroutines, FinalizeJob(g) \/ FinalizeFails(g) PROVE LeaseInv'
    <2>1. pc[g] = "finalize" /\ Return(g) /\ UNCHANGED <<up, workerID>>
        BY <1>9 DEF FinalizeJob, FinalizeFails
    <2>2. \A j \in Jobs : j # gJob[g] => SameRow(j)
        BY <1>9 DEF FinalizeJob, FinalizeFails, CompleteJob, FailJob, ReleaseJob, SameRow, jobVars,
           TypeInv, TypeOK, JobTypes
    <2>3. /\ pc'[g] = "idle" /\ gJob'[g] = 0
          /\ \A h \in Goroutines : h # g => pc'[h] = pc[h] /\ gJob'[h] = gJob[h]
        BY <2>1 DEF Return, TypeInv, TypeOK, GoroutineTypes
    <2>4. ASSUME NEW h \in Goroutines, pc'[h] # "idle", gJob'[h] \notin overrun'
          PROVE  /\ jobStatus'[gJob'[h]] = "running" /\ leasedBy'[gJob'[h]] = workerID' /\ ~leaseExpired'[gJob'[h]]
                 /\ \A k \in Goroutines \ {h} : gJob'[k] # gJob'[h]
      <3>1. h # g /\ pc[h] # "idle" /\ gJob'[h] = gJob[h] /\ gJob[h] \in Jobs
          BY <1>0, <2>3, <2>4
      <3>2. gJob[h] \notin overrun
          BY <2>1, <2>4, <3>1 DEF Return
      <3>3. gJob[h] # gJob[g]
          BY <3>1, <3>2 DEF LeaseInv
      <3>4. QED
          BY <1>00, <2>1, <2>2, <2>3, <3>1, <3>2, <3>3 DEF LeaseInv, SameRow
    <2>5. QED
        BY <1>0, <2>1, <2>3, <2>4 DEF LeaseInv
  <1>10. CASE Crash
      BY <1>10 DEF Crash, LeaseInv, TypeInv, TypeOK, GoroutineTypes
  <1>11. CASE Restart
      BY <1>11 DEF Restart, LeaseInv, jobVars
  <1>12. ASSUME NEW o \in Operators, Operator(o) PROVE LeaseInv'
    <2>1. ASSUME NEW j \in Jobs, RequeueFlowExecution(o, j) PROVE LeaseInv'
      <3>1. opExecution[o] \in Executions
          BY <2>1 DEF RequeueFlowExecution, TypeInv, Linked
      <3>2. QED
          BY <1>1, <2>1, <3>1 DEF RequeueFlowExecution, JobKind
    <2>2. CASE UNCHANGED <<jobVars, goroutineVars, processVars>>
        BY <2>2, LeaseInvFrame DEF jobVars, SameRow
    <2>3. QED
        BY <1>12, <2>1, <2>2 DEF Operator, ReadExecution, RequeueConflict, updateExecutionAttention
  <1>13. CASE UNCHANGED vars
      BY <1>13, LeaseInvFrame DEF vars, jobVars, SameRow
  <1>14. QED
      BY <1>2, <1>3, <1>4, <1>4a, <1>5, <1>7, <1>8, <1>9, <1>10, <1>11, <1>12, <1>13 DEF Next, Claim

\* LeaseInv holds in every reachable state.
LEMMA LeaseInvariant == Spec => [](TypeInv /\ MutexInv /\ LeaseInv)
  <1>1. Init => LeaseInv
      BY DEF Init, LeaseInv
  <1>2. QED
      BY <1>1, LeaseInvStep, MutexInvariant, PTL DEF Spec

\* However slow some runs are, and whatever crashes or fails, a run whose job no overrun
\* has touched is the only one that settles its claim.
THEOREM LeasesProtect == Spec => []LeaseProtectsRun
  <1>1. TypeInv /\ LeaseInv => LeaseProtectsRun
      BY DEF LeaseInv, LeaseProtectsRun, LeasedHere
  <1>2. QED
      BY <1>1, LeaseInvariant, PTL

\* While runs are shorter than leases, this is every job that is worked on.
Leased ==
    /\ \A g \in Goroutines :
         pc[g] # "idle" => /\ up
                           /\ jobStatus[gJob[g]] = "running"
                           /\ leasedBy[gJob[g]] = workerID
                           /\ ~leaseExpired[gJob[g]]
    /\ \A g, h \in Goroutines : g # h /\ pc[g] # "idle" => gJob[g] # gJob[h]

NoOverrun == overrun = {}

LEMMA NothingOverruns ==
  ASSUME ~SlowRuns
  PROVE  NoOverrun /\ [Next]_vars => NoOverrun'
  <1> SUFFICES ASSUME overrun = {}, [Next]_vars PROVE overrun' = {}
      BY DEF NoOverrun
  <1> USE DEF processVars
  <1>1. ASSUME NEW j \in Jobs, LeaseExpires(j) PROVE overrun' = {}
      BY <1>1 DEF LeaseExpires
  <1>2. ASSUME NEW g \in Goroutines, FinalizeJob(g) \/ FinalizeFails(g) PROVE overrun' = {}
      BY <1>2 DEF FinalizeJob, FinalizeFails, Return
  <1>3. ASSUME NEW g \in Goroutines, RunStep(g), ~FinalizeJob(g) PROVE overrun' = {}
      BY <1>3 DEF RunStep, Load, failExecution, Start, EnterNode, ExecuteNode, RecordNode, SettleExecution
  <1>4. ASSUME NEW g \in Goroutines, Claim(g) \/ LockConnection(g) \/ StoreCallFails(g) PROVE overrun' = {}
      BY <1>4 DEF Claim, ClaimNextJob, LockConnection, StoreCallFails
  <1>5. CASE Crash \/ Restart \/ UNCHANGED vars
      BY <1>5 DEF Crash, Restart, vars
  <1>6. ASSUME NEW o \in Operators, Operator(o) PROVE overrun' = {}
      BY <1>6 DEF Operator, ReadExecution, RequeueFlowExecution, RequeueConflict, updateExecutionAttention
  <1>7. ASSUME NEW e \in Executions, PurgeExpiredRuntimePayloads(e) PROVE overrun' = {}
      BY <1>7 DEF PurgeExpiredRuntimePayloads
  <1>8. ASSUME NEW e \in Executions, NEW f \in Executions, NEW j \in Jobs,
               AcceptInboundEvent(e, j) \/ replayExecution(e, f, j) \/ BackoffElapses(j)
        PROVE  overrun' = {}
      BY <1>8 DEF AcceptInboundEvent, replayExecution, BackoffElapses
  <1>9. ASSUME NEW j \in Jobs, BackoffElapses(j) PROVE overrun' = {}
      BY <1>9 DEF BackoffElapses
  <1>10. QED
      BY <1>1, <1>2, <1>3, <1>4, <1>5, <1>6, <1>7, <1>8, <1>9 DEF Next

LEMMA LeasedInvariant ==
  ASSUME ~SlowRuns
  PROVE  Spec => [](TypeInv /\ MutexInv /\ Leased)
  <1>1. Init => NoOverrun
      BY DEF Init, NoOverrun
  <1>2. NoOverrun /\ [Next]_vars => NoOverrun'
      BY NothingOverruns
  <1>3. LeaseInv /\ NoOverrun => Leased
      BY DEF LeaseInv, Leased, NoOverrun
  <1>4. QED
      BY <1>1, <1>2, <1>3, LeaseInvariant, PTL DEF Spec

-----------------------------------------------------------------------------
(***************************************************************************)
(* No execution is stranded.                                               *)
(***************************************************************************)
\* A request to acknowledge holds the actionable status it has read.
Acknowledging == \A o \in Operators : opPc[o] = "attention" => opStatus[o] \in Actionable

\* Only ReadExecution fills the copy of a request.
LEMMA AcknowledgingStep == TypeInv /\ Acknowledging /\ [Next]_vars => Acknowledging'
  <1> SUFFICES ASSUME TypeInv, Acknowledging, [Next]_vars,
                      NEW o \in Operators, opPc'[o] = "attention"
               PROVE  opStatus'[o] \in Actionable
      BY DEF Acknowledging
  <1> USE DEF TypeInv, TypeOK, OperatorTypes, operatorVars
  <1>1. ASSUME NEW p \in Operators, Operator(p) PROVE opStatus'[o] \in Actionable
      BY <1>1 DEF Operator, ReadExecution, RequeueFlowExecution, RequeueConflict,
         updateExecutionAttention, EndRequest, MayRequest, Acknowledging
  <1>2. CASE UNCHANGED operatorVars
      BY <1>2 DEF Acknowledging
  <1>3. CASE Crash
      BY <1>3 DEF Crash
  <1>4. QED
      BY <1>1, <1>2, <1>3 DEF Next, Claim, RunStep, AcceptInboundEvent, replayExecution,
         BackoffElapses, LeaseExpires, PurgeExpiredRuntimePayloads, ClaimNextJob, LockConnection,
         Load, failExecution, Start, EnterNode,
         ExecuteNode, RecordNode, SettleExecution, FinalizeJob, StoreCallFails, FinalizeFails, Restart, vars

\* Some live row other than the one goroutine g is about to settle brings a worker back.
OtherJob(g) == \E j \in Jobs : j # gJob[g] /\ jobExecution[j] = ExecutionOf(g) /\ LiveJob(j)

\* NoStrandedExecution is not inductive: a goroutine about to settle its job must leave an
\* outcome behind, unless an operator has requeued the execution meanwhile.
StrandedInv ==
    /\ NoStrandedExecution
    /\ \A g \in Goroutines :
         pc[g] = "finalize" => status[ExecutionOf(g)] \notin {"queued", "running"} \/ OtherJob(g)
    /\ Acknowledging

\* A live row only ends in the hands of the goroutine that settles it.
LEMMA RowEnds ==
  ASSUME TypeInv, [Next]_vars, NEW j \in Jobs, LiveJob(j), ~LiveJob(j)'
  PROVE  \E g \in Goroutines : /\ FinalizeJob(g) /\ gJob[g] = j
                               /\ UNCHANGED <<status, jobExecution>>
                               /\ \A i \in Jobs : i # j => jobStatus'[i] = jobStatus[i]
  <1> USE DEF TypeInv, TypeOK, JobTypes, jobVars, LiveJob
  <1>1. ~(UNCHANGED jobStatus)
      OBVIOUS
  <1>2. ASSUME NEW e, NEW i \in Jobs, NEW kind PROVE ~insertJob(i, e, kind)
      BY <1>2 DEF insertJob
  <1>3. ASSUME NEW g \in Goroutines, NEW i \in Jobs PROVE ~ClaimNextJob(g, i)
      BY <1>3 DEF ClaimNextJob
  <1>4. ASSUME NEW g \in Goroutines, FinalizeJob(g)
        PROVE  /\ gJob[g] = j /\ UNCHANGED <<status, jobExecution>>
               /\ \A i \in Jobs : i # j => jobStatus'[i] = jobStatus[i]
      BY <1>4 DEF FinalizeJob, CompleteJob, FailJob, ReleaseJob, executionVars
  <1> HIDE DEF TypeInv, TypeOK, JobTypes, LiveJob
  <1>5. \E g \in Goroutines : FinalizeJob(g)
      BY <1>1, <1>2, <1>3 DEF Next, Claim, RunStep, AcceptInboundEvent, replayExecution, CreateFlowExecutionAndEnqueue,
         BackoffElapses, LeaseExpires, PurgeExpiredRuntimePayloads, LockConnection,
         Load, failExecution, Start, EnterNode,
         ExecuteNode, RecordNode, SettleExecution, StoreCallFails, FinalizeFails, Crash, Restart,
         Operator, ReadExecution, RequeueFlowExecution, RequeueConflict, updateExecutionAttention, vars
  <1>6. QED
      BY <1>4, <1>5

\* A run that reaches its end has written an outcome, or found one.
LEMMA RunEnds ==
  ASSUME ~StoreErrors, TypeInv, [Next]_vars, NEW g \in Goroutines,
         pc[g] # "finalize", pc'[g] = "finalize"
  PROVE  pc[g] # "idle" /\ status'[ExecutionOf(g)] \notin {"queued", "running"}
  <1> USE DEF TypeInv, TypeOK, GoroutineTypes, ExecutionTypes
  <1>1. ~QuietStep /\ ~Crash
      BY DEF QuietStep, goroutineVars, Crash
  <1>2. ASSUME NEW h \in Goroutines, \/ Claim(h) \/ LockConnection(h) \/ RunStep(h)
                                     \/ StoreCallFails(h) \/ FinalizeFails(h)
        PROVE  h = g
      BY <1>2 DEF Claim, ClaimNextJob, LockConnection, RunStep, Load, failExecution, Start, EnterNode,
         ExecuteNode, RecordNode, SettleExecution, FinalizeJob, StoreCallFails, FinalizeFails, Return
  <1>3. Load(g) \/ failExecution(g) \/ SettleExecution(g)
      BY <1>1, <1>2, StepKinds DEF Claim, ClaimNextJob, LockConnection, RunStep, Start, EnterNode,
         AfterNode, ExecuteNode, RecordNode, FinalizeJob, StoreCallFails, FinalizeFails
  <1>4. ExecutionOf(g) \in Executions /\ pc[g] # "idle"
      BY <1>3, BusyGoroutine DEF Load, failExecution, SettleExecution
  <1>5. QED
      BY <1>3, <1>4 DEF Load, failExecution, SettleExecution, UpdateFlowExecution, ExecutionOutcome,
         classifyNodeError, Final, executionVars

\* Every step that ends a row, or opens an execution, leaves a row behind for it.
LEMMA StrandedStep ==
  ASSUME ~StoreErrors
  PROVE  TypeInv /\ MutexInv /\ Leased /\ StrandedInv /\ [Next]_vars => StrandedInv'
  <1> SUFFICES ASSUME TypeInv, MutexInv, Leased, StrandedInv, [Next]_vars PROVE StrandedInv'
      OBVIOUS
  <1>1. ASSUME NEW e \in Executions, status'[e] \in {"queued", "running"}
        PROVE  \E j \in Jobs : jobExecution'[j] = e /\ LiveJob(j)'
    <2>1. CASE status'[e] = status[e]
      <3>1. PICK j \in Jobs : jobExecution[j] = e /\ LiveJob(j)
          BY <1>1, <2>1 DEF StrandedInv, NoStrandedExecution
      <3>2. CASE LiveJob(j)'
          BY <3>1, <3>2, RowsStay DEF LiveJob
      <3>3. CASE ~LiveJob(j)'
        <4>1. PICK g \in Goroutines : /\ FinalizeJob(g) /\ gJob[g] = j
                                      /\ UNCHANGED <<status, jobExecution>>
                                      /\ \A i \in Jobs : i # j => jobStatus'[i] = jobStatus[i]
            BY <3>1, <3>3, RowEnds
        <4>2. pc[g] = "finalize" /\ ExecutionOf(g) = e
            BY <3>1, <4>1 DEF FinalizeJob, ExecutionOf
        <4>3. OtherJob(g)
            BY <1>1, <2>1, <4>2 DEF StrandedInv
        <4>4. QED
            BY <4>1, <4>2, <4>3 DEF OtherJob, LiveJob
      <3>4. QED
          BY <3>2, <3>3
    <2>2. CASE status'[e] # status[e]
      <3>1. CASE Queued(e)
          BY <3>1 DEF Queued, LiveJob
      <3>2. ASSUME NEW g \in Goroutines, ExecutorWrites(g, e)
            PROVE  \E j \in Jobs : jobExecution'[j] = e /\ LiveJob(j)'
        <4>1. pc[g] # "idle" /\ pc[g] # "finalize" /\ gJob[g] \in Jobs
            BY <3>2, BusyGoroutine DEF ExecutorWrites
        <4>2. PICK j \in Jobs : j = gJob[g]
            BY <4>1
        <4>3. LiveJob(j) /\ jobExecution[j] = e
            BY <3>2, <4>1, <4>2 DEF Leased, LiveJob, ExecutorWrites, ExecutionOf
        <4>4. ASSUME ~LiveJob(j)' PROVE FALSE
          <5>1. PICK h \in Goroutines : FinalizeJob(h) /\ gJob[h] = j
              BY <4>3, <4>4, RowEnds
          <5>2. h = g
              BY <4>1, <4>2, <5>1 DEF Leased
          <5>3. QED
              BY <4>1, <5>1, <5>2 DEF FinalizeJob
        <4>5. QED
            BY <4>3, <4>4, RowsStay DEF LiveJob
      <3>3. ASSUME NEW o \in Operators, opPc[o] = "attention", status'[e] = opStatus[o] PROVE FALSE
          BY <1>1, <3>3 DEF StrandedInv, Acknowledging, Actionable
      <3>4. QED
          BY <2>2, <3>1, <3>2, <3>3, StatusWrites
    <2>3. QED
        BY <2>1, <2>2
  <1>2. ASSUME NEW g \in Goroutines, pc'[g] = "finalize"
        PROVE  status'[ExecutionOf(g)'] \notin {"queued", "running"} \/ OtherJob(g)'
    <2> DEFINE e == ExecutionOf(g)
    <2>1. pc[g] # "idle"
        BY <1>2, RunEnds
    <2>2. e \in Executions /\ ExecutionOf(g)' = e /\ gJob'[g] = gJob[g] /\ gJob[g] \in Jobs
        BY <1>2, <2>1, RunStays, BusyGoroutine
    <2>3. CASE pc[g] # "finalize"
        BY <1>2, <2>2, <2>3, RunEnds
    <2>4. CASE pc[g] = "finalize" /\ status'[e] = status[e]
      <3>1. SUFFICES ASSUME OtherJob(g) PROVE OtherJob(g)'
          BY <2>2, <2>4 DEF StrandedInv
      <3>2. PICK j \in Jobs : j # gJob[g] /\ jobExecution[j] = e /\ LiveJob(j)
          BY <3>1 DEF OtherJob
      <3>3. ASSUME ~LiveJob(j)' PROVE FALSE
        <4>1. PICK h \in Goroutines : FinalizeJob(h) /\ gJob[h] = j
            BY <3>2, <3>3, RowEnds
        <4>2. h = g
            BY <2>4, <3>2, <4>1, OneExecutor DEF FinalizeJob, InExecutor, ExecutionOf
        <4>3. QED
            BY <3>2, <4>1, <4>2
      <3>4. QED
          BY <2>2, <3>2, <3>3, RowsStay DEF OtherJob, LiveJob
    <2>5. CASE pc[g] = "finalize" /\ status'[e] # status[e]
      <3>1. CASE Queued(e)
        <4>1. PICK j \in Jobs : /\ jobStatus[j] = "absent"
                                /\ jobStatus'[j] = "queued" /\ jobExecution'[j] = e
            BY <3>1 DEF Queued
        <4>2. j # gJob[g]
            BY <2>1, <4>1 DEF TypeInv, Linked
        <4>3. QED
            BY <2>2, <4>1, <4>2 DEF OtherJob, LiveJob
      <3>2. ASSUME NEW h \in Goroutines, ExecutorWrites(h, e) PROVE FALSE
          BY <2>5, <3>2, OneExecutor DEF ExecutorWrites, InExecutor
      <3>3. ASSUME NEW o \in Operators, opPc[o] = "attention", status'[e] = opStatus[o]
            PROVE  status'[e] \notin {"queued", "running"}
          BY <3>3 DEF StrandedInv, Acknowledging, Actionable
      <3>4. QED
          BY <2>2, <2>5, <3>1, <3>2, <3>3, StatusWrites
    <2>6. QED
        BY <2>3, <2>4, <2>5
  <1>3. QED
      BY <1>1, <1>2, AcknowledgingStep DEF StrandedInv, NoStrandedExecution

\* StrandedInv holds in every reachable state.
LEMMA StrandedInvariant ==
  ASSUME ~SlowRuns, ~StoreErrors
  PROVE  Spec => [](TypeInv /\ MutexInv /\ Leased /\ StrandedInv)
  <1>1. Init => StrandedInv
      BY DEF Init, StrandedInv, NoStrandedExecution, Acknowledging
  <1>2. QED
      BY <1>1, StrandedStep, LeasedInvariant, PTL DEF Spec

\* Every queued or running execution has a live job, across crashes, automatic retries,
\* operator retries and acknowledgements, provided that runs are shorter than leases and that
\* the executor's database calls succeed.
THEOREM NothingStranded == ~SlowRuns /\ ~StoreErrors => (Spec => []NoStrandedExecution)
  <1> SUFFICES ASSUME ~SlowRuns, ~StoreErrors PROVE Spec => []NoStrandedExecution
      OBVIOUS
  <1>1. StrandedInv => NoStrandedExecution
      BY DEF StrandedInv
  <1>2. QED
      BY <1>1, StrandedInvariant, PTL

-----------------------------------------------------------------------------
(***************************************************************************)
(* Attention and status.                                                   *)
(***************************************************************************)
\* The writes of an execution row: UpdateFlowExecution, an insert, or a requeue.
LEMMA RowWrites ==
  ASSUME TypeInv, [Next]_vars
  PROVE  \/ UNCHANGED executionVars
         \/ \E e \in Executions, s \in ExecutionStatus, a \in AttentionStatus : UpdateFlowExecution(e, s, a)
         \/ \E e \in Executions : /\ status' = [status EXCEPT ![e] = "queued"]
                                  /\ \/ status[e] = "absent" /\ UNCHANGED attention
                                     \/ attention' = [attention EXCEPT ![e] = "none"]
  <1> DEFINE Goal == \/ UNCHANGED executionVars
                     \/ \E e \in Executions, s \in ExecutionStatus, a \in AttentionStatus :
                           UpdateFlowExecution(e, s, a)
                     \/ \E e \in Executions : /\ status' = [status EXCEPT ![e] = "queued"]
                                              /\ \/ status[e] = "absent" /\ UNCHANGED attention
                                                 \/ attention' = [attention EXCEPT ![e] = "none"]
  <1>1. ASSUME NEW e \in Executions, NEW f \in Executions, NEW j \in Jobs,
               AcceptInboundEvent(e, j) \/ replayExecution(f, e, j)
        PROVE  Goal
      BY <1>1 DEF AcceptInboundEvent, replayExecution, CreateFlowExecutionAndEnqueue
  <1>2. ASSUME NEW g \in Goroutines, RunStep(g) PROVE Goal
    <2>1. gStatus[g] \in ExecutionStatus /\ gAttention[g] \in AttentionStatus
        BY DEF TypeInv, TypeOK, GoroutineTypes
    <2>2. /\ "running" \in ExecutionStatus /\ "failed" \in ExecutionStatus
          /\ ExecutionOutcome(gResult[g]) \in ExecutionStatus
        BY DEF ExecutionOutcome, classifyNodeError, ExecutionStatus, Actionable, Final
    <2>3. ASSUME Start(g) \/ failExecution(g) \/ EnterNode(g) \/ SettleExecution(g)
          PROVE  ExecutionOf(g) \in Executions
        BY <2>3, BusyGoroutine DEF Start, failExecution, EnterNode, SettleExecution
    <2>4. CASE Start(g) \/ failExecution(g) \/ EnterNode(g) \/ SettleExecution(g)
        BY <2>1, <2>2, <2>3, <2>4 DEF Start, failExecution, EnterNode, SettleExecution
    <2>5. QED
        BY <1>2, <2>4 DEF RunStep, Load, ExecuteNode, RecordNode, FinalizeJob
  <1>3. ASSUME NEW o \in Operators, Operator(o) PROVE Goal
    <2>1. ASSUME opPc[o] # "idle" PROVE opExecution[o] \in Executions /\ opStatus[o] \in ExecutionStatus
        BY <2>1 DEF TypeInv, Linked, TypeOK, OperatorTypes
    <2>2. ASSUME NEW a \in {"open", "acknowledged"}, updateExecutionAttention(o, a) PROVE Goal
        BY <2>1, <2>2 DEF updateExecutionAttention, AttentionStatus
    <2>3. ASSUME NEW j \in Jobs, RequeueFlowExecution(o, j) PROVE Goal
        BY <2>1, <2>3 DEF RequeueFlowExecution
    <2>4. QED
        BY <1>3, <2>2, <2>3 DEF Operator, ReadExecution, RequeueConflict
  <1>4. QED
      BY <1>1, <1>2, <1>3 DEF Next, Claim, BackoffElapses, LeaseExpires, PurgeExpiredRuntimePayloads,
         ClaimNextJob, LockConnection, StoreCallFails, FinalizeFails, Crash, Restart, executionVars, vars

\* Attention is kept beside an actionable outcome and nowhere else: every write of the row
\* normalizes it, whatever copy of the attention a goroutine or a request still holds.
THEOREM AttentionFollows == Spec => []AttentionMatchesStatus
  <1>1. Init => AttentionMatchesStatus
      BY DEF Init, AttentionMatchesStatus, Actionable
  <1>2. TypeInv /\ AttentionMatchesStatus /\ [Next]_vars => AttentionMatchesStatus'
    <2> SUFFICES ASSUME TypeInv, AttentionMatchesStatus, [Next]_vars PROVE AttentionMatchesStatus'
        OBVIOUS
    <2> USE DEF TypeInv, TypeOK, ExecutionTypes, AttentionMatchesStatus
    <2>1. CASE UNCHANGED executionVars
        BY <2>1 DEF executionVars
    <2>2. ASSUME NEW e \in Executions, NEW s \in ExecutionStatus, NEW a \in AttentionStatus,
                 UpdateFlowExecution(e, s, a)
          PROVE  AttentionMatchesStatus'
        BY <2>2 DEF UpdateFlowExecution, normalizeExecutionAttention
    <2>3. ASSUME NEW e \in Executions, status' = [status EXCEPT ![e] = "queued"],
                 \/ status[e] = "absent" /\ UNCHANGED attention
                 \/ attention' = [attention EXCEPT ![e] = "none"]
          PROVE  AttentionMatchesStatus'
        BY <2>3 DEF Actionable
    <2> HIDE DEF TypeInv, AttentionMatchesStatus
    <2>4. QED
        BY <2>1, <2>2, <2>3, RowWrites
  <1>3. QED
      BY <1>1, <1>2, TypeInvInit, TypeInvStep, PTL DEF Spec

-----------------------------------------------------------------------------
(***************************************************************************)
(* Checkpoints.                                                            *)
(***************************************************************************)
\* The locals of a goroutine change by its own steps, by its return and by a crash.
LEMMA OwnSteps ==
  ASSUME TypeInv, [Next]_vars, NEW g \in Goroutines
  PROVE  \/ UNCHANGED <<pc[g], gStatus[g], gNode[g], gResult[g]>>
         \/ pc'[g] = "idle" /\ gNode'[g] = 1
         \/ Claim(g) \/ LockConnection(g) \/ StoreCallFails(g) \/ (RunStep(g) /\ ~FinalizeJob(g))
  <1> USE DEF TypeInv, TypeOK, GoroutineTypes
  <1>1. CASE QuietStep
      BY <1>1 DEF QuietStep, goroutineVars
  <1>2. CASE Crash
      BY <1>2 DEF Crash
  <1>3. ASSUME NEW h \in Goroutines, h # g,
               Claim(h) \/ LockConnection(h) \/ RunStep(h) \/ StoreCallFails(h) \/ FinalizeFails(h)
        PROVE  UNCHANGED <<pc[g], gStatus[g], gNode[g], gResult[g]>>
      BY <1>3 DEF Claim, ClaimNextJob, LockConnection, RunStep, Load, failExecution, Start, EnterNode,
         ExecuteNode, RecordNode, SettleExecution, FinalizeJob, StoreCallFails, FinalizeFails, Return
  <1>4. CASE FinalizeJob(g) \/ FinalizeFails(g)
      BY <1>4 DEF FinalizeJob, FinalizeFails, Return
  <1>5. QED
      BY <1>1, <1>2, <1>3, <1>4, StepKinds

\* Goroutine g writes s to the row of its current node.
NodeWrite(g, s) ==
    /\ nodeStatus' = [nodeStatus EXCEPT ![ExecutionOf(g)][gNode[g]] = s]
    /\ \/ EnterNode(g) /\ ~Checkpointed(g) /\ s = "running"
       \/ RecordNode(g) /\ s = classifyNodeError(gResult[g])

\* Who writes the status of a node.
LEMMA NodeWrites ==
  ASSUME [Next]_vars, nodeStatus' # nodeStatus
  PROVE  \E g \in Goroutines : \E s \in NodeStatus : NodeWrite(g, s)
  <1>1. ASSUME NEW g \in Goroutines, RunStep(g) PROVE \E s \in NodeStatus : NodeWrite(g, s)
    <2>1. CASE EnterNode(g)
        BY <2>1 DEF EnterNode, CreateNodeExecution, NodeWrite, NodeStatus
    <2>2. CASE RecordNode(g)
      <3>1. classifyNodeError(gResult[g]) \in NodeStatus
          BY DEF classifyNodeError, NodeStatus
      <3>2. QED
          BY <2>2, <3>1 DEF RecordNode, UpdateNodeExecution, NodeWrite
    <2>3. QED
        BY <1>1, <2>1, <2>2 DEF RunStep, Load, Start, failExecution, ExecuteNode, SettleExecution, FinalizeJob
  <1>2. QED
      BY <1>1 DEF Next, Claim, AcceptInboundEvent, replayExecution, BackoffElapses, LeaseExpires,
         PurgeExpiredRuntimePayloads, ClaimNextJob, LockConnection, StoreCallFails, FinalizeFails,
         Crash, Restart, Operator, ReadExecution, RequeueFlowExecution, RequeueConflict,
         updateExecutionAttention, vars

\* The attempt a goroutine is about to record is the one it has inserted.
NodeInv ==
    \A g \in Goroutines :
        pc[g] \in {"call", "record"} => nodeStatus[ExecutionOf(g)][gNode[g]] = "running"

\* What a write changes, and where.
LEMMA NodeWriteAt ==
  ASSUME TypeInv, NEW g \in Goroutines, NEW s \in NodeStatus, NodeWrite(g, s)
  PROVE  /\ pc[g] \in {"enter", "record"}
         /\ ExecutionOf(g) \in Executions /\ gNode[g] \in Nodes
         /\ nodeStatus'[ExecutionOf(g)][gNode[g]] = s
         /\ \A e \in Executions, n \in Nodes :
              e # ExecutionOf(g) \/ n # gNode[g] => nodeStatus'[e][n] = nodeStatus[e][n]
  <1>1. pc[g] \in {"enter", "record"}
      BY DEF NodeWrite, EnterNode, RecordNode
  <1>2. ExecutionOf(g) \in Executions /\ gNode[g] \in Nodes
      BY <1>1, BusyGoroutine DEF TypeInv, TypeOK, GoroutineTypes
  <1>3. nodeStatus \in [Executions -> [Nodes -> NodeStatus]]
      BY DEF TypeInv, TypeOK, ExecutionTypes
  <1>4. nodeStatus' = [nodeStatus EXCEPT ![ExecutionOf(g)][gNode[g]] = s]
      BY DEF NodeWrite
  <1>5. QED
      BY <1>1, <1>2, <1>3, <1>4

\* A goroutine in the executor is the only one to write the nodes of its execution.
LEMMA NodeInvStep == TypeInv /\ MutexInv /\ NodeInv /\ [Next]_vars => NodeInv'
  <1> SUFFICES ASSUME TypeInv, MutexInv, NodeInv, [Next]_vars,
                      NEW g \in Goroutines, pc'[g] \in {"call", "record"}
               PROVE  nodeStatus'[ExecutionOf(g)'][gNode'[g]] = "running"
      BY DEF NodeInv
  <1>1. \/ /\ pc'[g] = pc[g] /\ gNode'[g] = gNode[g]
        \/ EnterNode(g) \/ \E r \in NodeOutcomes : ExecuteNode(g, r)
    <2>1. ~Claim(g) /\ ~LockConnection(g) /\ ~StoreCallFails(g)
        BY DEF Claim, ClaimNextJob, LockConnection, StoreCallFails, TypeInv, TypeOK, GoroutineTypes
    <2>2. ~(Load(g) \/ failExecution(g) \/ Start(g) \/ RecordNode(g) \/ SettleExecution(g))
        BY DEF Load, failExecution, Start, RecordNode, SettleExecution, AfterNode,
           TypeInv, TypeOK, GoroutineTypes
    <2>3. QED
        BY <2>1, <2>2, OwnSteps DEF RunStep
  <1>2. pc[g] # "idle" /\ InExecutor(g)
      BY <1>1 DEF EnterNode, ExecuteNode, InExecutor
  <1>3. ExecutionOf(g)' = ExecutionOf(g) /\ ExecutionOf(g) \in Executions
      BY <1>2, RunStays, BusyGoroutine
  <1>4. gNode[g] \in Nodes
      BY DEF TypeInv, TypeOK, GoroutineTypes
  <1>5. CASE EnterNode(g)
    <2>1. /\ gNode' = gNode
          /\ nodeStatus' = [nodeStatus EXCEPT ![ExecutionOf(g)][gNode[g]] = "running"]
        BY <1>5 DEF EnterNode, CreateNodeExecution, AfterNode, TypeInv, TypeOK, GoroutineTypes
    <2>2. nodeStatus \in [Executions -> [Nodes -> NodeStatus]]
        BY DEF TypeInv, TypeOK, ExecutionTypes
    <2>3. QED
        BY <1>3, <1>4, <2>1, <2>2
  <1>6. CASE \E r \in NodeOutcomes : ExecuteNode(g, r)
      BY <1>3, <1>6 DEF ExecuteNode, NodeInv
  <1>7. CASE pc'[g] = pc[g] /\ gNode'[g] = gNode[g] /\ ~EnterNode(g)
    <2>1. nodeStatus[ExecutionOf(g)][gNode[g]] = "running"
        BY <1>7 DEF NodeInv
    <2>2. CASE nodeStatus' = nodeStatus
        BY <1>3, <1>7, <2>1, <2>2
    <2>3. CASE nodeStatus' # nodeStatus
      <3>1. PICK h \in Goroutines, s \in NodeStatus : NodeWrite(h, s)
          BY <2>3, NodeWrites
      <3>2. h # g
          BY <1>7, <3>1 DEF NodeWrite, RecordNode, AfterNode, TypeInv, TypeOK, GoroutineTypes
      <3>3. InExecutor(h)
          BY <3>1, NodeWriteAt DEF InExecutor
      <3>4. ExecutionOf(h) # ExecutionOf(g)
          BY <1>2, <3>2, <3>3, OneExecutor
      <3>5. QED
          BY <1>3, <1>4, <1>7, <2>1, <3>1, <3>4, NodeWriteAt
    <2>4. QED
        BY <2>2, <2>3
  <1>8. QED
      BY <1>1, <1>5, <1>6, <1>7

\* NodeInv holds in every reachable state.
LEMMA NodeInvariant == Spec => [](TypeInv /\ MutexInv /\ NodeInv)
  <1>1. Init => NodeInv
      BY DEF Init, NodeInv
  <1>2. QED
      BY <1>1, NodeInvStep, MutexInvariant, PTL DEF Spec

\* No step takes a success from a connector.
LEMMA CheckpointStays ==
  ASSUME TypeInv, NodeInv, [Next]_vars, NEW e \in Executions, NEW n \in Nodes,
         IsConnector(n), nodeStatus[e][n] = "succeeded"
  PROVE  nodeStatus'[e][n] = "succeeded"
  <1>1. CASE nodeStatus' = nodeStatus
      BY <1>1
  <1>2. CASE nodeStatus' # nodeStatus
    <2>1. PICK g \in Goroutines, s \in NodeStatus : NodeWrite(g, s)
        BY <1>2, NodeWrites
    <2>2. ~(e = ExecutionOf(g) /\ n = gNode[g])
        BY <2>1 DEF NodeWrite, Checkpointed, RecordNode, NodeInv
    <2>3. QED
        BY <2>1, <2>2, NodeWriteAt
  <1>3. QED
      BY <1>1, <1>2

\* The output of a connector that succeeded is the checkpoint, and stays it: through retries,
\* repairs, stale jobs, expired leases and crashes no attempt calls that provider again.
THEOREM CheckpointsStay == Spec => CheckpointIsKept
  <1>1. TypeInv /\ NodeInv /\ [Next]_vars
        => [\A e \in Executions, n \in Nodes :
              IsConnector(n) /\ nodeStatus[e][n] = "succeeded" => nodeStatus'[e][n] = "succeeded"]_nodeStatus
      BY CheckpointStays
  <1>2. QED
      BY <1>1, NodeInvariant, PTL DEF Spec, CheckpointIsKept
-----------------------------------------------------------------------------
(***************************************************************************)
(* A success is checkpointed.                                              *)
(***************************************************************************)
Connectors(e) == \A n \in Nodes : IsConnector(n) => nodeStatus[e][n] = "succeeded"

\* What goroutine g knows of its execution: it starts at the input connector, holds "running"
\* in memory once it runs, is past the input connector only with its checkpoint, and is about
\* to report a success only with both.
RunsInOrder(g) ==
    /\ pc[g] \in {"idle", "claimed", "load", "start"} => gNode[g] = 1
    /\ pc[g] \in {"enter", "call", "record", "settle"} => gStatus[g] = "running"
    /\ pc[g] \in {"enter", "call", "record"} /\ gNode[g] # 1
         => nodeStatus[ExecutionOf(g)][1] = "succeeded"
    /\ pc[g] = "settle" /\ gResult[g] = "ok" => Connectors(ExecutionOf(g))

SuccessInv ==
    /\ SuccessIsCheckpointed
    /\ purged = {}
    /\ \A g \in Goroutines : RunsInOrder(g)
    /\ Acknowledging

\* The connectors' checkpoints stay.
LEMMA ConnectorsStay ==
  ASSUME TypeInv, NodeInv, [Next]_vars, NEW e \in Executions
  PROVE  /\ Connectors(e) => Connectors(e)'
         /\ nodeStatus[e][1] = "succeeded" => nodeStatus'[e][1] = "succeeded"
  <1>1. 1 \in Nodes /\ IsConnector(1)
      BY ConstantsAssumption DEF Nodes, IsConnector
  <1>2. QED
      BY <1>1, CheckpointStays DEF Connectors, IsConnector

\* Every step of a run keeps what the run knows.
LEMMA RunsInOrderStep ==
  ASSUME TypeInv, MutexInv, NodeInv, SuccessInv, [Next]_vars, NEW g \in Goroutines
  PROVE  RunsInOrder(g)'
  <1> DEFINE e == ExecutionOf(g)
  <1> USE DEF TypeInv, TypeOK, GoroutineTypes
  <1>0. pc[g] \in GoroutinePc /\ pc'[g] \in GoroutinePc /\ RunsInOrder(g) /\ gNode[g] \in Nodes
      BY TypeInvStep DEF SuccessInv
  <1>1. 1 \in Nodes /\ NodeCount \in Nodes /\ NodeCount # 1
        /\ \A n \in Nodes : IsConnector(n) => n = 1 \/ n = NodeCount
      BY ConstantsAssumption DEF Nodes, IsConnector
  <1>2. ASSUME pc[g] # "idle"
        PROVE  /\ e \in Executions
               /\ pc'[g] # "idle" => ExecutionOf(g)' = e
      BY <1>2, BusyGoroutine, RunStays
  <1>3. CASE pc'[g] = "idle" /\ gNode'[g] = 1
      BY <1>3 DEF RunsInOrder
  <1>4. CASE UNCHANGED <<pc[g], gStatus[g], gNode[g], gResult[g]>>
    <2>1. CASE pc[g] = "idle"
        BY <1>0, <1>4, <2>1 DEF RunsInOrder
    <2>2. CASE pc[g] # "idle"
        BY <1>0, <1>2, <1>4, <2>2, ConnectorsStay DEF RunsInOrder
    <2>3. QED
        BY <2>1, <2>2
  <1>5. CASE Claim(g) \/ LockConnection(g) \/ Load(g)
      BY <1>0, <1>5 DEF Claim, ClaimNextJob, LockConnection, Load, RunsInOrder
  <1>6. CASE StoreCallFails(g) \/ failExecution(g) \/ SettleExecution(g)
      BY <1>0, <1>6 DEF StoreCallFails, failExecution, SettleExecution, RunsInOrder
  <1>7. CASE Start(g)
      BY <1>0, <1>7 DEF Start, RunsInOrder
  <1>8. CASE \E r \in NodeOutcomes : ExecuteNode(g, r)
      BY <1>0, <1>2, <1>8 DEF ExecuteNode, RunsInOrder
  <1>9. CASE EnterNode(g)
    <2>1. PropagatedFrom(g) = gNode[g]
        BY DEF PropagatedFrom, SuccessInv
    <2>2. pc[g] = "enter" /\ gStatus'[g] = "running" /\ e \in Executions
        BY <1>0, <1>2, <1>9 DEF EnterNode, RunsInOrder
    <2>3. CASE Checkpointed(g)
      <3>1. /\ nodeStatus' = nodeStatus
            /\ pc'[g] = AfterNode(gNode[g])
            /\ gNode'[g] = FollowingNode(gNode[g])
            /\ gResult'[g] = ResultAfter(gNode[g])
          BY <1>9, <2>1, <2>3 DEF EnterNode
      <3>2. nodeStatus[e][gNode[g]] = "succeeded" /\ nodeStatus[e][1] = "succeeded"
          BY <1>0, <1>1, <2>2, <2>3 DEF Checkpointed, RunsInOrder
      <3>3. ExecutionOf(g)' = e
          BY <1>2, <2>2, <3>1 DEF AfterNode
      <3>4. gNode[g] = NodeCount => Connectors(e)'
          BY <1>1, <3>1, <3>2, <3>3 DEF Connectors
      <3>5. QED
          BY <2>2, <3>1, <3>2, <3>3, <3>4 DEF RunsInOrder, AfterNode
    <2>4. CASE ~Checkpointed(g)
      <3>1. pc'[g] = "call" /\ gNode'[g] = gNode[g]
          BY <1>9, <2>4 DEF EnterNode
      <3>2. gNode[g] # 1 => nodeStatus'[e][1] = "succeeded"
          BY <1>0, <2>2, ConnectorsStay DEF RunsInOrder
      <3>3. QED
          BY <1>2, <2>2, <3>1, <3>2 DEF RunsInOrder
    <2>5. QED
        BY <2>3, <2>4
  <1>10. CASE RecordNode(g)
    <2>1. pc[g] = "record" /\ gStatus'[g] = "running" /\ e \in Executions
        BY <1>0, <1>2, <1>10 DEF RecordNode, RunsInOrder
    <2>2. CASE gResult[g] = "ok"
      <3>1. /\ pc'[g] = AfterNode(gNode[g])
            /\ gNode'[g] = FollowingNode(gNode[g])
            /\ gResult'[g] = ResultAfter(gNode[g])
          BY <1>10, <2>2 DEF RecordNode
      <3>2. nodeStatus'[e][gNode[g]] = "succeeded"
        <4>1. NodeWrite(g, "succeeded") /\ "succeeded" \in NodeStatus
            BY <1>10, <2>2 DEF RecordNode, UpdateNodeExecution, NodeWrite, classifyNodeError, NodeStatus
        <4>2. QED
            BY <4>1, NodeWriteAt
      <3>3. nodeStatus'[e][1] = "succeeded"
          BY <1>0, <2>1, <3>2, ConnectorsStay DEF RunsInOrder
      <3>4. ExecutionOf(g)' = e
          BY <1>2, <2>1, <3>1 DEF AfterNode
      <3>5. gNode[g] = NodeCount => Connectors(e)'
          BY <1>1, <3>2, <3>3, <3>4 DEF Connectors
      <3>6. QED
          BY <2>1, <3>1, <3>3, <3>4, <3>5 DEF RunsInOrder, AfterNode
    <2>3. CASE gResult[g] # "ok"
        BY <1>10, <2>1, <2>3 DEF RecordNode, RunsInOrder
    <2>4. QED
        BY <2>2, <2>3
  <1>11. QED
      BY <1>3, <1>4, <1>5, <1>6, <1>7, <1>8, <1>9, <1>10, OwnSteps DEF RunStep

\* A status of "succeeded" is written only by the run whose connectors have succeeded.
LEMMA SuccessStep ==
  ASSUME TypeInv, MutexInv, NodeInv, SuccessInv, [Next]_vars
  PROVE  SuccessIsCheckpointed'
  <1> SUFFICES ASSUME NEW e \in Executions, status'[e] = "succeeded" PROVE Connectors(e)'
      BY DEF SuccessIsCheckpointed, Connectors
  <1>1. CASE status'[e] = status[e]
      BY <1>1, ConnectorsStay DEF SuccessInv, SuccessIsCheckpointed, Connectors
  <1>2. CASE status'[e] # status[e]
    <2>1. ASSUME NEW g \in Goroutines, ExecutorWrites(g, e) PROVE Connectors(e)'
      <3>1. RunsInOrder(g)
          BY DEF SuccessInv
      <3>2. pc[g] = "settle" /\ pc'[g] = "finalize"
          BY <2>1, <3>1 DEF ExecutorWrites, RunsInOrder
      <3>3. SettleExecution(g)
          BY <1>2, <3>2, OwnSteps DEF Claim, ClaimNextJob, LockConnection, StoreCallFails, RunStep, Load,
             Start, failExecution, EnterNode, ExecuteNode, RecordNode, executionVars, TypeInv, TypeOK, GoroutineTypes
      <3>4. gResult[g] = "ok"
          BY <2>1, <3>3 DEF SettleExecution, UpdateFlowExecution, ExecutionOutcome, classifyNodeError,
             ExecutorWrites, TypeInv, TypeOK, ExecutionTypes
      <3>5. QED
          BY <2>1, <3>1, <3>2, <3>4, ConnectorsStay DEF RunsInOrder, ExecutorWrites
    <2>2. ~Queued(e)
        BY DEF Queued
    <2>3. ASSUME NEW o \in Operators, opPc[o] = "attention", status'[e] = opStatus[o] PROVE FALSE
        BY <2>3 DEF SuccessInv, Acknowledging, Actionable
    <2>4. QED
        BY <1>2, <2>1, <2>2, <2>3, StatusWrites
  <1>3. QED
      BY <1>1, <1>2

\* SuccessInv holds in every reachable state.
LEMMA SuccessInvariant ==
  ASSUME ~RetentionEnds
  PROVE  Spec => [](TypeInv /\ MutexInv /\ NodeInv /\ SuccessInv)
  <1>1. Init => SuccessInv
      BY DEF Init, SuccessInv, SuccessIsCheckpointed, RunsInOrder, Acknowledging
  <1>2. TypeInv /\ MutexInv /\ NodeInv /\ SuccessInv /\ [Next]_vars => SuccessInv'
    <2> SUFFICES ASSUME TypeInv, MutexInv, NodeInv, SuccessInv, [Next]_vars PROVE SuccessInv'
        OBVIOUS
    <2>1. purged' = purged
        BY DEF Next, Claim, RunStep, AcceptInboundEvent, replayExecution, BackoffElapses, LeaseExpires,
           PurgeExpiredRuntimePayloads, ClaimNextJob, LockConnection, Load, failExecution, Start,
           EnterNode, ExecuteNode, RecordNode, SettleExecution, FinalizeJob, StoreCallFails,
           FinalizeFails, Crash, Restart, Operator, ReadExecution, RequeueFlowExecution,
           RequeueConflict, updateExecutionAttention, vars
    <2>2. \A g \in Goroutines : RunsInOrder(g)'
        BY RunsInOrderStep
    <2>3. Acknowledging'
        BY AcknowledgingStep DEF SuccessInv
    <2>4. QED
        BY <2>1, <2>2, <2>3, SuccessStep DEF SuccessInv
  <1>3. QED
      BY <1>1, <1>2, NodeInvariant, PTL DEF Spec

\* While checkpoints are retained, an execution is reported as succeeded only when the
\* checkpoints of its input and of its output connector say so: through retries, repairs,
\* acknowledgements, stale jobs, failing database calls and crashes.
THEOREM SuccessesAreCheckpointed == ~RetentionEnds => (Spec => []SuccessIsCheckpointed)
  <1> SUFFICES ASSUME ~RetentionEnds PROVE Spec => []SuccessIsCheckpointed
      OBVIOUS
  <1>1. SuccessInv => SuccessIsCheckpointed
      BY DEF SuccessInv
  <1>2. QED
      BY <1>1, SuccessInvariant, PTL
-----------------------------------------------------------------------------
(***************************************************************************)
(* The runtime implements the ledger.                                      *)
(***************************************************************************)
\* An execution with a row has been accepted.
RowInv == \A j \in Jobs : jobStatus[j] # "absent" => status[jobExecution[j]] # "absent"

\* No status is taken back, and a new row comes with a status.
LEMMA RowInvStep == TypeInv /\ RunInv /\ RowInv /\ [Next]_vars => RowInv'
  <1> SUFFICES ASSUME TypeInv, RunInv, RowInv, [Next]_vars,
                      NEW j \in Jobs, jobStatus'[j] # "absent"
               PROVE  status'[jobExecution'[j]] # "absent"
      BY DEF RowInv
  <1>1. ASSUME NEW e \in Executions, status[e] # "absent" PROVE status'[e] # "absent"
      BY <1>1, StatusWrites DEF RunInv, Queued, ExecutorWrites, InRun, Final, Actionable
  <1>2. CASE jobStatus[j] # "absent"
      BY <1>1, <1>2, RowsStay DEF RowInv, TypeInv, Linked
  <1>3. CASE jobStatus[j] = "absent"
    <2>1. ASSUME NEW e \in Executions, NEW i \in Jobs, NEW kind \in JobKind, insertJob(i, e, kind),
                 status' = [status EXCEPT ![e] = "queued"]
          PROVE  status'[jobExecution'[j]] # "absent"
        BY <1>3, <2>1, InsertedJob DEF TypeInv, TypeOK, ExecutionTypes
    <2>2. ASSUME NEW e \in Executions, NEW f \in Executions, NEW i \in Jobs,
                 AcceptInboundEvent(e, i) \/ replayExecution(f, e, i)
          PROVE  status'[jobExecution'[j]] # "absent"
        BY <2>1, <2>2 DEF AcceptInboundEvent, replayExecution, CreateFlowExecutionAndEnqueue, JobKind
    <2>3. ASSUME NEW o \in Operators, NEW i \in Jobs, RequeueFlowExecution(o, i)
          PROVE  status'[jobExecution'[j]] # "absent"
      <3>1. opExecution[o] \in Executions
          BY <2>3 DEF RequeueFlowExecution, TypeInv, Linked
      <3>2. QED
          BY <2>1, <2>3, <3>1 DEF RequeueFlowExecution, JobKind
    <2>4. ASSUME NEW g \in Goroutines, NEW i \in Jobs, ClaimNextJob(g, i) PROVE FALSE
        BY <1>3, <2>4 DEF ClaimNextJob, FirstClaimable, Claimable, TypeInv, TypeOK, JobTypes
    <2>5. ASSUME NEW g \in Goroutines, FinalizeJob(g) PROVE FALSE
      <3>1. gJob[g] \in Jobs /\ jobStatus[gJob[g]] # "absent"
          BY <2>5 DEF FinalizeJob, TypeInv, Linked
      <3>2. QED
          BY <1>3, <2>5, <3>1 DEF FinalizeJob, CompleteJob, FailJob, ReleaseJob, jobVars,
             TypeInv, TypeOK, JobTypes
    <2>6. ~UNCHANGED jobStatus
        BY <1>3
    <2>7. QED
        BY <2>2, <2>3, <2>4, <2>5, <2>6 DEF Next, Claim, RunStep, BackoffElapses, LeaseExpires,
           PurgeExpiredRuntimePayloads, LockConnection, Load, failExecution, Start, EnterNode,
           ExecuteNode, RecordNode, SettleExecution, StoreCallFails, FinalizeFails, Crash, Restart,
           Operator, ReadExecution, RequeueConflict, updateExecutionAttention, jobVars, vars
  <1>4. QED
      BY <1>2, <1>3

LedgerStep == Ledger!Next \/ UNCHANGED Ledger!ledgerVars

\* Rows that live on keep their executions pending.
LEMMA SamePending ==
  ASSUME UNCHANGED jobExecution, \A j \in Jobs : LiveJob(j)' <=> LiveJob(j)
  PROVE  Pending' = Pending
  BY DEF Pending

\* A new row makes its execution pending.
LEMMA MorePending ==
  ASSUME TypeInv, NEW e \in Executions, NEW j \in Jobs, NEW kind \in JobKind, insertJob(j, e, kind)
  PROVE  Pending' = Pending \cup {e}
  <1>1. LiveJob(j)' /\ ~LiveJob(j) /\ jobExecution'[j] = e
      BY InsertedJob DEF LiveJob
  <1>2. \A i \in Jobs : i # j => (LiveJob(i)' <=> LiveJob(i)) /\ jobExecution'[i] = jobExecution[i]
      BY InsertedJob DEF LiveJob
  <1>3. QED
      BY <1>1, <1>2 DEF Pending

\* The executor writes the outcome of work that is pending and not final.
LEMMA ExecutorRecords ==
  ASSUME TypeInv, Leased, RunInv, RowInv, NEW g \in Goroutines, pc[g] \in InRun,
         UNCHANGED jobVars,
         NEW s \in {"running"} \cup Final \cup Actionable, NEW a, UpdateFlowExecution(ExecutionOf(g), s, a)
  PROVE  LedgerStep
  <1> DEFINE e == ExecutionOf(g)
  <1>1. e \in Executions /\ gJob[g] \in Jobs /\ pc[g] # "idle"
      BY BusyGoroutine DEF InRun
  <1>2. LiveJob(gJob[g])
      BY <1>1 DEF Leased, LiveJob
  <1>3. e \in Pending
      BY <1>1, <1>2 DEF Pending, ExecutionOf
  <1>4. status[e] \in {"queued", "running"} \cup Ledger!Retryable
    <2>1. status[e] \notin Final
        BY DEF RunInv
    <2>2. status[e] # "absent"
        BY <1>1, <1>2 DEF RowInv, LiveJob, ExecutionOf
    <2>3. QED
        BY <1>1, <2>1, <2>2 DEF TypeInv, TypeOK, ExecutionTypes, ExecutionStatus, Actionable, Ledger!Retryable
  <1>5. Pending' = Pending
      BY SamePending DEF jobVars, LiveJob
  <1>6. status' = [status EXCEPT ![e] = s]
      BY DEF UpdateFlowExecution
  <1> HIDE DEF e
  <1>7. CASE s = "running"
      BY <1>1, <1>3, <1>4, <1>5, <1>6, <1>7 DEF LedgerStep, Ledger!Next, Ledger!Begin
  <1>8. CASE s \in Final \cup Actionable
    <2>1. s \in Ledger!Settled \cup Ledger!Retryable
        BY <1>8 DEF Final, Actionable, Ledger!Settled, Ledger!Retryable
    <2>2. QED
        BY <1>1, <1>3, <1>4, <1>5, <1>6, <2>1 DEF LedgerStep, Ledger!Next, Ledger!Record
  <1>9. QED
      BY <1>7, <1>8

\* A job that ends drops its execution's work, unless another job of it lives.
LEMMA FinalizeDrops ==
  ASSUME TypeInv, Leased, StrandedInv, RowInv, NEW g \in Goroutines, FinalizeJob(g)
  PROVE  LedgerStep
  <1>1. pc[g] = "finalize" /\ ExecutionOf(g) \in Executions /\ gJob[g] \in Jobs
      BY BusyGoroutine DEF FinalizeJob
  <1>2. PICK j \in Jobs, e \in Executions : j = gJob[g] /\ e = ExecutionOf(g)
      BY <1>1
  <1>3. jobExecution[j] = e /\ LiveJob(j)
      BY <1>1, <1>2 DEF ExecutionOf, Leased, LiveJob
  <1>4. UNCHANGED <<status, jobExecution>> /\ \A i \in Jobs : i # j => jobStatus'[i] = jobStatus[i]
      BY <1>2 DEF FinalizeJob, CompleteJob, FailJob, ReleaseJob, jobVars, executionVars,
         TypeInv, TypeOK, JobTypes
  <1>5. \A i \in Jobs : i # j => (LiveJob(i)' <=> LiveJob(i))
      BY <1>4 DEF LiveJob
  <1>6. OtherJob(g) <=> \E i \in Jobs : i # j /\ jobExecution[i] = e /\ LiveJob(i)
      BY <1>2 DEF OtherJob
  <1>7. CASE LiveJob(j)'
    <2>1. Pending' = Pending
        BY <1>3, <1>4, <1>5, <1>7, SamePending
    <2>2. QED
        BY <1>4, <2>1 DEF LedgerStep, Ledger!ledgerVars
  <1>8. CASE ~LiveJob(j)' /\ OtherJob(g)
    <2>1. Pending' = Pending
        BY <1>3, <1>4, <1>5, <1>6, <1>8 DEF Pending
    <2>2. QED
        BY <1>4, <2>1 DEF LedgerStep, Ledger!ledgerVars
  <1>9. CASE ~LiveJob(j)' /\ ~OtherJob(g)
    <2>1. Pending' = Pending \ {e}
        BY <1>3, <1>4, <1>5, <1>6, <1>9 DEF Pending
    <2>2. status[e] \notin {"queued", "running"}
        BY <1>1, <1>2, <1>9 DEF StrandedInv
    <2>3. status[e] # "absent"
        BY <1>3 DEF RowInv, LiveJob
    <2>4. status[e] \in Ledger!Settled \cup Ledger!Retryable
        BY <2>2, <2>3 DEF TypeInv, TypeOK, ExecutionTypes, ExecutionStatus, Final, Actionable,
           Ledger!Settled, Ledger!Retryable
    <2>5. QED
        BY <1>4, <2>1, <2>4 DEF LedgerStep, Ledger!Next, Ledger!Drop
  <1>10. QED
      BY <1>7, <1>8, <1>9

\* Every step of the runtime is a step of the ledger, or leaves it alone.
LEMMA EveryLedgerStep ==
  ASSUME TypeInv, Leased, RunInv, StrandedInv, RowInv, [Next]_vars
  PROVE  LedgerStep
  <1>1. ASSUME NEW e \in Executions, NEW j \in Jobs, NEW kind \in JobKind, insertJob(j, e, kind),
               status[e] \in {"absent"} \cup Actionable, status' = [status EXCEPT ![e] = "queued"]
        PROVE  LedgerStep
      BY <1>1, MorePending DEF LedgerStep, Ledger!Next, Ledger!Submit, Ledger!Reopen,
         Ledger!Retryable, Actionable
  <1>2. ASSUME NEW e \in Executions, NEW f \in Executions, NEW j \in Jobs,
               AcceptInboundEvent(e, j) \/ replayExecution(f, e, j)
        PROVE  LedgerStep
      BY <1>1, <1>2 DEF AcceptInboundEvent, replayExecution, CreateFlowExecutionAndEnqueue, JobKind
  <1>3. ASSUME NEW o \in Operators, NEW j \in Jobs, RequeueFlowExecution(o, j) PROVE LedgerStep
    <2>1. opExecution[o] \in Executions
        BY <1>3 DEF RequeueFlowExecution, TypeInv, Linked
    <2>2. QED
        BY <1>1, <1>3, <2>1 DEF RequeueFlowExecution, JobKind
  <1>4. ASSUME NEW g \in Goroutines, NEW j \in Jobs, ClaimNextJob(g, j) PROVE LedgerStep
    <2>1. \A i \in Jobs : LiveJob(i)' <=> LiveJob(i)
        BY <1>4 DEF ClaimNextJob, FirstClaimable, Claimable, LiveJob, TypeInv, TypeOK, JobTypes
    <2>2. Pending' = Pending
        BY <1>4, <2>1, SamePending DEF ClaimNextJob
    <2>3. QED
        BY <1>4, <2>2 DEF ClaimNextJob, executionVars, LedgerStep, Ledger!ledgerVars
  <1>5. ASSUME NEW g \in Goroutines, Start(g) \/ failExecution(g) \/ EnterNode(g) \/ SettleExecution(g),
               ~UNCHANGED executionVars
        PROVE  LedgerStep
    <2>1. pc[g] \in InRun /\ UNCHANGED jobVars
        BY <1>5 DEF Start, failExecution, EnterNode, SettleExecution, InRun
    <2>2. ExecutionOutcome(gResult[g]) \in Final \cup Actionable
        BY DEF ExecutionOutcome, classifyNodeError, Final, Actionable
    <2>3. EnterNode(g) => gStatus[g] = "running"
        BY DEF EnterNode, RunInv, InRun
    <2>4. \E s \in {"running"} \cup Final \cup Actionable : \E a : UpdateFlowExecution(ExecutionOf(g), s, a)
        BY <1>5, <2>2, <2>3 DEF Start, failExecution, EnterNode, SettleExecution, Actionable
    <2>5. QED
        BY <2>1, <2>4, ExecutorRecords
  <1>6. CASE UNCHANGED <<jobStatus, jobExecution, status>>
    <2>1. Pending' = Pending
        BY <1>6, SamePending DEF LiveJob
    <2>2. QED
        BY <1>6, <2>1 DEF LedgerStep, Ledger!ledgerVars
  <1>7. ASSUME NEW g \in Goroutines, RunStep(g) PROVE LedgerStep
    <2>1. CASE Start(g) \/ failExecution(g) \/ EnterNode(g) \/ SettleExecution(g)
        BY <1>5, <1>6, <2>1 DEF Start, failExecution, EnterNode, SettleExecution, jobVars, executionVars
    <2>2. QED
        BY <1>6, <1>7, <2>1, FinalizeDrops DEF RunStep, Load, ExecuteNode, RecordNode, jobVars, executionVars
  <1>8. ASSUME NEW o \in Operators, Operator(o) PROVE LedgerStep
      BY <1>3, <1>6, <1>8 DEF Operator, ReadExecution, RequeueConflict, updateExecutionAttention, RunInv,
         jobVars, executionVars
  <1>9. CASE \/ Crash \/ Restart \/ UNCHANGED vars
             \/ \E j \in Jobs : BackoffElapses(j) \/ LeaseExpires(j)
             \/ \E e \in Executions : PurgeExpiredRuntimePayloads(e)
             \/ \E g \in Goroutines : LockConnection(g) \/ StoreCallFails(g) \/ FinalizeFails(g)
      BY <1>6, <1>9 DEF Crash, Restart, BackoffElapses, LeaseExpires, PurgeExpiredRuntimePayloads,
         LockConnection, StoreCallFails, FinalizeFails, jobVars, executionVars, vars
  <1>10. QED
      BY <1>2, <1>4, <1>7, <1>8, <1>9 DEF Next, Claim

\* The queue, the workers and the operators' retries implement the ledger: an outcome is
\* written only while work is pending, work is dropped only once an outcome is on record, and
\* a final outcome stands, whatever crashes, as long as runs are shorter than leases, the
\* executor's database calls succeed and nobody acknowledges.
THEOREM RuntimeImplementsLedger ==
  ~SlowRuns /\ ~StoreErrors /\ "attention" \notin OperatorActions => (Spec => ImplementsLedger)
  <1> SUFFICES ASSUME ~SlowRuns, ~StoreErrors, "attention" \notin OperatorActions
               PROVE  Spec => ImplementsLedger
      OBVIOUS
  <1>1. Init => RowInv
      BY DEF Init, RowInv
  <1>2. Init => Ledger!Init
      BY DEF Init, Ledger!Init, Pending, LiveJob
  <1>3. TypeInv /\ Leased /\ RunInv /\ StrandedInv /\ RowInv /\ [Next]_vars
        => [Ledger!Next]_(Ledger!ledgerVars)
      BY EveryLedgerStep DEF LedgerStep
  <1>4. Spec => [](TypeInv /\ Leased /\ RunInv /\ StrandedInv)
      BY StrandedInvariant, RunInvariant, PTL
  <1>5. Spec => []RowInv
      BY <1>1, <1>4, RowInvStep, PTL DEF Spec
  <1>6. QED
      BY <1>2, <1>3, <1>4, <1>5, PTL DEF Spec, ImplementsLedger, Ledger!Spec
=============================================================================
