----------------------- MODULE IssueProjectionProofs -----------------------
(***************************************************************************)
(* Theorems about IssueProjection, for every set of Flows, changes and     *)
(* executions, and every number of issues, attempts, retries and crashes.  *)
(***************************************************************************)
EXTENDS IssueProjection, TLAPS

Creating == {"create", "reconcile", "upsert"}
Completing == {"list", "status", "mark", "note", "close"}

\* Which executions are at which steps.
Framed ==
    /\ step = "idle" <=> run = NoExecution
    /\ step \in Creating \cup {"lookup"} => run \in Publishes
    /\ step \in Completing => run \in Completes \cup Abandons

\* A correlation names an issue with the card of its Flow and change.
Correlates == \A k \in Keys : correlation[k] # "absent" => target[k] \in Matches(k)

\* createIssue goes on only while the run's correlation is missing, and upserts an issue of
\* the Flow's own card.
CreatesOnce ==
    /\ step \in Creating => correlation[Key] = "absent"
    /\ step = "upsert" => result \in Matches(Key)
    /\ step = "record" /\ run \in Publishes => correlation[Key] # "absent"

\* The projections of the run's change that are still active.
StillActive == {k \in KeysOf(ChangeOf[run]) : correlation[k] = "active"}

\* completeIssue has all active projections still to do, and none left when it goes on to
\* the GitLab Issue.
CompletesAll ==
    /\ step \in {"status", "mark"} => todo = StillActive
    /\ step = "mark" => current \in todo /\ issueStatus[target[current]] = DesiredStatus(run)
    /\ step \in {"note", "close"} => StillActive = {}

ProjectionInv ==
    ProjectionTypeOK /\ Framed /\ Correlates /\ CreatesOnce /\ CompletesAll /\ SuccessIsCorrelated

USE DEF executionVars, correlationVars, multicaVars, gitlabVars, runVars, boundVars, Creating

\* The run of a publication has a key.
LEMMA KeyOfRun == run \in Publishes => Key \in Keys
  BY ProjectionAssumption DEF Key, Keys, Executions

\* The status a completion asks for is terminal.
LEMMA DesiredIsTerminal == \A x : DesiredStatus(x) \in Terminal
  BY DEF DesiredStatus, Terminal

\* Empty tables and an idle mutex satisfy the invariant.
LEMMA ProjectionInvInit == Init => ProjectionInv
  <1> SUFFICES ASSUME Init PROVE ProjectionInv
      OBVIOUS
  <1>1. 0 \in 0 .. MaxIssues /\ 0 \in 0 .. MaxAttempts /\ 0 \in 0 .. MaxRetries /\ 0 \in 0 .. MaxCrashes
      BY ProjectionAssumption
  <1>2. ProjectionTypeOK
      BY <1>1 DEF Init, ProjectionTypeOK
  <1>3. Framed /\ CreatesOnce /\ CompletesAll
      BY ProjectionAssumption DEF Init, Framed, CreatesOnce, CompletesAll, Completing, Executions
  <1>4. Correlates /\ SuccessIsCorrelated
      BY DEF Init, Correlates, SuccessIsCorrelated, Executions
  <1>5. QED
      BY <1>2, <1>3, <1>4 DEF ProjectionInv

-----------------------------------------------------------------------------
(***************************************************************************)
(* Types.                                                                  *)
(***************************************************************************)
\* The locals a run leaves behind, or goes on to record with, are well typed.
RunTypes ==
    /\ run \in Executions \cup {NoExecution}
    /\ step \in {"idle", "lookup", "create", "reconcile", "upsert", "list", "status", "mark",
                 "note", "close", "record"}
    /\ result \in 0 .. MaxIssues
    /\ retryable \in BOOLEAN
    /\ todo \subseteq Keys
    /\ current \in Keys \cup {NoKey}

LEMMA LeaveTypes == Leave => RunTypes'
  <1>1. 0 \in 0 .. MaxIssues
      BY ProjectionAssumption
  <1>2. QED
      BY <1>1 DEF Leave, RunTypes

LEMMA SucceedTypes == ProjectionTypeOK /\ Succeed => RunTypes' /\ UNCHANGED <<executionVars, boundVars>>
  <1>1. 0 \in 0 .. MaxIssues
      BY ProjectionAssumption
  <1>2. QED
      BY <1>1 DEF Succeed, RunTypes, ProjectionTypeOK

LEMMA FailTypes ==
  ASSUME ProjectionTypeOK, NEW retry \in BOOLEAN, Fail(retry)
  PROVE  /\ RunTypes' /\ UNCHANGED <<attempt, boundVars>>
         /\ state' \in [Executions -> {"queued", "succeeded", "actionable", "stranded"}]
  BY LeaveTypes DEF Fail, ProjectionTypeOK

\* Every action keeps the types of the tables, of the issues and of the run.
LEMMA ProjectionTypeStep == ProjectionInv /\ [Next]_vars => ProjectionTypeOK'
  <1> SUFFICES ASSUME ProjectionInv, [Next]_vars PROVE ProjectionTypeOK'
      OBVIOUS
  <1> USE DEF ProjectionInv
  <1>1. ASSUME NEW x \in Executions, Begin(x) PROVE ProjectionTypeOK'
    <2>1. RunTypes'
        BY <1>1 DEF Begin, RunTypes, ProjectionTypeOK
    <2>2. attempt' \in [Executions -> 0 .. MaxAttempts]
        BY <1>1, ProjectionAssumption DEF Begin, ProjectionTypeOK
    <2>3. QED
        BY <1>1, <2>1, <2>2 DEF Begin, RunTypes, ProjectionTypeOK
  <1>2. ASSUME NEW x \in Executions, OperatorRetry(x) PROVE ProjectionTypeOK'
      BY <1>2, ProjectionAssumption DEF OperatorRetry, ProjectionTypeOK
  <1>3. CASE RecordSuccess \/ RecordFails
      BY <1>3, LeaveTypes DEF RecordSuccess, RecordFails, RunTypes, ProjectionTypeOK
  <1>4. CASE Crash
      BY <1>4, LeaveTypes, ProjectionAssumption DEF Crash, RunTypes, ProjectionTypeOK
  <1>5. CASE StoreCallFails \/ CreateIssueRefused \/ reconcileFails
      BY <1>5, FailTypes DEF StoreCallFails, CreateIssueRefused, reconcileFails, RunTypes, ProjectionTypeOK
  <1>6. CASE GetCorrelation
      BY <1>6, SucceedTypes DEF GetCorrelation, RunTypes, ProjectionTypeOK
  <1>7. ASSUME NEW i \in Issues, StoreIssue(i), run \in Publishes
        PROVE  /\ issueOwner' \in [Issues -> Keys \cup {NoKey}]
               /\ issueStatus' \in [Issues -> {"absent", "backlog"} \cup Terminal]
      BY <1>7, KeyOfRun DEF StoreIssue, ProjectionTypeOK
  <1>8. ASSUME NEW retry \in BOOLEAN, Uncertain(retry)
        PROVE  RunTypes' /\ UNCHANGED <<executionVars, correlationVars, gitlabVars, boundVars>>
      BY <1>8 DEF Uncertain, RunTypes, ProjectionTypeOK
  <1>9. ASSUME NEW retry \in BOOLEAN, CreateIssueDuplicate \/ CreateIssueDropped(retry)
        PROVE  ProjectionTypeOK'
      BY <1>8, <1>9 DEF CreateIssueDuplicate, CreateIssueDropped, RunTypes, ProjectionTypeOK
  <1>10. ASSUME NEW retry \in BOOLEAN, NEW i \in Issues, CreateIssueLost(i, retry) PROVE ProjectionTypeOK'
      BY <1>7, <1>8, <1>10 DEF CreateIssueLost, Framed, RunTypes, ProjectionTypeOK
  <1>11. ASSUME NEW i \in Issues, CreateIssue(i) PROVE ProjectionTypeOK'
      BY <1>7, <1>11 DEF CreateIssue, Framed, Issues, ProjectionTypeOK
  <1>12. ASSUME NEW i \in Issues, reconcileIssueCreate(i) PROVE ProjectionTypeOK'
      BY <1>12 DEF reconcileIssueCreate, Issues, ProjectionTypeOK
  <1>13. CASE UpsertCorrelation
    <2>1. Key \in Keys
        BY <1>13, KeyOfRun DEF UpsertCorrelation, Framed
    <2>2. correlation' \in [Keys -> {"absent", "active"} \cup Terminal] /\ target' \in [Keys -> 0 .. MaxIssues]
        BY <1>13, <2>1 DEF UpsertCorrelation, ProjectionTypeOK
    <2>3. QED
        BY <1>13, <2>2, SucceedTypes, FailTypes DEF UpsertCorrelation, RunTypes, ProjectionTypeOK
  <1>14. CASE ListCorrelations
    <2>1. Active \subseteq Keys
        BY DEF Active, Correlated, KeysOf
    <2>2. CASE Correlated = {}
        BY <1>14, <2>2, FailTypes DEF ListCorrelations, RunTypes, ProjectionTypeOK
    <2>3. CASE Correlated # {} /\ Active = {}
        BY <1>14, <2>3, SucceedTypes DEF ListCorrelations, RunTypes, ProjectionTypeOK
    <2>4. CASE Correlated # {} /\ Active # {}
        BY <1>14, <2>1, <2>4 DEF ListCorrelations, ProjectionTypeOK
    <2>5. QED
        BY <2>2, <2>3, <2>4
  <1>15. ASSUME NEW k \in Keys, SetIssueStatus(k) PROVE ProjectionTypeOK'
      BY <1>15, DesiredIsTerminal DEF SetIssueStatus, ProjectionTypeOK
  <1>16. ASSUME NEW k \in Keys, NEW retry \in BOOLEAN, SetIssueStatusFails(k, retry) PROVE ProjectionTypeOK'
    <2>1. issueStatus' \in [Issues -> {"absent", "backlog"} \cup Terminal]
        BY <1>16, DesiredIsTerminal DEF SetIssueStatusFails, ProjectionTypeOK
    <2>2. QED
        BY <1>16, <2>1, FailTypes DEF SetIssueStatusFails, RunTypes, ProjectionTypeOK
  <1>17. CASE MarkCorrelationLifecycle
    <2>1. correlation' \in [Keys -> {"absent", "active"} \cup Terminal]
        BY <1>17, DesiredIsTerminal DEF MarkCorrelationLifecycle, ProjectionTypeOK
    <2>2. AfterProjections \in {"succeed", "note", "close"}
        BY DEF AfterProjections
    <2>3. \/ Fail(FALSE) \/ Succeed
          \/ /\ step' \in {"note", "close", "status"} /\ todo' = todo \ {current} /\ current' = NoKey
             /\ UNCHANGED <<executionVars, run, result, retryable, boundVars>>
        BY <1>17, <2>2 DEF MarkCorrelationLifecycle
    <2>4. /\ RunTypes' /\ UNCHANGED <<attempt, boundVars>>
          /\ state' \in [Executions -> {"queued", "succeeded", "actionable", "stranded"}]
        BY <2>3, FailTypes, SucceedTypes DEF RunTypes, ProjectionTypeOK
    <2>5. QED
        BY <1>17, <2>1, <2>4 DEF MarkCorrelationLifecycle, RunTypes, ProjectionTypeOK
  <1>18. ASSUME run \in Executions PROVE ChangeOf[run] \in Changes
      BY <1>18, ProjectionAssumption
  <1>19. CASE NoteIssue
      BY <1>18, <1>19 DEF NoteIssue, Framed, Completing, Executions, ProjectionTypeOK
  <1>20. CASE CloseIssue
      BY <1>20, SucceedTypes DEF CloseIssue, RunTypes, ProjectionTypeOK
  <1>21. ASSUME NEW retry \in BOOLEAN, CloseIssueFails(retry) PROVE ProjectionTypeOK'
      BY <1>21, FailTypes DEF CloseIssueFails, RunTypes, ProjectionTypeOK
  <1>22. CASE UNCHANGED vars
      BY <1>22 DEF vars, ProjectionTypeOK
  <1>23. QED
      BY <1>1, <1>2, <1>3, <1>4, <1>5, <1>6, <1>9, <1>10, <1>11, <1>12, <1>13, <1>14, <1>15, <1>16,
         <1>17, <1>19, <1>20, <1>21, <1>22 DEF Next

-----------------------------------------------------------------------------
(***************************************************************************)
(* What the steps of a run do to the tables and to the issues.             *)
(***************************************************************************)
\* An issue keeps the Flow and the change it was created for.
LEMMA IssuesStay ==
  ASSUME ProjectionInv, [Next]_vars, NEW i \in Issues, issueOwner[i] # NoKey
  PROVE  issueOwner'[i] = issueOwner[i]
  <1>1. ASSUME NEW j \in Issues, StoreIssue(j) PROVE issueOwner'[i] = issueOwner[i]
      BY <1>1 DEF StoreIssue, ProjectionInv, ProjectionTypeOK
  <1>2. QED
      BY <1>1 DEF Next, Begin, OperatorRetry, RecordSuccess, RecordFails, Crash, StoreCallFails,
         GetCorrelation, CreateIssueDuplicate, CreateIssueRefused, CreateIssue, reconcileIssueCreate,
         CreateIssueDropped, CloseIssueFails, CreateIssueLost, SetIssueStatusFails, reconcileFails,
         UpsertCorrelation, ListCorrelations, MarkCorrelationLifecycle, SetIssueStatus, NoteIssue,
         CloseIssue, vars

\* Only UpsertCorrelation and MarkCorrelationLifecycle write the correlations.
LEMMA CorrelationWrites ==
  ASSUME [Next]_vars
  PROVE  UpsertCorrelation \/ MarkCorrelationLifecycle \/ UNCHANGED correlationVars
  BY DEF Next, Begin, OperatorRetry, RecordSuccess, RecordFails, Crash, StoreCallFails,
     GetCorrelation, CreateIssueDuplicate, CreateIssueRefused, CreateIssue, reconcileIssueCreate,
     CreateIssueDropped, CloseIssueFails, CreateIssueLost, SetIssueStatusFails, reconcileFails,
     ListCorrelations, SetIssueStatus, NoteIssue, CloseIssue, Uncertain, vars

\* A correlation is inserted for the run's key with the issue it has in hand; it is never
\* removed, keeps its target, and keeps its status once that is terminal.
LEMMA CorrelationsStay ==
  ASSUME ProjectionInv, [Next]_vars, NEW k \in Keys
  PROVE  /\ correlation[k] # "absent" => correlation'[k] # "absent" /\ target'[k] = target[k]
         /\ correlation[k] \in Terminal => correlation'[k] = correlation[k]
         /\ correlation[k] = "absent" /\ correlation'[k] # "absent"
              => step = "upsert" /\ k = Key /\ correlation'[k] = "active" /\ target'[k] = result
  <1> USE DEF ProjectionInv, ProjectionTypeOK
  <1>1. CASE UpsertCorrelation
    <2>1. Key \in Keys /\ correlation[Key] = "absent"
        BY <1>1, KeyOfRun DEF UpsertCorrelation, Framed, CreatesOnce
    <2>2. QED
        BY <1>1, <2>1 DEF UpsertCorrelation, Terminal
  <1>2. CASE MarkCorrelationLifecycle
    <2>1. current \in Keys
        BY <1>2 DEF MarkCorrelationLifecycle, CompletesAll
    <2>2. QED
        BY <1>2, <2>1, DesiredIsTerminal DEF MarkCorrelationLifecycle, Terminal
  <1>3. QED
      BY <1>1, <1>2, CorrelationWrites

\* Matches only grow.
LEMMA MatchesGrow ==
  ASSUME ProjectionInv, [Next]_vars, NEW k \in Keys
  PROVE  Matches(k) \subseteq Matches(k)'
  BY IssuesStay DEF Matches

\* Every correlation names an issue with the card of its key.
LEMMA CorrelatesStep == ProjectionInv /\ [Next]_vars => Correlates'
  <1> SUFFICES ASSUME ProjectionInv, [Next]_vars, NEW k \in Keys, correlation'[k] # "absent"
               PROVE  target'[k] \in Matches(k)'
      BY DEF Correlates
  <1>1. CASE correlation[k] # "absent"
      BY <1>1, CorrelationsStay, MatchesGrow DEF ProjectionInv, Correlates
  <1>2. CASE correlation[k] = "absent"
    <2>1. k = Key /\ target'[k] = result /\ result \in Matches(Key)
        BY <1>2, CorrelationsStay DEF ProjectionInv, CreatesOnce
    <2>2. QED
        BY <2>1, MatchesGrow
  <1>3. QED
      BY <1>1, <1>2

\* A publication is reported as succeeded by the run that has its correlation.
LEMMA SuccessIsCorrelatedStep == ProjectionInv /\ [Next]_vars => SuccessIsCorrelated'
  <1> SUFFICES ASSUME ProjectionInv, [Next]_vars, NEW x \in Publishes, state'[x] = "succeeded"
               PROVE  correlation'[<<FlowOf[x], ChangeOf[x]>>] # "absent"
      BY CorrelatesStep, ProjectionAssumption DEF SuccessIsCorrelated, Correlates, Keys, Executions
  <1> DEFINE k == <<FlowOf[x], ChangeOf[x]>>
  <1>1. k \in Keys
      BY ProjectionAssumption DEF Keys, Executions
  <1>2. state[x] = "succeeded" \/ (RecordSuccess /\ x = run)
    <2>1. ASSUME NEW retry, Fail(retry) PROVE state[x] = "succeeded"
        BY <2>1 DEF Fail, ProjectionInv, ProjectionTypeOK
    <2>2. CASE RecordSuccess
        BY <2>2 DEF RecordSuccess, ProjectionInv, ProjectionTypeOK
    <2>3. CASE RecordFails
        BY <2>3 DEF RecordFails, ProjectionInv, ProjectionTypeOK
    <2>4. ASSUME NEW y \in Executions, OperatorRetry(y) PROVE state[x] = "succeeded"
        BY <2>4 DEF OperatorRetry, ProjectionInv, ProjectionTypeOK
    <2>5. CASE UNCHANGED state
        BY <2>5
    <2>6. QED
        BY <2>1, <2>2, <2>3, <2>4, <2>5
        DEF Next, Begin, Crash, StoreCallFails, Succeed, Uncertain,
         GetCorrelation, CreateIssueDuplicate, CreateIssueRefused, CreateIssue, reconcileIssueCreate,
         CreateIssueDropped, CloseIssueFails, CreateIssueLost, SetIssueStatusFails, reconcileFails,
         UpsertCorrelation, ListCorrelations, MarkCorrelationLifecycle, SetIssueStatus, NoteIssue,
         CloseIssue, vars
  <1>3. correlation[k] # "absent"
      BY <1>2 DEF RecordSuccess, ProjectionInv, SuccessIsCorrelated, CreatesOnce, Key
  <1>4. QED
      BY <1>1, <1>3, CorrelationsStay

-----------------------------------------------------------------------------
(***************************************************************************)
(* The run.                                                                *)
(***************************************************************************)
RunInv == Framed /\ CreatesOnce /\ CompletesAll

\* A run that ends owes nothing.
LEMMA LeaveRun == Leave => RunInv'
  BY ProjectionAssumption DEF Leave, RunInv, Framed, CreatesOnce, CompletesAll, Completing, Executions

\* A run that goes on to record has no call left; a publication has its correlation.
LEMMA SucceedRun ==
  ASSUME ProjectionInv, Succeed, run # NoExecution, run \in Publishes => correlation'[Key] # "absent"
  PROVE  RunInv'
  BY DEF Succeed, RunInv, Framed, CreatesOnce, CompletesAll, Completing, Key

\* Every step of a run keeps what the run knows.
LEMMA RunInvStep == ProjectionInv /\ [Next]_vars => RunInv'
  <1> SUFFICES ASSUME ProjectionInv, [Next]_vars PROVE RunInv'
      OBVIOUS
  <1> USE DEF ProjectionInv
  <1>0. Publishes \cap Completes = {} /\ Publishes \cap Abandons = {}
      BY ProjectionAssumption
  <1>1. ASSUME NEW x \in Executions, Begin(x) PROVE RunInv'
      BY <1>0, <1>1, ProjectionAssumption
      DEF Begin, RunInv, Framed, CreatesOnce, CompletesAll, Completing, Executions
  <1>2. ASSUME UNCHANGED <<correlationVars, multicaVars, runVars>> PROVE RunInv'
      BY <1>2 DEF RunInv, Framed, CreatesOnce, CompletesAll, Key, Matches, StillActive
  <1>3. ASSUME NEW x \in Executions, OperatorRetry(x) PROVE RunInv'
      BY <1>2, <1>3 DEF OperatorRetry
  <1>4. CASE RecordSuccess \/ RecordFails \/ Crash \/ StoreCallFails \/ CreateIssueRefused \/ reconcileFails
      BY <1>4, LeaveRun DEF RecordSuccess, RecordFails, Crash, StoreCallFails, CreateIssueRefused,
         reconcileFails, Fail
  <1>5. ASSUME NEW retry \in BOOLEAN,
               CloseIssueFails(retry) \/ \E k \in Keys : SetIssueStatusFails(k, retry)
        PROVE  RunInv'
      BY <1>5, LeaveRun DEF CloseIssueFails, SetIssueStatusFails, Fail
  <1>6. CASE GetCorrelation
    <2>1. step = "lookup" /\ run \in Publishes /\ run # NoExecution
        BY <1>6 DEF GetCorrelation, Framed
    <2>2. CASE correlation[Key] # "absent"
        BY <1>6, <2>1, <2>2, SucceedRun DEF GetCorrelation
    <2>3. CASE correlation[Key] = "absent"
        BY <1>6, <2>1, <2>3 DEF GetCorrelation, RunInv, Framed, CreatesOnce, CompletesAll, Completing, Key
    <2>4. QED
        BY <2>2, <2>3
  <1>7. ASSUME step = "create", step' \in {"reconcile", "upsert"}, UNCHANGED <<run, correlationVars>>,
               step' = "upsert" => result' \in Matches(Key)'
        PROVE  RunInv'
      BY <1>7 DEF RunInv, Framed, CreatesOnce, CompletesAll, Completing, Key
  <1>8. ASSUME NEW i \in Issues, CreateIssue(i) PROVE RunInv'
    <2>1. Key \in Keys /\ UNCHANGED Key
        BY <1>8, KeyOfRun DEF CreateIssue, Framed, Key
    <2>2. issueOwner'[i] = Key /\ Key # NoKey
        BY <1>8, <2>1, ProjectionAssumption DEF CreateIssue, StoreIssue, ProjectionTypeOK
    <2>3. QED
        BY <1>7, <1>8, <2>1, <2>2 DEF CreateIssue, Matches
  <1>9. ASSUME NEW retry \in BOOLEAN,
               \/ CreateIssueDropped(retry) \/ CreateIssueDuplicate
               \/ \E i \in Issues : CreateIssueLost(i, retry)
        PROVE  RunInv'
      BY <1>7, <1>9 DEF CreateIssueLost, CreateIssueDropped, CreateIssueDuplicate, Uncertain
  <1>10. ASSUME NEW i \in Issues, reconcileIssueCreate(i) PROVE RunInv'
      BY <1>10 DEF reconcileIssueCreate, RunInv, Framed, CreatesOnce, CompletesAll, Completing, Key, Matches
  <1>11. CASE UpsertCorrelation
    <2>1. run \in Publishes /\ run # NoExecution /\ Key \in Keys
        BY <1>11, KeyOfRun DEF UpsertCorrelation, Framed
    <2>2. correlation'[Key] # "absent"
        BY <1>11, <2>1 DEF UpsertCorrelation, ProjectionTypeOK
    <2>3. QED
        BY <1>11, <2>1, <2>2, SucceedRun, LeaveRun DEF UpsertCorrelation, Fail
  <1>12. CASE ListCorrelations
    <2>1. step = "list" /\ run \in Completes \cup Abandons /\ run \notin Publishes /\ run # NoExecution
        BY <1>0, <1>12 DEF ListCorrelations, Framed, Completing
    <2>2. CASE Correlated = {}
        BY <1>12, <2>2, LeaveRun DEF ListCorrelations, Fail
    <2>3. CASE Correlated # {} /\ Active = {}
        BY <1>12, <2>1, <2>3, SucceedRun DEF ListCorrelations
    <2>4. CASE Correlated # {} /\ Active # {}
      <3>1. Active = StillActive
          BY DEF Active, Correlated, StillActive
      <3>2. QED
          BY <1>12, <2>1, <2>4, <3>1
          DEF ListCorrelations, RunInv, Framed, CreatesOnce, CompletesAll, Completing, StillActive
    <2>5. QED
        BY <2>2, <2>3, <2>4
  <1>13. ASSUME NEW k \in Keys, SetIssueStatus(k) PROVE RunInv'
    <2>1. target[k] \in Issues
        BY <1>13 DEF SetIssueStatus, CompletesAll, StillActive, Correlates, Matches
    <2>2. issueStatus'[target'[k]] = DesiredStatus(run)
        BY <1>13, <2>1 DEF SetIssueStatus, ProjectionTypeOK
    <2>3. QED
        BY <1>13, <2>2
        DEF SetIssueStatus, RunInv, Framed, CreatesOnce, CompletesAll, Completing, StillActive
  <1>14. CASE MarkCorrelationLifecycle
    <2>1. /\ step = "mark" /\ run \in Completes \cup Abandons /\ run \notin Publishes /\ run # NoExecution
          /\ current \in Keys /\ correlation[current] = "active" /\ todo = StillActive /\ current \in todo
        BY <1>0, <1>14 DEF MarkCorrelationLifecycle, Framed, Completing, CompletesAll, StillActive, KeysOf
    <2>2. DesiredStatus(run) # "active"
        BY DEF DesiredStatus
    <2>3. \A k \in Keys : correlation'[k] = "active" <=> k # current /\ correlation[k] = "active"
        BY <1>14, <2>1, <2>2 DEF MarkCorrelationLifecycle, ProjectionTypeOK
    <2>4. CASE todo = {current} /\ AfterProjections = "succeed"
        BY <1>14, <2>1, <2>4, SucceedRun DEF MarkCorrelationLifecycle
    <2>5. CASE ~(todo = {current} /\ AfterProjections = "succeed")
      <3>1. /\ step' = IF todo = {current} THEN AfterProjections ELSE "status"
            /\ todo' = todo \ {current} /\ run' = run
          BY <1>14, <2>1, <2>5 DEF MarkCorrelationLifecycle
      <3>2. todo' = StillActive'
          BY <2>1, <2>3, <3>1 DEF StillActive, KeysOf
      <3>3. (step' \in {"note", "close"} /\ todo' = {}) \/ step' = "status"
          BY <2>5, <3>1 DEF AfterProjections
      <3>4. QED
          BY <2>1, <3>1, <3>2, <3>3 DEF RunInv, Framed, CreatesOnce, CompletesAll, Completing
    <2>6. QED
        BY <2>4, <2>5
  <1>15. CASE NoteIssue
      BY <1>15 DEF NoteIssue, RunInv, Framed, CreatesOnce, CompletesAll, Completing, StillActive
  <1>16. CASE CloseIssue
    <2>1. run \notin Publishes /\ run # NoExecution
        BY <1>0, <1>16 DEF CloseIssue, Framed, Completing
    <2>2. QED
        BY <1>16, <2>1, SucceedRun DEF CloseIssue
  <1>17. CASE UNCHANGED vars
      BY <1>2, <1>17 DEF vars
  <1>18. QED
      BY <1>1, <1>3, <1>4, <1>5, <1>6, <1>8, <1>9, <1>10, <1>11, <1>12, <1>13, <1>14, <1>15, <1>16,
         <1>17 DEF Next

\* ProjectionInv holds in every reachable state.
LEMMA ProjectionInvariant == Spec => []ProjectionInv
  <1>1. ProjectionInv /\ [Next]_vars => ProjectionInv'
      BY ProjectionTypeStep, CorrelatesStep, SuccessIsCorrelatedStep, RunInvStep DEF ProjectionInv, RunInv
  <1>2. QED
      BY ProjectionInvInit, <1>1, PTL DEF Spec

-----------------------------------------------------------------------------
(***************************************************************************)
(* The theorems that hold whatever cards the Flows give.                   *)
(***************************************************************************)
\* The tables, the providers' issues and the run keep their types.
THEOREM ProjectionTypes == Spec => []ProjectionTypeOK
  <1>1. ProjectionInv => ProjectionTypeOK
      BY DEF ProjectionInv
  <1>2. QED
      BY <1>1, ProjectionInvariant, PTL

\* A publication is reported successful only once its correlation is durable, and that
\* correlation shows an issue with the card of its Flow and change (createIssue).
THEOREM SuccessesAreCorrelated == Spec => []SuccessIsCorrelated
  <1>1. ProjectionInv => SuccessIsCorrelated
      BY DEF ProjectionInv
  <1>2. QED
      BY <1>1, ProjectionInvariant, PTL

\* A GitLab Issue is closed only by a run that has left no projection of its change active
\* (completeIssue).
THEOREM ClosesLast == Spec => ClosedAfterProjections
  <1>1. ASSUME ProjectionInv, [Next]_vars, NEW c \in Changes, gitlab[c] # gitlab'[c],
               NEW k \in KeysOf(c)
        PROVE  correlation[k] # "active"
    <2>1. step = "close" /\ gitlab' = [gitlab EXCEPT ![ChangeOf[run]] = "closed"]
        BY <1>1 DEF Next, Begin, OperatorRetry, RecordSuccess, RecordFails, Crash, StoreCallFails,
           GetCorrelation, CreateIssueDuplicate, CreateIssueRefused, CreateIssue, reconcileIssueCreate,
           CreateIssueDropped, CloseIssueFails, CreateIssueLost, SetIssueStatusFails, reconcileFails,
           UpsertCorrelation, ListCorrelations, MarkCorrelationLifecycle, SetIssueStatus, NoteIssue,
           CloseIssue, Uncertain, vars
    <2>2. c = ChangeOf[run]
        BY <1>1, <2>1 DEF ProjectionInv, ProjectionTypeOK
    <2>3. QED
        BY <1>1, <2>1, <2>2 DEF ProjectionInv, CompletesAll, StillActive
  <1>2. ProjectionInv /\ [Next]_vars
        => [\A c \in Changes : gitlab[c] # gitlab'[c] =>
              \A k \in KeysOf(c) : correlation[k] # "active"]_vars
      BY <1>1
  <1>3. QED
      BY <1>2, ProjectionInvariant, PTL DEF Spec, ClosedAfterProjections

-----------------------------------------------------------------------------
(***************************************************************************)
(* The theorems for Flows that give every change a card of its own.        *)
(***************************************************************************)
OwnCard == \A k, l \in Keys : CardOf[k] = CardOf[l] => k = l

\* A correlation names an issue that was created for its own key.
LEMMA OwnTarget ==
  ASSUME OwnCard, ProjectionInv, NEW k \in Keys, correlation[k] # "absent"
  PROVE  target[k] \in Issues /\ issueOwner[target[k]] = k
  BY DEF OwnCard, ProjectionInv, ProjectionTypeOK, Correlates, Matches

\* Multica's status of an issue is set for an active projection in hand, or on creation.
LEMMA IssueWrites ==
  ASSUME ProjectionInv, [Next]_vars, NEW i \in Issues, issueStatus'[i] # issueStatus[i]
  PROVE  \/ issueOwner[i] = NoKey /\ issueStatus'[i] = "backlog"
         \/ \E k \in Keys : correlation[k] = "active" /\ target[k] = i
  <1> USE DEF ProjectionInv, ProjectionTypeOK
  <1>1. ASSUME NEW j \in Issues, StoreIssue(j) PROVE issueOwner[i] = NoKey /\ issueStatus'[i] = "backlog"
      BY <1>1 DEF StoreIssue
  <1>2. ASSUME NEW k \in Keys, SetIssueStatus(k) \/ \E retry \in BOOLEAN : SetIssueStatusFails(k, retry)
        PROVE  correlation[k] = "active" /\ target[k] = i
      BY <1>2 DEF SetIssueStatus, SetIssueStatusFails, CompletesAll, StillActive
  <1>3. QED
      BY <1>1, <1>2 DEF Next, Begin, OperatorRetry, RecordSuccess, RecordFails, Crash, StoreCallFails,
         GetCorrelation, CreateIssueDuplicate, CreateIssueRefused, CreateIssue, reconcileIssueCreate,
         CreateIssueDropped, CloseIssueFails, CreateIssueLost, reconcileFails,
         UpsertCorrelation, ListCorrelations, MarkCorrelationLifecycle, NoteIssue, CloseIssue, vars

\* A terminal projection stays what it is, in the table and in Multica.
LEMMA TerminalStays ==
  ASSUME OwnCard, ProjectionInv, [Next]_vars, NEW k \in Keys, correlation[k] \in Terminal
  PROVE  /\ correlation'[k] = correlation[k] /\ target'[k] = target[k]
         /\ issueStatus'[target[k]] = issueStatus[target[k]]
  <1>1. correlation[k] # "absent" /\ correlation[k] # "active"
      BY DEF Terminal
  <1>2. target[k] \in Issues /\ issueOwner[target[k]] = k /\ k # NoKey
      BY <1>1, OwnTarget, ProjectionAssumption
  <1>3. \A l \in Keys : correlation[l] = "active" => target[l] # target[k]
      BY <1>1, <1>2, OwnTarget
  <1>4. QED
      BY <1>1, <1>2, <1>3, CorrelationsStay, IssueWrites

\* An older archive cannot resurrect a cancelled projection, or vice versa, as long as every
\* Flow gives its changes cards of their own (MarkCorrelationLifecycle).
THEOREM TerminalStands == OwnCard => (Spec => TerminalIsFrozen)
  <1> SUFFICES ASSUME OwnCard PROVE Spec => TerminalIsFrozen
      OBVIOUS
  <1>1. ProjectionInv /\ [Next]_vars
        => [\A k \in Keys : correlation[k] \in Terminal =>
              /\ correlation'[k] = correlation[k] /\ target'[k] = target[k]
              /\ issueStatus'[target[k]] = issueStatus[target[k]]]_vars
      BY TerminalStays
  <1>2. QED
      BY <1>1, ProjectionInvariant, PTL DEF Spec, TerminalIsFrozen

\* Multica and the correlations agree on what has ended, wherever a completion was cut off.
THEOREM TerminalAgrees == OwnCard => (Spec => []TerminalMatchesIssue)
  <1> SUFFICES ASSUME OwnCard PROVE Spec => []TerminalMatchesIssue
      OBVIOUS
  <1>1. Init => TerminalMatchesIssue
      BY DEF Init, TerminalMatchesIssue, Terminal
  <1>2. ProjectionInv /\ TerminalMatchesIssue /\ [Next]_vars => TerminalMatchesIssue'
    <2> SUFFICES ASSUME ProjectionInv, TerminalMatchesIssue, [Next]_vars,
                        NEW k \in Keys, correlation'[k] \in Terminal
                 PROVE  issueStatus'[target'[k]] = correlation'[k]
        BY DEF TerminalMatchesIssue
    <2>1. CASE correlation[k] \in Terminal
        BY <2>1, TerminalStays DEF TerminalMatchesIssue
    <2>2. CASE correlation[k] \notin Terminal
      <3>1. correlation'[k] # correlation[k] /\ correlation[k] = "active"
          BY <2>2, CorrelationsStay DEF Terminal, ProjectionInv, ProjectionTypeOK
      <3>2. MarkCorrelationLifecycle
          BY <3>1, CorrelationWrites, KeyOfRun
          DEF UpsertCorrelation, ProjectionInv, ProjectionTypeOK, Framed
      <3>3. k = current /\ correlation'[k] = DesiredStatus(run)
          BY <3>1, <3>2 DEF MarkCorrelationLifecycle, ProjectionInv, ProjectionTypeOK, CompletesAll
      <3>4. issueStatus'[target'[k]] = DesiredStatus(run)
          BY <3>2, <3>3 DEF MarkCorrelationLifecycle, ProjectionInv, CompletesAll
      <3>5. QED
          BY <3>3, <3>4
    <2>3. QED
        BY <2>1, <2>2
  <1>3. QED
      BY <1>1, <1>2, ProjectionInvariant, PTL DEF Spec

\* An issue has ended only for a key that is correlated.
EndedIsCorrelated ==
    \A i \in Issues : \A k \in Keys :
        issueOwner[i] = k /\ issueStatus[i] \in Terminal => correlation[k] # "absent"

\* Only a correlated issue is completed.
LEMMA EndedIsCorrelatedStep ==
  ASSUME OwnCard
  PROVE  ProjectionInv /\ EndedIsCorrelated /\ [Next]_vars => EndedIsCorrelated'
  <1> SUFFICES ASSUME ProjectionInv, EndedIsCorrelated, [Next]_vars, NEW i \in Issues, NEW k \in Keys,
                      issueOwner'[i] = k, issueStatus'[i] \in Terminal
               PROVE  correlation'[k] # "absent"
      BY DEF EndedIsCorrelated
  <1>1. issueOwner[i] # NoKey => issueOwner[i] = k
      BY IssuesStay
  <1>2. CASE issueStatus'[i] = issueStatus[i] /\ issueOwner[i] # NoKey
      BY <1>1, <1>2, CorrelationsStay DEF EndedIsCorrelated
  <1>3. CASE issueStatus'[i] = issueStatus[i] /\ issueOwner[i] = NoKey
    <2>1. ASSUME NEW j \in Issues, StoreIssue(j) PROVE FALSE
        BY <1>3, <2>1, ProjectionAssumption DEF StoreIssue, ProjectionInv, ProjectionTypeOK, Terminal
    <2>2. issueOwner' # issueOwner
        BY <1>3, ProjectionAssumption
    <2>3. QED
        BY <2>1, <2>2 DEF Next, Begin, OperatorRetry, RecordSuccess, RecordFails, Crash, StoreCallFails,
           GetCorrelation, CreateIssueDuplicate, CreateIssueRefused, CreateIssue, reconcileIssueCreate,
           CreateIssueDropped, CloseIssueFails, CreateIssueLost, SetIssueStatusFails, reconcileFails,
           UpsertCorrelation, ListCorrelations, MarkCorrelationLifecycle, SetIssueStatus, NoteIssue,
           CloseIssue, vars
  <1>4. CASE issueStatus'[i] # issueStatus[i]
    <2>1. PICK l \in Keys : correlation[l] = "active" /\ target[l] = i
        BY <1>4, IssueWrites DEF Terminal
    <2>2. l = k
        BY <1>1, <2>1, OwnTarget, ProjectionAssumption
    <2>3. QED
        BY <2>1, <2>2, CorrelationsStay
  <1>5. QED
      BY <1>2, <1>3, <1>4

\* A Flow has one Multica issue for a change, whatever answers are lost and whenever the
\* process dies: until the first one is correlated it is active, and Multica refuses another
\* one with its card (createIssue).
THEOREM ProjectsOnce == RejectsDuplicates /\ OwnCard => (Spec => []OneProjectionPerFlow)
  <1> SUFFICES ASSUME RejectsDuplicates, OwnCard PROVE Spec => []OneProjectionPerFlow
      OBVIOUS
  <1>1. Init => OneProjectionPerFlow /\ EndedIsCorrelated
      BY ProjectionAssumption DEF Init, OneProjectionPerFlow, EndedIsCorrelated
  <1>2. ProjectionInv /\ EndedIsCorrelated /\ OneProjectionPerFlow /\ [Next]_vars => OneProjectionPerFlow'
    <2> SUFFICES ASSUME ProjectionInv, EndedIsCorrelated, OneProjectionPerFlow, [Next]_vars
                 PROVE  OneProjectionPerFlow'
        OBVIOUS
    <2>1. ASSUME NEW i \in Issues, StoreIssue(i), step = "create" PROVE OneProjectionPerFlow'
      <3>1. Key \in Keys /\ correlation[Key] = "absent"
          BY <2>1, KeyOfRun DEF ProjectionInv, Framed, CreatesOnce
      <3>2. ASSUME NEW j \in Issues, issueOwner[j] = Key PROVE FALSE
        <4>1. issueStatus[j] \notin Terminal
            BY <3>1, <3>2 DEF EndedIsCorrelated
        <4>2. j \in ActiveMatches(Key)
            BY <3>1, <3>2, <4>1, ProjectionAssumption DEF ActiveMatches, Matches
        <4>3. QED
            BY <2>1, <4>2 DEF StoreIssue, Refused
      <3>3. QED
          BY <2>1, <3>2 DEF StoreIssue, OneProjectionPerFlow, ProjectionInv, ProjectionTypeOK
    <2>2. CASE UNCHANGED issueOwner
        BY <2>2 DEF OneProjectionPerFlow
    <2>3. QED
        BY <2>1, <2>2 DEF Next, Begin, OperatorRetry, RecordSuccess, RecordFails, Crash, StoreCallFails,
           GetCorrelation, CreateIssueDuplicate, CreateIssueRefused, CreateIssue, reconcileIssueCreate,
           CreateIssueDropped, CloseIssueFails, CreateIssueLost, SetIssueStatusFails, reconcileFails,
           UpsertCorrelation, ListCorrelations, MarkCorrelationLifecycle, SetIssueStatus, NoteIssue,
           CloseIssue, vars
  <1>3. QED
      BY <1>1, <1>2, EndedIsCorrelatedStep, ProjectionInvariant, PTL DEF Spec
=============================================================================
