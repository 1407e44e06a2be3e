-------------------------- MODULE IssueProjection --------------------------
(***************************************************************************)
(* The output connectors of one Connection: createIssue and completeIssue  *)
(* of internal/runtime/executor.go, the correlations table of              *)
(* internal/store/runtime.go, and the Multica and GitLab issues they act   *)
(* on through internal/provider.                                           *)
(*                                                                         *)
(* Executions of one Connection run one after the other, in any order, and *)
(* a crashed run is taken up again: FlowRuntime proves both.  Here a run   *)
(* is followed call by call.  A provider call may be refused, may have its *)
(* effect and lose its answer, or may be lost before it has one; the       *)
(* process may crash between any two calls.                                *)
(***************************************************************************)
EXTENDS Naturals, FiniteSets

CONSTANTS
    Flows,              \* publication Flows of the Connection
    Changes,            \* published changes
    Publishes,          \* executions of multica.create-issue
    Completes,          \* executions of multica.complete-issue (archived changes)
    Abandons,           \* executions of multica.cancel-issue (abandoned changes)
    FlowOf,             \* the Flow of every execution in Publishes
    ChangeOf,           \* the change of every execution
    IssueChanges,       \* changes that were published from a GitLab Issue
    Cards, CardOf,      \* project, title and description a Flow gives to a change
    RejectsDuplicates,  \* does Multica refuse a second active issue with the same card?
    Faults,             \* may calls fail and the process crash?
    MaxIssues,          \* bound: issues Multica may receive
    MaxAttempts,        \* maxAutomaticAttempts
    MaxRetries,         \* bound: operator retries
    MaxCrashes,         \* bound: how often the process ends
    NoExecution, NoKey

Executions == Publishes \cup Completes \cup Abandons
Keys == Flows \X Changes
Issues == 1 .. MaxIssues

ASSUME ProjectionAssumption ==
    /\ FlowOf \in [Publishes -> Flows]
    /\ ChangeOf \in [Executions -> Changes]
    /\ IssueChanges \subseteq Changes
    /\ CardOf \in [Keys -> Cards]
    /\ RejectsDuplicates \in BOOLEAN /\ Faults \in BOOLEAN
    /\ MaxIssues \in Nat /\ MaxAttempts \in Nat \ {0} /\ MaxRetries \in Nat /\ MaxCrashes \in Nat
    /\ Publishes \cap Completes = {} /\ Publishes \cap Abandons = {} /\ Completes \cap Abandons = {}
    /\ NoExecution \notin Executions /\ NoKey \notin Keys

VARIABLES
    state,        \* of every execution: queued, succeeded, actionable or stranded
    attempt,      \* AttemptCount of its job
    correlation,  \* lifecycle_status of the correlation of (Flow, change)
    target,       \* its target_identity, 0 without one
    issueOwner,   \* the (Flow, change) a Multica issue was created for
    issueStatus,  \* the status of a Multica issue
    gitlab,       \* the GitLab Issue of a change: open or closed
    noted,        \* changes whose GitLab Issue carries the abandon note
    run, step,    \* the execution that holds the Connection's mutex, and where it is
    result,       \* the Multica issue createIssue has in hand
    retryable,    \* is the error to be retried?
    todo, current,\* active correlations still to complete, and the one in hand
    retries, crashes

executionVars == <<state, attempt>>
correlationVars == <<correlation, target>>
multicaVars == <<issueOwner, issueStatus>>
gitlabVars == <<gitlab, noted>>
runVars == <<run, step, result, retryable, todo, current>>
boundVars == <<retries, crashes>>
vars == <<executionVars, correlationVars, multicaVars, gitlabVars, runVars, boundVars>>

Terminal == {"done", "cancelled"}

Init ==
    /\ state = [x \in Executions |-> "queued"]
    /\ attempt = [x \in Executions |-> 0]
    /\ correlation = [k \in Keys |-> "absent"]
    /\ target = [k \in Keys |-> 0]
    /\ issueOwner = [i \in Issues |-> NoKey]
    /\ issueStatus = [i \in Issues |-> "absent"]
    /\ gitlab = [c \in Changes |-> "open"]
    /\ noted = {}
    /\ run = NoExecution /\ step = "idle"
    /\ result = 0 /\ retryable = FALSE
    /\ todo = {} /\ current = NoKey
    /\ retries = 0 /\ crashes = 0

-----------------------------------------------------------------------------
(***************************************************************************)
(* The frame of a run: runJob, as FlowRuntime has it in detail.            *)
(***************************************************************************)
Key == <<FlowOf[run], ChangeOf[run]>>
KeysOf(c) == {k \in Keys : k[2] = c}
DesiredStatus(x) == IF x \in Abandons THEN "cancelled" ELSE "done"

Begin(x) ==
    /\ run = NoExecution
    /\ state[x] = "queued"
    /\ run' = x
    /\ step' = IF x \in Publishes THEN "lookup" ELSE "list"
    /\ attempt' = [attempt EXCEPT ![x] = IF @ < MaxAttempts THEN @ + 1 ELSE @]
    /\ UNCHANGED <<state, correlationVars, multicaVars, gitlabVars, result, retryable, todo,
                   current, boundVars>>

\* The locals of the run are gone.
Leave ==
    /\ run' = NoExecution /\ step' = "idle"
    /\ result' = 0 /\ retryable' = FALSE
    /\ todo' = {} /\ current' = NoKey

\* The node returned a value.
Succeed ==
    /\ step' = "record"
    /\ result' = 0 /\ retryable' = FALSE
    /\ todo' = {} /\ current' = NoKey
    /\ UNCHANGED <<executionVars, run, boundVars>>

\* The checkpoint of the node and the outcome of the execution are written.
RecordSuccess ==
    /\ step = "record"
    /\ state' = [state EXCEPT ![run] = "succeeded"]
    /\ Leave
    /\ UNCHANGED <<attempt, correlationVars, multicaVars, gitlabVars, boundVars>>

\* The node failed: a retryable error is retried while attempts are left.
Fail(retry) ==
    /\ state' = [state EXCEPT ![run] =
                   IF retry /\ attempt[run] < MaxAttempts THEN "queued" ELSE "actionable"]
    /\ Leave
    /\ UNCHANGED <<attempt, boundVars>>

Crash ==
    /\ Faults /\ run # NoExecution
    /\ crashes < MaxCrashes
    /\ crashes' = crashes + 1
    /\ Leave
    /\ UNCHANGED <<executionVars, correlationVars, multicaVars, gitlabVars, retries>>

\* An operator retries or repairs: a new job, with a new count of attempts.
OperatorRetry(x) ==
    /\ state[x] = "actionable"
    /\ retries < MaxRetries
    /\ retries' = retries + 1
    /\ state' = [state EXCEPT ![x] = "queued"]
    /\ attempt' = [attempt EXCEPT ![x] = 0]
    /\ UNCHANGED <<correlationVars, multicaVars, gitlabVars, runVars, crashes>>

\* A read or write of the store, or the resolution of the credential, fails: an internal
\* error, which is not retried.
StoreCallFails ==
    /\ Faults
    /\ \/ step \in {"lookup", "upsert", "list", "mark", "note"}
       \/ step = "close" /\ run \notin Abandons
    /\ Fail(FALSE)
    /\ UNCHANGED <<correlationVars, multicaVars, gitlabVars>>

\* The checkpoint or the outcome cannot be written: the job ends, and nobody takes up the
\* execution again (FlowRuntime's StrandedAfterStoreError).
RecordFails ==
    /\ Faults /\ step = "record"
    /\ state' = [state EXCEPT ![run] = "stranded"]
    /\ Leave
    /\ UNCHANGED <<attempt, correlationVars, multicaVars, gitlabVars, boundVars>>

-----------------------------------------------------------------------------
(***************************************************************************)
(* createIssue.                                                            *)
(***************************************************************************)
\* Mutant: the correlation of an earlier run is not looked up.
GetCorrelationSkipped ==
    /\ step = "lookup"
    /\ step' = "create"
    /\ UNCHANGED <<executionVars, run, result, retryable, todo, current, boundVars, correlationVars,
                   multicaVars, gitlabVars>>

GetCorrelation ==
    /\ step = "lookup"
    /\ IF correlation[Key] # "absent"
       THEN Succeed
       ELSE /\ step' = "create"
            /\ UNCHANGED <<executionVars, run, result, retryable, todo, current, boundVars>>
    /\ UNCHANGED <<correlationVars, multicaVars, gitlabVars>>

\* Multica's issues with the card of k, and those it still considers active.
Matches(k) == {i \in Issues : issueOwner[i] # NoKey /\ CardOf[issueOwner[i]] = CardOf[k]}
ActiveMatches(k) == {i \in Matches(k) : issueStatus[i] \notin Terminal}

Refused(k) == RejectsDuplicates /\ ActiveMatches(k) # {}

\* Multica stores issue i for the run.
StoreIssue(i) ==
    /\ ~Refused(Key)
    /\ issueOwner[i] = NoKey /\ \A j \in Issues : j < i => issueOwner[j] # NoKey
    /\ issueOwner' = [issueOwner EXCEPT ![i] = Key]
    /\ issueStatus' = [issueStatus EXCEPT ![i] = "backlog"]

CreateIssue(i) ==
    /\ step = "create"
    /\ StoreIssue(i)
    /\ result' = i
    /\ step' = "upsert"
    /\ UNCHANGED <<executionVars, correlationVars, gitlabVars, run, retryable, todo, current, boundVars>>

\* The call fails in a category that shouldReconcileIssueCreate searches for.
Uncertain(retry) ==
    /\ step' = "reconcile"
    /\ retryable' = retry
    /\ UNCHANGED <<executionVars, correlationVars, gitlabVars, run, result, todo, current, boundVars>>

CreateIssueDuplicate ==
    /\ step = "create"
    /\ Refused(Key)
    /\ Uncertain(FALSE)
    /\ UNCHANGED multicaVars

\* The answer is lost after the effect, or the request before it: timeout and transient
\* errors are retried, an invalid response is not.
CreateIssueLost(i, retry) ==
    /\ Faults /\ step = "create"
    /\ StoreIssue(i)
    /\ Uncertain(retry)

CreateIssueDropped(retry) ==
    /\ Faults /\ step = "create"
    /\ Uncertain(retry)
    /\ UNCHANGED multicaVars

\* Unauthorized, forbidden, not found: nothing is searched.
CreateIssueRefused ==
    /\ Faults /\ step = "create"
    /\ Fail(FALSE)
    /\ UNCHANGED <<correlationVars, multicaVars, gitlabVars>>

\* The search adopts the one exact match.
reconcileIssueCreate(i) ==
    /\ step = "reconcile"
    /\ Matches(Key) = {i}
    /\ result' = i
    /\ step' = "upsert"
    /\ UNCHANGED <<executionVars, correlationVars, multicaVars, gitlabVars, run, retryable, todo,
                   current, boundVars>>

\* No match, several, or no answer: the error of the create call is returned.
reconcileFails ==
    /\ step = "reconcile"
    /\ Faults \/ Cardinality(Matches(Key)) # 1
    /\ Fail(retryable)
    /\ UNCHANGED <<correlationVars, multicaVars, gitlabVars>>

\* Mutant: the error of the insert is ignored.
UpsertCorrelationIgnored ==
    /\ step = "upsert"
    /\ Succeed
    /\ UNCHANGED <<correlationVars, multicaVars, gitlabVars>>

\* On conflict the row keeps its lifecycle_status and takes the new target.  The row is read
\* back after the commit: that read may fail on its own, and the run with it.
UpsertCorrelation ==
    /\ step = "upsert"
    /\ correlation' = [correlation EXCEPT ![Key] = IF @ = "absent" THEN "active" ELSE @]
    /\ target' = [target EXCEPT ![Key] = result]
    /\ Succeed \/ (Faults /\ Fail(FALSE))
    /\ UNCHANGED <<multicaVars, gitlabVars>>

-----------------------------------------------------------------------------
(***************************************************************************)
(* completeIssue.                                                          *)
(***************************************************************************)
Correlated == {k \in KeysOf(ChangeOf[run]) : correlation[k] # "absent"}
\* Mutant: terminal correlations are completed again.
ActiveAll == Correlated

Active == {k \in Correlated : correlation[k] = "active"}

\* Without a correlation the error is a reconciliationError, which is retried; with terminal
\* ones only, the guard reports success.
ListCorrelations ==
    /\ step = "list"
    /\ CASE Correlated = {} -> Fail(TRUE)
         [] Correlated # {} /\ Active = {} -> Succeed
         [] OTHER -> /\ step' = "status"
                     /\ todo' = Active
                     /\ UNCHANGED <<executionVars, run, result, retryable, current, boundVars>>
    /\ UNCHANGED <<correlationVars, multicaVars, gitlabVars>>

SetIssueStatus(k) ==
    /\ step = "status"
    /\ k \in todo
    /\ issueStatus' = [issueStatus EXCEPT ![target[k]] = DesiredStatus(run)]
    /\ step' = "mark"
    /\ current' = k
    /\ UNCHANGED <<executionVars, correlationVars, issueOwner, gitlabVars, run, result, retryable,
                   todo, boundVars>>

\* Mutant: the error of the call is logged and the projection is marked all the same.
SetIssueStatusErrorIgnored(k, retry) ==
    /\ Faults /\ step = "status"
    /\ k \in todo
    /\ step' = "mark"
    /\ current' = k
    /\ UNCHANGED <<executionVars, correlationVars, multicaVars, gitlabVars, run, result, retryable,
                   todo, boundVars>>

\* The call fails, before or after its effect.
SetIssueStatusFails(k, retry) ==
    /\ Faults /\ step = "status"
    /\ k \in todo
    /\ \/ issueStatus' = [issueStatus EXCEPT ![target[k]] = DesiredStatus(run)]
       \/ UNCHANGED issueStatus
    /\ Fail(retry)
    /\ UNCHANGED <<correlationVars, issueOwner, gitlabVars>>

\* Where the run goes when its projections are terminal.
AfterProjections ==
    CASE ChangeOf[run] \notin IssueChanges -> "succeed"
      [] run \in Abandons -> "note"
      [] OTHER -> "close"

\* Mutant: the loop over the active correlations ends after the first one.
MarkFirstCorrelation ==
    /\ step = "mark"
    /\ correlation' = [correlation EXCEPT ![current] = DesiredStatus(run)]
    /\ IF AfterProjections = "succeed" THEN Succeed
       ELSE /\ step' = AfterProjections
            /\ todo' = {}
            /\ current' = NoKey
            /\ UNCHANGED <<executionVars, run, result, retryable, boundVars>>
    /\ UNCHANGED <<target, multicaVars, gitlabVars>>

MarkCorrelationLifecycle ==
    /\ step = "mark"
    /\ IF correlation[current] = "active"
       THEN correlation' = [correlation EXCEPT ![current] = DesiredStatus(run)]
       ELSE UNCHANGED correlation
    /\ IF correlation[current] \notin {"active", DesiredStatus(run)} THEN Fail(FALSE)
       ELSE IF todo = {current} /\ AfterProjections = "succeed" THEN Succeed
       ELSE /\ step' = IF todo = {current} THEN AfterProjections ELSE "status"
            /\ todo' = todo \ {current}
            /\ current' = NoKey
            /\ UNCHANGED <<executionVars, run, result, retryable, boundVars>>
    /\ UNCHANGED <<target, multicaVars, gitlabVars>>

\* A note that fails is recorded and does not stop the run.
NoteIssue ==
    /\ step = "note"
    /\ \/ noted' = noted \cup {ChangeOf[run]}
       \/ Faults /\ UNCHANGED noted
    /\ step' = "close"
    /\ UNCHANGED <<executionVars, correlationVars, multicaVars, gitlab, run, result, retryable, todo,
                   current, boundVars>>

CloseIssue ==
    /\ step = "close"
    /\ gitlab' = [gitlab EXCEPT ![ChangeOf[run]] = "closed"]
    /\ Succeed
    /\ UNCHANGED <<correlationVars, multicaVars, noted>>

\* A reconciliationError around the provider's error, whose category decides on the retry.
CloseIssueFails(retry) ==
    /\ Faults /\ step = "close"
    /\ \/ gitlab' = [gitlab EXCEPT ![ChangeOf[run]] = "closed"]
       \/ UNCHANGED gitlab
    /\ Fail(retry)
    /\ UNCHANGED <<correlationVars, multicaVars, noted>>

-----------------------------------------------------------------------------
Next ==
    \/ \E x \in Executions : Begin(x) \/ OperatorRetry(x)
    \/ RecordSuccess \/ RecordFails \/ Crash \/ StoreCallFails
    \/ GetCorrelation \/ CreateIssueDuplicate \/ CreateIssueRefused
    \/ \E i \in Issues : CreateIssue(i) \/ reconcileIssueCreate(i)
    \/ \E retry \in BOOLEAN : \/ CreateIssueDropped(retry) \/ CloseIssueFails(retry)
                              \/ \E i \in Issues : CreateIssueLost(i, retry)
                              \/ \E k \in Keys : SetIssueStatusFails(k, retry)
    \/ reconcileFails \/ UpsertCorrelation
    \/ ListCorrelations \/ MarkCorrelationLifecycle
    \/ \E k \in Keys : SetIssueStatus(k)
    \/ NoteIssue \/ CloseIssue

Spec == Init /\ [][Next]_vars

-----------------------------------------------------------------------------
\* The types of the tables, of the providers' issues and of the run.
ProjectionTypeOK ==
    /\ state \in [Executions -> {"queued", "succeeded", "actionable", "stranded"}]
    /\ attempt \in [Executions -> 0 .. MaxAttempts]
    /\ correlation \in [Keys -> {"absent", "active"} \cup Terminal]
    /\ target \in [Keys -> 0 .. MaxIssues]
    /\ issueOwner \in [Issues -> Keys \cup {NoKey}]
    /\ issueStatus \in [Issues -> {"absent", "backlog"} \cup Terminal]
    /\ gitlab \in [Changes -> {"open", "closed"}]
    /\ noted \subseteq Changes
    /\ run \in Executions \cup {NoExecution}
    /\ step \in {"idle", "lookup", "create", "reconcile", "upsert", "list", "status", "mark",
                 "note", "close", "record"}
    /\ result \in 0 .. MaxIssues
    /\ retryable \in BOOLEAN
    /\ todo \subseteq Keys
    /\ current \in Keys \cup {NoKey}
    /\ retries \in 0 .. MaxRetries /\ crashes \in 0 .. MaxCrashes

\* "The action idempotency key prevents a duplicate projection": a Flow has one Multica issue
\* for a change, whatever answers are lost and whenever the process dies (createIssue).
OneProjectionPerFlow ==
    \A i, j \in Issues : issueOwner[i] = issueOwner[j] /\ issueOwner[i] # NoKey => i = j

\* "The correlation record is durable ... before the execution is reported successful": a
\* publication succeeds only with a correlation whose target shows the Flow's own card.
SuccessIsCorrelated ==
    \A x \in Publishes :
        state[x] = "succeeded" =>
            LET k == <<FlowOf[x], ChangeOf[x]>>
            IN  correlation[k] # "absent" /\ target[k] \in Matches(k)

\* A terminal correlation and the Multica issue it names agree, whichever of archive and
\* abandon came first and wherever either was interrupted (completeIssue).
TerminalMatchesIssue ==
    \A k \in Keys : correlation[k] \in Terminal => issueStatus[target[k]] = correlation[k]

\* "A conflicting terminal event is rejected so an older archive event cannot resurrect a
\* cancelled projection (or vice versa)": nothing about a terminal projection changes again,
\* in the table or in Multica (MarkCorrelationLifecycle).
TerminalIsFrozen ==
    [][\A k \in Keys : correlation[k] \in Terminal =>
         /\ correlation'[k] = correlation[k] /\ target'[k] = target[k]
         /\ issueStatus'[target[k]] = issueStatus[target[k]]]_vars

\* "The Flow attempts to close all linked Issues after the projection completion is durable":
\* when a GitLab Issue is closed, no projection of its change is active (completeIssue).
ClosedAfterProjections ==
    [][\A c \in Changes : gitlab[c] # gitlab'[c] =>
         \A k \in KeysOf(c) : correlation[k] # "active"]_vars

\* "A later retry or repair can close the Issue": a completion that is reported successful
\* leaves the GitLab Issue of its change closed (completeIssue's terminal guard).
SuccessClosesIssue ==
    \A x \in Completes \cup Abandons :
        state[x] = "succeeded" /\ ChangeOf[x] \in IssueChanges => gitlab[ChangeOf[x]] = "closed"
=============================================================================
