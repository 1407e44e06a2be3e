------------------------ MODULE ConnectionOnboarding ------------------------
(***************************************************************************)
(* Onboarding of a Connection: Onboard of internal/controlplane/           *)
(* connection.go, the tables of internal/store/onboarding.go, the provider *)
(* calls it makes and the connection handlers of                           *)
(* internal/httpapi/integration.go.                                        *)
(*                                                                         *)
(* An operation binds a source project to a target project that exists or  *)
(* that it creates, and prepares resources at both providers.  Runs of an  *)
(* operation go through the same statements and calls and skip what a      *)
(* checkpoint says is done.  Requests may overlap, also with one operation *)
(* id, and an operator may disable a Connection meanwhile.                 *)
(***************************************************************************)
EXTENDS Naturals, FiniteSets, Sequences

CONSTANTS
    Runs,             \* concurrently served onboarding requests
    Operations,       \* operation ids
    Sources,          \* GitLab projects
    RequestsOf,       \* operation -> the requests made with its id: <<source, target>>
    Existing,         \* Multica projects that exist before, 1 .. Existing
    MaxProjects,      \* bound: Multica projects
    MaxConnections,   \* bound: Connections
    MaxFaults,        \* bound: failed statements and calls, and crashes
    Steps,            \* resources to prepare, in order
    Foreign           \* provider objects somebody else has created before

Created == 0          \* requested target: a project to be created
Targets == 1 .. MaxProjects
Connections == 1 .. MaxConnections
NoConnection == 0
NoTarget == 0

\* Labels and the repository belong to the source, the project resource to
\* the pair; the identity of an object is its clone URL or title.
Object(kind, source, target) == <<kind, source, IF kind = "project" THEN target ELSE NoTarget>>
Objects == {Object(k, s, t) : k \in {"label", "repository", "project"}, s \in Sources, t \in Targets}

ASSUME OnboardingConstants ==
    /\ Operations # {} /\ Sources # {}
    /\ Sources \cap {"absent", "other"} = {}
    /\ Existing \in Nat /\ MaxProjects \in Nat \ {0} /\ Existing <= MaxProjects
    /\ MaxConnections \in Nat
    /\ MaxFaults \in Nat
    /\ Steps \in Seq({"label", "repository", "project"})
    /\ Foreign \subseteq Objects
    /\ \A o \in Operations : RequestsOf[o] \subseteq Sources \X ({Created} \cup 1 .. Existing)

VARIABLES
    operation,        \* onboarding_operations: status, connection_id and the selections
    targetOf,         \* checkpoint "target_project" of an operation
    done,             \* checkpoints of its resources: step -> <<object, ownership>>
    connection,       \* connections: status, source and target
    resources,        \* managed_resources: <<connection, object, ownership>>
    projects,         \* Multica projects: title, the source it was created for
    objects,          \* provider objects: who created them
    run,              \* locals of a request
    faults,
    (***********************************************************************)
    (* History: runs that listed projects while another one was creating,  *)
    (* and operations whose runs overlapped or changed their request.      *)
    (***********************************************************************)
    raced, mixed

rows == <<operation, targetOf, done, connection, resources>>
provider == <<projects, objects>>
history == <<raced, mixed>>
vars == <<rows, provider, run, faults, history>>

\* "finished" stands for configured and ready, "open" for running, blocked and
\* failed, which no code tells apart, and "active" for the three statuses that
\* only differ in what the probe found.
OperationStatus == {"absent", "open", "finished"}
ConnectionStatus == {"absent", "active", "disabled"}
Ownership == {"managed", "adopted"}
RunPc == {"idle", "insert", "getConnection", "findSource", "findTarget",
          "ensureTarget", "createProject", "targetCheckpoint", "createConnection", "link", "adopt",
          "read", "ensure", "row", "checkpoint", "probe", "finish", "failed"}
NoObject == CHOOSE x \in Objects : TRUE
Idle(o, s) == [pc |-> "idle", op |-> o, source |-> s, wanted |-> Created, conn |-> NoConnection,
               target |-> NoTarget, step |-> 1, object |-> NoObject, own |-> "managed"]
Resting == Idle(CHOOSE o \in Operations : TRUE, CHOOSE s \in Sources : TRUE)

Init ==
    /\ operation = [o \in Operations |-> [status |-> "absent", conn |-> NoConnection,
                                          wanted |-> <<Resting.source, Created>>]]
    /\ targetOf = [o \in Operations |-> NoTarget]
    /\ done = [o \in Operations |-> {}]
    /\ connection = [c \in Connections |-> [status |-> "absent", source |-> Resting.source, target |-> NoTarget]]
    /\ resources = {}
    /\ projects = [t \in Targets |-> IF t <= Existing THEN "other" ELSE "absent"]
    /\ objects = [x \in Objects |-> IF x \in Foreign THEN "foreign" ELSE "absent"]
    /\ run = [r \in Runs |-> Resting]
    /\ faults = 0
    /\ raced = FALSE
    /\ mixed = {}

TypeOK ==
    /\ operation \in [Operations -> [status : OperationStatus, conn : Connections \cup {NoConnection},
                                  wanted : Sources \X ({Created} \cup Targets)]]
    /\ targetOf \in [Operations -> Targets \cup {NoTarget}]
    /\ \A o \in Operations : \A d \in done[o] : d[1] \in 1 .. Len(Steps) /\ d[2] \in Objects /\ d[3] \in Ownership
    /\ connection \in [Connections -> [status : ConnectionStatus, source : Sources, target : Targets \cup {NoTarget}]]
    /\ \A x \in resources : x[1] \in Connections /\ x[2] \in Objects /\ x[3] \in Ownership
    /\ \A t \in Targets : projects[t] \in Sources \cup {"absent", "other"}
    /\ objects \in [Objects -> {"absent", "foreign", "specwire"}]
    /\ run \in [Runs -> [pc : RunPc, op : Operations, source : Sources, wanted : Targets \cup {Created},
                         conn : Connections \cup {NoConnection}, target : Targets \cup {NoTarget},
                         step : 1 .. Len(Steps) + 1, object : Objects, own : Ownership]]
    /\ faults \in 0 .. MaxFaults
    /\ mixed \subseteq Operations

-----------------------------------------------------------------------------
(***************************************************************************)
(* The tables.                                                             *)
(***************************************************************************)
Active(c) == connection[c].status \notin {"absent", "disabled"}
BySource(s) == {c \in Connections : Active(c) /\ connection[c].source = s}
ByTarget(t) == {c \in Connections : Active(c) /\ connection[c].target = t}
NewConnection == {c \in Connections : connection[c].status = "absent"}
NewProject == {t \in Targets : projects[t] = "absent"}
First(S) == CHOOSE n \in S : \A m \in S : n <= m

Fault == faults < MaxFaults /\ faults' = faults + 1

Goto(r, label) == run' = [run EXCEPT ![r].pc = label]
End(r) == run' = [run EXCEPT ![r] = Resting]

\* Of a run that only has its status to record, the Connection is still needed.
Settling(r, label) ==
    [Resting EXCEPT !.pc = label, !.op = run[r].op, !.conn = run[r].conn]
GotoEnd(r, label) == run' = [run EXCEPT ![r] = Settling(r, label)]

UpdateOnboardingOperation(r, status) ==
    operation' = [operation EXCEPT ![run[r].op].status = status, ![run[r].op].conn = run[r].conn]

-----------------------------------------------------------------------------
(***************************************************************************)
(* Onboard.                                                                *)
(***************************************************************************)
Request(r, o, q) ==
    /\ run[r].pc = "idle"
    /\ q \in RequestsOf[o]
    /\ run' = [run EXCEPT ![r] = [Idle(o, q[1]) EXCEPT !.pc = "insert", !.wanted = q[2]]]
    /\ mixed' = IF \/ operation[o].status # "absent" /\ operation[o].wanted # q
                   \/ \E p \in Runs : run[p].pc # "idle" /\ run[p].op = o
                THEN mixed \cup {o} ELSE mixed
    /\ UNCHANGED <<rows, provider, faults, raced>>

\* CreateOnboardingOperation; an id that is taken continues its operation.
CreateOnboardingOperation(r) ==
    LET o == run[r].op
    IN  /\ run[r].pc = "insert"
        /\ \/ /\ operation[o].status = "absent"
              /\ operation' = [operation EXCEPT ![o].status = "open",
                                                  ![o].wanted = <<run[r].source, run[r].wanted>>]
              /\ Goto(r, "findSource")
           \/ /\ operation[o].status # "absent"
              /\ run' = [run EXCEPT ![r].conn = operation[o].conn,
                                    ![r].pc = IF operation[o].conn = NoConnection THEN "findSource"
                                              ELSE "getConnection"]
              /\ UNCHANGED operation
        /\ UNCHANGED <<targetOf, done, connection, resources, provider, faults, history>>

\* The operation knows its Connection: the target is taken from there.
GetConnection(r) ==
    /\ run[r].pc = "getConnection"
    /\ run' = [run EXCEPT ![r].target = connection[run[r].conn].target, ![r].pc = "read"]
    /\ UNCHANGED <<rows, provider, faults, history>>

\* An active Connection of the source is taken over if its target is the one
\* requested or the one the operation has created.
FindActiveConnectionBySource(r) ==
    LET c == First(BySource(run[r].source))
        expected == IF run[r].wanted # Created THEN run[r].wanted ELSE targetOf[run[r].op]
    IN  /\ run[r].pc = "findSource"
        /\ \/ /\ BySource(run[r].source) = {}
              /\ Goto(r, IF run[r].wanted = Created THEN "ensureTarget" ELSE "findTarget")
           \/ /\ BySource(run[r].source) # {}
              /\ expected # NoTarget /\ connection[c].target = expected
              /\ run' = [run EXCEPT ![r].conn = c, ![r].target = expected, ![r].pc = "adopt"]
           \/ /\ BySource(run[r].source) # {}
              /\ expected = NoTarget \/ connection[c].target # expected
              /\ GotoEnd(r, "failed")
        /\ UNCHANGED <<rows, provider, faults, history>>

FindActiveConnectionByTarget(r) ==
    /\ run[r].pc = "findTarget"
    /\ IF ByTarget(run[r].wanted) = {} THEN Goto(r, "ensureTarget") ELSE GotoEnd(r, "failed")
    /\ UNCHANGED <<rows, provider, faults, history>>

\* Mutant: a project with the requested title is no obstacle.
ListProjectsUnchecked(r) ==
    /\ run[r].pc = "ensureTarget"
    /\ \/ /\ run[r].wanted # Created \/ targetOf[run[r].op] # NoTarget
          /\ run' = [run EXCEPT ![r].pc = "targetCheckpoint",
                                ![r].target = IF run[r].wanted # Created THEN run[r].wanted
                                              ELSE targetOf[run[r].op]]
       \/ /\ run[r].wanted = Created /\ targetOf[run[r].op] = NoTarget
          /\ Goto(r, "createProject")
    /\ UNCHANGED <<rows, provider, faults, history>>

\* ensureTargetProject: the requested project, the one of the checkpoint, or
\* a new one, unless the title is in use.
EnsureTargetProject(r) ==
    LET o == run[r].op
        taken == \E t \in Targets : projects[t] = run[r].source
    IN  /\ run[r].pc = "ensureTarget"
        /\ \/ /\ run[r].wanted # Created
              /\ run' = [run EXCEPT ![r].target = run[r].wanted, ![r].pc = "targetCheckpoint"]
              /\ UNCHANGED raced
           \/ /\ run[r].wanted = Created /\ targetOf[o] # NoTarget
              /\ run' = [run EXCEPT ![r].target = targetOf[o], ![r].pc = "targetCheckpoint"]
              /\ UNCHANGED raced
           \/ /\ run[r].wanted = Created /\ targetOf[o] = NoTarget
              /\ IF taken THEN GotoEnd(r, "failed") ELSE Goto(r, "createProject")
              /\ raced' = (raced \/ \E p \in Runs : run[p].pc = "createProject")
        /\ UNCHANGED <<rows, provider, faults, mixed>>

\* CreateProject of the Multica adapter; the idempotency key is not passed on.
CreateProject(r) ==
    /\ run[r].pc = "createProject"
    /\ NewProject # {}
    /\ projects' = [projects EXCEPT ![First(NewProject)] = run[r].source]
    /\ \/ /\ run' = [run EXCEPT ![r].target = First(NewProject), ![r].pc = "targetCheckpoint"]
          /\ UNCHANGED faults
       \/ /\ Fault                                \* the answer is lost
          /\ GotoEnd(r, "failed")
    /\ UNCHANGED <<rows, objects, history>>

CheckpointTarget(r) ==
    /\ run[r].pc = "targetCheckpoint"
    /\ targetOf' = [targetOf EXCEPT ![run[r].op] = run[r].target]
    /\ Goto(r, IF run[r].conn = NoConnection THEN "createConnection" ELSE "read")
    /\ UNCHANGED <<operation, done, connection, resources, provider, faults, history>>

\* Mutant: a bound source or target is bound again.
InsertConnectionUnchecked(r) ==
    /\ run[r].pc = "createConnection"
    /\ NewConnection # {}
    /\ connection' = [connection EXCEPT ![First(NewConnection)] =
           [status |-> "active", source |-> run[r].source, target |-> run[r].target]]
    /\ run' = [run EXCEPT ![r].conn = First(NewConnection), ![r].pc = "link"]
    /\ UNCHANGED <<operation, targetOf, done, resources, provider, faults, history>>

\* Mutant: the run does not take up the Connection it has created.
InsertConnectionForgotten(r) ==
    /\ run[r].pc = "createConnection"
    /\ NewConnection # {}
    /\ connection' = [connection EXCEPT ![First(NewConnection)] =
           [status |-> "active", source |-> run[r].source, target |-> run[r].target]]
    /\ Goto(r, "link")
    /\ UNCHANGED <<operation, targetOf, done, resources, provider, faults, history>>

\* The partial unique indexes refuse a source or a target that is bound already.
CreateConnection(r) ==
    LET free == BySource(run[r].source) = {} /\ ByTarget(run[r].target) = {}
    IN  /\ run[r].pc = "createConnection"
        /\ \/ /\ free
              /\ NewConnection # {}
              /\ connection' = [connection EXCEPT ![First(NewConnection)] =
                     [status |-> "active", source |-> run[r].source, target |-> run[r].target]]
              /\ run' = [run EXCEPT ![r].conn = First(NewConnection), ![r].pc = "link"]
           \/ /\ ~free
              /\ GotoEnd(r, "failed")
              /\ UNCHANGED connection
        /\ UNCHANGED <<operation, targetOf, done, resources, provider, faults, history>>

\* The operation remembers its Connection.  The checkpoints "connection",
\* "source_project" and "hook_plan" are never read and left out.
LinkConnection(r) ==
    /\ run[r].pc \in {"link", "adopt"}
    /\ UpdateOnboardingOperation(r, "open")
    /\ Goto(r, IF run[r].pc = "link" THEN "read" ELSE "ensureTarget")
    /\ UNCHANGED <<targetOf, done, connection, resources, provider, faults, history>>

-----------------------------------------------------------------------------
(***************************************************************************)
(* The resources, one after the other.                                     *)
(***************************************************************************)
Wanted(r) == Object(Steps[run[r].step], run[r].source, run[r].target)

\* completedCheckpoint: what is done is not asked of the provider again.
ReadCheckpoint(r) ==
    /\ run[r].pc = "read"
    /\ \/ /\ run[r].step > Len(Steps)
          /\ Goto(r, "probe")
       \/ /\ run[r].step <= Len(Steps)
          /\ \E d \in done[run[r].op] :
                 /\ d[1] = run[r].step
                 /\ run' = [run EXCEPT ![r].object = d[2], ![r].own = d[3], ![r].pc = "row"]
       \/ /\ run[r].step <= Len(Steps)
          /\ \A d \in done[run[r].op] : d[1] # run[r].step
          /\ Goto(r, "ensure")
    /\ UNCHANGED <<rows, provider, faults, history>>

\* Mutant: what is found counts as created.
EnsureClaims(r) ==
    /\ run[r].pc = "ensure"
    /\ objects' = [objects EXCEPT ![Wanted(r)] = IF @ = "absent" THEN "specwire" ELSE @]
    /\ run' = [run EXCEPT ![r].object = Wanted(r), ![r].own = "managed", ![r].pc = "row"]
    /\ UNCHANGED <<rows, projects, faults, history>>

\* EnsureLabel, EnsureWorkspaceRepository, EnsureProjectResource: list, and add if it is missing.
Ensure(r) ==
    /\ run[r].pc = "ensure"
    /\ objects' = [objects EXCEPT ![Wanted(r)] = IF @ = "absent" THEN "specwire" ELSE @]
    /\ \/ /\ run' = [run EXCEPT ![r].pc = "row", ![r].object = Wanted(r),
                     ![r].own = IF objects[Wanted(r)] = "absent" THEN "managed" ELSE "adopted"]
          /\ UNCHANGED faults
       \/ /\ Fault                                \* the answer is lost
          /\ GotoEnd(r, "failed")
    /\ UNCHANGED <<rows, projects, history>>

\* Mutant: the checkpoint precedes the row.
CheckpointFirst(r) ==
    /\ run[r].pc = "row"
    /\ done' = [done EXCEPT ![run[r].op] = {d \in @ : d[1] # run[r].step}
                                              \cup {<<run[r].step, run[r].object, run[r].own>>}]
    /\ run' = [run EXCEPT ![r].step = @ + 1, ![r].object = NoObject, ![r].own = "managed",
                          ![r].pc = "read"]
    /\ UNCHANGED <<operation, targetOf, connection, resources, provider, faults, history>>

\* EnsureManagedResource keeps a row that exists.
EnsureManagedResource(r) ==
    /\ run[r].pc = "row"
    /\ resources' = IF \E x \in resources : x[1] = run[r].conn /\ x[2] = run[r].object
                    THEN resources
                    ELSE resources \cup {<<run[r].conn, run[r].object, run[r].own>>}
    /\ Goto(r, "checkpoint")
    /\ UNCHANGED <<operation, targetOf, done, connection, provider, faults, history>>

CheckpointResource(r) ==
    /\ run[r].pc = "checkpoint"
    /\ done' = [done EXCEPT ![run[r].op] = {d \in @ : d[1] # run[r].step}
                                              \cup {<<run[r].step, run[r].object, run[r].own>>}]
    /\ run' = [run EXCEPT ![r].step = @ + 1, ![r].object = NoObject, ![r].own = "managed",
                          ![r].pc = "read"]
    /\ UNCHANGED <<operation, targetOf, connection, resources, provider, faults, history>>

-----------------------------------------------------------------------------
(***************************************************************************)
(* The end of a run.                                                       *)
(***************************************************************************)
\* ProbeReadiness, and UpdateConnectionStatus: the indexes refuse to bring a
\* disabled Connection back beside another one, and that error is dropped.
ProbeReadiness(r) ==
    LET c == run[r].conn
        allowed == /\ BySource(connection[c].source) \subseteq {c}
                   /\ ByTarget(connection[c].target) \subseteq {c}
    IN  /\ run[r].pc = "probe"
        /\ \/ /\ connection' = IF allowed THEN [connection EXCEPT ![c].status = "active"] ELSE connection
              /\ UNCHANGED faults
           \/ /\ Fault                            \* no answer, or the row is not written
              /\ UNCHANGED connection
        /\ GotoEnd(r, "finish")
        /\ UNCHANGED <<operation, targetOf, done, resources, provider, history>>

Finish(r) ==
    /\ run[r].pc = "finish"
    /\ UpdateOnboardingOperation(r, "finished")
    /\ End(r)
    /\ UNCHANGED <<targetOf, done, connection, resources, provider, faults, history>>

\* A statement or a provider call fails before it has an effect; GetProject,
\* which only reads, fails like the call that follows it.
StepFails(r) ==
    /\ run[r].pc \notin {"idle", "insert", "probe", "failed"}
    /\ Fault
    /\ GotoEnd(r, "failed")
    /\ UNCHANGED <<rows, provider, history>>

\* fail: the status is recorded, an error of that statement is dropped.
RecordFailure(r) ==
    /\ run[r].pc = "failed"
    /\ \/ UpdateOnboardingOperation(r, "open") /\ UNCHANGED faults
       \/ Fault /\ UNCHANGED operation
    /\ End(r)
    /\ UNCHANGED <<targetOf, done, connection, resources, provider, history>>

\* The handlers "disable" and "deprovision".  The hook routes that the same transaction
\* disables are a variable of FlowPublication: its DisableConnection has that half.
DisableConnection(c) ==
    /\ connection[c].status # "absent"
    /\ connection' = [connection EXCEPT ![c].status = "disabled"]
    /\ UNCHANGED <<operation, targetOf, done, resources, provider, run, faults, history>>

Crash ==
    /\ Fault
    /\ run' = [r \in Runs |-> Resting]
    /\ UNCHANGED <<rows, provider, history>>

Next ==
    \/ \E r \in Runs :
          \/ \E o \in Operations, q \in Sources \X (Targets \cup {Created}) : Request(r, o, q)
          \/ CreateOnboardingOperation(r)
          \/ GetConnection(r)
          \/ FindActiveConnectionBySource(r)
          \/ FindActiveConnectionByTarget(r)
          \/ EnsureTargetProject(r)
          \/ CreateProject(r)
          \/ CheckpointTarget(r)
          \/ CreateConnection(r)
          \/ LinkConnection(r)
          \/ ReadCheckpoint(r)
          \/ Ensure(r)
          \/ EnsureManagedResource(r)
          \/ CheckpointResource(r)
          \/ ProbeReadiness(r)
          \/ Finish(r)
          \/ StepFails(r)
          \/ RecordFailure(r)
    \/ \E c \in Connections : DisableConnection(c)
    \/ Crash

Spec == Init /\ [][Next]_vars

-----------------------------------------------------------------------------
(***************************************************************************)
(* A source and a target belong to at most one active Connection, whatever *)
(* runs overlap, are repeated or bring a disabled Connection back          *)
(* (connections_active_source_uq, connections_active_target_uq).           *)
(***************************************************************************)
OneToOne ==
    \A c, d \in Connections : Active(c) /\ Active(d) /\ c # d =>
        connection[c].source # connection[d].source /\ connection[c].target # connection[d].target

(***************************************************************************)
(* A retry does not create a second project: unless one run listed the     *)
(* projects while another one was creating, there is one project for a     *)
(* source, also after a crash or a lost answer (ensureTargetProject).      *)
(***************************************************************************)
OneProjectPerSource ==
    ~raced => \A s \in Sources : Cardinality({t \in Targets : projects[t] = s}) <= 1

(***************************************************************************)
(* Only what SpecWire has created is recorded as managed, through crashes, *)
(* retries from checkpoints and Connections taken over: a managed resource *)
(* is offered for deprovisioning (BuildDeprovisionPlan).                   *)
(***************************************************************************)
ManagedIsOurs ==
    \A x \in resources : x[3] = "managed" => objects[x[2]] = "specwire"

(***************************************************************************)
(* A finished operation is complete: every resource of its Connection      *)
(* exists at the provider and is recorded, however often it was resumed,   *)
(* as long as its runs did not overlap and asked for the same.             *)
(***************************************************************************)
ConfiguredIsComplete ==
    \A o \in Operations \ mixed :
        operation[o].status = "finished" =>
            LET c == operation[o].conn
            IN  /\ c # NoConnection
                /\ \A i \in DOMAIN Steps :
                       LET x == Object(Steps[i], connection[c].source, connection[c].target)
                       IN  objects[x] # "absent" /\ \E y \in resources : y[1] = c /\ y[2] = x
=============================================================================
