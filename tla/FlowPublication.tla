-------------------------- MODULE FlowPublication --------------------------
(***************************************************************************)
(* Flows, their versions and their hook routes: internal/flow/service.go,  *)
(* the flow tables of internal/store/repository.go and flow_drafts.go, the *)
(* routes of internal/store/hooks.go and ActivateInputFlow/PauseInputFlow  *)
(* of internal/controlplane/hooks.go, driven by the Flow handlers of       *)
(* internal/httpapi/integration.go, beside the disable of their Connection *)
(* (DisableConnection in internal/store/endpoints.go).                     *)
(*                                                                         *)
(* Publish, Pause, Archive and EnsureAbandonFlow are sequences of database *)
(* statements (SaveFlowVersion and ActivateHookRoute are transactions) and *)
(* of the reconciliation of HookReconciler; nothing serialises the         *)
(* requests of one Flow.  All Flows here belong to one Connection.         *)
(***************************************************************************)
EXTENDS HookReconciler, Sequences

CONSTANTS
    Flows,
    ReservedFlows,    \* rows there may be of the name "Abandon Change", in ListFlows' order
    Drafts,           \* graphs a draft may hold
    ValidDrafts,      \* those catalog.Validate(graph, true) accepts
    TemplateDraft,    \* the graph of the template of a reserved Flow
    MaxVersion        \* bound: versions of a Flow

ASSUME FlowConstants ==
    /\ Flows # {}
    /\ ReservedFlows \in Seq(Flows)
    /\ ValidDrafts \subseteq Drafts
    /\ TemplateDraft \in ValidDrafts
    /\ MaxVersion \in Nat \ {0}

Versions == 1 .. MaxVersion
NoFlow == CHOOSE f \in Flows : TRUE     \* of a request at rest
LiveTestPc == {"liveVersion", "liveAccept"}
FlowStatus == {"absent", "draft", "published", "paused", "archived"}

VARIABLES
    flowStatus, activeVersion,      \* flows; "absent": no row
    draft,                          \* flow_drafts; a subset of Drafts, empty: no row
    versionStatus, graph,           \* flow_versions
    routes,                         \* hook_routes
    connectionStatus,               \* connections.status: "disabled", or one that is not
    rFlow, rVersion, rGraph,        \* locals of a request
    (***********************************************************************)
    (* History: requests that met another one of their Flow, or whose      *)
    (* route was disabled with the Connection, and Flows left              *)
    (* half-published, half-paused or without their route since they were  *)
    (* last published.                                                     *)
    (***********************************************************************)
    crowded, flowSuspect

flowRows == <<flowStatus, activeVersion, draft, versionStatus, graph, routes>>
requestVars == <<rFlow, rVersion, rGraph>>
flowHistory == <<crowded, flowSuspect>>
flowVars == <<flowRows, connectionStatus, requestVars, flowHistory>>
\* What the requests of a Flow leave to the reconciliation and to the disable.
hookRest == <<hookRef, secrets, gitlabToken, rRef, rOld, hookSuspect, connectionStatus>>

\* Requests that change Flow f.
InFlight(f) ==
    {o \in Requests : pc[o] \notin {"idle"} \cup LiveTestPc \cup RotatePc /\ rFlow[o] = f}

\* A request of Flow f begins.
Enter(o, f, label) ==
    /\ rFlow' = [rFlow EXCEPT ![o] = f]
    /\ pc' = [pc EXCEPT ![o] = label]
    /\ IF InFlight(f) # {}
       THEN /\ crowded' = crowded \cup InFlight(f) \cup {o}
            /\ flowSuspect' = flowSuspect \cup {f}
       ELSE UNCHANGED flowHistory

\* A request goes on to its next statement ...
FlowGoto(o, label) == Goto(o, label) /\ UNCHANGED <<requestVars, flowHistory>>

\* ... or is answered.
Return(o) ==
    /\ Goto(o, "idle")
    /\ rFlow' = [rFlow EXCEPT ![o] = NoFlow]
    /\ rVersion' = [rVersion EXCEPT ![o] = 0]
    /\ rGraph' = [rGraph EXCEPT ![o] = TemplateDraft]
    /\ crowded' = crowded \ {o}

ReservedIndices == DOMAIN ReservedFlows

FlowInit ==
    /\ flowStatus = [f \in Flows |-> IF \E i \in ReservedIndices : ReservedFlows[i] = f
                                     THEN "absent" ELSE "draft"]
    /\ activeVersion = [f \in Flows |-> 0]
    /\ draft = [f \in Flows |-> {}]
    /\ versionStatus = [f \in Flows |-> [v \in Versions |-> "absent"]]
    /\ graph = [f \in Flows |-> [v \in Versions |-> TemplateDraft]]
    /\ routes = [f \in Flows |-> [v \in Versions |-> "absent"]]
    /\ connectionStatus = "active"
    /\ rFlow = [o \in Requests |-> NoFlow]
    /\ rVersion = [o \in Requests |-> 0]
    /\ rGraph = [o \in Requests |-> TemplateDraft]
    /\ crowded = {}
    /\ flowSuspect = {}

RequestPc == {"idle", "createFlow", "createDraft", "getDraft", "nextVersion", "saveVersion",
              "activateRoute", "recordHook", "activationFailed", "pauseCheck", "pauseRoute",
              "pauseStatus", "archiveRoute", "archiveStatus"} \cup LiveTestPc \cup HookPc

FlowTypeOK ==
    /\ HookTypeOK
    /\ pc \in [Requests -> RequestPc]
    /\ flowStatus \in [Flows -> FlowStatus]
    /\ activeVersion \in [Flows -> 0 .. MaxVersion]
    /\ draft \in [Flows -> SUBSET Drafts] /\ \A f \in Flows : Cardinality(draft[f]) <= 1
    /\ versionStatus \in [Flows -> [Versions -> {"absent", "published", "archived"}]]
    /\ graph \in [Flows -> [Versions -> Drafts]]
    /\ routes \in [Flows -> [Versions -> {"absent", "active", "disabled"}]]
    /\ connectionStatus \in {"active", "disabled"}
    /\ rFlow \in [Requests -> Flows]
    /\ rVersion \in [Requests -> 0 .. MaxVersion]
    /\ rGraph \in [Requests -> Drafts]
    /\ crowded \subseteq Requests
    /\ flowSuspect \subseteq Flows

-----------------------------------------------------------------------------
(***************************************************************************)
(* Statements of the store.                                                *)
(***************************************************************************)
Stored(f) == {v \in Versions : versionStatus[f][v] # "absent"}
NextFlowVersion(f) == IF Stored(f) = {} THEN 1 ELSE 1 + CHOOSE v \in Stored(f) : \A w \in Stored(f) : w <= v

UpdateFlowStatus(f, s) == flowStatus' = [flowStatus EXCEPT ![f] = s]

\* Mutant: the version that was active is not archived.
InsertVersionOnly(f, v, g) ==
    /\ versionStatus' = [versionStatus EXCEPT ![f][v] = "published"]
    /\ graph' = [graph EXCEPT ![f][v] = g]
    /\ flowStatus' = [flowStatus EXCEPT ![f] = "published"]
    /\ activeVersion' = [activeVersion EXCEPT ![f] = v]

\* The rows SaveFlowVersion writes for a version that is new.
InsertVersion(f, v, g) ==
    /\ versionStatus' = [versionStatus EXCEPT ![f] =
           [w \in Versions |-> IF w = v THEN "published"
                               ELSE IF @[w] = "published" THEN "archived" ELSE @[w]]]
    /\ graph' = [graph EXCEPT ![f][v] = g]
    /\ flowStatus' = [flowStatus EXCEPT ![f] = "published"]
    /\ activeVersion' = [activeVersion EXCEPT ![f] = v]

\* Mutant: the version number read before is written over.
SaveAlways(f, v, g) == "insert"

\* What SaveFlowVersion does: a stored version is immutable, and saving the
\* same published content again is idempotent.
SaveOutcome(f, v, g) ==
    IF versionStatus[f][v] = "absent" THEN "insert"
    ELSE IF versionStatus[f][v] = "published" /\ graph[f][v] = g THEN "idempotent"
    ELSE "immutable"

\* Mutant: routes of other versions stay active.
ActivateOnly(f, v) == routes' = [routes EXCEPT ![f][v] = "active"]

\* The transaction of ActivateHookRoute.
ActivateHookRoute(f, v) ==
    routes' = [routes EXCEPT ![f] =
        [w \in Versions |-> IF w = v THEN "active"
                            ELSE IF @[w] = "absent" THEN "absent" ELSE "disabled"]]

\* DisableHookRoutesForFlow; a route that does not exist is not an error to PauseInputFlow.
DisableHookRoutes(f, v) ==
    routes' = [routes EXCEPT ![f] =
        [w \in Versions |-> IF v \in {0, w} /\ @[w] # "absent" THEN "disabled" ELSE @[w]]]

-----------------------------------------------------------------------------
(***************************************************************************)
(* EnsureAbandonFlow and SaveDraft.                                        *)
(***************************************************************************)
\* ListFlows: the first reserved Flow is published unless it is published or
\* archived already.  Without one a Flow with a new id is created, by every
\* request that has found none: nothing serialises them.
Installed == {i \in ReservedIndices : flowStatus[ReservedFlows[i]] # "absent"}

EnsureAbandonFlow(o) ==
    /\ pc[o] = "idle"
    /\ \/ \E i \in Installed :
             /\ \A j \in Installed : i <= j
             /\ flowStatus[ReservedFlows[i]] \in {"draft", "paused"}
             /\ Enter(o, ReservedFlows[i], "getDraft")
       \/ /\ Installed = {}
          /\ \E i \in ReservedIndices :
                 /\ InFlight(ReservedFlows[i]) = {}
                 /\ Enter(o, ReservedFlows[i], "createFlow")
    /\ UNCHANGED <<hookRest, faults, entangled, flowRows, rVersion, rGraph>>

\* CreateFromTemplate inserts the Flow and then, separately, its draft.
CreateFlow(o) ==
    /\ pc[o] = "createFlow"
    /\ \/ /\ UpdateFlowStatus(rFlow[o], "draft")
          /\ FlowGoto(o, "createDraft")
          /\ UNCHANGED faults
       \/ /\ Fault
          /\ Return(o)
          /\ UNCHANGED <<flowStatus, flowSuspect>>
    /\ UNCHANGED <<hookRest, entangled, activeVersion, draft, versionStatus, graph, routes>>

CreateDraft(o) ==
    /\ pc[o] = "createDraft"
    /\ \/ /\ draft' = [draft EXCEPT ![rFlow[o]] = {TemplateDraft}]
          /\ FlowGoto(o, "getDraft")
          /\ UNCHANGED faults
       \/ /\ Fault
          /\ Return(o)
          /\ UNCHANGED <<draft, flowSuspect>>
    /\ UNCHANGED <<hookRest, entangled, flowStatus, activeVersion, versionStatus, graph, routes>>

\* Mutant: a draft is inserted beside the one that exists.
AddDraft(f, g) ==
    /\ flowStatus[f] # "absent"
    /\ draft' = [draft EXCEPT ![f] = @ \cup {g}]
    /\ UNCHANGED <<hookVars, connectionStatus, flowStatus, activeVersion, versionStatus, graph, routes,
                   requestVars, flowHistory>>

\* An editor saves a draft of any Flow that exists, whatever its status.
SaveDraft(f, g) ==
    /\ flowStatus[f] # "absent"
    /\ draft' = [draft EXCEPT ![f] = {g}]
    /\ UNCHANGED <<hookVars, connectionStatus, flowStatus, activeVersion, versionStatus, graph, routes,
                   requestVars, flowHistory>>

-----------------------------------------------------------------------------
(***************************************************************************)
(* Publish.                                                                *)
(***************************************************************************)
MayPublish(f) == flowStatus[f] \in {"draft", "published", "paused"}

Publish(o, f) ==
    /\ pc[o] = "idle"
    /\ MayPublish(f)
    /\ Enter(o, f, "getDraft")
    /\ UNCHANGED <<hookRest, faults, entangled, flowRows, rVersion, rGraph>>

\* GetFlowDraft, Validate and Compile: a missing or invalid draft ends the request.
GetFlowDraft(o) ==
    /\ pc[o] = "getDraft"
    /\ \/ \E g \in draft[rFlow[o]] \cap ValidDrafts :
             /\ rGraph' = [rGraph EXCEPT ![o] = g]
             /\ Goto(o, "nextVersion")
             /\ UNCHANGED <<rFlow, rVersion, flowHistory>>
       \/ /\ draft[rFlow[o]] \cap ValidDrafts = {}
          /\ Return(o)
          /\ UNCHANGED flowSuspect
    /\ UNCHANGED <<hookRest, faults, entangled, flowRows>>

ReadNextVersion(o) ==
    /\ pc[o] = "nextVersion"
    /\ NextFlowVersion(rFlow[o]) <= MaxVersion
    /\ rVersion' = [rVersion EXCEPT ![o] = NextFlowVersion(rFlow[o])]
    /\ Goto(o, "saveVersion")
    /\ UNCHANGED <<hookRest, faults, entangled, flowRows, rFlow, rGraph, flowHistory>>

\* SaveFlowVersion, then ActivateInputFlow begins.
SaveFlowVersion(o) ==
    LET f == rFlow[o]
        outcome == SaveOutcome(f, rVersion[o], rGraph[o])
        versions == <<flowStatus, activeVersion, versionStatus, graph>>
    IN  /\ pc[o] = "saveVersion"
        /\ \/ /\ outcome = "insert"
              /\ InsertVersion(f, rVersion[o], rGraph[o])
              /\ FlowGoto(o, "getHook")
              /\ EnterHook(o, FALSE)
              /\ UNCHANGED faults
           \/ /\ outcome = "idempotent"
              /\ FlowGoto(o, "getHook")
              /\ EnterHook(o, FALSE)
              /\ UNCHANGED <<versions, faults>>
           \/ /\ outcome = "immutable"
              /\ Return(o)
              /\ UNCHANGED <<versions, faults, entangled, flowSuspect>>
           \/ /\ Fault
              /\ Return(o)
              /\ UNCHANGED <<versions, entangled, flowSuspect>>
        /\ UNCHANGED <<hookRest, draft, routes>>

\* The route of the version, once the hook is ready.
ActivateRoute(o) ==
    /\ pc[o] = "activateRoute"
    /\ \/ /\ ActivateHookRoute(rFlow[o], rVersion[o])
          /\ FlowGoto(o, "recordHook")
          /\ UNCHANGED faults
       \/ /\ Fault
          /\ FlowGoto(o, "activationFailed")
          /\ UNCHANGED routes
    /\ UNCHANGED <<hookRest, entangled, flowStatus, activeVersion, draft, versionStatus, graph>>

\* EnsureManagedResource ends the activation, and may still fail it.
RecordHook(o) ==
    /\ pc[o] = "recordHook"
    /\ \/ /\ Return(o)
          /\ flowSuspect' = IF o \in crowded THEN flowSuspect ELSE flowSuspect \ {rFlow[o]}
          /\ UNCHANGED faults
       \/ /\ Fault
          /\ FlowGoto(o, "activationFailed")
    /\ UNCHANGED <<hookRest, entangled, flowRows>>

\* Mutant: a failed activation leaves the Flow published.
LeavePublished(o) ==
    /\ pc[o] = "activationFailed"
    /\ Return(o)
    /\ UNCHANGED <<hookRest, faults, entangled, flowRows, flowSuspect>>

\* A failed activation pauses the Flow; the error of that statement is dropped.
PauseAfterFailure(o) ==
    /\ pc[o] = "activationFailed"
    /\ \/ /\ UpdateFlowStatus(rFlow[o], "paused")
          /\ UNCHANGED <<faults, flowSuspect>>
       \/ /\ Fault
          /\ flowSuspect' = flowSuspect \cup {rFlow[o]}
          /\ UNCHANGED flowStatus
    /\ Return(o)
    /\ UNCHANGED <<hookRest, entangled, activeVersion, draft, versionStatus, graph, routes>>

-----------------------------------------------------------------------------
(***************************************************************************)
(* Pause and Archive.                                                      *)
(***************************************************************************)
\* The handler reads the Flow and passes its active version on.
Pause(o, f) ==
    /\ pc[o] = "idle"
    /\ flowStatus[f] # "absent"
    /\ Enter(o, f, "pauseCheck")
    /\ rVersion' = [rVersion EXCEPT ![o] = activeVersion[f]]
    /\ UNCHANGED <<hookRest, faults, entangled, flowRows, rGraph>>

\* The service reads it again; without a version from the handler it takes its own.
PauseCheck(o) ==
    LET f == rFlow[o]
        v == IF rVersion[o] > 0 THEN rVersion[o] ELSE activeVersion[f]
        allowed == flowStatus[f] = "published" /\ v > 0
    IN  /\ pc[o] = "pauseCheck"
        /\ \/ /\ allowed
              /\ rVersion' = [rVersion EXCEPT ![o] = v]
              /\ Goto(o, "pauseRoute")
              /\ UNCHANGED <<rFlow, rGraph, flowHistory>>
           \/ /\ ~allowed
              /\ Return(o)
              /\ UNCHANGED flowSuspect
        /\ UNCHANGED <<hookRest, faults, entangled, flowRows>>

Archive(o, f) ==
    /\ pc[o] = "idle"
    /\ flowStatus[f] \in {"published", "paused"}
    /\ Enter(o, f, IF activeVersion[f] > 0 THEN "archiveRoute" ELSE "archiveStatus")
    /\ rVersion' = [rVersion EXCEPT ![o] = activeVersion[f]]
    /\ UNCHANGED <<hookRest, faults, entangled, flowRows, rGraph>>

\* PauseInputFlow disables the route of the version that was read.
PauseInputFlow(o) ==
    /\ pc[o] \in {"pauseRoute", "archiveRoute"}
    /\ \/ /\ DisableHookRoutes(rFlow[o], rVersion[o])
          /\ FlowGoto(o, IF pc[o] = "pauseRoute" THEN "pauseStatus" ELSE "archiveStatus")
          /\ UNCHANGED faults
       \/ /\ Fault
          /\ Return(o)
          /\ UNCHANGED <<routes, flowSuspect>>
    /\ UNCHANGED <<hookRest, entangled, flowStatus, activeVersion, draft, versionStatus, graph>>

\* The status follows in a statement of its own; failing, the route stays disabled.
SetFlowStatus(o) ==
    /\ pc[o] \in {"pauseStatus", "archiveStatus"}
    /\ \/ /\ UpdateFlowStatus(rFlow[o], IF pc[o] = "pauseStatus" THEN "paused" ELSE "archived")
          /\ UNCHANGED <<faults, flowSuspect>>
       \/ /\ Fault
          /\ flowSuspect' = flowSuspect \cup {rFlow[o]}
          /\ UNCHANGED flowStatus
    /\ Return(o)
    /\ UNCHANGED <<hookRest, entangled, activeVersion, draft, versionStatus, graph, routes>>

-----------------------------------------------------------------------------
(***************************************************************************)
(* The status of the Connection.  No request of a Flow looks at it.        *)
(***************************************************************************)
connectionRest == <<hookRef, secrets, gitlabToken, pc, rRef, rOld, entangled, hookSuspect, flowStatus,
                    activeVersion, draft, versionStatus, graph, requestVars>>

\* The handlers disable and deprovision: one transaction disables the
\* Connection and every route it has, and leaves the Flows as they are.
DisableConnection ==
    /\ Fault                             \* none, but the same bound
    /\ connectionStatus' = "disabled"
    /\ routes' = [f \in Flows |-> [v \in Versions |->
                     IF routes[f][v] = "absent" THEN "absent" ELSE "disabled"]]
    /\ crowded' = crowded \cup {o \in Requests : pc[o] = "recordHook"}
    /\ flowSuspect' = flowSuspect \cup {f \in Flows : \E v \in Versions : routes[f][v] = "active"}
    /\ UNCHANGED connectionRest

\* An onboarding run that ends after the disable sets the status again, and
\* touches no route.
UpdateConnectionStatus ==
    /\ connectionStatus = "disabled"
    /\ connectionStatus' = "active"
    /\ UNCHANGED <<connectionRest, faults, routes, flowHistory>>

ConnectionStep == DisableConnection \/ UpdateConnectionStatus

-----------------------------------------------------------------------------
RequestStep(o) ==
    \/ EnsureAbandonFlow(o)
    \/ CreateFlow(o)
    \/ CreateDraft(o)
    \/ \E f \in Flows : Publish(o, f) \/ Pause(o, f) \/ Archive(o, f)
    \/ GetFlowDraft(o)
    \/ ReadNextVersion(o)
    \/ SaveFlowVersion(o)
    \/ HookStep(o) /\ UNCHANGED flowVars
    \/ ActivateRoute(o)
    \/ RecordHook(o)
    \/ PauseAfterFailure(o)
    \/ PauseCheck(o)
    \/ PauseInputFlow(o)
    \/ SetFlowStatus(o)

FlowCrash ==
    /\ HookCrash
    /\ flowSuspect' = flowSuspect \cup {f \in Flows : InFlight(f) # {}}
    /\ rFlow' = [o \in Requests |-> NoFlow]
    /\ rVersion' = [o \in Requests |-> 0]
    /\ rGraph' = [o \in Requests |-> TemplateDraft]
    /\ crowded' = {}
    /\ UNCHANGED <<flowRows, connectionStatus>>

-----------------------------------------------------------------------------
(***************************************************************************)
(* The active version of a Flow is its only published one and its newest,  *)
(* whichever publications read the same next version number                *)
(* (SaveFlowVersion and NextFlowVersion in repository.go).                 *)
(***************************************************************************)
ActiveIsNewest ==
    \A f \in Flows :
        /\ \A v \in Versions : versionStatus[f][v] = "published" <=> v = activeVersion[f]
        /\ \A v \in Stored(f) : v <= activeVersion[f]
        /\ flowStatus[f] = "published" => activeVersion[f] > 0

(***************************************************************************)
(* At most one version of a Flow is routed, whichever activations overlap  *)
(* (ActivateHookRoute: "a successful commit leaves exactly one active      *)
(* version for a Flow").                                                   *)
(***************************************************************************)
OneActiveRoute ==
    \A f \in Flows : Cardinality({v \in Versions : routes[f][v] = "active"}) <= 1

(***************************************************************************)
(* What is routed can be verified: an active route implies a hooks row     *)
(* whose secret is stored (ActivateInputFlow reconciles the hook first).   *)
(***************************************************************************)
RouteIsVerifiable ==
    (\E f \in Flows, v \in Versions : routes[f][v] = "active")
        => hookRef # NoRef /\ secrets[hookRef] # "absent"

(***************************************************************************)
(* A published Flow at rest is routed at its active version, unless since  *)
(* its last complete publication two of its requests overlapped, a crash   *)
(* or a failed status update cut one short, or its Connection was disabled *)
(* (DisableConnection leaves the Flows published, and nothing routes them  *)
(* again when the Connection comes back).  Publish pauses a Flow it cannot *)
(* activate, so ingress otherwise sees no Flow published but not routed.   *)
(***************************************************************************)
PublishedIsRouted ==
    \A f \in Flows \ flowSuspect :
        InFlight(f) = {} /\ flowStatus[f] = "published"
            => routes[f][activeVersion[f]] = "active"

(***************************************************************************)
(* A Connection has one published reserved Flow: EnsureAbandonFlow         *)
(* "installs the reserved lifecycle Flow for a Connection.  It is          *)
(* deliberately idempotent" (flow/service.go).  It does not hold: two      *)
(* calls that find none install one each, and the abandon label then       *)
(* starts an execution of either.                                          *)
(***************************************************************************)
OneReservedFlow ==
    \A i, j \in Installed :
        flowStatus[ReservedFlows[i]] = "published" /\ flowStatus[ReservedFlows[j]] = "published" => i = j

(***************************************************************************)
(* A stored version keeps its graph and is never published again: running  *)
(* executions, checkpoints and routes refer to it (ErrImmutable).          *)
(***************************************************************************)
VersionsAreImmutable ==
    [][\A f \in Flows, v \in Versions : versionStatus[f][v] # "absent" =>
          /\ graph'[f][v] = graph[f][v]
          /\ versionStatus'[f][v] \in {versionStatus[f][v], "archived"}]_<<versionStatus, graph>>
=============================================================================
