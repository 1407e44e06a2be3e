----------------------- MODULE FlowPublicationProofs -----------------------
(***************************************************************************)
(* Theorems about Flows, versions, routes and the hook, for every set of   *)
(* Flows, drafts, requests, handlers and deliveries and every bound, of    *)
(* the composition with the webhook handler (Spec of WebhookIngress).      *)
(***************************************************************************)
EXTENDS WebhookIngress, FiniteSetTheorems, WellFoundedInduction, TLAPS

-----------------------------------------------------------------------------
(***************************************************************************)
(* The shape of the rows and locals the arguments below compute with.      *)
(***************************************************************************)
HookShape ==
    /\ hookRef \in Refs \cup {NoRef}
    /\ secrets \in [Refs -> {"absent", "project", "rotation"}]
    /\ rRef \in [Requests -> Refs \cup {NoRef}]
    /\ DOMAIN pc = Requests

LocalsShape ==
    /\ DOMAIN pc = Requests
    /\ rFlow \in [Requests -> Flows]
    /\ rVersion \in [Requests -> 0 .. MaxVersion]
    /\ rGraph \in [Requests -> Drafts]

RowsShape ==
    /\ flowStatus \in [Flows -> FlowStatus]
    /\ activeVersion \in [Flows -> 0 .. MaxVersion]
    /\ draft \in [Flows -> SUBSET Drafts]
    /\ versionStatus \in [Flows -> [Versions -> {"absent", "published", "archived"}]]
    /\ graph \in [Flows -> [Versions -> Drafts]]
    /\ routes \in [Flows -> [Versions -> {"absent", "active", "disabled"}]]

FlowShape == LocalsShape /\ RowsShape

LEMMA NoFlowIsAFlow == NoFlow \in Flows
  BY FlowConstants DEF NoFlow

LEMMA ReservedAreFlows == \A i \in ReservedIndices : ReservedFlows[i] \in Flows
  BY FlowConstants DEF ReservedIndices

LEMMA ShapeInit == Init => HookShape /\ FlowShape
  BY FlowConstants, NoFlowIsAFlow DEF Init, HookInit, FlowInit, HookShape, FlowShape, LocalsShape, RowsShape, FlowStatus

-----------------------------------------------------------------------------
(***************************************************************************)
(* Numbers of versions.  A Flow has versions 1 .. activeVersion, of which  *)
(* only the last is published; a request about to save a version holds a   *)
(* number that is stored already, or the next one.                         *)
(***************************************************************************)
Numbered(f) ==
    /\ \A v \in Versions : versionStatus[f][v] # "absent" <=> v <= activeVersion[f]
    /\ \A v \in Versions : versionStatus[f][v] = "published" <=> v = activeVersion[f]
    /\ flowStatus[f] = "published" => activeVersion[f] > 0

MayBeSaved(o) ==
    pc[o] = "saveVersion" => rVersion[o] >= 1 /\ rVersion[o] <= activeVersion[rFlow[o]] + 1

VersionInv ==
    /\ \A f \in Flows : Numbered(f)
    /\ \A o \in Requests : MayBeSaved(o)

\* What most steps are to the versions: nothing, and no new number to save.
Quiet ==
    /\ UNCHANGED <<activeVersion, versionStatus, graph>>
    /\ \A f \in Flows : flowStatus'[f] = "published" => flowStatus[f] = "published"
    /\ \A o \in Requests : pc'[o] = "saveVersion" =>
          pc[o] = "saveVersion" /\ rVersion'[o] = rVersion[o] /\ rFlow'[o] = rFlow[o]

LEMMA QuietKeepsVersions == VersionInv /\ Quiet => VersionInv'
  BY DEF VersionInv, Numbered, MayBeSaved, Quiet

\* The next number of a Flow is one more than its active version.
LEMMA NextIsActivePlusOne ==
  ASSUME FlowShape, NEW f \in Flows, Numbered(f)
  PROVE  NextFlowVersion(f) = activeVersion[f] + 1
  <1> DEFINE a == activeVersion[f]
  <1>1. a \in 0 .. MaxVersion /\ MaxVersion \in Nat
      BY FlowConstants DEF FlowShape, RowsShape
  <1>2. Stored(f) = 1 .. a
      BY <1>1 DEF Stored, Numbered, Versions
  <1>3. CASE a = 0
    <2>1. Stored(f) = {}
        BY <1>2, <1>3
    <2>2. QED
        BY <2>1, <1>3 DEF NextFlowVersion
  <1>4. CASE a > 0
    <2>1. a \in Stored(f) /\ \A w \in Stored(f) : w <= a
        BY <1>1, <1>2, <1>4
    <2>2. \A v \in Stored(f) : (\A w \in Stored(f) : w <= v) => v = a
        BY <1>1, <1>2, <1>4
    <2>3. (CHOOSE v \in Stored(f) : \A w \in Stored(f) : w <= v) = a
        BY <2>1, <2>2
    <2>4. Stored(f) # {}
        BY <2>1
    <2>5. NextFlowVersion(f) = 1 + (CHOOSE v \in Stored(f) : \A w \in Stored(f) : w <= v)
        BY <2>4, Zenon DEF NextFlowVersion
    <2>6. NextFlowVersion(f) = 1 + a
        BY <2>3, <2>5, Zenon
    <2>7. QED
        BY <2>6, <1>1
  <1>5. QED
      BY <1>1, <1>3, <1>4

\* Where a step of the reconciliation leads.
LEMMA HookStepGoes ==
  ASSUME NEW o \in Requests, HookStep(o)
  PROVE  \E l \in HookPc \cup {"activateRoute", "activationFailed", "idle"} : pc' = [pc EXCEPT ![o] = l]
  <1>1. CASE GetHook(o)
      BY <1>1 DEF GetHook, HookGotoWith, HookGoto, HookReturn, Goto, HookPc, EnsurePc, RotatePc
  <1>2. CASE PutSecret(o)
      BY <1>2 DEF PutSecret, HookGotoWith, HookReturn, Goto, HookPc, EnsurePc, RotatePc
  <1>3. CASE EnsureProvider(o)
      BY <1>3 DEF EnsureProvider, ProviderHook, HookGoto, HookReturn, Goto, HookPc, EnsurePc, RotatePc
  <1>4. CASE UpsertHook(o)
      BY <1>4 DEF UpsertHook, HookReturn, Goto, HookPc, EnsurePc, RotatePc
  <1>5. CASE UpsertHookFails(o)
      BY <1>5 DEF UpsertHookFails, HookReturn, Goto, HookPc, EnsurePc, RotatePc
  <1>6. CASE Rotate(o)
      BY <1>6 DEF Rotate, EnterHook, Goto, HookPc, EnsurePc, RotatePc
  <1>7. CASE PutRotated(o)
      BY <1>7 DEF PutRotated, HookGotoWith, HookReturn, Goto, HookPc, EnsurePc, RotatePc
  <1>8. CASE RotateProvider(o)
      BY <1>8 DEF RotateProvider, ProviderHook, HookGoto, HookReturn, Goto, HookPc, EnsurePc, RotatePc
  <1>9. CASE RotateHookFails(o)
      BY <1>9 DEF RotateHookFails, HookGoto, Goto, HookPc, EnsurePc, RotatePc
  <1>10. CASE Rollback(o)
      BY <1>10 DEF Rollback, HookReturn, Goto, HookPc, EnsurePc, RotatePc
  <1>11. CASE RollbackFails(o)
      BY <1>11 DEF RollbackFails, HookReturn, Goto, HookPc, EnsurePc, RotatePc
  <1>12. QED
      BY <1>1, <1>2, <1>3, <1>4, <1>5, <1>6, <1>7, <1>8, <1>9, <1>10, <1>11 DEF HookStep

\* Going on, or answering, keeps the shape of the locals.
LEMMA FlowGotoShape ==
  ASSUME LocalsShape, NEW o \in Requests, NEW l, FlowGoto(o, l) PROVE LocalsShape'
  BY DEF FlowGoto, Goto, LocalsShape, requestVars

LEMMA ReturnShape ==
  ASSUME LocalsShape, NEW o \in Requests, Return(o) PROVE LocalsShape'
  <1>1. NoFlow \in Flows /\ 0 \in 0 .. MaxVersion /\ TemplateDraft \in Drafts
      BY FlowConstants, NoFlowIsAFlow
  <1>2. QED
      BY <1>1 DEF Return, Goto, LocalsShape

\* So do the statements of the store, for the rows.
RoutesShape == routes \in [Flows -> [Versions -> {"absent", "active", "disabled"}]]

LEMMA ActivateShape ==
  ASSUME RoutesShape, NEW f \in Flows, NEW v, ActivateHookRoute(f, v) PROVE RoutesShape'
  <1>1. [w \in Versions |-> IF w = v THEN "active" ELSE IF routes[f][w] = "absent" THEN "absent" ELSE "disabled"]
            \in [Versions -> {"absent", "active", "disabled"}]
      OBVIOUS
  <1>2. QED
      BY <1>1 DEF ActivateHookRoute, RoutesShape

LEMMA DisableShape ==
  ASSUME RoutesShape, NEW f \in Flows, NEW v, DisableHookRoutes(f, v) PROVE RoutesShape'
  <1>1. [w \in Versions |-> IF v \in {0, w} /\ routes[f][w] # "absent" THEN "disabled" ELSE routes[f][w]]
            \in [Versions -> {"absent", "active", "disabled"}]
      BY DEF RoutesShape
  <1>2. QED
      BY <1>1 DEF DisableHookRoutes, RoutesShape

LEMMA DisableAllShape ==
  ASSUME RoutesShape, ConnectionStep PROVE RoutesShape'
  BY DEF ConnectionStep, DisableConnection, UpdateConnectionStatus, RoutesShape

LEMMA InsertShape ==
  ASSUME RowsShape, NEW f \in Flows, NEW v \in 0 .. MaxVersion, NEW g \in Drafts, InsertVersion(f, v, g),
         UNCHANGED <<draft, routes>>
  PROVE  RowsShape'
  <1>1. [w \in Versions |-> IF w = v THEN "published"
                            ELSE IF versionStatus[f][w] = "published" THEN "archived" ELSE versionStatus[f][w]]
            \in [Versions -> {"absent", "published", "archived"}]
      BY DEF RowsShape
  <1>2. [graph[f] EXCEPT ![v] = g] \in [Versions -> Drafts]
      BY DEF RowsShape
  <1>3. QED
      BY <1>1, <1>2 DEF InsertVersion, RowsShape, FlowStatus

\* Every step keeps the shape of the Flow rows.
LEMMA FlowShapeStep == FlowShape /\ VersionInv /\ [Next]_vars => FlowShape'
  <1> SUFFICES ASSUME FlowShape, VersionInv, [Next]_vars PROVE FlowShape'
      OBVIOUS
  <1> USE FlowConstants, IngressConstants, FlowGotoShape, ReturnShape
      DEF FlowShape, LocalsShape, RowsShape, RoutesShape, FlowStatus, Versions, flowVars, flowRows, requestVars, flowHistory
  <1>1. ASSUME NEW o \in Requests, EnsureAbandonFlow(o) PROVE FlowShape'
    <2>1. PICK f \in Flows, l \in {"createFlow", "getDraft"} : Enter(o, f, l)
        BY <1>1, ReservedAreFlows DEF EnsureAbandonFlow, Installed
    <2>2. QED
        BY <1>1, <2>1 DEF EnsureAbandonFlow, Enter
  <1>2. ASSUME NEW o \in Requests, CreateFlow(o) PROVE FlowShape'
      BY <1>2 DEF CreateFlow, UpdateFlowStatus
  <1>3. ASSUME NEW o \in Requests, CreateDraft(o) PROVE FlowShape'
    <2>1. LocalsShape'
        BY <1>3 DEF CreateDraft
    <2>2. RowsShape'
      <3>1. {TemplateDraft} \in SUBSET Drafts
          BY FlowConstants
      <3>2. draft' \in [Flows -> SUBSET Drafts]
          BY <1>3, <3>1 DEF CreateDraft
      <3>3. UNCHANGED <<flowStatus, activeVersion, versionStatus, graph, routes>>
          BY <1>3 DEF CreateDraft, UpdateFlowStatus
      <3>4. QED
          BY <3>2, <3>3
    <2>3. QED
        BY <2>1, <2>2
  <1>4. ASSUME NEW o \in Requests, NEW f \in Flows, Publish(o, f) PROVE FlowShape'
      BY <1>4 DEF Publish, Enter
  <1>5. ASSUME NEW o \in Requests, NEW f \in Flows, Pause(o, f) PROVE FlowShape'
      BY <1>5 DEF Pause, Enter
  <1>6. ASSUME NEW o \in Requests, NEW f \in Flows, Archive(o, f) PROVE FlowShape'
      BY <1>6 DEF Archive, Enter
  <1>7. ASSUME NEW o \in Requests, GetFlowDraft(o) PROVE FlowShape'
      BY <1>7 DEF GetFlowDraft, Goto
  <1>8. ASSUME NEW o \in Requests, ReadNextVersion(o) PROVE FlowShape'
      <2>1. NextFlowVersion(rFlow[o]) \in 0 .. MaxVersion
      <3>1. rFlow[o] \in Flows /\ Numbered(rFlow[o])
          BY DEF VersionInv
      <3>2. NextFlowVersion(rFlow[o]) = activeVersion[rFlow[o]] + 1
          BY <3>1, NextIsActivePlusOne
      <3>3. QED
          BY <1>8, <3>1, <3>2 DEF ReadNextVersion
    <2>2. QED
        BY <1>8, <2>1 DEF ReadNextVersion, Goto
  <1>9. ASSUME NEW o \in Requests, SaveFlowVersion(o) PROVE FlowShape'
    <2>1. LocalsShape'
        BY <1>9 DEF SaveFlowVersion
    <2>2. RowsShape'
      <3>1. rFlow[o] \in Flows /\ rVersion[o] \in 0 .. MaxVersion /\ rGraph[o] \in Drafts
          OBVIOUS
      <3>2. CASE InsertVersion(rFlow[o], rVersion[o], rGraph[o])
          BY <1>9, <3>1, <3>2, InsertShape DEF SaveFlowVersion
      <3>3. QED
          BY <1>9, <3>2 DEF SaveFlowVersion
    <2>3. QED
        BY <2>1, <2>2
  <1>10. ASSUME NEW o \in Requests, HookStep(o), UNCHANGED flowVars PROVE FlowShape'
      BY <1>10, HookStepGoes
  <1>11. ASSUME NEW o \in Requests, ActivateRoute(o) PROVE FlowShape'
    <2>1. LocalsShape'
        BY <1>11 DEF ActivateRoute
    <2>2. RowsShape'
        BY <1>11, ActivateShape DEF ActivateRoute
    <2>3. QED
        BY <2>1, <2>2
  <1>12. ASSUME NEW o \in Requests, RecordHook(o) PROVE FlowShape'
      BY <1>12 DEF RecordHook
  <1>13. ASSUME NEW o \in Requests, PauseAfterFailure(o) PROVE FlowShape'
      BY <1>13 DEF PauseAfterFailure, UpdateFlowStatus
  <1>14. ASSUME NEW o \in Requests, PauseCheck(o) PROVE FlowShape'
    <2>1. PICK v : v = (IF rVersion[o] > 0 THEN rVersion[o] ELSE activeVersion[rFlow[o]])
        OBVIOUS
    <2>2. rFlow[o] \in Flows /\ rVersion[o] \in 0 .. MaxVersion /\ activeVersion[rFlow[o]] \in 0 .. MaxVersion
        OBVIOUS
    <2>3. v \in 0 .. MaxVersion
        BY <2>1, <2>2
    <2>4. ASSUME rVersion' = [rVersion EXCEPT ![o] = v], Goto(o, "pauseRoute"), UNCHANGED <<rFlow, rGraph>>
          PROVE  LocalsShape'
        BY <2>3, <2>4 DEF Goto
    <2>5. ASSUME Return(o) PROVE LocalsShape'
        BY <2>5
    <2>6. LocalsShape'
        BY <1>14, <2>1, <2>4, <2>5 DEF PauseCheck
    <2>7. RowsShape'
        BY <1>14 DEF PauseCheck
    <2>8. QED
        BY <2>6, <2>7
  <1>15. ASSUME NEW o \in Requests, PauseInputFlow(o) PROVE FlowShape'
    <2>1. LocalsShape'
        BY <1>15 DEF PauseInputFlow
    <2>2. RowsShape'
        BY <1>15, DisableShape DEF PauseInputFlow
    <2>3. QED
        BY <2>1, <2>2
  <1>16. ASSUME NEW o \in Requests, SetFlowStatus(o) PROVE FlowShape'
      BY <1>16 DEF SetFlowStatus, UpdateFlowStatus
  <1>17. ASSUME NEW o \in Requests, NEW f \in TestedFlows, NEW pinned \in 0 .. MaxVersion,
               StartLiveTest(o, f, pinned),
               UNCHANGED <<hookRest, faults, entangled, flowRows, handlerVars>>
        PROVE FlowShape'
      BY <1>17 DEF StartLiveTest, Goto
  <1>18. ASSUME NEW o \in Requests, CheckLiveVersion(o),
               UNCHANGED <<hookRest, faults, entangled, flowRows, handlerVars>>
        PROVE FlowShape'
      BY <1>18 DEF CheckLiveVersion
  <1>19. ASSUME NEW o \in Requests, AcceptLiveTest(o),
               UNCHANGED <<hookRest, faults, entangled, flowRows, handlerVars>>
        PROVE FlowShape'
      BY <1>19 DEF AcceptLiveTest
  <1>20. ASSUME NEW f \in Flows, NEW g \in Drafts, SaveDraft(f, g) PROVE FlowShape'
      BY <1>20 DEF SaveDraft, hookVars
  <1>21. ASSUME NEW h \in Handlers, HandlerStep(h) PROVE FlowShape'
      BY <1>21 DEF HandlerStep
  <1>22. CASE Crash
      BY <1>22, NoFlowIsAFlow DEF Crash, FlowCrash, HookCrash
  <1>23. CASE UNCHANGED vars
      BY <1>23 DEF vars, hookVars
  <1>24. CASE ConnectionStep
    <2>1. RoutesShape'
        BY <1>24, DisableAllShape
    <2>2. UNCHANGED <<pc, rFlow, rVersion, rGraph, flowStatus, activeVersion, draft, versionStatus, graph>>
        BY <1>24 DEF ConnectionStep, DisableConnection, UpdateConnectionStatus, connectionRest
    <2>3. QED
        BY <2>1, <2>2
  <1>25. QED
      BY <1>1, <1>2, <1>3, <1>4, <1>5, <1>6, <1>7, <1>8, <1>9, <1>10, <1>11, <1>12, <1>13,
         <1>14, <1>15, <1>16, <1>17, <1>18, <1>19, <1>20, <1>21, <1>22, <1>23, <1>24
      DEF Next, RequestStep, LiveTestStep

-----------------------------------------------------------------------------
\* All steps but two are quiet.
LEMMA VersionKinds == FlowShape /\ [Next]_vars => Quiet \/ \E o \in Requests : ReadNextVersion(o) \/ SaveFlowVersion(o)
  <1> SUFFICES ASSUME FlowShape, [Next]_vars
               PROVE  Quiet \/ \E o \in Requests : ReadNextVersion(o) \/ SaveFlowVersion(o)
      OBVIOUS
  <1> USE DEF Quiet, FlowShape, LocalsShape, flowVars, flowRows, requestVars, flowHistory
  <1>1. ASSUME NEW o \in Requests, EnsureAbandonFlow(o) PROVE Quiet
      BY <1>1 DEF EnsureAbandonFlow, Enter
  <1>2. ASSUME NEW o \in Requests, CreateFlow(o) PROVE Quiet
      BY <1>2 DEF CreateFlow, FlowGoto, Return, Goto, UpdateFlowStatus, RowsShape, FlowStatus
  <1>3. ASSUME NEW o \in Requests, CreateDraft(o) PROVE Quiet
      BY <1>3 DEF CreateDraft, FlowGoto, Return, Goto
  <1>4. ASSUME NEW o \in Requests, NEW f \in Flows, Publish(o, f) PROVE Quiet
      BY <1>4 DEF Publish, Enter
  <1>5. ASSUME NEW o \in Requests, NEW f \in Flows, Pause(o, f) PROVE Quiet
      BY <1>5 DEF Pause, Enter
  <1>6. ASSUME NEW o \in Requests, NEW f \in Flows, Archive(o, f) PROVE Quiet
      BY <1>6 DEF Archive, Enter
  <1>7. ASSUME NEW o \in Requests, GetFlowDraft(o) PROVE Quiet
      BY <1>7 DEF GetFlowDraft, Return, Goto
  <1>8. ASSUME NEW o \in Requests, HookStep(o), UNCHANGED flowVars PROVE Quiet
      BY <1>8, HookStepGoes DEF HookPc, EnsurePc, RotatePc
  <1>9. ASSUME NEW o \in Requests, ActivateRoute(o) PROVE Quiet
      BY <1>9 DEF ActivateRoute, ActivateHookRoute, FlowGoto, Goto
  <1>10. ASSUME NEW o \in Requests, RecordHook(o) PROVE Quiet
      BY <1>10 DEF RecordHook, FlowGoto, Return, Goto
  <1>11. ASSUME NEW o \in Requests, PauseAfterFailure(o) PROVE Quiet
      BY <1>11 DEF PauseAfterFailure, UpdateFlowStatus, Return, Goto, RowsShape
  <1>12. ASSUME NEW o \in Requests, PauseCheck(o) PROVE Quiet
      BY <1>12 DEF PauseCheck, Return, Goto
  <1>13. ASSUME NEW o \in Requests, PauseInputFlow(o) PROVE Quiet
      BY <1>13 DEF PauseInputFlow, DisableHookRoutes, FlowGoto, Return, Goto
  <1>14. ASSUME NEW o \in Requests, SetFlowStatus(o) PROVE Quiet
      BY <1>14 DEF SetFlowStatus, UpdateFlowStatus, Return, Goto, RowsShape
  <1>15. ASSUME NEW o \in Requests, NEW f \in TestedFlows, NEW pinned \in 0 .. MaxVersion,
               StartLiveTest(o, f, pinned),
               UNCHANGED <<hookRest, faults, entangled, flowRows, handlerVars>>
        PROVE Quiet
      BY <1>15 DEF StartLiveTest, Goto
  <1>16. ASSUME NEW o \in Requests, CheckLiveVersion(o),
               UNCHANGED <<hookRest, faults, entangled, flowRows, handlerVars>>
        PROVE Quiet
      BY <1>16 DEF CheckLiveVersion, FlowGoto, Return, Goto
  <1>17. ASSUME NEW o \in Requests, AcceptLiveTest(o),
               UNCHANGED <<hookRest, faults, entangled, flowRows, handlerVars>>
        PROVE Quiet
      BY <1>17 DEF AcceptLiveTest, Return, Goto
  <1>18. ASSUME NEW f \in Flows, NEW g \in Drafts, SaveDraft(f, g) PROVE Quiet
      BY <1>18 DEF SaveDraft, hookVars
  <1>19. ASSUME NEW h \in Handlers, HandlerStep(h) PROVE Quiet
      BY <1>19 DEF HandlerStep
  <1>20. CASE Crash
      BY <1>20 DEF Crash, FlowCrash, HookCrash
  <1>21. CASE UNCHANGED vars
      BY <1>21 DEF vars, hookVars
  <1>22. CASE ConnectionStep
      BY <1>22 DEF ConnectionStep, DisableConnection, UpdateConnectionStatus, connectionRest
  <1>23. QED
      BY <1>1, <1>2, <1>3, <1>4, <1>5, <1>6, <1>7, <1>8, <1>9, <1>10, <1>11,
         <1>12, <1>13, <1>14, <1>15, <1>16, <1>17, <1>18, <1>19, <1>20, <1>21, <1>22
      DEF Next, RequestStep, LiveTestStep

LEMMA VersionStep == FlowShape /\ VersionInv /\ [Next]_vars => VersionInv'
  <1> SUFFICES ASSUME FlowShape, VersionInv, [Next]_vars PROVE VersionInv'
      OBVIOUS
  <1> USE DEF FlowShape, LocalsShape, flowRows, requestVars, flowHistory
  <1>1. ASSUME NEW o \in Requests, ReadNextVersion(o) PROVE VersionInv'
    <2>1. rFlow[o] \in Flows /\ Numbered(rFlow[o])
        BY DEF VersionInv
    <2>2. NextFlowVersion(rFlow[o]) = activeVersion[rFlow[o]] + 1 /\ activeVersion[rFlow[o]] \in Nat
        BY <2>1, NextIsActivePlusOne DEF RowsShape
    <2>3. \A q \in Requests : IF q = o THEN rVersion'[q] = activeVersion[rFlow[o]] + 1
                             ELSE pc'[q] = pc[q] /\ rVersion'[q] = rVersion[q]
        BY <1>1, <2>2 DEF ReadNextVersion, Goto
    <2>4. UNCHANGED <<flowStatus, activeVersion, versionStatus, graph, rFlow>>
        BY <1>1 DEF ReadNextVersion
    <2>5. QED
        BY <2>1, <2>2, <2>3, <2>4 DEF VersionInv, Numbered, MayBeSaved
  <1>2. ASSUME NEW o \in Requests, SaveFlowVersion(o) PROVE VersionInv'
    <2>1. pc[o] = "saveVersion"
        BY <1>2 DEF SaveFlowVersion
    <2>2. \A q \in Requests : pc'[q] = "saveVersion" =>
              pc[q] = "saveVersion" /\ rVersion'[q] = rVersion[q] /\ rFlow'[q] = rFlow[q]
        BY <1>2 DEF SaveFlowVersion, FlowGoto, Return, Goto
    <2>3. CASE UNCHANGED <<flowStatus, activeVersion, versionStatus, graph>>
        BY <2>2, <2>3, QuietKeepsVersions DEF Quiet
    <2>4. CASE InsertVersion(rFlow[o], rVersion[o], rGraph[o]) /\ versionStatus[rFlow[o]][rVersion[o]] = "absent"
      <3>1. PICK f \in Flows, v \in 0 .. MaxVersion : f = rFlow[o] /\ v = rVersion[o]
          OBVIOUS
      <3>2. Numbered(f) /\ activeVersion[f] \in Nat /\ v \in Versions /\ v = activeVersion[f] + 1
          BY <2>1, <2>4, <3>1, FlowConstants DEF VersionInv, MayBeSaved, Numbered, RowsShape, Versions
      <3>3. \A g \in Flows : activeVersion'[g] = IF g = f THEN v ELSE activeVersion[g]
          BY <2>4, <3>1 DEF InsertVersion, RowsShape
      <3>4. \A g \in Flows : flowStatus'[g] = IF g = f THEN "published" ELSE flowStatus[g]
          BY <2>4, <3>1 DEF InsertVersion, RowsShape
      <3>5. \A g \in Flows, w \in Versions : versionStatus'[g][w] =
                IF g # f THEN versionStatus[g][w]
                ELSE IF w = v THEN "published"
                ELSE IF versionStatus[f][w] = "published" THEN "archived" ELSE versionStatus[f][w]
          BY <2>1, <2>4, <3>1 DEF InsertVersion, RowsShape
      <3>6. Numbered(f)'
          BY <3>2, <3>3, <3>4, <3>5 DEF Numbered, Versions
      <3>7. \A g \in Flows \ {f} : Numbered(g)'
          BY <3>3, <3>4, <3>5 DEF Numbered, VersionInv
      <3>8. \A q \in Requests : MayBeSaved(q)'
        <4>1. \A q \in Requests : rFlow[q] \in Flows /\ rVersion[q] \in Nat /\ activeVersion[rFlow[q]] \in Nat
            BY FlowConstants DEF RowsShape
        <4>2. \A q \in Requests : MayBeSaved(q)
            BY DEF VersionInv
        <4>3. QED
            BY <2>2, <3>1, <3>2, <3>3, <4>1, <4>2 DEF MayBeSaved
      <3>9. QED
          BY <3>6, <3>7, <3>8 DEF VersionInv
    <2>5. QED
        BY <1>2, <2>3, <2>4 DEF SaveFlowVersion, SaveOutcome
  <1>3. QED
      BY <1>1, <1>2, VersionKinds, QuietKeepsVersions

-----------------------------------------------------------------------------
(***************************************************************************)
(* Routes and the hook.  A request that is about to write a reference into *)
(* the provider or the hooks row refers to a stored secret; routes are     *)
(* activated by requests that have seen the row written.                   *)
(***************************************************************************)
Writing == {"ensureProvider", "upsertHook", "rotateProvider", "rotateHook"}

Routed(f, v) == routes[f][v] = "active"

HookInv ==
    /\ HookSecretIsStored
    /\ \A o \in Requests : pc[o] \in Writing => rRef[o] # NoRef /\ secrets[rRef[o]] # "absent"
    /\ \A o \in Requests : pc[o] = "activateRoute" => hookRef # NoRef
    /\ \A f \in Flows, v \in Versions : Routed(f, v) => hookRef # NoRef

RouteInv == \A f \in Flows, v, w \in Versions : Routed(f, v) /\ Routed(f, w) => v = w

\* What most steps are to the hook and the routes.
HookQuiet ==
    /\ UNCHANGED <<hookRef, secrets>>
    /\ DOMAIN pc' = Requests
    /\ rRef' \in [Requests -> Refs \cup {NoRef}]
    /\ \A o \in Requests : pc'[o] \in Writing => pc[o] \in Writing /\ rRef'[o] = rRef[o]
    /\ \A o \in Requests : pc'[o] = "activateRoute" => pc[o] = "activateRoute"
    /\ \A f \in Flows, v \in Versions : Routed(f, v)' => Routed(f, v)

LEMMA HookQuietKeeps ==
  HookShape /\ HookInv /\ RouteInv /\ HookQuiet => HookShape' /\ HookInv' /\ RouteInv'
  BY DEF HookShape, HookInv, RouteInv, HookQuiet, HookSecretIsStored

\* The reference of a new secret is free.
LEMMA NextRefIsFree == Free # {} => NextRef \in Free
  <1> DEFINE R == OpToRel(<, Nat)
  <1>1. SUFFICES ASSUME Free # {} PROVE \E n \in Free : \A m \in Free : n <= m
      BY DEF NextRef
  <1>2. Free \subseteq Nat
      BY HookConstants DEF Free, Refs
  <1>3. \E x \in Free : \A y \in Free : ~ (<<y, x>> \in R)
      BY <1>1, <1>2, WFMin, NatLessThanWellFounded, Zenon
  <1>4. \A x, y \in Nat : <<y, x>> \in R <=> y < x
      BY DEF OpToRel
  <1> HIDE DEF R
  <1>5. \E x \in Free : \A y \in Free : ~ (y < x)
      BY <1>2, <1>3, <1>4, Zenon
  <1>6. QED
      BY <1>2, <1>5

\* The steps of the reconciliation that write no row are quiet.
LEMMA HookStepKinds ==
  ASSUME HookShape, RoutesShape, UNCHANGED routes, NEW o \in Requests, HookStep(o)
  PROVE  \/ HookQuiet \/ GetHook(o) \/ PutSecret(o) \/ UpsertHook(o) \/ PutRotated(o)
         \/ UpsertHookFails(o) \/ RotateHookFails(o)
  <1> USE DEF HookShape, HookQuiet, Writing, hookRows, hookLocal, Routed
  <1>1. CASE EnsureProvider(o)
      BY <1>1 DEF EnsureProvider, ProviderHook, HookGoto, HookReturn, Goto
  <1>2. CASE Rotate(o)
      BY <1>2 DEF Rotate, EnterHook, Goto
  <1>3. CASE RotateProvider(o)
      BY <1>3 DEF RotateProvider, ProviderHook, HookGoto, HookReturn, Goto
  <1>4. CASE Rollback(o)
      BY <1>4 DEF Rollback, HookReturn, Goto
  <1>5. CASE RollbackFails(o)
      BY <1>5 DEF RollbackFails, HookReturn, Goto
  <1>6. QED
      BY <1>1, <1>2, <1>3, <1>4, <1>5 DEF HookStep

Noisy(o) ==
    \/ /\ GetHook(o) \/ PutSecret(o) \/ UpsertHook(o) \/ PutRotated(o) \/ UpsertHookFails(o) \/ RotateHookFails(o)
       /\ UNCHANGED routes
    \/ ActivateRoute(o)

LEMMA DisableRoutesNone ==
  ASSUME RoutesShape, NEW f \in Flows, NEW u, DisableHookRoutes(f, u),
         NEW g \in Flows, NEW v \in Versions, Routed(g, v)'
  PROVE  Routed(g, v)
  <1>1. routes'[g][v] = IF g = f /\ u \in {0, v} /\ routes[f][v] # "absent" THEN "disabled" ELSE routes[g][v]
      BY DEF DisableHookRoutes, RoutesShape
  <1>2. QED
      BY <1>1 DEF Routed

\* So are all the others, but the activation of a route.
LEMMA HookKinds == HookShape /\ FlowShape /\ [Next]_vars => HookQuiet \/ \E o \in Requests : Noisy(o)
  <1> SUFFICES ASSUME HookShape, FlowShape, [Next]_vars PROVE HookQuiet \/ \E o \in Requests : Noisy(o)
      OBVIOUS
  <1> USE DEF HookShape, HookQuiet, Writing, Routed, hookRest, hookRows, flowVars, flowRows, requestVars, flowHistory
  <1>1. ASSUME NEW o \in Requests, EnsureAbandonFlow(o) PROVE HookQuiet
      BY <1>1 DEF EnsureAbandonFlow, Enter
  <1>2. ASSUME NEW o \in Requests, CreateFlow(o) PROVE HookQuiet
      BY <1>2 DEF CreateFlow, FlowGoto, Return, Goto, UpdateFlowStatus
  <1>3. ASSUME NEW o \in Requests, CreateDraft(o) PROVE HookQuiet
      BY <1>3 DEF CreateDraft, FlowGoto, Return, Goto
  <1>4. ASSUME NEW o \in Requests, NEW f \in Flows, Publish(o, f) PROVE HookQuiet
      BY <1>4 DEF Publish, Enter
  <1>5. ASSUME NEW o \in Requests, NEW f \in Flows, Pause(o, f) PROVE HookQuiet
      BY <1>5 DEF Pause, Enter
  <1>6. ASSUME NEW o \in Requests, NEW f \in Flows, Archive(o, f) PROVE HookQuiet
      BY <1>6 DEF Archive, Enter
  <1>7. ASSUME NEW o \in Requests, GetFlowDraft(o) PROVE HookQuiet
      BY <1>7 DEF GetFlowDraft, Return, Goto
  <1>8. ASSUME NEW o \in Requests, ReadNextVersion(o) PROVE HookQuiet
      BY <1>8 DEF ReadNextVersion, Goto
  <1>9. ASSUME NEW o \in Requests, SaveFlowVersion(o) PROVE HookQuiet
      BY <1>9 DEF SaveFlowVersion, InsertVersion, FlowGoto, Return, Goto, EnterHook
  <1>10. ASSUME NEW o \in Requests, HookStep(o), UNCHANGED flowVars PROVE HookQuiet \/ Noisy(o)
      BY <1>10, HookStepKinds DEF Noisy, FlowShape, RowsShape, RoutesShape
  <1>11. ASSUME NEW o \in Requests, ActivateRoute(o) PROVE Noisy(o)
      BY <1>11 DEF Noisy
  <1>12. ASSUME NEW o \in Requests, RecordHook(o) PROVE HookQuiet
      BY <1>12 DEF RecordHook, FlowGoto, Return, Goto
  <1>13. ASSUME NEW o \in Requests, PauseAfterFailure(o) PROVE HookQuiet
      BY <1>13 DEF PauseAfterFailure, UpdateFlowStatus, Return, Goto
  <1>14. ASSUME NEW o \in Requests, PauseCheck(o) PROVE HookQuiet
      BY <1>14 DEF PauseCheck, Return, Goto
  <1>15. ASSUME NEW o \in Requests, PauseInputFlow(o) PROVE HookQuiet
      <2>1. \A f \in Flows, v \in Versions : Routed(f, v)' => Routed(f, v)
        BY <1>15, DisableRoutesNone DEF PauseInputFlow, FlowShape, LocalsShape, RowsShape, RoutesShape
    <2>2. UNCHANGED <<hookRef, secrets, rRef>> /\ DOMAIN pc' = Requests
        BY <1>15 DEF PauseInputFlow, FlowGoto, Return, Goto
    <2>3. \A q \in Requests : pc'[q] \in Writing \cup {"activateRoute"} => pc'[q] = pc[q]
        BY <1>15 DEF PauseInputFlow, FlowGoto, Return, Goto
    <2>4. QED
        BY <2>1, <2>2, <2>3
  <1>16. ASSUME NEW o \in Requests, SetFlowStatus(o) PROVE HookQuiet
      BY <1>16 DEF SetFlowStatus, UpdateFlowStatus, Return, Goto
  <1>17. ASSUME NEW o \in Requests, NEW f \in TestedFlows, NEW pinned \in 0 .. MaxVersion,
               StartLiveTest(o, f, pinned),
               UNCHANGED <<hookRest, faults, entangled, flowRows, handlerVars>>
        PROVE HookQuiet
      BY <1>17 DEF StartLiveTest, Goto
  <1>18. ASSUME NEW o \in Requests, CheckLiveVersion(o),
               UNCHANGED <<hookRest, faults, entangled, flowRows, handlerVars>>
        PROVE HookQuiet
      BY <1>18 DEF CheckLiveVersion, FlowGoto, Return, Goto
  <1>19. ASSUME NEW o \in Requests, AcceptLiveTest(o),
               UNCHANGED <<hookRest, faults, entangled, flowRows, handlerVars>>
        PROVE HookQuiet
      BY <1>19 DEF AcceptLiveTest, Return, Goto
  <1>20. ASSUME NEW f \in Flows, NEW g \in Drafts, SaveDraft(f, g) PROVE HookQuiet
      BY <1>20 DEF SaveDraft, hookVars
  <1>21. ASSUME NEW h \in Handlers, HandlerStep(h) PROVE HookQuiet
      BY <1>21 DEF HandlerStep
  <1>22. CASE Crash
      BY <1>22 DEF Crash, FlowCrash, HookCrash
  <1>23. CASE UNCHANGED vars
      BY <1>23 DEF vars, hookVars
  <1>24. CASE ConnectionStep
      BY <1>24 DEF ConnectionStep, DisableConnection, UpdateConnectionStatus, connectionRest
  <1>25. QED
      BY <1>1, <1>2, <1>3, <1>4, <1>5, <1>6, <1>7, <1>8, <1>9, <1>10, <1>11, <1>12, <1>13,
         <1>14, <1>15, <1>16, <1>17, <1>18, <1>19, <1>20, <1>21, <1>22, <1>23, <1>24
      DEF Next, RequestStep, LiveTestStep

\* A request goes on with a reference, and the rows only gain.
LEMMA WriteKeeps ==
  ASSUME HookShape, HookInv, RouteInv, UNCHANGED routes,
         NEW o \in Requests, NEW l, NEW ref \in Refs \cup {NoRef},
         pc' = [pc EXCEPT ![o] = l], rRef' = [rRef EXCEPT ![o] = ref],
         secrets' \in [Refs -> {"absent", "project", "rotation"}],
         \A n \in Refs : secrets[n] # "absent" => secrets'[n] # "absent",
         hookRef' \in Refs \cup {NoRef},
         hookRef # NoRef => hookRef' # NoRef,
         hookRef' # NoRef => secrets'[hookRef'] # "absent",
         l \in Writing => ref # NoRef /\ secrets'[ref] # "absent",
         l = "activateRoute" => hookRef' # NoRef
  PROVE  HookShape' /\ HookInv' /\ RouteInv'
  <1>1. HookShape'
      BY DEF HookShape
  <1>2. HookInv'
      BY DEF HookShape, HookInv, HookSecretIsStored, Routed
  <1>3. RouteInv'
      BY DEF RouteInv, Routed
  <1>4. QED
      BY <1>1, <1>2, <1>3

\* A secret is stored under the next free reference.
LEMMA PutKeeps ==
  ASSUME HookShape, HookInv, RouteInv, UNCHANGED <<routes, hookRef>>, NEW o \in Requests,
         NEW l \in Writing, NEW alias \in {"project", "rotation"}, Free # {},
         secrets' = [secrets EXCEPT ![NextRef] = alias], HookGotoWith(o, l, NextRef)
  PROVE  HookShape' /\ HookInv' /\ RouteInv'
  <1>1. PICK n \in Refs : n = NextRef
      BY NextRefIsFree DEF Free
  <1>2. n # NoRef
      BY <1>1, HookConstants DEF Refs, NoRef
  <1>3. /\ secrets' \in [Refs -> {"absent", "project", "rotation"}]
        /\ \A m \in Refs : secrets[m] # "absent" => secrets'[m] # "absent"
        /\ secrets'[n] # "absent"
      BY <1>1 DEF HookShape
  <1>4. pc' = [pc EXCEPT ![o] = l] /\ rRef' = [rRef EXCEPT ![o] = n]
      BY <1>1 DEF HookGotoWith, Goto
  <1>5. hookRef # NoRef => secrets[hookRef] # "absent"
      BY DEF HookInv, HookSecretIsStored
  <1>6. hookRef' \in Refs \cup {NoRef} /\ (hookRef' # NoRef => secrets'[hookRef'] # "absent")
      BY <1>3, <1>5 DEF HookShape
  <1>7. l # "activateRoute"
      BY DEF Writing
  <1>8. QED
      BY <1>2, <1>3, <1>4, <1>6, <1>7, WriteKeeps

\* A request leaves the reconciliation, and the rows stay.
LEMMA LeaveKeeps ==
  ASSUME HookShape, HookInv, RouteInv, UNCHANGED <<routes, hookRef, secrets>>, NEW o \in Requests,
         NEW l, l \notin Writing \cup {"activateRoute"}, HookReturn(o, l)
  PROVE  HookShape' /\ HookInv' /\ RouteInv'
  BY WriteKeeps DEF HookReturn, Goto, HookShape, HookInv, HookSecretIsStored

LEMMA HookStepKeeps ==
  HookShape /\ FlowShape /\ HookInv /\ RouteInv /\ [Next]_vars => HookShape' /\ HookInv' /\ RouteInv'
  <1> SUFFICES ASSUME HookShape, FlowShape, HookInv, RouteInv, [Next]_vars PROVE HookShape' /\ HookInv' /\ RouteInv'
      OBVIOUS
  <1> DEFINE Goal == HookShape' /\ HookInv' /\ RouteInv'
  <1>1. CASE HookQuiet
      BY <1>1, HookQuietKeeps
  <1>2. ASSUME NEW o \in Requests, GetHook(o), UNCHANGED routes PROVE Goal
    <2>1. UNCHANGED <<hookRef, secrets>>
        BY <1>2 DEF GetHook, hookRows
    <2>2. CASE hookRef # NoRef /\ HookGotoWith(o, "ensureProvider", hookRef)
        BY <1>2, <2>1, <2>2, WriteKeeps DEF HookGotoWith, Goto, HookShape, HookInv, HookSecretIsStored
    <2>3. CASE HookGoto(o, "putSecret")
      <3>1. pc' = [pc EXCEPT ![o] = "putSecret"] /\ rRef' = [rRef EXCEPT ![o] = rRef[o]]
          BY <2>3 DEF HookGoto, Goto, hookLocal, HookShape
      <3>2. QED
          BY <1>2, <2>1, <3>1, WriteKeeps DEF HookShape, HookInv, HookSecretIsStored, Writing
    <2>4. CASE HookReturn(o, "activationFailed")
        BY <1>2, <2>1, <2>4, LeaveKeeps DEF Writing
    <2>5. QED
        BY <1>2, <2>2, <2>3, <2>4 DEF GetHook
  <1>3. ASSUME NEW o \in Requests, PutSecret(o), UNCHANGED routes PROVE Goal
    <2>1. CASE Free # {} /\ secrets' = [secrets EXCEPT ![NextRef] = "project"] /\ HookGotoWith(o, "ensureProvider", NextRef)
        BY <1>3, <2>1, PutKeeps DEF PutSecret, Writing
    <2>2. CASE HookReturn(o, "activationFailed") /\ UNCHANGED secrets
        BY <1>3, <2>2, LeaveKeeps DEF PutSecret, Writing
    <2>3. QED
        BY <1>3, <2>1, <2>2 DEF PutSecret
  <1>4. ASSUME NEW o \in Requests, PutRotated(o), UNCHANGED routes PROVE Goal
    <2>1. CASE Free # {} /\ secrets' = [secrets EXCEPT ![NextRef] = "rotation"] /\ HookGotoWith(o, "rotateProvider", NextRef)
        BY <1>4, <2>1, PutKeeps DEF PutRotated, Writing
    <2>2. CASE HookReturn(o, "idle") /\ UNCHANGED secrets
        BY <1>4, <2>2, LeaveKeeps DEF PutRotated, Writing
    <2>3. QED
        BY <1>4, <2>1, <2>2 DEF PutRotated
  <1>5. ASSUME NEW o \in Requests, UpsertHook(o), UNCHANGED routes PROVE Goal
    <2>1. PICK l \in {"activateRoute", "idle"} : HookReturn(o, l)
        BY <1>5 DEF UpsertHook
    <2>2. pc' = [pc EXCEPT ![o] = l] /\ rRef' = [rRef EXCEPT ![o] = NoRef]
        BY <2>1 DEF HookReturn, Goto
    <2>3. hookRef' = rRef[o] /\ UNCHANGED secrets /\ pc[o] \in Writing
        BY <1>5 DEF UpsertHook, Writing
    <2>4. rRef[o] \in Refs /\ secrets[rRef[o]] # "absent" /\ rRef[o] # NoRef
        BY <2>3 DEF HookInv, HookShape
    <2>5. l \notin Writing
        BY DEF Writing
    <2>6. QED
        BY <1>5, <2>2, <2>3, <2>4, <2>5, WriteKeeps DEF HookShape
  <1>6. ASSUME NEW o \in Requests, ActivateRoute(o) PROVE Goal
    <2>1. UNCHANGED <<hookRef, secrets, rRef>> /\ hookRef # NoRef
        BY <1>6 DEF ActivateRoute, hookRest, HookInv
    <2>2. DOMAIN pc' = Requests
        BY <1>6 DEF ActivateRoute, FlowGoto, Goto, HookShape
    <2>3. \A q \in Requests : pc'[q] \in Writing \cup {"activateRoute"} => pc'[q] = pc[q]
        BY <1>6 DEF ActivateRoute, FlowGoto, Goto, HookShape, Writing
    <2>4. HookShape' /\ HookInv'
        BY <2>1, <2>2, <2>3 DEF HookShape, HookInv, HookSecretIsStored
    <2>5. CASE UNCHANGED routes
        BY <2>4, <2>5 DEF RouteInv, Routed
    <2>6. CASE ActivateHookRoute(rFlow[o], rVersion[o])
      <3>1. \A f \in Flows, v \in Versions : Routed(f, v)' => IF f = rFlow[o] THEN v = rVersion[o] ELSE Routed(f, v)
          BY <2>6 DEF ActivateHookRoute, Routed, FlowShape, RowsShape
      <3>2. QED
          BY <2>4, <3>1 DEF RouteInv
    <2>7. QED
        BY <1>6, <2>4, <2>5, <2>6 DEF ActivateRoute
  <1>7. ASSUME NEW o \in Requests, UpsertHookFails(o) \/ RotateHookFails(o), UNCHANGED routes PROVE Goal
    <2>1. PICK l \in {"activationFailed", "rollback"}, ref \in {NoRef, rRef[o]} :
              pc' = [pc EXCEPT ![o] = l] /\ rRef' = [rRef EXCEPT ![o] = ref]
      <3>1. rRef = [rRef EXCEPT ![o] = rRef[o]]
          BY DEF HookShape
      <3>2. QED
          BY <1>7, <3>1 DEF UpsertHookFails, RotateHookFails, HookReturn, HookGoto, Goto, hookLocal
    <2>2. hookRef' \in {hookRef, rRef[o]} /\ UNCHANGED secrets /\ pc[o] \in Writing
        BY <1>7 DEF UpsertHookFails, RotateHookFails, Writing
    <2>3. rRef[o] \in Refs /\ secrets[rRef[o]] # "absent" /\ rRef[o] # NoRef
        BY <2>2 DEF HookInv, HookShape
    <2>4. l \notin Writing /\ l # "activateRoute"
        BY DEF Writing
    <2>5. hookRef' \in Refs \cup {NoRef} /\ (hookRef # NoRef => hookRef' # NoRef)
          /\ (hookRef' # NoRef => secrets'[hookRef'] # "absent")
        BY <2>2, <2>3 DEF HookInv, HookSecretIsStored, HookShape
    <2>6. secrets' \in [Refs -> {"absent", "project", "rotation"}]
          /\ \A n \in Refs : secrets[n] # "absent" => secrets'[n] # "absent"
        BY <2>2 DEF HookShape
    <2>7. ref \in Refs \cup {NoRef}
        BY <2>3
    <2>8. QED
        BY <1>7, <2>1, <2>4, <2>5, <2>6, <2>7, WriteKeeps
  <1>8. QED
      BY <1>1, <1>2, <1>3, <1>4, <1>5, <1>6, <1>7, HookKinds DEF Noisy

LEMMA PublicationInit == Init => VersionInv /\ HookInv /\ RouteInv
  <1> SUFFICES ASSUME Init PROVE VersionInv /\ HookInv /\ RouteInv
      OBVIOUS
  <1>1. VersionInv
      BY DEF Init, HookInit, FlowInit, VersionInv, Numbered, MayBeSaved, Versions
  <1>2. HookInv /\ RouteInv
      BY DEF Init, HookInit, FlowInit, HookInv, RouteInv, HookSecretIsStored, Writing, Routed
  <1>3. QED
      BY <1>1, <1>2

PublicationInv == HookShape /\ FlowShape /\ VersionInv /\ HookInv /\ RouteInv

LEMMA PublicationInductive == Spec => []PublicationInv
  <1>1. Init => PublicationInv
      BY ShapeInit, PublicationInit DEF PublicationInv
  <1>2. PublicationInv /\ [Next]_vars => PublicationInv'
      BY FlowShapeStep, VersionStep, HookStepKeeps DEF PublicationInv
  <1>3. QED
      BY <1>1, <1>2, PTL DEF Spec

-----------------------------------------------------------------------------
(***************************************************************************)
(* The active version of a Flow is its newest and its only published one,  *)
(* whichever publications of it overlap, fail or are cut short.            *)
(***************************************************************************)
THEOREM NewestIsActive == Spec => []ActiveIsNewest
  <1>1. PublicationInv => ActiveIsNewest
      BY DEF PublicationInv, VersionInv, Numbered, ActiveIsNewest, Stored
  <1>2. QED
      BY <1>1, PublicationInductive, PTL

(***************************************************************************)
(* A version that is stored keeps its graph and is never published again:  *)
(* SaveFlowVersion refuses a number that is taken.                         *)
(***************************************************************************)
THEOREM VersionsKeepTheirGraph == Spec => VersionsAreImmutable
  <1> DEFINE Kept == \A f \in Flows, v \in Versions : versionStatus[f][v] # "absent" =>
                       /\ graph'[f][v] = graph[f][v]
                       /\ versionStatus'[f][v] \in {versionStatus[f][v], "archived"}
  <1>1. PublicationInv /\ [Next]_vars => [Kept]_<<versionStatus, graph>>
    <2> SUFFICES ASSUME PublicationInv, [Next]_vars PROVE Kept
        OBVIOUS
    <2>1. CASE Quiet
        BY <2>1 DEF Quiet
    <2>2. ASSUME NEW o \in Requests, ReadNextVersion(o) PROVE Kept
        BY <2>2 DEF ReadNextVersion, flowRows
    <2>3. ASSUME NEW o \in Requests, SaveFlowVersion(o) PROVE Kept
      <3>1. CASE UNCHANGED <<versionStatus, graph>>
          BY <3>1
      <3>2. CASE InsertVersion(rFlow[o], rVersion[o], rGraph[o]) /\ versionStatus[rFlow[o]][rVersion[o]] = "absent"
        <4>1. \A f \in Flows, v \in Versions : f # rFlow[o] \/ v # rVersion[o] =>
                  /\ graph'[f][v] = graph[f][v]
                  /\ versionStatus'[f][v] \in {versionStatus[f][v], "archived"}
            BY <3>2 DEF InsertVersion, PublicationInv, FlowShape, RowsShape
        <4>2. QED
            BY <3>2, <4>1
      <3>3. QED
          BY <2>3, <3>1, <3>2 DEF SaveFlowVersion, SaveOutcome
    <2>4. QED
        BY <2>1, <2>2, <2>3, VersionKinds DEF PublicationInv
  <1>2. QED
      BY <1>1, PublicationInductive, PTL DEF Spec, VersionsAreImmutable

(***************************************************************************)
(* At most one version of a Flow is routed at any time: ActivateHookRoute  *)
(* disables the others in its transaction.                                 *)
(***************************************************************************)
THEOREM RoutesAreUnique == Spec => []OneActiveRoute
  <1>1. PublicationInv => OneActiveRoute
    <2> SUFFICES ASSUME RouteInv, NEW f \in Flows PROVE Cardinality({v \in Versions : routes[f][v] = "active"}) <= 1
        BY DEF PublicationInv, OneActiveRoute
    <2> DEFINE S == {v \in Versions : routes[f][v] = "active"}
    <2>1. CASE S = {}
        BY <2>1, FS_EmptySet
    <2>2. ASSUME NEW v \in S PROVE Cardinality(S) <= 1
      <3>1. S = {v}
          BY DEF RouteInv, Routed
      <3>2. QED
          BY <3>1, FS_Singleton
    <2>3. QED
        BY <2>1, <2>2
  <1>2. QED
      BY <1>1, PublicationInductive, PTL

(***************************************************************************)
(* Whenever a version is routed, its project has a hooks row, and the      *)
(* secret the row refers to is stored: a delivery can be verified.         *)
(***************************************************************************)
THEOREM RoutesAreVerifiable == Spec => [](RouteIsVerifiable /\ HookSecretIsStored)
  <1>1. PublicationInv => RouteIsVerifiable /\ HookSecretIsStored
      BY DEF PublicationInv, HookInv, HookSecretIsStored, RouteIsVerifiable, Routed
  <1>2. QED
      BY <1>1, PublicationInductive, PTL

-----------------------------------------------------------------------------
(***************************************************************************)
(* The two tokens.  As long as no rotation runs beside another request of  *)
(* the reconciliation, the publications among them all carry the secret of *)
(* the project, and a rotation has the hook for itself; whoever is about   *)
(* to write the row has just given its token to GitLab, and a rotation     *)
(* rolls back to what the row refers to, unless the row was written before *)
(* its error.                                                              *)
(***************************************************************************)
Hooking == {o \in Requests : pc[o] \in HookPc}

\* Either no request of the reconciliation is entangled, or all of them are.
Together == entangled = {} \/ entangled = Hooking

RotatesAlone == entangled = {} => \A o, p \in Hooking : pc[o] \in RotatePc => p = o

Holds == {"ensureProvider", "upsertHook"}

\* The alias of the project is taken once, and is taken before anything refers to it.
OneAlias ==
    /\ \A m, n \in Refs : secrets[m] = "project" /\ secrets[n] = "project" => m = n
    /\ hookRef # NoRef \/ (\E o \in Requests : pc[o] \in Holds \cup RotatePc)
          => \E n \in Refs : secrets[n] = "project"

SameSecret ==
    entangled = {} => \A o \in Requests : pc[o] \in Holds =>
        IF hookRef = NoRef THEN secrets[rRef[o]] = "project" ELSE rRef[o] = hookRef

Tokens ==
    /\ entangled = {} => \A o \in Requests :
          /\ pc[o] \in {"upsertHook", "rotateHook"} => gitlabToken = rRef[o]
          /\ pc[o] \in RotatePc => rOld[o] = hookRef \/ (pc[o] = "rollback" /\ hookSuspect)
    /\ ~hookSuspect => gitlabToken = hookRef \/ \E o \in Requests : pc[o] \in {"upsertHook", "rotateHook", "rollback"}

OldShape == rOld \in [Requests -> Refs \cup {NoRef}]

TokenInv == OldShape /\ Together /\ RotatesAlone /\ OneAlias /\ SameSecret /\ Tokens

LEMMA TokenInvInit == Init => TokenInv
  BY DEF Init, HookInit, TokenInv, OldShape, Together, RotatesAlone, OneAlias, SameSecret, Tokens, Hooking, HookPc,
     EnsurePc, RotatePc, Holds

\* A request goes on within the reconciliation, leaves it, or enters it.
LEMMA GoesOn ==
  ASSUME DOMAIN pc = Requests, Together, RotatesAlone, NEW o \in Requests, NEW l \in HookPc, pc[o] \in HookPc,
         l \in RotatePc <=> pc[o] \in RotatePc, Goto(o, l), UNCHANGED entangled
  PROVE  Together' /\ RotatesAlone'
  <1>1. Hooking' = Hooking
      BY DEF Hooking, Goto
  <1>2. \A q \in Requests : pc'[q] \in RotatePc <=> pc[q] \in RotatePc
      BY DEF Goto
  <1>3. Hooking \subseteq Requests
      BY DEF Hooking
  <1>4. QED
      BY <1>1, <1>2, <1>3 DEF Together, RotatesAlone

LEMMA Leaves ==
  ASSUME DOMAIN pc = Requests, Together, RotatesAlone, NEW o \in Requests, NEW l, l \notin HookPc,
         pc[o] \in HookPc, HookReturn(o, l)
  PROVE  Together' /\ RotatesAlone' /\ (entangled' = {} /\ entangled # {} => Hooking' = {})
  <1>1. Hooking' = Hooking \ {o}
      BY DEF Hooking, HookReturn, Goto
  <1>2. \A q \in Hooking' : pc'[q] = pc[q]
      BY <1>1 DEF HookReturn, Goto, Hooking
  <1>3. entangled' = entangled \ {o}
      BY DEF HookReturn
  <1>4. Together' /\ (entangled' = {} /\ entangled # {} => Hooking' = {})
      BY <1>1, <1>3 DEF Together
  <1>5. RotatesAlone'
      BY <1>1, <1>2, <1>3, <1>4 DEF RotatesAlone
  <1>6. QED
      BY <1>4, <1>5

LEMMA Enters ==
  ASSUME DOMAIN pc = Requests, Together, RotatesAlone, NEW o \in Requests, NEW l \in HookPc, NEW rotation \in BOOLEAN,
         l \in RotatePc <=> rotation, pc[o] \notin HookPc, Goto(o, l), EnterHook(o, rotation)
  PROVE  /\ Together' /\ RotatesAlone'
         /\ entangled' = {} => entangled = {} /\ (rotation => Hooking = {})
  <1>1. Hooking' = Hooking \cup {o} /\ o \notin Hooking
      BY DEF Hooking, Goto
  <1>2. {p \in Requests \ {o} : pc[p] \in HookPc} = Hooking
      BY DEF Hooking
  <1>3. CASE \E p \in Hooking : rotation \/ pc[p] \in RotatePc \/ p \in entangled
    <2>1. entangled' = entangled \cup Hooking \cup {o}
        BY <1>2, <1>3 DEF EnterHook
    <2>2. entangled' = Hooking' /\ entangled' # {}
        BY <1>1, <2>1 DEF Together
    <2>3. QED
        BY <2>2 DEF Together, RotatesAlone
  <1>4. CASE ~\E p \in Hooking : rotation \/ pc[p] \in RotatePc \/ p \in entangled
    <2>1. entangled' = entangled
        BY <1>2, <1>4 DEF EnterHook
    <2>2. entangled = {} /\ entangled' = {}
        BY <1>4, <2>1 DEF Together
    <2>3. rotation => Hooking = {}
        BY <1>4
    <2>4. \A q \in Hooking : pc'[q] = pc[q] /\ pc[q] \notin RotatePc
        BY <1>1, <1>4 DEF Goto, Hooking
    <2>5. pc'[o] = l
        BY DEF Goto
    <2>6. RotatesAlone'
        BY <1>1, <2>3, <2>4, <2>5 DEF RotatesAlone
    <2>7. QED
        BY <2>2, <2>3, <2>6 DEF Together
  <1>5. QED
      BY <1>3, <1>4

\* What a step is to the reconciliation.
Apart ==
    /\ UNCHANGED <<hookRef, secrets, gitlabToken, rRef, rOld, entangled, hookSuspect>>
    /\ DOMAIN pc' = Requests
    /\ \A q \in Requests : pc'[q] = pc[q] \/ (pc[q] \notin HookPc /\ pc'[q] \notin HookPc)

Entry(o) ==
    /\ UNCHANGED <<hookRef, secrets, gitlabToken, rRef, rOld, hookSuspect>>
    /\ pc[o] \notin HookPc /\ Goto(o, "getHook") /\ EnterHook(o, FALSE)

LEMMA ApartOrNot ==
  HookShape /\ [Next]_vars => Apart \/ HookCrash \/ \E o \in Requests : Entry(o) \/ HookStep(o)
  <1> SUFFICES ASSUME HookShape, [Next]_vars
               PROVE  Apart \/ HookCrash \/ \E o \in Requests : Entry(o) \/ HookStep(o)
      OBVIOUS
  <1> USE DEF HookShape, Apart, HookPc, EnsurePc, RotatePc, hookRest, hookVars, flowVars, flowRows, requestVars, flowHistory
  <1>1. ASSUME NEW o \in Requests, EnsureAbandonFlow(o) PROVE Apart
      BY <1>1 DEF EnsureAbandonFlow, Enter
  <1>2. ASSUME NEW o \in Requests, CreateFlow(o) PROVE Apart
      BY <1>2 DEF CreateFlow, FlowGoto, Return, Goto
  <1>3. ASSUME NEW o \in Requests, CreateDraft(o) PROVE Apart
      BY <1>3 DEF CreateDraft, FlowGoto, Return, Goto
  <1>4. ASSUME NEW o \in Requests, NEW f \in Flows, Publish(o, f) PROVE Apart
      BY <1>4 DEF Publish, Enter
  <1>5. ASSUME NEW o \in Requests, NEW f \in Flows, Pause(o, f) PROVE Apart
      BY <1>5 DEF Pause, Enter
  <1>6. ASSUME NEW o \in Requests, NEW f \in Flows, Archive(o, f) PROVE Apart
      BY <1>6 DEF Archive, Enter
  <1>7. ASSUME NEW o \in Requests, GetFlowDraft(o) PROVE Apart
      BY <1>7 DEF GetFlowDraft, Return, Goto
  <1>8. ASSUME NEW o \in Requests, ReadNextVersion(o) PROVE Apart
      BY <1>8 DEF ReadNextVersion, Goto
  <1>9. ASSUME NEW o \in Requests, SaveFlowVersion(o) PROVE Apart \/ Entry(o)
      BY <1>9 DEF SaveFlowVersion, Entry, FlowGoto, Return, Goto
  <1>10. ASSUME NEW o \in Requests, ActivateRoute(o) PROVE Apart
      BY <1>10 DEF ActivateRoute, FlowGoto, Goto
  <1>11. ASSUME NEW o \in Requests, RecordHook(o) PROVE Apart
      BY <1>11 DEF RecordHook, FlowGoto, Return, Goto
  <1>12. ASSUME NEW o \in Requests, PauseAfterFailure(o) PROVE Apart
      BY <1>12 DEF PauseAfterFailure, Return, Goto
  <1>13. ASSUME NEW o \in Requests, PauseCheck(o) PROVE Apart
      BY <1>13 DEF PauseCheck, Return, Goto
  <1>14. ASSUME NEW o \in Requests, PauseInputFlow(o) PROVE Apart
      BY <1>14 DEF PauseInputFlow, FlowGoto, Return, Goto
  <1>15. ASSUME NEW o \in Requests, SetFlowStatus(o) PROVE Apart
      BY <1>15 DEF SetFlowStatus, Return, Goto
  <1>16. ASSUME NEW o \in Requests, LiveTestStep(o) PROVE Apart
      BY <1>16 DEF LiveTestStep, StartLiveTest, CheckLiveVersion, AcceptLiveTest, FlowGoto, Return, Goto
  <1>17. ASSUME NEW f \in Flows, NEW g \in Drafts, SaveDraft(f, g) PROVE Apart
      BY <1>17 DEF SaveDraft
  <1>18. ASSUME NEW h \in Handlers, HandlerStep(h) PROVE Apart
      BY <1>18 DEF HandlerStep
  <1>19. CASE Crash
      BY <1>19 DEF Crash, FlowCrash
  <1>20. CASE UNCHANGED vars
      BY <1>20 DEF vars
  <1>21. CASE ConnectionStep
      BY <1>21 DEF ConnectionStep, DisableConnection, UpdateConnectionStatus, connectionRest
  <1>22. QED
      BY <1>1, <1>2, <1>3, <1>4, <1>5, <1>6, <1>7, <1>8, <1>9, <1>10, <1>11, <1>12,
         <1>13, <1>14, <1>15, <1>16, <1>17, <1>18, <1>19, <1>20, <1>21
      DEF Next, RequestStep

\* Leaving without a change of a row or of GitLab's hook settles nothing and disturbs nothing.
LEMMA LeavesQuietly ==
  ASSUME HookShape, TokenInv, NEW o \in Requests, NEW l, l \notin HookPc,
         pc[o] \in HookPc \ {"upsertHook", "rotateHook", "rollback"}, HookReturn(o, l),
         UNCHANGED <<hookRef, secrets, gitlabToken, hookSuspect>>
  PROVE  TokenInv'
  <1>1. Together' /\ RotatesAlone' /\ (entangled' = {} /\ entangled # {} => Hooking' = {})
      BY Leaves DEF HookShape, TokenInv
  <1>2. /\ pc'[o] \notin HookPc /\ \A q \in Requests : q # o => pc'[q] = pc[q] /\ rRef'[q] = rRef[q] /\ rOld'[q] = rOld[q]
        /\ entangled' = {} => entangled = {} \/ \A q \in Requests : pc'[q] \notin HookPc
        /\ Holds \cup RotatePc \subseteq HookPc /\ {"upsertHook", "rotateHook", "rollback"} \subseteq HookPc
      BY <1>1 DEF HookReturn, Goto, HookShape, TokenInv, OldShape, Hooking, HookPc, EnsurePc, RotatePc, Holds
  <1>3. OldShape'
      BY DEF HookReturn, TokenInv, OldShape
  <1>4. OneAlias'
      BY <1>2 DEF TokenInv, OneAlias
  <1>5. SameSecret'
      BY <1>2 DEF TokenInv, SameSecret, Holds
  <1>6. Tokens'
      BY <1>2 DEF TokenInv, Tokens
  <1>7. QED
      BY <1>1, <1>3, <1>4, <1>5, <1>6 DEF TokenInv

\* Publications that are not entangled carry the same secret.
LEMMA HeldIsOne ==
  ASSUME TokenInv, HookShape, entangled = {}, NEW o \in Requests, NEW p \in Requests, pc[o] \in Holds, pc[p] \in Holds,
         rRef[o] \in Refs, rRef[p] \in Refs
  PROVE  rRef[o] = rRef[p]
  BY DEF TokenInv, SameSecret, OneAlias

\* Writing a token into GitLab's hook.
LEMMA ProviderKeeps ==
  ASSUME HookShape, HookInv, TokenInv, NEW o \in Requests,
         NEW done \in {"upsertHook", "rotateHook"}, NEW failed \in {"activationFailed", "idle"},
         \/ pc[o] = "ensureProvider" /\ done = "upsertHook"
         \/ pc[o] = "rotateProvider" /\ done = "rotateHook",
         ProviderHook(o, rRef[o], done, failed), UNCHANGED hookRows
  PROVE  TokenInv'
  <1>1. /\ pc[o] \in HookPc \ {"upsertHook", "rotateHook", "rollback"} /\ done \in HookPc /\ failed \notin HookPc
        /\ done \in RotatePc <=> pc[o] \in RotatePc
        /\ Holds \cup RotatePc \subseteq HookPc /\ {"upsertHook", "rotateHook", "rollback"} \subseteq HookPc
        /\ Holds \cap RotatePc = {} /\ pc[o] \in Holds \cup RotatePc /\ done \in Holds \cup RotatePc
        /\ pc[o] \in Writing
      BY DEF HookPc, EnsurePc, RotatePc, Holds, Writing
  <1>2. hookRef' = hookRef /\ secrets' = secrets
      BY DEF hookRows
  <1>3. rRef[o] \in Refs
      BY <1>1 DEF HookInv, HookShape
  <1>4. CASE gitlabToken' = rRef[o] /\ HookGoto(o, done) /\ hookSuspect' = hookSuspect
    <2>1. Together' /\ RotatesAlone'
        BY <1>1, <1>4, GoesOn DEF HookGoto, hookLocal, HookShape, TokenInv
    <2>2. /\ pc'[o] = done /\ \A q \in Requests : q # o => pc'[q] = pc[q]
          /\ UNCHANGED <<rRef, rOld, entangled>>
        BY <1>4 DEF HookGoto, Goto, hookLocal, HookShape
    <2>3. OldShape' /\ OneAlias'
        BY <1>1, <1>2, <2>2 DEF TokenInv, OldShape, OneAlias
    <2>4. SameSecret'
      <3>1. pc'[o] \in Holds => pc[o] \in Holds
          BY <1>1, <2>2
      <3>2. QED
          BY <1>2, <2>2, <3>1 DEF TokenInv, SameSecret
    <2>5. ASSUME entangled' = {}, NEW q \in Requests, pc'[q] \in {"upsertHook", "rotateHook"}
          PROVE  gitlabToken' = rRef'[q]
      <3>1. CASE q = o
          BY <1>4, <2>2, <3>1
      <3>2. CASE q # o
        <4>1. pc[q] \in {"upsertHook", "rotateHook"} /\ q \in Hooking /\ o \in Hooking /\ entangled = {}
            BY <1>1, <2>2, <2>5, <3>2 DEF Hooking
        <4>2. pc[o] \notin RotatePc /\ pc[q] \notin RotatePc
            BY <3>2, <4>1 DEF TokenInv, RotatesAlone
        <4>3. pc[o] \in Holds /\ pc[q] \in Holds /\ pc[q] \in Writing
            BY <1>1, <4>1, <4>2 DEF RotatePc, Holds, Writing
        <4>4. rRef[q] \in Refs
            BY <4>3 DEF HookInv, HookShape
        <4>5. QED
            BY <1>3, <1>4, <2>2, <4>1, <4>3, <4>4, HeldIsOne
      <3>3. QED
          BY <3>1, <3>2
    <2>6. ASSUME entangled' = {}, NEW q \in Requests, pc'[q] \in RotatePc
          PROVE  rOld'[q] = hookRef' \/ (pc'[q] = "rollback" /\ hookSuspect')
      <3>1. pc[q] \in RotatePc /\ entangled = {}
          BY <1>1, <2>2, <2>6
      <3>2. pc[q] = "rollback" => pc'[q] = "rollback"
          BY <1>1, <2>2
      <3>3. QED
          BY <1>2, <1>4, <2>2, <3>1, <3>2 DEF TokenInv, Tokens
    <2>7. Tokens'
        BY <2>2, <2>5, <2>6 DEF Tokens
    <2>8. QED
        BY <2>1, <2>3, <2>4, <2>7 DEF TokenInv
  <1>5. CASE HookReturn(o, failed) /\ UNCHANGED <<gitlabToken, hookSuspect>>
      BY <1>1, <1>2, <1>5, LeavesQuietly
  <1>6. CASE HookReturn(o, failed) /\ gitlabToken' = rRef[o] /\ hookSuspect' = TRUE
    <2>1. Together' /\ RotatesAlone' /\ (entangled' = {} /\ entangled # {} => Hooking' = {})
        BY <1>1, <1>6, Leaves DEF HookShape, TokenInv
    <2>2. /\ pc'[o] \notin HookPc
          /\ \A q \in Requests : q # o => pc'[q] = pc[q] /\ rRef'[q] = rRef[q] /\ rOld'[q] = rOld[q]
          /\ entangled' = {} => entangled = {} \/ \A q \in Requests : pc'[q] \notin HookPc
        BY <1>1, <1>6, <2>1 DEF HookReturn, Goto, HookShape, TokenInv, OldShape, Hooking
    <2>3. OldShape'
        BY <1>6 DEF HookReturn, TokenInv, OldShape
    <2>4. OneAlias'
        BY <1>1, <1>2, <2>2 DEF TokenInv, OneAlias
    <2>5. SameSecret'
        BY <1>1, <1>2, <2>2 DEF TokenInv, SameSecret
    <2>6. ASSUME entangled' = {}, NEW q \in Requests, pc'[q] \in HookPc
          PROVE  /\ pc'[q] \in {"upsertHook", "rotateHook"} => gitlabToken' = rRef'[q]
                 /\ pc'[q] \in RotatePc => rOld'[q] = hookRef'
      <3>1. /\ q # o /\ entangled = {} /\ pc[q] = pc'[q] /\ rRef'[q] = rRef[q] /\ rOld'[q] = rOld[q]
            /\ q \in Hooking /\ o \in Hooking
          BY <1>1, <2>2, <2>6 DEF Hooking
      <3>2. pc[o] \notin RotatePc /\ pc[q] \notin RotatePc
          BY <3>1 DEF TokenInv, RotatesAlone
      <3>3. ASSUME pc[q] \in {"upsertHook", "rotateHook"} PROVE rRef[q] = rRef[o]
        <4>1. pc[o] \in Holds /\ pc[q] \in Holds /\ pc[q] \in Writing
            BY <1>1, <3>2, <3>3 DEF RotatePc, Holds, Writing
        <4>2. rRef[q] \in Refs
            BY <4>1 DEF HookInv, HookShape
        <4>3. QED
            BY <1>3, <3>1, <4>1, <4>2, HeldIsOne
      <3>4. QED
          BY <1>6, <3>1, <3>2, <3>3
    <2>7. Tokens'
        BY <1>1, <1>6, <2>6 DEF Tokens
    <2>8. QED
        BY <2>1, <2>3, <2>4, <2>5, <2>7 DEF TokenInv
  <1>7. QED
      BY <1>4, <1>5, <1>6 DEF ProviderHook

\* Writing the row, whether it is answered with success or with an error.
LEMMA UpsertKeeps ==
  ASSUME HookShape, HookInv, TokenInv, NEW o \in Requests, pc[o] \in {"upsertHook", "rotateHook"},
         NEW l, l \notin HookPc, HookReturn(o, l), hookRef' = rRef[o], UNCHANGED <<secrets, gitlabToken>>,
         hookSuspect' = TRUE \/ Settled(o)
  PROVE  TokenInv'
  <1>1. /\ pc[o] \in {"upsertHook", "rotateHook"} /\ pc[o] \in HookPc /\ pc[o] \in Writing
        /\ pc[o] \in Holds \cup RotatePc /\ Holds \cup RotatePc \subseteq HookPc /\ {"upsertHook", "rotateHook", "rollback"} \subseteq HookPc
      BY DEF HookPc, EnsurePc, RotatePc, Holds, Writing
  <1>2. HookReturn(o, l)
      OBVIOUS
  <1>3. /\ hookRef' = rRef[o] /\ UNCHANGED <<secrets, gitlabToken>>
        /\ hookSuspect' = TRUE \/ hookSuspect' = (o \in entangled)
      BY DEF Settled
  <1>4. l \notin HookPc
      OBVIOUS
  <1>5. Together' /\ RotatesAlone' /\ (entangled' = {} /\ entangled # {} => Hooking' = {})
      BY <1>1, <1>2, <1>4, Leaves DEF HookShape, TokenInv
  <1>6. /\ pc'[o] \notin HookPc
        /\ \A q \in Requests : q # o => pc'[q] = pc[q] /\ rRef'[q] = rRef[q] /\ rOld'[q] = rOld[q]
        /\ entangled' = {} => entangled = {} \/ \A q \in Requests : pc'[q] \notin HookPc
      BY <1>2, <1>4, <1>5 DEF HookReturn, Goto, HookShape, TokenInv, OldShape, Hooking
  <1>7. OldShape'
      BY <1>2 DEF HookReturn, TokenInv, OldShape
  <1>8. OneAlias'
      BY <1>1, <1>3, <1>6 DEF TokenInv, OneAlias
  <1>9. rRef[o] \in Refs /\ rRef[o] # NoRef
      BY <1>1 DEF HookInv, HookShape
  <1>10. ASSUME entangled' = {}, NEW q \in Requests, pc'[q] \in HookPc
         PROVE  /\ q # o /\ entangled = {} /\ pc[q] = pc'[q] /\ rRef'[q] = rRef[q] /\ rOld'[q] = rOld[q]
                /\ pc[o] \notin RotatePc /\ pc[q] \notin RotatePc
                /\ pc[q] \in Holds => rRef[q] = rRef[o]
    <2>1. /\ q # o /\ entangled = {} /\ pc[q] = pc'[q] /\ rRef'[q] = rRef[q] /\ rOld'[q] = rOld[q]
          /\ q \in Hooking /\ o \in Hooking
        BY <1>1, <1>6, <1>10 DEF Hooking
    <2>2. pc[o] \notin RotatePc /\ pc[q] \notin RotatePc
        BY <2>1 DEF TokenInv, RotatesAlone
    <2>3. ASSUME pc[q] \in Holds PROVE rRef[q] = rRef[o]
      <3>1. pc[o] \in Holds /\ pc[q] \in Writing
          BY <1>1, <2>2, <2>3 DEF Holds, Writing
      <3>2. rRef[q] \in Refs
          BY <3>1 DEF HookInv, HookShape
      <3>3. QED
          BY <1>9, <2>1, <2>3, <3>1, <3>2, HeldIsOne
    <2>4. QED
        BY <2>1, <2>2, <2>3
  <1>11. SameSecret'
      BY <1>1, <1>3, <1>9, <1>10 DEF SameSecret
  <1>12. ~hookSuspect' => gitlabToken' = hookRef'
    <2>1. CASE o \in entangled
        BY <1>3, <2>1
    <2>2. CASE o \notin entangled
      <3>1. entangled = {}
          BY <1>1, <2>2 DEF TokenInv, Together, Hooking
      <3>2. QED
          BY <1>1, <1>3, <3>1 DEF TokenInv, Tokens
    <2>3. QED
        BY <2>1, <2>2
  <1>13. ASSUME entangled' = {}, NEW q \in Requests, pc'[q] \in {"upsertHook", "rotateHook"}
         PROVE  gitlabToken' = rRef'[q]
    <2>1. entangled = {} /\ rRef'[q] = rRef[q] /\ pc[q] \in {"upsertHook", "rotateHook"}
        BY <1>1, <1>10, <1>13
    <2>2. QED
        BY <1>3, <2>1 DEF TokenInv, Tokens
  <1>14. Tokens'
      BY <1>1, <1>10, <1>12, <1>13 DEF Tokens
  <1>15. QED
      BY <1>5, <1>7, <1>8, <1>11, <1>14 DEF TokenInv

\* A request goes on with what it has, or with a new reference, and no token is touched.
LEMMA CarriesOn ==
  ASSUME HookShape, HookInv, TokenInv, NEW o \in Requests, NEW l \in HookPc, pc[o] \in HookPc,
         l \in RotatePc <=> pc[o] \in RotatePc, Goto(o, l), NEW ref \in Refs \cup {NoRef},
         rRef' = [rRef EXCEPT ![o] = ref], UNCHANGED <<hookRef, gitlabToken, rOld, entangled, hookSuspect>>,
         \A n \in Refs : secrets[n] = "project" => secrets'[n] = "project",
         \A m, n \in Refs : secrets'[m] = "project" /\ secrets'[n] = "project" => m = n,
         l \in Holds \cup RotatePc => \E n \in Refs : secrets'[n] = "project",
         l \in Holds => l = "ensureProvider" /\ (IF hookRef = NoRef THEN secrets'[ref] = "project" ELSE ref = hookRef),
         l # "rotateHook", pc[o] \notin {"upsertHook", "rollback"},
         pc[o] = "rotateHook" => l = "rollback"
  PROVE  TokenInv'
  <1>1. Together' /\ RotatesAlone'
      BY GoesOn DEF HookShape, TokenInv
  <1>2. /\ pc'[o] = l /\ rRef'[o] = ref
        /\ \A q \in Requests : q # o => pc'[q] = pc[q] /\ rRef'[q] = rRef[q]
      BY DEF Goto, HookShape
  <1>3. OldShape'
      BY DEF TokenInv, OldShape
  <1>4. OneAlias'
      BY <1>2 DEF TokenInv, OneAlias
  <1>5. SameSecret'
    <2> SUFFICES ASSUME entangled' = {}, NEW q \in Requests, pc'[q] \in Holds
                 PROVE  IF hookRef' = NoRef THEN secrets'[rRef'[q]] = "project" ELSE rRef'[q] = hookRef'
        BY DEF SameSecret
    <2>1. CASE q = o
        BY <1>2, <2>1
    <2>2. CASE q # o
      <3>1. pc[q] \in Holds /\ rRef'[q] = rRef[q] /\ rRef[q] \in Refs \cup {NoRef} /\ entangled = {}
          BY <1>2, <2>2 DEF HookShape
      <3>2. rRef[q] # NoRef
          BY <3>1 DEF HookInv, Holds, Writing
      <3>3. QED
          BY <2>2, <3>1, <3>2 DEF TokenInv, SameSecret
    <2>3. QED
        BY <2>1, <2>2
  <1>6. Tokens'
      BY <1>2 DEF TokenInv, Tokens, Holds
  <1>7. QED
      BY <1>1, <1>3, <1>4, <1>5, <1>6 DEF TokenInv

\* The other steps of the reconciliation.
LEMMA TokenHookStep ==
  ASSUME HookShape, HookInv, TokenInv, NEW o \in Requests, HookStep(o)
  PROVE  TokenInv'
  <1> DEFINE Pcs == /\ {"getHook", "putSecret", "ensureProvider", "upsertHook", "putRotated", "rotateProvider",
                        "rotateHook", "rollback"} = HookPc
                    /\ RotatePc = {"putRotated", "rotateProvider", "rotateHook", "rollback"}
                    /\ Holds = {"ensureProvider", "upsertHook"}
  <1>1. Pcs
      BY DEF HookPc, EnsurePc, RotatePc, Holds
  <1>2. /\ \A m, n \in Refs : secrets[m] = "project" /\ secrets[n] = "project" => m = n
        /\ hookRef # NoRef => \E n \in Refs : secrets[n] = "project"
        /\ pc[o] \in Holds \cup RotatePc => \E n \in Refs : secrets[n] = "project"
      BY DEF TokenInv, OneAlias
  <1>3. CASE GetHook(o)
    <2>1. pc[o] = "getHook" /\ UNCHANGED <<hookRef, secrets, gitlabToken, hookSuspect>>
        BY <1>3 DEF GetHook, hookRows
    <2>2. CASE hookRef # NoRef /\ HookGotoWith(o, "ensureProvider", hookRef)
      <3>1. hookRef \in Refs \cup {NoRef}
          BY DEF HookShape
      <3>2. QED
          BY <1>1, <1>2, <2>1, <2>2, <3>1, CarriesOn DEF HookGotoWith
    <2>3. CASE HookGoto(o, "putSecret")
      <3>1. Goto(o, "putSecret") /\ rRef[o] \in Refs \cup {NoRef} /\ rRef' = [rRef EXCEPT ![o] = rRef[o]]
            /\ UNCHANGED <<rOld, entangled>>
          BY <2>3 DEF HookGoto, hookLocal, HookShape
      <3>2. QED
          BY <1>1, <1>2, <2>1, <3>1, CarriesOn
    <2>4. CASE HookReturn(o, "activationFailed")
        BY <1>1, <2>1, <2>4, LeavesQuietly
    <2>5. QED
        BY <1>3, <2>2, <2>3, <2>4 DEF GetHook
  <1>4. CASE PutSecret(o)
    <2>1. pc[o] = "putSecret" /\ UNCHANGED <<hookRef, gitlabToken, hookSuspect>>
        BY <1>4 DEF PutSecret
    <2>2. CASE /\ \A n \in Refs : secrets[n] # "project"
               /\ Free # {}
               /\ secrets' = [secrets EXCEPT ![NextRef] = "project"]
               /\ HookGotoWith(o, "ensureProvider", NextRef)
      <3>1. PICK ref \in Refs : ref = NextRef
          BY <2>2, NextRefIsFree DEF Free
      <3>2. \A n \in Refs : secrets'[n] = "project" <=> n = ref
          BY <2>2, <3>1 DEF HookShape
      <3>3. hookRef = NoRef
          BY <1>2, <2>2
      <3>4. Goto(o, "ensureProvider") /\ rRef' = [rRef EXCEPT ![o] = ref] /\ UNCHANGED <<rOld, entangled>>
          BY <2>2, <3>1 DEF HookGotoWith
      <3>5. QED
          BY <1>1, <2>1, <2>2, <3>2, <3>3, <3>4, CarriesOn
    <2>3. CASE HookReturn(o, "activationFailed") /\ secrets' = secrets
        BY <1>1, <2>1, <2>3, LeavesQuietly
    <2>4. QED
        BY <1>4, <2>2, <2>3 DEF PutSecret
  <1>5. CASE EnsureProvider(o)
      BY <1>5, ProviderKeeps DEF EnsureProvider
  <1>6. CASE UpsertHook(o)
    <2>1. PICK l \in {"activateRoute", "idle"} : HookReturn(o, l)
        BY <1>6 DEF UpsertHook
    <2>2. l \notin HookPc
        BY <1>1
    <2>3. QED
        BY <1>6, <2>1, <2>2, UpsertKeeps DEF UpsertHook
  <1>7. CASE Rotate(o)
    <2>1. /\ pc[o] \notin HookPc /\ hookRef # NoRef /\ hookRef \in Refs \cup {NoRef}
          /\ rOld' = [rOld EXCEPT ![o] = hookRef]
          /\ EnterHook(o, TRUE) /\ Goto(o, "putRotated")
          /\ UNCHANGED <<hookRef, secrets, gitlabToken, rRef, hookSuspect>>
        BY <1>1, <1>7 DEF Rotate, hookRows, HookShape
    <2>2. Together' /\ RotatesAlone' /\ (entangled' = {} => entangled = {} /\ Hooking = {})
        BY <1>1, <2>1, Enters DEF HookShape, TokenInv
    <2>3. /\ pc'[o] = "putRotated" /\ rOld'[o] = hookRef
          /\ \A q \in Requests : q # o => pc'[q] = pc[q] /\ rOld'[q] = rOld[q]
        BY <2>1 DEF Goto, HookShape, TokenInv, OldShape
    <2>4. entangled' = {} => entangled = {} /\ \A q \in Requests : q # o => pc'[q] \notin HookPc
        BY <2>2, <2>3 DEF Hooking
    <2>5. OldShape'
        BY <2>1 DEF TokenInv, OldShape
    <2>6. OneAlias'
        BY <1>1, <1>2, <2>1, <2>3 DEF OneAlias
    <2>7. SameSecret'
        BY <1>1, <2>3, <2>4 DEF SameSecret
    <2>8. ASSUME entangled' = {}, NEW q \in Requests
          PROVE  /\ pc'[q] \notin {"upsertHook", "rotateHook"}
                 /\ pc'[q] \in RotatePc => rOld'[q] = hookRef'
        BY <1>1, <2>1, <2>3, <2>4, <2>8
    <2>9. ~hookSuspect => gitlabToken = hookRef \/ \E q \in Requests : pc[q] \in {"upsertHook", "rotateHook", "rollback"}
        BY DEF TokenInv, Tokens
    <2>10. ASSUME NEW q \in Requests, pc[q] \in {"upsertHook", "rotateHook", "rollback"}
           PROVE  pc'[q] = pc[q]
        BY <1>1, <2>1, <2>3, <2>10
    <2>11. Tokens'
      <3>1. ~hookSuspect' => gitlabToken' = hookRef'
                             \/ \E q \in Requests : pc'[q] \in {"upsertHook", "rotateHook", "rollback"}
        <4>1. CASE \E q \in Requests : pc[q] \in {"upsertHook", "rotateHook", "rollback"}
            BY <2>10, <4>1
        <4>2. QED
            BY <2>1, <2>9, <4>1
      <3>2. entangled' = {} => \A q \in Requests :
              /\ pc'[q] \in {"upsertHook", "rotateHook"} => gitlabToken' = rRef'[q]
              /\ pc'[q] \in RotatePc => rOld'[q] = hookRef' \/ (pc'[q] = "rollback" /\ hookSuspect')
          BY <2>8
      <3>3. QED
          BY <3>1, <3>2 DEF Tokens
    <2>12. QED
        BY <2>2, <2>5, <2>6, <2>7, <2>11 DEF TokenInv
  <1>8. CASE PutRotated(o)
    <2>1. pc[o] = "putRotated" /\ UNCHANGED <<hookRef, gitlabToken, hookSuspect>>
        BY <1>8 DEF PutRotated
    <2>2. CASE /\ Free # {}
               /\ secrets' = [secrets EXCEPT ![NextRef] = "rotation"]
               /\ HookGotoWith(o, "rotateProvider", NextRef)
      <3>1. PICK ref \in Refs : ref = NextRef /\ secrets[ref] = "absent"
          BY <2>2, NextRefIsFree DEF Free
      <3>2. \A n \in Refs : secrets'[n] = "project" <=> secrets[n] = "project"
          BY <2>2, <3>1 DEF HookShape
      <3>3. Goto(o, "rotateProvider") /\ rRef' = [rRef EXCEPT ![o] = ref] /\ UNCHANGED <<rOld, entangled>>
          BY <2>2, <3>1 DEF HookGotoWith
      <3>4. QED
          BY <1>1, <1>2, <2>1, <3>2, <3>3, CarriesOn
    <2>3. CASE HookReturn(o, "idle") /\ secrets' = secrets
        BY <1>1, <2>1, <2>3, LeavesQuietly
    <2>4. QED
        BY <1>8, <2>2, <2>3 DEF PutRotated
  <1>9. CASE RotateProvider(o)
      BY <1>9, ProviderKeeps DEF RotateProvider
  <1>10. CASE RotateHookFails(o)
    <2>1. pc[o] = "rotateHook" /\ UNCHANGED <<secrets, gitlabToken>>
        BY <1>10 DEF RotateHookFails
    <2>2. Goto(o, "rollback") /\ rRef[o] \in Refs \cup {NoRef} /\ rRef' = [rRef EXCEPT ![o] = rRef[o]]
          /\ UNCHANGED <<rRef, rOld, entangled>>
        BY <1>10 DEF RotateHookFails, HookGoto, hookLocal, HookShape
    <2>3. CASE UNCHANGED <<hookRef, hookSuspect>>
        BY <1>1, <1>2, <2>1, <2>2, <2>3, CarriesOn
    <2>4. CASE hookRef' = rRef[o] /\ hookSuspect' = TRUE
      <3>1. Together' /\ RotatesAlone'
          BY <1>1, <2>1, <2>2, GoesOn DEF HookShape, TokenInv
      <3>2. pc'[o] = "rollback" /\ \A q \in Requests : q # o => pc'[q] = pc[q]
          BY <2>2 DEF Goto, HookShape
      <3>3. ASSUME entangled' = {}, NEW q \in Requests, pc'[q] \in HookPc PROVE q = o
        <4>1. q \in Hooking /\ o \in Hooking /\ entangled = {}
            BY <1>1, <2>1, <2>2, <3>2, <3>3 DEF Hooking
        <4>2. QED
            BY <1>1, <2>1, <4>1 DEF TokenInv, RotatesAlone
      <3>4. OldShape'
          BY <2>2 DEF TokenInv, OldShape
      <3>5. OneAlias'
          BY <1>1, <1>2, <2>1 DEF OneAlias
      <3>6. SameSecret'
          BY <1>1, <3>2, <3>3 DEF SameSecret
      <3>7. Tokens'
          BY <1>1, <2>4, <3>2, <3>3 DEF Tokens
      <3>8. QED
          BY <3>1, <3>4, <3>5, <3>6, <3>7 DEF TokenInv
    <2>5. QED
        BY <1>10, <2>3, <2>4 DEF RotateHookFails
  <1>11. ASSUME pc[o] \in {"upsertHook", "rollback"}, NEW l, l \notin HookPc, HookReturn(o, l),
                UNCHANGED <<hookRef, secrets>>,
                gitlabToken' = gitlabToken \/ pc[o] = "rollback",
                hookSuspect' = FALSE => entangled = {} /\ gitlabToken' = hookRef,
                hookSuspect' \in BOOLEAN
         PROVE  TokenInv'
    <2>1. Together' /\ RotatesAlone' /\ (entangled' = {} /\ entangled # {} => Hooking' = {})
        BY <1>1, <1>11, Leaves DEF HookShape, TokenInv
    <2>2. /\ pc'[o] \notin HookPc
          /\ \A q \in Requests : q # o => pc'[q] = pc[q] /\ rRef'[q] = rRef[q] /\ rOld'[q] = rOld[q]
          /\ entangled' = {} => entangled = {} \/ \A q \in Requests : pc'[q] \notin HookPc
        BY <1>1, <1>11, <2>1 DEF HookReturn, Goto, HookShape, TokenInv, OldShape, Hooking
    <2>3. OldShape'
        BY <1>11 DEF HookReturn, TokenInv, OldShape
    <2>4. OneAlias'
        BY <1>1, <1>2, <1>11, <2>2 DEF TokenInv, OneAlias
    <2>5. SameSecret'
        BY <1>1, <1>11, <2>2 DEF TokenInv, SameSecret
    <2>6. ASSUME entangled' = {}, NEW q \in Requests, pc'[q] \in HookPc
          PROVE  /\ pc'[q] \in {"upsertHook", "rotateHook"} => gitlabToken' = rRef'[q]
                 /\ pc'[q] \in RotatePc => rOld'[q] = hookRef'
      <3>1. /\ q # o /\ entangled = {} /\ pc[q] = pc'[q] /\ rRef'[q] = rRef[q] /\ rOld'[q] = rOld[q]
            /\ q \in Hooking /\ o \in Hooking
          BY <1>1, <1>11, <2>2, <2>6 DEF Hooking
      <3>2. pc[o] \notin RotatePc /\ pc[q] \notin RotatePc
          BY <3>1 DEF TokenInv, RotatesAlone
      <3>3. gitlabToken' = gitlabToken
          BY <1>1, <1>11, <3>2
      <3>4. QED
          BY <3>1, <3>2, <3>3 DEF TokenInv, Tokens
    <2>7. Tokens'
      <3>1. ~hookSuspect' => gitlabToken' = hookRef'
          BY <1>11
      <3>2. ASSUME NEW q \in Requests
            PROVE  /\ pc'[q] \in {"upsertHook", "rotateHook"} => pc'[q] \in HookPc
                   /\ pc'[q] \in RotatePc => pc'[q] \in HookPc
          BY <1>1
      <3>3. entangled' = {} => \A q \in Requests :
              /\ pc'[q] \in {"upsertHook", "rotateHook"} => gitlabToken' = rRef'[q]
              /\ pc'[q] \in RotatePc => rOld'[q] = hookRef' \/ (pc'[q] = "rollback" /\ hookSuspect')
          BY <2>6, <3>2
      <3>4. QED
          BY <3>1, <3>3 DEF Tokens
    <2>8. QED
        BY <2>1, <2>3, <2>4, <2>5, <2>7 DEF TokenInv
  <1>12. CASE UpsertHookFails(o)
    <2>1. CASE hookRef' = hookRef
        BY <1>1, <1>11, <1>12, <2>1 DEF UpsertHookFails
    <2>2. CASE hookRef' = rRef[o]
        BY <1>1, <1>12, <2>2, UpsertKeeps DEF UpsertHookFails
    <2>3. QED
        BY <1>12, <2>1, <2>2 DEF UpsertHookFails
  <1>13. CASE RollbackFails(o)
      BY <1>1, <1>11, <1>13 DEF RollbackFails, hookRows
  <1>14. CASE Rollback(o)
    <2>1. pc[o] = "rollback" /\ pc[o] \in RotatePc /\ pc[o] \in HookPc
        BY <1>1, <1>14 DEF Rollback
    <2>2. hookSuspect' = FALSE => entangled = {} /\ gitlabToken' = hookRef
      <3>1. ASSUME hookSuspect' = FALSE PROVE o \notin entangled /\ ~hookSuspect
          BY <1>14, <3>1 DEF Rollback
      <3>2. o \notin entangled => entangled = {}
          BY <2>1 DEF TokenInv, Together, Hooking
      <3>3. entangled = {} /\ ~hookSuspect => rOld[o] = hookRef
          BY <2>1 DEF TokenInv, Tokens
      <3>4. QED
          BY <1>14, <3>1, <3>2, <3>3 DEF Rollback
    <2>3. hookSuspect' \in BOOLEAN
        BY <1>14 DEF Rollback
    <2>4. HookReturn(o, "idle") /\ hookRef' = hookRef /\ secrets' = secrets
        BY <1>14 DEF Rollback, hookRows
    <2>5. "idle" \notin HookPc
        BY <1>1
    <2>6. QED
        BY <1>11, <2>1, <2>2, <2>3, <2>4, <2>5
  <1>15. QED
      BY <1>3, <1>4, <1>5, <1>6, <1>7, <1>8, <1>9, <1>10, <1>12, <1>13, <1>14 DEF HookStep

LEMMA TokenInvStep == HookShape /\ HookInv /\ TokenInv /\ [Next]_vars => TokenInv'
  <1> SUFFICES ASSUME HookShape, HookInv, TokenInv, [Next]_vars PROVE TokenInv'
      OBVIOUS
  <1>1. ASSUME NEW o \in Requests, HookStep(o) PROVE TokenInv'
      BY <1>1, TokenHookStep
  <1>2. Holds \cup RotatePc \subseteq HookPc /\ {"upsertHook", "rotateHook", "rollback"} \subseteq HookPc
        /\ "getHook" \in HookPc \ (Holds \cup RotatePc)
      BY DEF HookPc, EnsurePc, RotatePc, Holds
  <1>3. CASE Apart
    <2>1. \A q \in Requests : pc'[q] \in HookPc \/ pc[q] \in HookPc => pc'[q] = pc[q]
        BY <1>3 DEF Apart
    <2>2. Hooking' = Hooking
        BY <2>1 DEF Hooking
    <2>3. OldShape' /\ Together' /\ RotatesAlone'
        BY <1>3, <2>1, <2>2 DEF Apart, TokenInv, OldShape, Together, RotatesAlone, Hooking
    <2>4. OneAlias' /\ SameSecret' /\ Tokens'
        BY <1>2, <1>3, <2>1 DEF Apart, TokenInv, OneAlias, SameSecret, Tokens
    <2>5. QED
        BY <2>3, <2>4 DEF TokenInv
  <1>4. ASSUME NEW o \in Requests, Entry(o) PROVE TokenInv'
    <2>1. Together' /\ RotatesAlone' /\ (entangled' = {} => entangled = {})
        BY <1>2, <1>4, Enters DEF Entry, HookShape, TokenInv
    <2>2. pc[o] \notin HookPc /\ pc'[o] = "getHook" /\ \A q \in Requests : q # o => pc'[q] = pc[q]
        BY <1>4 DEF Entry, Goto, HookShape
    <2>3. OldShape' /\ OneAlias' /\ SameSecret' /\ Tokens'
        BY <1>2, <1>4, <2>1, <2>2 DEF Entry, TokenInv, OldShape, OneAlias, SameSecret, Tokens
    <2>4. QED
        BY <2>1, <2>3 DEF TokenInv
  <1>5. CASE HookCrash
    <2>1. /\ entangled' = {} /\ UNCHANGED <<hookRef, secrets, gitlabToken>>
          /\ \A q \in Requests : pc'[q] = "idle" /\ rOld'[q] = NoRef
          /\ OldShape'
          /\ hookSuspect' = (hookSuspect \/ \E q \in Requests : pc[q] \in HookPc)
        BY <1>5 DEF HookCrash, hookRows, OldShape
    <2>2. "idle" \notin HookPc
        BY DEF HookPc, EnsurePc, RotatePc
    <2>3. Together' /\ RotatesAlone' /\ OneAlias' /\ SameSecret'
        BY <1>2, <2>1, <2>2 DEF TokenInv, Together, RotatesAlone, OneAlias, SameSecret, Hooking
    <2>4. Tokens'
        BY <1>2, <2>1, <2>2 DEF TokenInv, Tokens
    <2>5. QED
        BY <2>1, <2>3, <2>4 DEF TokenInv
  <1>6. QED
      BY <1>1, <1>3, <1>4, <1>5, ApartOrNot

(***************************************************************************)
(* GitLab signs with the secret of the hooks row whenever no request is    *)
(* reconciling the hook, unless a rotation ran beside another              *)
(* reconciliation, an answer was lost, a row was reported as failed after  *)
(* it was written, or a crash or a failed rollback came between the two    *)
(* writes; and one reconciliation on its own repairs what these have left  *)
(* (ensureHook and RotateSigningToken in hooks.go).                        *)
(***************************************************************************)
THEOREM TokensAgree == Spec => []HookTokensAgree
  <1>1. PublicationInv /\ TokenInv /\ [Next]_vars => TokenInv'
      BY TokenInvStep DEF PublicationInv
  <1>2. TokenInv => HookTokensAgree
    <2>1. {"upsertHook", "rotateHook", "rollback"} \subseteq HookPc
        BY DEF HookPc, EnsurePc, RotatePc
    <2>2. QED
        BY <2>1 DEF TokenInv, Tokens, HookTokensAgree
  <1>3. QED
      BY TokenInvInit, PublicationInductive, <1>1, <1>2, PTL DEF Spec
-----------------------------------------------------------------------------
(***************************************************************************)
(* Published Flows are routed.  A request that nobody has crowded is alone *)
(* with its Flow; a crowded one keeps its Flow under suspicion; between    *)
(* the version it saved and the route it activates, a request alone holds  *)
(* the active version; and only requests at the labels of Unsettling may   *)
(* have left a Flow published that is not routed.                          *)
(***************************************************************************)
AtRest == {"idle"} \cup LiveTestPc \cup RotatePc
Activating == EnsurePc \cup {"activateRoute", "recordHook"}
Unsettling == EnsurePc \cup {"activateRoute", "activationFailed", "pauseStatus", "archiveStatus"}

RoutedIfPublished(f) == flowStatus[f] = "published" => routes[f][activeVersion[f]] = "active"

Crowded == \A o \in crowded : o \in Requests /\ pc[o] \notin AtRest /\ rFlow[o] \in flowSuspect

Alone ==
    \A o, p \in Requests :
        pc[o] \notin AtRest /\ pc[p] \notin AtRest /\ rFlow[o] = rFlow[p] /\ o # p => o \in crowded

HoldsActive ==
    \A o \in Requests \ crowded :
        /\ pc[o] \in Activating => rVersion[o] # 0 /\ rVersion[o] = activeVersion[rFlow[o]]
        /\ pc[o] = "recordHook" => routes[rFlow[o]][activeVersion[rFlow[o]]] = "active"

Calm ==
    \A f \in Flows \ flowSuspect :
        (\A o \in InFlight(f) : pc[o] \notin Unsettling) => RoutedIfPublished(f)

RoutedInv == Crowded /\ Alone /\ HoldsActive /\ Calm

LEMMA Labels ==
  /\ Activating \cap AtRest = {} /\ Unsettling \cap AtRest = {}
  /\ EnsurePc \subseteq Activating /\ EnsurePc \subseteq Unsettling
  /\ "createFlow" \notin AtRest /\ "idle" \in AtRest /\ "recordHook" \in Activating
  BY DEF Activating, AtRest, Unsettling, EnsurePc, LiveTestPc, RotatePc

LEMMA InFlightMeans == \A f : InFlight(f) = {o \in Requests : pc[o] \notin AtRest /\ rFlow[o] = f}
  BY DEF InFlight, AtRest

LEMMA RoutedInit == Init => RoutedInv
  BY DEF Init, HookInit, FlowInit, RoutedInv, Crowded, Alone, HoldsActive, Calm, AtRest, Activating,
         EnsurePc, RoutedIfPublished

\* While its Flow is not suspected, a request that has unsettled nothing finds it routed.
LEMMA AloneIsCalm ==
  ASSUME FlowShape, RoutedInv, NEW o \in Requests, pc[o] \notin AtRest, pc[o] \notin Unsettling,
         rFlow[o] \notin flowSuspect
  PROVE  RoutedIfPublished(rFlow[o])
  <1>1. o \notin crowded
      BY DEF RoutedInv, Crowded
  <1>2. \A p \in InFlight(rFlow[o]) : p = o
      BY <1>1, InFlightMeans, Zenon DEF RoutedInv, Alone
  <1>3. rFlow[o] \in Flows
      BY DEF FlowShape, LocalsShape
  <1>4. QED
      BY <1>2, <1>3 DEF RoutedInv, Calm

\* What a request of Flow f leaves alone.
Elsewhere(f) ==
    \A g \in Flows \ {f} :
        /\ flowStatus'[g] = flowStatus[g]
        /\ activeVersion'[g] = activeVersion[g]
        /\ routes'[g] = routes[g]
        /\ g \in flowSuspect' <=> g \in flowSuspect

\* A request goes on to label l ...
LEMMA WorksOn ==
  ASSUME FlowShape, RoutedInv, NEW o \in Requests, pc[o] \notin AtRest,
         NEW l, l \notin AtRest, pc' = [pc EXCEPT ![o] = l],
         UNCHANGED <<rFlow, flowHistory>>, Elsewhere(rFlow[o]),
         \A p \in Requests \ {o} : rVersion'[p] = rVersion[p],
         o \notin crowded => /\ l \in Activating => rVersion'[o] # 0 /\ rVersion'[o] = activeVersion'[rFlow[o]]
                             /\ l = "recordHook" => routes'[rFlow[o]][activeVersion'[rFlow[o]]] = "active",
         rFlow[o] \notin flowSuspect /\ l \notin Unsettling => RoutedIfPublished(rFlow[o])'
  PROVE  RoutedInv'
  <1> USE DEF FlowShape, LocalsShape, flowHistory
  <1>1. pc'[o] = l /\ \A p \in Requests \ {o} : pc'[p] = pc[p]
      OBVIOUS
  <1>2. Crowded'
      BY <1>1 DEF RoutedInv, Crowded
  <1>3. Alone'
      BY <1>1 DEF RoutedInv, Alone
  <1>4. HoldsActive'
    <2> SUFFICES ASSUME NEW p \in Requests, p \notin crowded, pc'[p] \in Activating
                 PROVE  /\ rVersion'[p] # 0 /\ rVersion'[p] = activeVersion'[rFlow[p]]
                        /\ pc'[p] = "recordHook" => routes'[rFlow[p]][activeVersion'[rFlow[p]]] = "active"
        BY Labels DEF HoldsActive
    <2>1. CASE p = o
        BY <1>1, <2>1
    <2>2. CASE p # o
      <3>1. pc[p] \in Activating /\ pc[p] \notin AtRest
          BY <1>1, <2>2, Labels
      <3>2. rFlow[p] # rFlow[o] /\ rFlow[p] \in Flows
          BY <2>2, <3>1 DEF RoutedInv, Alone
      <3>3. QED
          BY <1>1, <2>2, <3>1, <3>2 DEF RoutedInv, HoldsActive, Elsewhere
    <2>3. QED
        BY <2>1, <2>2
  <1>5. Calm'
    <2> SUFFICES ASSUME NEW f \in Flows, f \notin flowSuspect, \A p \in InFlight(f)' : pc'[p] \notin Unsettling
                 PROVE  RoutedIfPublished(f)'
        BY DEF Calm
    <2>1. \A p : p \in InFlight(f)' <=> p \in Requests /\ pc'[p] \notin AtRest /\ rFlow[p] = f
        BY DEF InFlight, AtRest
    <2>2. CASE f = rFlow[o]
        BY <1>1, <2>1, <2>2
    <2>3. CASE f # rFlow[o]
      <3>1. \A p \in InFlight(f) : pc[p] \notin Unsettling
          BY <1>1, <2>1, <2>3, InFlightMeans
      <3>2. RoutedIfPublished(f)
          BY <3>1 DEF RoutedInv, Calm
      <3>3. QED
          BY <2>3, <3>2 DEF RoutedIfPublished, Elsewhere
    <2>4. QED
        BY <2>2, <2>3
  <1>6. QED
      BY <1>2, <1>3, <1>4, <1>5 DEF RoutedInv

\* ... or is answered.
LEMMA Answers ==
  ASSUME FlowShape, RoutedInv, NEW o \in Requests, pc[o] \notin AtRest, NEW r \in Flows, r = rFlow[o],
         Return(o), Elsewhere(r),
         o \in crowded => r \in flowSuspect',
         r \in flowSuspect' \/ RoutedIfPublished(r)'
  PROVE  RoutedInv'
  <1> USE DEF FlowShape, LocalsShape
  <1>1. /\ pc'[o] = "idle" /\ crowded' = crowded \ {o}
        /\ \A p \in Requests \ {o} : pc'[p] = pc[p] /\ rFlow'[p] = rFlow[p] /\ rVersion'[p] = rVersion[p]
      BY DEF Return, Goto
  <1>2. Crowded'
    <2> SUFFICES ASSUME NEW p \in crowded, p # o PROVE rFlow[p] \in flowSuspect'
        BY <1>1 DEF RoutedInv, Crowded
    <2>1. p \in Requests /\ pc[p] \notin AtRest /\ rFlow[p] \in flowSuspect /\ rFlow[p] \in Flows
        BY DEF RoutedInv, Crowded
    <2>2. CASE rFlow[p] = rFlow[o]
        BY <2>1, <2>2 DEF RoutedInv, Alone
    <2>3. CASE rFlow[p] # rFlow[o]
        BY <2>1, <2>3 DEF Elsewhere
    <2>4. QED
        BY <2>2, <2>3
  <1>3. Alone'
    <2>1. \A p \in Requests : pc'[p] \notin AtRest => p # o
        BY <1>1, Labels
    <2>2. QED
        BY <1>1, <2>1 DEF RoutedInv, Alone
  <1>4. HoldsActive'
    <2> SUFFICES ASSUME NEW p \in Requests, p \notin crowded', pc'[p] \in Activating
                 PROVE  /\ rVersion'[p] # 0 /\ rVersion'[p] = activeVersion'[rFlow'[p]]
                        /\ pc'[p] = "recordHook" => routes'[rFlow'[p]][activeVersion'[rFlow'[p]]] = "active"
        BY Labels DEF HoldsActive
    <2>1. p # o
        BY <1>1, Labels
    <2>2. pc[p] \in Activating /\ pc[p] \notin AtRest /\ p \notin crowded
        BY <1>1, <2>1, Labels
    <2>3. rFlow[p] # rFlow[o] /\ rFlow[p] \in Flows
        BY <2>1, <2>2 DEF RoutedInv, Alone
    <2>4. QED
        BY <1>1, <2>1, <2>2, <2>3 DEF RoutedInv, HoldsActive, Elsewhere
  <1>5. Calm'
    <2> SUFFICES ASSUME NEW f \in Flows, f \notin flowSuspect', \A p \in InFlight(f)' : pc'[p] \notin Unsettling
                 PROVE  RoutedIfPublished(f)'
        BY DEF Calm
    <2>1. \A p : p \in InFlight(f)' <=> p \in Requests /\ pc'[p] \notin AtRest /\ rFlow'[p] = f
        BY DEF InFlight, AtRest
    <2>2. CASE f = r
        BY <2>2 DEF RoutedIfPublished
    <2>3. CASE f # r
      <3>1. \A p \in InFlight(f) : pc[p] \notin Unsettling
          BY <1>1, <2>1, <2>3, InFlightMeans
      <3>2. RoutedIfPublished(f)
          BY <2>3, <3>1 DEF RoutedInv, Calm, Elsewhere
      <3>3. QED
          BY <2>3, <3>2 DEF RoutedIfPublished, Elsewhere
    <2>4. QED
        BY <2>2, <2>3
  <1>6. QED
      BY <1>2, <1>3, <1>4, <1>5 DEF RoutedInv
\* A request of Flow f begins ...
LEMMA Begins ==
  ASSUME FlowShape, RoutedInv, NEW o \in Requests, pc[o] = "idle", NEW f \in Flows, NEW l,
         l \notin AtRest, l \notin Activating, Enter(o, f, l),
         UNCHANGED <<flowStatus, activeVersion, routes>>,
         \A p \in Requests \ {o} : rVersion'[p] = rVersion[p]
  PROVE  RoutedInv'
  <1> USE DEF FlowShape, LocalsShape
  <1>1. /\ pc'[o] = l /\ rFlow'[o] = f
        /\ \A p \in Requests \ {o} : pc'[p] = pc[p] /\ rFlow'[p] = rFlow[p]
      BY DEF Enter
  <1>2. /\ pc[o] \in AtRest /\ o \notin crowded
        /\ \A p \in Requests : pc'[p] \notin AtRest => p = o \/ pc[p] \notin AtRest
      BY <1>1, Labels DEF RoutedInv, Crowded
  <1>3. \/ /\ InFlight(f) = {} /\ UNCHANGED <<crowded, flowSuspect>>
        \/ /\ InFlight(f) # {}
           /\ crowded' = crowded \cup InFlight(f) \cup {o}
           /\ flowSuspect' = flowSuspect \cup {f}
      BY DEF Enter, flowHistory
  <1>4. Crowded'
    <2>1. CASE InFlight(f) = {}
        BY <1>1, <1>2, <1>3, <2>1 DEF RoutedInv, Crowded
    <2>2. CASE InFlight(f) # {}
      <3>1. \A p \in InFlight(f) : p \in Requests /\ p # o /\ pc[p] \notin AtRest /\ rFlow[p] = f
          BY <1>2, InFlightMeans
      <3>2. QED
          BY <1>1, <1>2, <1>3, <2>2, <3>1 DEF RoutedInv, Crowded
    <2>3. QED
        BY <2>1, <2>2
  <1>5. Alone'
    <2> SUFFICES ASSUME NEW p \in Requests, NEW q \in Requests, pc'[p] \notin AtRest, pc'[q] \notin AtRest,
                        rFlow'[p] = rFlow'[q], p # q
                 PROVE  p \in crowded'
        BY DEF Alone
    <2>1. CASE p # o /\ q # o
        BY <1>1, <1>3, <2>1 DEF RoutedInv, Alone
    <2>2. CASE p = o
      <3>1. q \in InFlight(f)
          BY <1>1, <2>2, InFlightMeans
      <3>2. QED
          BY <1>3, <2>2, <3>1
    <2>3. CASE q = o
      <3>1. p \in InFlight(f)
          BY <1>1, <2>3, InFlightMeans
      <3>2. QED
          BY <1>3, <3>1
    <2>4. QED
        BY <2>1, <2>2, <2>3
  <1>6. HoldsActive'
      BY <1>1, <1>3, Labels DEF RoutedInv, HoldsActive
  <1>7. Calm'
    <2> SUFFICES ASSUME NEW g \in Flows, g \notin flowSuspect', \A p \in InFlight(g)' : pc'[p] \notin Unsettling
                 PROVE  RoutedIfPublished(g)'
        BY DEF Calm
    <2>1. \A p : p \in InFlight(g)' <=> p \in Requests /\ pc'[p] \notin AtRest /\ rFlow'[p] = g
        BY DEF InFlight, AtRest
    <2>2. \A p \in InFlight(g) : p # o /\ p \in InFlight(g)'
        BY <1>1, <1>2, <2>1, InFlightMeans
    <2>3. \A p \in InFlight(g) : pc[p] \notin Unsettling
        BY <1>1, <2>2, InFlightMeans
    <2>4. RoutedIfPublished(g)
        BY <1>3, <2>3 DEF RoutedInv, Calm
    <2>5. QED
        BY <2>4 DEF RoutedIfPublished
  <1>8. QED
      BY <1>4, <1>5, <1>6, <1>7 DEF RoutedInv

\* ... and a rotation or a live test is no request of a Flow.
LEMMA RestsOn ==
  ASSUME FlowShape, RoutedInv, NEW o \in Requests, pc[o] \in AtRest, NEW l \in AtRest, pc' = [pc EXCEPT ![o] = l],
         UNCHANGED <<flowStatus, activeVersion, routes, flowSuspect>>, crowded' \in {crowded, crowded \ {o}},
         \A p \in Requests \ {o} : rFlow'[p] = rFlow[p] /\ rVersion'[p] = rVersion[p]
  PROVE  RoutedInv'
  <1> USE DEF FlowShape, LocalsShape
  <1>1. /\ pc'[o] = l /\ o \notin crowded /\ crowded' = crowded
        /\ \A p \in Requests \ {o} : pc'[p] = pc[p]
      BY DEF RoutedInv, Crowded
  <1>2. \A p \in Requests : pc'[p] \notin AtRest => p # o /\ pc[p] \notin AtRest
      BY <1>1
  <1>3. Crowded'
      BY <1>1 DEF RoutedInv, Crowded
  <1>4. Alone'
      BY <1>1, <1>2 DEF RoutedInv, Alone
  <1>5. HoldsActive'
    <2>1. \A p \in Requests : pc'[p] \in Activating => p # o
        BY <1>2, Labels
    <2>2. QED
        BY <1>1, <2>1, Labels DEF RoutedInv, HoldsActive
  <1>6. Calm'
    <2> SUFFICES ASSUME NEW g \in Flows, g \notin flowSuspect, \A p \in InFlight(g)' : pc'[p] \notin Unsettling
                 PROVE  RoutedIfPublished(g)'
        BY DEF Calm
    <2>1. \A p : p \in InFlight(g)' <=> p \in Requests /\ pc'[p] \notin AtRest /\ rFlow'[p] = g
        BY DEF InFlight, AtRest
    <2>2. \A p \in InFlight(g) : p # o /\ p \in InFlight(g)'
        BY <1>1, <2>1, InFlightMeans
    <2>3. \A p \in InFlight(g) : pc[p] \notin Unsettling
        BY <1>1, <2>2, InFlightMeans
    <2>4. RoutedIfPublished(g)
        BY <2>3 DEF RoutedInv, Calm
    <2>5. QED
        BY <2>4 DEF RoutedIfPublished
  <1>7. QED
      BY <1>3, <1>4, <1>5, <1>6 DEF RoutedInv

LEMMA NothingMoves ==
  RoutedInv /\ UNCHANGED <<pc, flowStatus, activeVersion, routes, rFlow, rVersion, flowHistory>> => RoutedInv'
  BY DEF RoutedInv, Crowded, Alone, HoldsActive, Calm, InFlight, RoutedIfPublished, flowHistory
\* The reconciliation of a publication leads to its route, or to its failure; a rotation to rest.
LEMMA HookStepStays ==
  ASSUME NEW o \in Requests, HookStep(o)
  PROVE  \/ /\ pc[o] \in EnsurePc
            /\ \E l \in EnsurePc \cup {"activateRoute", "activationFailed"} : pc' = [pc EXCEPT ![o] = l]
         \/ /\ pc[o] \in {"idle"} \cup RotatePc
            /\ \E l \in {"idle"} \cup RotatePc : pc' = [pc EXCEPT ![o] = l]
  <1> USE DEF HookGotoWith, HookGoto, HookReturn, Goto, EnsurePc, RotatePc
  <1>1. CASE GetHook(o)
      BY <1>1 DEF GetHook
  <1>2. CASE PutSecret(o)
      BY <1>2 DEF PutSecret
  <1>3. CASE EnsureProvider(o)
      BY <1>3 DEF EnsureProvider, ProviderHook
  <1>4. CASE UpsertHook(o)
      BY <1>4 DEF UpsertHook
  <1>5. CASE UpsertHookFails(o)
      BY <1>5 DEF UpsertHookFails
  <1>6. CASE Rotate(o)
      BY <1>6 DEF Rotate, EnterHook
  <1>7. CASE PutRotated(o)
      BY <1>7 DEF PutRotated
  <1>8. CASE RotateProvider(o)
      BY <1>8 DEF RotateProvider, ProviderHook
  <1>9. CASE RotateHookFails(o)
      BY <1>9 DEF RotateHookFails
  <1>10. CASE Rollback(o)
      BY <1>10 DEF Rollback
  <1>11. CASE RollbackFails(o)
      BY <1>11 DEF RollbackFails
  <1>12. QED
      BY <1>1, <1>2, <1>3, <1>4, <1>5, <1>6, <1>7, <1>8, <1>9, <1>10, <1>11 DEF HookStep

\* Where the labels of a request are.
LEMMA LabelsOfRequests ==
  /\ \A l \in {"createFlow", "createDraft", "getDraft", "nextVersion", "saveVersion", "activateRoute", "recordHook",
               "activationFailed", "pauseCheck", "pauseRoute", "pauseStatus", "archiveRoute", "archiveStatus"} :
         l \notin AtRest
  /\ \A l \in {"createFlow", "createDraft", "getDraft", "nextVersion", "saveVersion", "activationFailed",
               "pauseCheck", "pauseRoute", "pauseStatus", "archiveRoute", "archiveStatus"} : l \notin Activating
  /\ \A l \in {"createFlow", "createDraft", "getDraft", "nextVersion", "saveVersion", "recordHook", "pauseCheck",
               "pauseRoute", "archiveRoute"} : l \notin Unsettling
  /\ \A l \in {"activateRoute", "activationFailed", "pauseStatus", "archiveStatus"} : l \in Unsettling
  /\ "createFlow" \notin EnsurePc /\ "recordHook" \notin EnsurePc /\ "getHook" \in EnsurePc
  /\ {"liveVersion", "liveAccept"} \subseteq AtRest
  BY DEF AtRest, Activating, Unsettling, EnsurePc, LiveTestPc, RotatePc

\* A request keeps or answers a Flow whose rows it leaves alone.
LEMMA GoesOnIdly ==
  ASSUME FlowShape, RoutedInv, NEW o \in Requests, pc[o] \notin AtRest, pc[o] \notin Unsettling,
         NEW l, l \notin AtRest, l \notin Activating, pc' = [pc EXCEPT ![o] = l],
         UNCHANGED <<rFlow, flowHistory, flowStatus, activeVersion, routes>>,
         \A p \in Requests \ {o} : rVersion'[p] = rVersion[p]
  PROVE  RoutedInv'
  <1>1. Elsewhere(rFlow[o])
      BY DEF Elsewhere, flowHistory
  <1>2. rFlow[o] \notin flowSuspect => RoutedIfPublished(rFlow[o])'
      BY AloneIsCalm DEF RoutedIfPublished
  <1>3. l # "recordHook"
      BY Labels
  <1>4. QED
      BY <1>1, <1>2, <1>3, WorksOn

LEMMA AnswersIdly ==
  ASSUME FlowShape, RoutedInv, NEW o \in Requests, pc[o] \notin AtRest, pc[o] \notin Unsettling, Return(o),
         UNCHANGED <<flowSuspect, flowStatus, activeVersion, routes>>
  PROVE  RoutedInv'
  <1>1. PICK r \in Flows : r = rFlow[o]
      BY DEF FlowShape, LocalsShape
  <1>2. Elsewhere(r)
      BY DEF Elsewhere
  <1>3. o \in crowded => r \in flowSuspect'
      BY <1>1 DEF RoutedInv, Crowded
  <1>4. r \notin flowSuspect => RoutedIfPublished(r)
      BY <1>1, AloneIsCalm
  <1>5. r \in flowSuspect' \/ RoutedIfPublished(r)'
      BY <1>4 DEF RoutedIfPublished
  <1>6. QED
      BY <1>1, <1>2, <1>3, <1>5, Answers
\* The row of a new version is active.
LEMMA SaveKeepsRouted ==
  FlowShape /\ VersionInv /\ RoutedInv => \A o \in Requests : SaveFlowVersion(o) => RoutedInv'
  <1> SUFFICES ASSUME FlowShape, VersionInv, RoutedInv, NEW o \in Requests, SaveFlowVersion(o) PROVE RoutedInv'
      OBVIOUS
  <1> DEFINE f == rFlow[o]
  <1>1. pc[o] = "saveVersion" /\ pc[o] \notin AtRest /\ pc[o] \notin Unsettling /\ routes' = routes
      BY LabelsOfRequests DEF SaveFlowVersion
  <1>2. f \in Flows /\ rVersion[o] \in Versions /\ Numbered(f)
      BY <1>1, FlowConstants DEF FlowShape, LocalsShape, RowsShape, VersionInv, MayBeSaved, Versions
  <1>3. ASSUME FlowGoto(o, "getHook"), Elsewhere(f), activeVersion'[f] = rVersion[o] PROVE RoutedInv'
    <2>0. rVersion[o] # 0
        BY <1>2, FlowConstants DEF Versions
    <2>1. pc' = [pc EXCEPT ![o] = "getHook"] /\ UNCHANGED <<rFlow, rVersion, flowHistory>>
        BY <1>3 DEF FlowGoto, Goto, requestVars
    <2>2. "getHook" \notin AtRest /\ "getHook" \in Unsettling
        BY LabelsOfRequests, Labels
    <2>3. QED
        BY <1>1, <1>3, <2>0, <2>1, <2>2, WorksOn
  <1>4. CASE SaveOutcome(f, rVersion[o], rGraph[o]) = "insert"
             /\ InsertVersion(f, rVersion[o], rGraph[o]) /\ FlowGoto(o, "getHook")
    <2>1. UNCHANGED flowHistory /\ Elsewhere(f)
        BY <1>1, <1>2, <1>4 DEF FlowGoto, InsertVersion, Elsewhere, flowHistory, FlowShape, RowsShape
    <2>2. activeVersion'[f] = rVersion[o]
        BY <1>2, <1>4 DEF InsertVersion, FlowShape, RowsShape
    <2>3. QED
        BY <1>3, <1>4, <2>1, <2>2
  <1>5. CASE SaveOutcome(f, rVersion[o], rGraph[o]) = "idempotent" /\ FlowGoto(o, "getHook")
             /\ UNCHANGED <<flowStatus, activeVersion, versionStatus, graph>>
    <2>1. versionStatus[f][rVersion[o]] = "published"
        BY <1>5 DEF SaveOutcome
    <2>2. activeVersion[f] = rVersion[o]
        BY <1>2, <2>1 DEF Numbered
    <2>3. Elsewhere(f)
        BY <1>1, <1>5 DEF FlowGoto, Elsewhere, flowHistory
    <2>4. QED
        BY <1>3, <1>5, <2>2, <2>3
  <1>6. CASE Return(o) /\ UNCHANGED <<flowStatus, activeVersion, versionStatus, graph, flowSuspect>>
      BY <1>1, <1>6, AnswersIdly
  <1>7. QED
      BY <1>4, <1>5, <1>6 DEF SaveFlowVersion

\* The route is that of the active version, and the activation settles its Flow.
LEMMA ActivateKeepsRouted ==
  FlowShape /\ VersionInv /\ RoutedInv =>
      \A o \in Requests : ActivateRoute(o) \/ RecordHook(o) \/ PauseAfterFailure(o) => RoutedInv'
  <1> SUFFICES ASSUME FlowShape, VersionInv, RoutedInv, NEW o \in Requests,
                      ActivateRoute(o) \/ RecordHook(o) \/ PauseAfterFailure(o)
               PROVE  RoutedInv'
      OBVIOUS
  <1>1. PICK f \in Flows : f = rFlow[o]
      BY DEF FlowShape, LocalsShape
  <1>2. o \in crowded => f \in flowSuspect
      BY <1>1 DEF RoutedInv, Crowded
  <1>3. CASE ActivateRoute(o)
    <2>1. pc[o] = "activateRoute" /\ pc[o] \notin AtRest /\ pc[o] \in Activating
        BY <1>3, LabelsOfRequests DEF ActivateRoute, Activating
    <2>2. UNCHANGED <<flowStatus, activeVersion, rFlow, rVersion, flowHistory>>
        BY <1>3 DEF ActivateRoute, FlowGoto, requestVars
    <2>3. CASE ActivateHookRoute(f, rVersion[o]) /\ FlowGoto(o, "recordHook")
      <3>1. Elsewhere(f)
          BY <1>1, <2>2, <2>3 DEF ActivateHookRoute, Elsewhere, FlowShape, RowsShape, flowHistory
      <3>2. o \notin crowded => rVersion[o] # 0 /\ rVersion[o] = activeVersion[f]
          BY <1>1, <2>1 DEF RoutedInv, HoldsActive
      <3>3. rVersion[o] \in Versions => routes'[f][rVersion[o]] = "active"
          BY <2>3 DEF ActivateHookRoute, FlowShape, RowsShape
      <3>4. o \notin crowded => routes'[f][activeVersion[f]] = "active"
          BY <3>2, <3>3, FlowConstants DEF FlowShape, LocalsShape, Versions
      <3>5. QED
          BY <1>1, <1>2, <2>1, <2>2, <2>3, <3>1, <3>2, <3>4, WorksOn, LabelsOfRequests
          DEF FlowGoto, Goto, RoutedIfPublished
    <2>4. CASE routes' = routes /\ FlowGoto(o, "activationFailed")
      <3>1. Elsewhere(f)
          BY <2>2, <2>4 DEF Elsewhere, flowHistory
      <3>2. QED
          BY <1>1, <2>1, <2>2, <2>4, <3>1, WorksOn, LabelsOfRequests DEF FlowGoto, Goto
    <2>5. QED
        BY <1>1, <1>3, <2>3, <2>4 DEF ActivateRoute
  <1>4. CASE RecordHook(o)
    <2>1. pc[o] = "recordHook" /\ pc[o] \notin AtRest /\ UNCHANGED <<flowStatus, activeVersion, routes>>
        BY <1>4, LabelsOfRequests DEF RecordHook, flowRows
    <2>2. CASE Return(o) /\ flowSuspect' = IF o \in crowded THEN flowSuspect ELSE flowSuspect \ {f}
      <3>1. Elsewhere(f)
          BY <2>1, <2>2 DEF Elsewhere
      <3>2. o \notin crowded => routes[f][activeVersion[f]] = "active"
          BY <1>1, <2>1 DEF RoutedInv, HoldsActive
      <3>3. f \in flowSuspect' \/ RoutedIfPublished(f)'
          BY <1>2, <2>1, <2>2, <3>2 DEF RoutedIfPublished
      <3>4. QED
          BY <1>1, <1>2, <2>1, <2>2, <3>1, <3>3, Answers
    <2>3. CASE FlowGoto(o, "activationFailed")
      <3>1. Elsewhere(f) /\ UNCHANGED <<rFlow, rVersion, flowHistory>>
          BY <2>1, <2>3 DEF Elsewhere, FlowGoto, flowHistory, requestVars
      <3>2. QED
          BY <1>1, <2>1, <2>3, <3>1, WorksOn, LabelsOfRequests DEF FlowGoto, Goto
    <2>4. QED
        BY <1>1, <1>4, <2>2, <2>3 DEF RecordHook
  <1>5. CASE PauseAfterFailure(o)
    <2>1. pc[o] \notin AtRest /\ UNCHANGED <<activeVersion, routes>> /\ Return(o)
        BY <1>5, LabelsOfRequests DEF PauseAfterFailure
    <2>2. \/ UpdateFlowStatus(f, "paused") /\ UNCHANGED flowSuspect
          \/ flowSuspect' = flowSuspect \cup {f} /\ UNCHANGED flowStatus
        BY <1>1, <1>5 DEF PauseAfterFailure
    <2>3. Elsewhere(f)
        BY <2>1, <2>2 DEF Elsewhere, UpdateFlowStatus, FlowShape, RowsShape
    <2>4. f \in flowSuspect' \/ RoutedIfPublished(f)'
        BY <2>2 DEF UpdateFlowStatus, FlowShape, RowsShape, RoutedIfPublished
    <2>5. QED
        BY <1>1, <1>2, <2>1, <2>2, <2>3, <2>4, Answers
  <1>6. QED
      BY <1>3, <1>4, <1>5

LEMMA PauseKeepsRouted ==
  FlowShape /\ RoutedInv =>
      \A o \in Requests : PauseCheck(o) \/ PauseInputFlow(o) \/ SetFlowStatus(o) => RoutedInv'
  <1> SUFFICES ASSUME FlowShape, RoutedInv, NEW o \in Requests,
                      PauseCheck(o) \/ PauseInputFlow(o) \/ SetFlowStatus(o)
               PROVE  RoutedInv'
      OBVIOUS
  <1>1. PICK f \in Flows : f = rFlow[o]
      BY DEF FlowShape, LocalsShape
  <1>2. o \in crowded => f \in flowSuspect
      BY <1>1 DEF RoutedInv, Crowded
  <1>3. CASE PauseCheck(o)
    <2>1. pc[o] \notin AtRest /\ pc[o] \notin Unsettling /\ UNCHANGED <<flowStatus, activeVersion, routes>>
        BY <1>3, LabelsOfRequests DEF PauseCheck, flowRows
    <2>2. CASE Return(o) /\ UNCHANGED flowSuspect
        BY <2>1, <2>2, AnswersIdly
    <2>3. CASE Goto(o, "pauseRoute") /\ UNCHANGED <<rFlow, rGraph, flowHistory>>
               /\ \A p \in Requests \ {o} : rVersion'[p] = rVersion[p]
        BY <2>1, <2>3, GoesOnIdly, LabelsOfRequests DEF Goto
    <2>4. QED
        BY <1>3, <2>2, <2>3 DEF PauseCheck, FlowShape, LocalsShape
  <1>4. CASE PauseInputFlow(o)
    <2>1. pc[o] \notin AtRest /\ pc[o] \notin Unsettling /\ UNCHANGED <<flowStatus, activeVersion>>
        BY <1>4, LabelsOfRequests DEF PauseInputFlow
    <2>2. CASE Return(o) /\ UNCHANGED <<routes, flowSuspect>>
        BY <2>1, <2>2, AnswersIdly
    <2>3. ASSUME NEW l \in {"pauseStatus", "archiveStatus"}, FlowGoto(o, l), DisableHookRoutes(f, rVersion[o])
          PROVE  RoutedInv'
      <3>1. Elsewhere(f) /\ UNCHANGED <<rFlow, rVersion, flowHistory>>
          BY <2>1, <2>3 DEF Elsewhere, FlowGoto, flowHistory, requestVars, DisableHookRoutes, FlowShape, RowsShape
      <3>2. l \notin AtRest /\ l \notin Activating /\ l \in Unsettling /\ l # "recordHook"
          BY LabelsOfRequests
      <3>3. QED
          BY <1>1, <2>1, <2>3, <3>1, <3>2, WorksOn DEF FlowGoto, Goto
    <2>4. QED
        BY <1>1, <1>4, <2>2, <2>3 DEF PauseInputFlow
  <1>5. CASE SetFlowStatus(o)
    <2>1. pc[o] \notin AtRest /\ UNCHANGED <<activeVersion, routes>> /\ Return(o)
        BY <1>5, LabelsOfRequests DEF SetFlowStatus
    <2>2. \/ /\ flowStatus' = [flowStatus EXCEPT ![f] = "paused"] \/ flowStatus' = [flowStatus EXCEPT ![f] = "archived"]
             /\ UNCHANGED flowSuspect
          \/ flowSuspect' = flowSuspect \cup {f} /\ UNCHANGED flowStatus
        BY <1>1, <1>5 DEF SetFlowStatus, UpdateFlowStatus
    <2>3. Elsewhere(f)
        BY <2>1, <2>2 DEF Elsewhere, FlowShape, RowsShape
    <2>4. f \in flowSuspect' \/ RoutedIfPublished(f)'
        BY <2>2 DEF FlowShape, RowsShape, RoutedIfPublished
    <2>5. QED
        BY <1>1, <1>2, <2>1, <2>2, <2>3, <2>4, Answers
  <1>6. QED
      BY <1>3, <1>4, <1>5
\* The disable of the Connection puts every Flow it takes a route from under
\* suspicion, and crowds the publication that has just activated it.
LEMMA ConnectionKeepsRouted == FlowShape /\ VersionInv /\ RoutedInv /\ ConnectionStep => RoutedInv'
  <1> SUFFICES ASSUME FlowShape, VersionInv, RoutedInv, ConnectionStep PROVE RoutedInv'
      OBVIOUS
  <1>1. UNCHANGED <<pc, flowStatus, activeVersion, rFlow, rVersion>>
      BY DEF ConnectionStep, DisableConnection, UpdateConnectionStatus, connectionRest, requestVars
  <1>2. CASE UpdateConnectionStatus
      BY <1>1, <1>2, NothingMoves DEF UpdateConnectionStatus
  <1>3. CASE DisableConnection
    <2>1. /\ crowded' = crowded \cup {o \in Requests : pc[o] = "recordHook"}
          /\ flowSuspect' = flowSuspect \cup {f \in Flows : \E v \in Versions : routes[f][v] = "active"}
        BY <1>3 DEF DisableConnection
    <2>2. ASSUME NEW f \in Flows, RoutedIfPublished(f), f \notin flowSuspect' PROVE RoutedIfPublished(f)'
      <3>1. \A v \in Versions : routes[f][v] # "active"
          BY <2>1, <2>2
      <3>2. flowStatus[f] = "published" => activeVersion[f] \in Versions
          BY FlowConstants DEF VersionInv, Numbered, FlowShape, RowsShape, Versions
      <3>3. flowStatus[f] # "published"
          BY <2>2, <3>1, <3>2 DEF RoutedIfPublished
      <3>4. QED
          BY <1>1, <3>3 DEF RoutedIfPublished
    <2>3. ASSUME NEW o \in Requests, pc[o] = "recordHook" PROVE rFlow[o] \in flowSuspect'
      <3>1. CASE o \in crowded
          BY <2>1, <3>1 DEF RoutedInv, Crowded
      <3>2. CASE o \notin crowded
        <4>1. /\ rVersion[o] # 0 /\ rVersion[o] = activeVersion[rFlow[o]]
              /\ routes[rFlow[o]][activeVersion[rFlow[o]]] = "active"
            BY <2>3, <3>2, Labels DEF RoutedInv, HoldsActive
        <4>2. rVersion[o] \in Versions /\ rFlow[o] \in Flows
            BY <4>1, FlowConstants DEF FlowShape, LocalsShape, Versions
        <4>3. QED
            BY <2>1, <4>1, <4>2
      <3>3. QED
          BY <3>1, <3>2
    <2>4. Crowded'
        BY <1>1, <2>1, <2>3, LabelsOfRequests DEF RoutedInv, Crowded
    <2>5. Alone'
        BY <1>1, <2>1 DEF RoutedInv, Alone
    <2>6. HoldsActive'
        BY <1>1, <2>1 DEF RoutedInv, HoldsActive
    <2>7. Calm'
        BY <1>1, <2>1, <2>2 DEF RoutedInv, Calm, InFlight
    <2>8. QED
        BY <2>4, <2>5, <2>6, <2>7 DEF RoutedInv
  <1>4. QED
      BY <1>2, <1>3 DEF ConnectionStep

LEMMA RoutedStep == FlowShape /\ VersionInv /\ RoutedInv /\ [Next]_vars => RoutedInv'
  <1> SUFFICES ASSUME FlowShape, VersionInv, RoutedInv, [Next]_vars PROVE RoutedInv'
      OBVIOUS
  <1>1. ASSUME NEW o \in Requests, EnsureAbandonFlow(o) PROVE RoutedInv'
    <2>1. PICK f \in Flows, l \in {"createFlow", "getDraft"} : Enter(o, f, l)
        BY <1>1, ReservedAreFlows DEF EnsureAbandonFlow, Installed
    <2>2. QED
        BY <1>1, <2>1, Begins, LabelsOfRequests DEF EnsureAbandonFlow, flowRows
  <1>2. ASSUME NEW o \in Requests, CreateFlow(o) PROVE RoutedInv'
    <2>1. /\ rFlow[o] \in Flows /\ pc[o] \notin AtRest /\ pc[o] \notin Unsettling
          /\ UNCHANGED <<activeVersion, routes>>
        BY <1>2, LabelsOfRequests DEF CreateFlow, FlowShape, LocalsShape
    <2>2. CASE Return(o) /\ UNCHANGED <<flowStatus, flowSuspect>>
        BY <2>1, <2>2, AnswersIdly
    <2>3. CASE UpdateFlowStatus(rFlow[o], "draft") /\ FlowGoto(o, "createDraft")
      <3>1. Elsewhere(rFlow[o]) /\ UNCHANGED <<rFlow, rVersion, flowHistory>>
          BY <2>1, <2>3 DEF Elsewhere, FlowGoto, flowHistory, requestVars, UpdateFlowStatus, FlowShape, RowsShape
      <3>2. RoutedIfPublished(rFlow[o])'
          BY <2>1, <2>3, <3>1 DEF UpdateFlowStatus, FlowShape, RowsShape, RoutedIfPublished
      <3>3. QED
          BY <2>1, <2>3, <3>1, <3>2, WorksOn, LabelsOfRequests DEF FlowGoto, Goto
    <2>4. QED
        BY <1>2, <2>2, <2>3 DEF CreateFlow
  <1>3. ASSUME NEW o \in Requests, CreateDraft(o) PROVE RoutedInv'
    <2>1. /\ pc[o] \notin AtRest /\ pc[o] \notin Unsettling
          /\ UNCHANGED <<flowStatus, activeVersion, routes>>
        BY <1>3, LabelsOfRequests DEF CreateDraft
    <2>2. CASE Return(o) /\ UNCHANGED <<draft, flowSuspect>>
        BY <2>1, <2>2, AnswersIdly
    <2>3. CASE FlowGoto(o, "getDraft")
        BY <2>1, <2>3, GoesOnIdly, LabelsOfRequests DEF FlowGoto, Goto, requestVars
    <2>4. QED
        BY <1>3, <2>2, <2>3 DEF CreateDraft
  <1>4. ASSUME NEW o \in Requests, NEW f \in Flows, Publish(o, f) PROVE RoutedInv'
      BY <1>4, Begins, LabelsOfRequests DEF Publish, flowRows
  <1>5. ASSUME NEW o \in Requests, NEW f \in Flows, Pause(o, f) PROVE RoutedInv'
      BY <1>5, Begins, LabelsOfRequests DEF Pause, flowRows, FlowShape, LocalsShape
  <1>6. ASSUME NEW o \in Requests, NEW f \in Flows, Archive(o, f) PROVE RoutedInv'
    <2>1. PICK l \in {"archiveRoute", "archiveStatus"} : Enter(o, f, l)
        BY <1>6 DEF Archive
    <2>2. QED
        BY <1>6, <2>1, Begins, LabelsOfRequests DEF Archive, flowRows, FlowShape, LocalsShape
  <1>7. ASSUME NEW o \in Requests, GetFlowDraft(o) PROVE RoutedInv'
    <2>1. /\ pc[o] \notin AtRest /\ pc[o] \notin Unsettling
          /\ UNCHANGED <<flowStatus, activeVersion, routes>>
        BY <1>7, LabelsOfRequests DEF GetFlowDraft, flowRows
    <2>2. CASE Return(o) /\ UNCHANGED flowSuspect
        BY <2>1, <2>2, AnswersIdly
    <2>3. CASE Goto(o, "nextVersion") /\ UNCHANGED <<rFlow, rVersion, flowHistory>>
        BY <2>1, <2>3, GoesOnIdly, LabelsOfRequests DEF Goto
    <2>4. QED
        BY <1>7, <2>2, <2>3 DEF GetFlowDraft
  <1>8. ASSUME NEW o \in Requests, ReadNextVersion(o) PROVE RoutedInv'
    <2>1. /\ pc[o] \notin AtRest /\ pc[o] \notin Unsettling
          /\ UNCHANGED <<flowStatus, activeVersion, routes>>
        BY <1>8, LabelsOfRequests DEF ReadNextVersion, flowRows
    <2>2. QED
        BY <1>8, <2>1, GoesOnIdly, LabelsOfRequests DEF ReadNextVersion, Goto, FlowShape, LocalsShape
  <1>9. ASSUME NEW o \in Requests, SaveFlowVersion(o) PROVE RoutedInv'
      BY <1>9, SaveKeepsRouted
  <1>10. ASSUME NEW o \in Requests, HookStep(o), UNCHANGED flowVars PROVE RoutedInv'
    <2>1. UNCHANGED <<rFlow, rVersion, flowHistory, flowStatus, activeVersion, routes>>
        BY <1>10 DEF flowVars, flowRows, requestVars
    <2>2. ASSUME pc[o] \in EnsurePc, NEW l \in EnsurePc \cup {"activateRoute", "activationFailed"},
                 pc' = [pc EXCEPT ![o] = l]
          PROVE  RoutedInv'
      <3>1. /\ pc[o] \notin AtRest /\ pc[o] \in Activating
            /\ l \notin AtRest /\ l \in Unsettling /\ l # "recordHook"
          BY <2>2, Labels, LabelsOfRequests
      <3>2. Elsewhere(rFlow[o])
          BY <2>1 DEF Elsewhere, flowHistory
      <3>3. o \notin crowded => rVersion'[o] # 0 /\ rVersion'[o] = activeVersion'[rFlow[o]]
          BY <2>1, <3>1 DEF RoutedInv, HoldsActive
      <3>4. QED
          BY <2>1, <2>2, <3>1, <3>2, <3>3, WorksOn
    <2>3. ASSUME pc[o] \in {"idle"} \cup RotatePc, NEW l \in {"idle"} \cup RotatePc, pc' = [pc EXCEPT ![o] = l]
          PROVE  RoutedInv'
      <3>1. pc[o] \in AtRest /\ l \in AtRest
          BY <2>3 DEF AtRest
      <3>2. QED
          BY <2>1, <2>3, <3>1, RestsOn DEF flowHistory
    <2>4. QED
        BY <1>10, <2>2, <2>3, HookStepStays
  <1>11. ASSUME NEW o \in Requests, ActivateRoute(o) \/ RecordHook(o) \/ PauseAfterFailure(o) PROVE RoutedInv'
      BY <1>11, ActivateKeepsRouted
  <1>12. ASSUME NEW o \in Requests, PauseCheck(o) \/ PauseInputFlow(o) \/ SetFlowStatus(o) PROVE RoutedInv'
      BY <1>12, PauseKeepsRouted
  <1>13. ASSUME NEW o \in Requests, LiveTestStep(o) PROVE RoutedInv'
    <2>1. UNCHANGED <<flowStatus, activeVersion, routes>>
        BY <1>13 DEF LiveTestStep, flowRows
    <2>2. ASSUME NEW f \in TestedFlows, NEW pinned \in 0 .. MaxVersion, StartLiveTest(o, f, pinned) PROVE RoutedInv'
        BY <2>1, <2>2, RestsOn, Labels, LabelsOfRequests
        DEF StartLiveTest, Goto, flowHistory, FlowShape, LocalsShape
    <2>3. CASE CheckLiveVersion(o)
        BY <2>1, <2>3, RestsOn, Labels, LabelsOfRequests
        DEF CheckLiveVersion, FlowGoto, Return, Goto, flowHistory, requestVars, FlowShape, LocalsShape
    <2>4. CASE AcceptLiveTest(o)
        BY <2>1, <2>4, RestsOn, Labels, LabelsOfRequests
        DEF AcceptLiveTest, Return, Goto, FlowShape, LocalsShape
    <2>5. QED
        BY <1>13, <2>2, <2>3, <2>4 DEF LiveTestStep
  <1>14. ASSUME NEW f \in Flows, NEW g \in Drafts, SaveDraft(f, g) PROVE RoutedInv'
      BY <1>14, NothingMoves DEF SaveDraft, hookVars, requestVars
  <1>15. ASSUME NEW h \in Handlers, HandlerStep(h) PROVE RoutedInv'
      BY <1>15, NothingMoves DEF HandlerStep, flowVars, flowRows, requestVars
  <1>16. CASE Crash
    <2>1. /\ \A o \in Requests : pc'[o] = "idle"
          /\ flowSuspect' = flowSuspect \cup {f \in Flows : InFlight(f) # {}}
          /\ crowded' = {} /\ UNCHANGED <<flowStatus, activeVersion, routes>>
        BY <1>16 DEF Crash, FlowCrash, HookCrash, flowRows
    <2>2. Calm'
        BY <2>1 DEF RoutedInv, Calm, RoutedIfPublished
    <2>3. QED
        BY <2>1, <2>2, Labels DEF RoutedInv, Crowded, Alone, HoldsActive
  <1>17. CASE UNCHANGED vars
      BY <1>17, NothingMoves DEF vars, hookVars, flowVars, flowRows, requestVars
  <1>18. CASE ConnectionStep
      BY <1>18, ConnectionKeepsRouted
  <1>19. QED
      BY <1>1, <1>2, <1>3, <1>4, <1>5, <1>6, <1>7, <1>8, <1>9, <1>10, <1>11, <1>12, <1>13, <1>14, <1>15,
         <1>16, <1>17, <1>18
      DEF Next, RequestStep

(***************************************************************************)
(* A published Flow at rest, which no two requests have changed at the     *)
(* same time, no failure has cut short and no disable of its Connection    *)
(* has taken the route from, is routed at its active version.              *)
(***************************************************************************)
THEOREM PublishedFlowsAreRouted == Spec => []PublishedIsRouted
  <1>1. RoutedInv => PublishedIsRouted
    <2> SUFFICES ASSUME RoutedInv, NEW f \in Flows \ flowSuspect, InFlight(f) = {}, flowStatus[f] = "published"
                 PROVE  routes[f][activeVersion[f]] = "active"
        BY DEF PublishedIsRouted
    <2>1. RoutedIfPublished(f)
        BY DEF RoutedInv, Calm
    <2>2. QED
        BY <2>1 DEF RoutedIfPublished
  <1>2. PublicationInv /\ RoutedInv /\ [Next]_vars => RoutedInv'
      BY RoutedStep DEF PublicationInv
  <1>3. QED
      BY <1>1, <1>2, RoutedInit, PublicationInductive, PTL DEF Spec
=============================================================================
