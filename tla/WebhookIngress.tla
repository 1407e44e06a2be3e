--------------------------- MODULE WebhookIngress ---------------------------
(***************************************************************************)
(* Deliveries of GitLab, and live tests, beside the control plane:         *)
(* internal/runtime/ingress.go, internal/runtime/live_service.go,          *)
(* ListHookRoutesForProject and AcceptInboundEvent of                      *)
(* internal/store/runtime.go.                                              *)
(*                                                                         *)
(* A delivery is signed with the token GitLab holds when it sends it.  The *)
(* handler reads the routes, then the hook, then Flow and version of one   *)
(* route after the other, and accepts every action of the payload in a     *)
(* transaction of its own, while requests of FlowPublication go on.        *)
(* A delivery may be sent again at any time, also while it is handled.     *)
(***************************************************************************)
EXTENDS FlowPublication, DeliveryRules

CONSTANTS
    Handlers,         \* concurrently served webhook requests
    Changes, Heads,   \* what deliveries name
    Deliveries,       \* pushes and issue events GitLab may send
    BehaviorOf,       \* Flow -> the behaviour of its input connector
    TestedFlows       \* Flows a live test is asked for

ASSUME IngressConstants ==
    /\ Deliveries # {}
    /\ \A d \in Deliveries : d \in Push(d.id, Changes) \cup Issue(d.id, Changes, Heads)
    /\ BehaviorOf \in [Flows -> {"gitlab.push-hook", "gitlab.issue-hook", "gitlab.issue-abandon-hook"}]
    /\ TestedFlows \subseteq Flows

LiveTest == <<"live-test">>
Routes == Flows \X Versions
NoRoute == <<NoFlow, 1>>         \* outside the loop
NoDelivery == CHOOSE d \in Deliveries : TRUE

VARIABLES
    events,           \* inbound_events: unique id, and the action its payload is about
    executions,       \* flow_executions: idempotency key <<action, Flow, version>>, and event
    hPc, hDelivery, hToken,
    hListed,          \* routes ListHookRoutesForProject returned
    hTodo,            \* those the loop has not reached
    hRoute, hPayloads \* the route of the loop, and its payloads to accept

handlerVars == <<hPc, hDelivery, hToken, hListed, hTodo, hRoute, hPayloads>>
accepted == <<events, executions>>
ingressVars == <<accepted, handlerVars>>
vars == <<hookVars, flowVars, ingressVars>>

HandlerPc == {"idle", "list", "verify", "route", "version", "accept", "202"}

Init ==
    /\ HookInit
    /\ FlowInit
    /\ events = {}
    /\ executions = {}
    /\ hPc = [h \in Handlers |-> "idle"]
    /\ hDelivery = [h \in Handlers |-> NoDelivery]
    /\ hToken = [h \in Handlers |-> NoRef]
    /\ hListed = [h \in Handlers |-> {}]
    /\ hTodo = [h \in Handlers |-> {}]
    /\ hRoute = [h \in Handlers |-> NoRoute]
    /\ hPayloads = [h \in Handlers |-> {}]

ControlTypeOK ==
    /\ FlowTypeOK
    /\ \A x \in executions : x.key[2] \in Flows /\ x.key[3] \in Stored(x.key[2])
    /\ hPc \in [Handlers -> HandlerPc]
    /\ hDelivery \in [Handlers -> Deliveries]
    /\ hToken \in [Handlers -> Refs \cup {NoRef}]
    /\ hListed \in [Handlers -> SUBSET Routes]
    /\ hTodo \in [Handlers -> SUBSET Routes]
    /\ hRoute \in [Handlers -> Routes]
    /\ \A h \in Handlers : hPayloads[h] \subseteq eventPayloads(hDelivery[h])

-----------------------------------------------------------------------------
HandlerGoto(h, label) == hPc' = [hPc EXCEPT ![h] = label]

\* A delivery arrives, for the first time or again.
Deliver(h, d) ==
    /\ hPc[h] \in {"idle", "202"}
    /\ gitlabToken # NoRef
    /\ hDelivery' = [hDelivery EXCEPT ![h] = d]
    /\ hToken' = [hToken EXCEPT ![h] = gitlabToken]
    /\ hListed' = [hListed EXCEPT ![h] = {}]
    /\ HandlerGoto(h, "list")
    /\ UNCHANGED <<accepted, hTodo, hRoute, hPayloads>>

\* Answered with an error: the handler keeps nothing of the delivery.
Refuse(h) ==
    /\ HandlerGoto(h, "idle")
    /\ hDelivery' = [hDelivery EXCEPT ![h] = NoDelivery]
    /\ hToken' = [hToken EXCEPT ![h] = NoRef]
    /\ hListed' = [hListed EXCEPT ![h] = {}]
    /\ hTodo' = [hTodo EXCEPT ![h] = {}]
    /\ hRoute' = [hRoute EXCEPT ![h] = NoRoute]
    /\ hPayloads' = [hPayloads EXCEPT ![h] = {}]
    /\ UNCHANGED accepted

\* Any database error of the handler is answered with 503.
HandlerFails(h) ==
    /\ hPc[h] \notin {"idle", "202"}
    /\ Fault
    /\ Refuse(h)

\* Active routes of published versions of published Flows, of a Connection
\* that is not disabled.
ListHookRoutesForProject ==
    {r \in Routes : /\ connectionStatus # "disabled"
                    /\ routes[r[1]][r[2]] = "active"
                    /\ flowStatus[r[1]] = "published"
                    /\ versionStatus[r[1]][r[2]] = "published"}

\* Without a route the delivery is ignored.
ListRoutes(h) ==
    LET listed == ListHookRoutesForProject
    IN  /\ hPc[h] = "list"
        /\ hListed' = [hListed EXCEPT ![h] = listed]
        /\ HandlerGoto(h, IF listed = {} THEN "202" ELSE "verify")
        /\ UNCHANGED <<accepted, hDelivery, hToken, hTodo, hRoute, hPayloads>>

\* All routes of the project share one hook: its secret is resolved and
\* checked once, and a token that does not match is answered with 401.
VerifyRoutes(h) ==
    /\ hPc[h] = "verify"
    /\ \/ /\ hToken[h] = hookRef
          /\ hToken' = [hToken EXCEPT ![h] = NoRef]
          /\ hTodo' = [hTodo EXCEPT ![h] = hListed[h]]
          /\ HandlerGoto(h, "route")
          /\ UNCHANGED <<accepted, hDelivery, hListed, hRoute, hPayloads>>
       \/ /\ hToken[h] # hookRef
          /\ Refuse(h)

\* The next route: a behaviour that does not match, or a Flow that is no
\* longer published, is ignored.  Activation sets no event filter.
TakeRoute(h) ==
    /\ hPc[h] = "route"
    /\ \/ \E r \in hTodo[h] :
             /\ hTodo' = [hTodo EXCEPT ![h] = @ \ {r}]
             /\ IF matchesBehavior(hDelivery[h], BehaviorOf[r[1]]) /\ flowStatus[r[1]] = "published"
                THEN /\ hRoute' = [hRoute EXCEPT ![h] = r]
                     /\ HandlerGoto(h, "version")
                ELSE UNCHANGED <<hRoute, hPc>>
       \/ /\ hTodo[h] = {}
          /\ HandlerGoto(h, "202")
          /\ UNCHANGED <<hTodo, hRoute>>
    /\ UNCHANGED <<accepted, hDelivery, hToken, hListed, hPayloads>>

\* Back to the loop.
NextRoute(h) ==
    /\ HandlerGoto(h, "route")
    /\ hRoute' = [hRoute EXCEPT ![h] = NoRoute]
    /\ hPayloads' = [hPayloads EXCEPT ![h] = {}]

CheckVersion(h) ==
    LET r == hRoute[h]
    IN  /\ hPc[h] = "version"
        /\ \/ /\ versionStatus[r[1]][r[2]] = "published"
              /\ HandlerGoto(h, "accept")
              /\ hPayloads' = [hPayloads EXCEPT ![h] = eventPayloads(hDelivery[h])]
              /\ UNCHANGED hRoute
           \/ /\ versionStatus[r[1]][r[2]] # "published"
              /\ NextRoute(h)
        /\ UNCHANGED <<accepted, hDelivery, hToken, hListed, hTodo>>

\* AcceptInboundEvent: the event of a delivery id and the execution of an
\* idempotency key are inserted once, and the execution refers to the event.
AcceptInboundEvent(id, action, key) ==
    /\ events' = IF \E x \in events : x.id = id THEN events
                 ELSE events \cup {[id |-> id, action |-> action]}
    /\ executions' = IF \E x \in executions : x.key = key THEN executions
                     ELSE executions \cup {[key |-> key, event |-> id]}

\* The loop over the payloads, newest first.
Newest(h) == {p \in hPayloads[h] : \A q \in hPayloads[h] : q.at <= p.at}
Accept(h, p) ==
    LET e == hDelivery[h]
        f == hRoute[h][1]
    IN  AcceptInboundEvent(<<BehaviorOf[f], actionDeliveryID(e, p)>>, actionIdentity(e, p),
                           <<actionIdentity(e, p), f, hRoute[h][2]>>)

\* Mutant: only the first payload of a delivery is accepted.
AcceptFirstPayload(h) ==
    /\ hPc[h] = "accept"
    /\ \E p \in Newest(h) : Accept(h, p)
    /\ NextRoute(h)
    /\ UNCHANGED <<hDelivery, hToken, hListed, hTodo>>

AcceptPayload(h) ==
    /\ hPc[h] = "accept"
    /\ \/ \E p \in Newest(h) :
             /\ Accept(h, p)
             /\ hPayloads' = [hPayloads EXCEPT ![h] = @ \ {p}]
             /\ UNCHANGED <<hPc, hRoute>>
       \/ /\ hPayloads[h] = {}
          /\ NextRoute(h)
          /\ UNCHANGED accepted
    /\ UNCHANGED <<hDelivery, hToken, hListed, hTodo>>

HandlerStep(h) ==
    /\ \/ /\ \/ \E d \in Deliveries : Deliver(h, d)
             \/ ListRoutes(h)
             \/ VerifyRoutes(h)
             \/ TakeRoute(h)
             \/ CheckVersion(h)
             \/ AcceptPayload(h)
          /\ UNCHANGED faults
       \/ HandlerFails(h)
    /\ UNCHANGED <<hookRest, pc, entangled, flowVars>>

-----------------------------------------------------------------------------
(***************************************************************************)
(* LiveTestService.Start, one of the requests: it tests the active version *)
(* of a published Flow, or the one it pins.                                *)
(***************************************************************************)
StartLiveTest(o, f, pinned) ==
    /\ pc[o] = "idle"
    /\ flowStatus[f] = "published"
    /\ LET v == IF pinned > 0 THEN pinned ELSE activeVersion[f]
       IN  /\ v \in Stored(f)
           /\ rVersion' = [rVersion EXCEPT ![o] = v]
    /\ rFlow' = [rFlow EXCEPT ![o] = f]
    /\ Goto(o, "liveVersion")
    /\ UNCHANGED <<rGraph, flowHistory, accepted>>

CheckLiveVersion(o) ==
    /\ pc[o] = "liveVersion"
    /\ \/ /\ versionStatus[rFlow[o]][rVersion[o]] = "published"
          /\ FlowGoto(o, "liveAccept")
       \/ /\ versionStatus[rFlow[o]][rVersion[o]] # "published"
          /\ Return(o)
          /\ UNCHANGED flowSuspect
    /\ UNCHANGED accepted

\* A live test has an identity of its own; one row stands for all tests of a version.
AcceptLiveTest(o) ==
    /\ pc[o] = "liveAccept"
    /\ AcceptInboundEvent(<<BehaviorOf[rFlow[o]], LiveTest>>, LiveTest, <<LiveTest, rFlow[o], rVersion[o]>>)
    /\ Return(o)
    /\ UNCHANGED flowSuspect

LiveTestStep(o) ==
    /\ \/ \E f \in TestedFlows, pinned \in 0 .. MaxVersion : StartLiveTest(o, f, pinned)
       \/ CheckLiveVersion(o)
       \/ AcceptLiveTest(o)
    /\ UNCHANGED <<hookRest, faults, entangled, flowRows, handlerVars>>

-----------------------------------------------------------------------------
\* The process ends and is started again; nobody answers the deliveries it held.
Crash ==
    /\ FlowCrash
    /\ hPc' = [h \in Handlers |-> "idle"]
    /\ hDelivery' = [h \in Handlers |-> NoDelivery]
    /\ hToken' = [h \in Handlers |-> NoRef]
    /\ hListed' = [h \in Handlers |-> {}]
    /\ hTodo' = [h \in Handlers |-> {}]
    /\ hRoute' = [h \in Handlers |-> NoRoute]
    /\ hPayloads' = [h \in Handlers |-> {}]
    /\ UNCHANGED accepted

Next ==
    \/ \E o \in Requests : RequestStep(o) /\ UNCHANGED ingressVars
    \/ \E o \in Requests : LiveTestStep(o)
    \/ \E f \in Flows, g \in Drafts : SaveDraft(f, g) /\ UNCHANGED ingressVars
    \/ ConnectionStep /\ UNCHANGED ingressVars
    \/ \E h \in Handlers : HandlerStep(h)
    \/ Crash

Spec == Init /\ [][Next]_vars

-----------------------------------------------------------------------------
(***************************************************************************)
(* A delivery answered with 202 is complete: of the routes it was shown,   *)
(* every one whose Flow and version are published still has an execution   *)
(* for every action the delivery announces to it, whatever an earlier or   *)
(* concurrent attempt at the delivery left undone (accept in ingress.go    *)
(* returns the error of the first route that fails, and GitLab has to      *)
(* deliver again).                                                         *)
(***************************************************************************)
AcceptedCompletely ==
    \A h \in Handlers : hPc[h] = "202" =>
        \A r \in hListed[h] :
            /\ flowStatus[r[1]] = "published"
            /\ versionStatus[r[1]][r[2]] = "published"
            => \A a \in Announced(hDelivery[h], BehaviorOf[r[1]]) :
                   \E x \in executions : x.key = <<a, r[1], r[2]>>

(***************************************************************************)
(* An execution runs with the payload of its own action: the actions of    *)
(* one delivery share its id, and an event row that exists is taken as it  *)
(* is (AcceptInboundEvent, ON CONFLICT DO NOTHING).                        *)
(***************************************************************************)
ExecutionsCarryTheirAction ==
    \A x \in executions : \E y \in events : y.id = x.event /\ y.action = x.key[1]
=============================================================================
