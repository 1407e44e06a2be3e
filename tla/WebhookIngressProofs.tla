------------------------ MODULE WebhookIngressProofs ------------------------
(***************************************************************************)
(* Theorems about WebhookIngress, for every set of deliveries, handlers,   *)
(* Flows and requests, and every bound.                                    *)
(***************************************************************************)
EXTENDS FlowPublicationProofs

-----------------------------------------------------------------------------
(***************************************************************************)
(* What a delivery announces is what the loop over its payloads accepts.   *)
(***************************************************************************)
Behaviors == {"gitlab.push-hook", "gitlab.issue-hook", "gitlab.issue-abandon-hook"}

\* A non-empty set of positions has a last one.
LEMMA LastPosition ==
  ASSUME NEW n \in Nat, NEW T \in SUBSET (1 .. n), T # {}
  PROVE  \E i \in T : \A j \in T : j <= i
  <1> DEFINE R == OpToRel(<, Nat)
             D == {n - j : j \in T}
  <1>1. D \subseteq Nat /\ D # {}
    <2>1. \A j \in T : n - j \in Nat
        OBVIOUS
    <2>2. PICK j \in T : TRUE
        OBVIOUS
    <2>3. n - j \in D
        OBVIOUS
    <2>4. D \subseteq Nat
        BY <2>1
    <2>5. QED
        BY <2>3, <2>4
  <1>2. \E x \in D : \A y \in D : ~(<<y, x>> \in R)
      BY <1>1, NatLessThanWellFounded, WFMin
  <1>3. PICK x \in D : \A y \in D : ~(<<y, x>> \in R)
      BY <1>2
  <1>4. \A y \in D : ~(y < x)
      BY <1>1, <1>3 DEF OpToRel
  <1>5. PICK i \in T : x = n - i
      BY <1>3
  <1>6. ASSUME NEW j \in T PROVE j <= i
    <2>1. n - j \in D /\ j \in Nat /\ i \in Nat
        BY <1>6
    <2>2. ~(n - j < n - i)
        BY <1>4, <1>5, <2>1
    <2>3. QED
        BY <2>1, <2>2
  <1>7. QED
      BY <1>6

LEMMA DeliveryShape ==
  ASSUME NEW d \in Deliveries
  PROVE  /\ d.kind \in {"push", "issue"}
         /\ d.kind = "push" => d.messages \in Seq(Message(Changes))
  <1>1. d \in Push(d.id, Changes) \cup Issue(d.id, Changes, Heads)
      BY IngressConstants
  <1>2. CASE d \in Push(d.id, Changes)
      BY <1>2 DEF Push
  <1>3. CASE d \in Issue(d.id, Changes, Heads)
      BY <1>3 DEF Issue
  <1>4. QED
      BY <1>1, <1>2, <1>3

\* Of the trailers of one event and change the newest is taken.
LEMMA SomeTrailerIsTaken ==
  ASSUME NEW messages \in Seq(Message(Changes)), NEW j \in DOMAIN messages, IsLifecycleTrailer(messages[j])
  PROVE  \E i \in lifecycleTrailers(messages) :
             messages[i].event = messages[j].event /\ messages[i].change = messages[j].change
  <1> DEFINE Same(i) == /\ IsLifecycleTrailer(messages[i])
                        /\ messages[i].event = messages[j].event
                        /\ messages[i].change = messages[j].change
             T == {i \in 1 .. Len(messages) : Same(i)}
  <1>1. Len(messages) \in Nat /\ DOMAIN messages = 1 .. Len(messages)
      OBVIOUS
  <1>2. T \in SUBSET (1 .. Len(messages)) /\ j \in T
      BY <1>1
  <1>3. PICK i \in T : \A k \in T : k <= i
      BY <1>1, <1>2, LastPosition
  <1>4. ASSUME NEW k \in i + 1 .. Len(messages), Same(k) PROVE FALSE
    <2>1. k \in 1 .. Len(messages) /\ k > i
        BY <1>1, <1>2, <1>3, <1>4
    <2>2. k \in T
        BY <1>4, <2>1
    <2>3. QED
        BY <1>1, <1>3, <2>1, <2>2
  <1>5. i \in DOMAIN messages /\ Same(i)
      BY <1>1, <1>3
  <1>6. i \in lifecycleTrailers(messages)
    <2>1. ASSUME NEW k \in i + 1 .. Len(messages), IsLifecycleTrailer(messages[k]),
                 messages[k].event = messages[i].event, messages[k].change = messages[i].change
          PROVE  FALSE
        BY <1>4, <1>5, <2>1
    <2>2. QED
        BY <1>5, <2>1 DEF lifecycleTrailers
  <1>7. QED
      BY <1>5, <1>6

\* Every action that is announced is the action of a payload, and nothing is announced to a
\* behaviour that does not match.
LEMMA PayloadsCover ==
  ASSUME NEW d \in Deliveries, NEW b \in Behaviors, NEW a \in Announced(d, b)
  PROVE  /\ matchesBehavior(d, b)
         /\ \E p \in eventPayloads(d) : actionIdentity(d, p) = a
  <1>1. CASE b = "gitlab.push-hook"
    <2>1. d.kind = "push" /\ d.main /\ ~d.deletes
        BY <1>1 DEF Announced
    <2>2. PICK j \in DOMAIN d.messages :
              /\ IsLifecycleTrailer(d.messages[j]) /\ d.messages[j].event = "archived"
              /\ a = <<"lifecycle", "archived", d.messages[j].change>>
        BY <1>1, <2>1 DEF Announced
    <2>3. PICK i \in lifecycleTrailers(d.messages) :
              d.messages[i].event = "archived" /\ d.messages[i].change = d.messages[j].change
      <3>1. d.messages \in Seq(Message(Changes))
          BY <2>1, DeliveryShape
      <3>2. \E i \in lifecycleTrailers(d.messages) :
                d.messages[i].event = d.messages[j].event /\ d.messages[i].change = d.messages[j].change
          BY <2>2, <3>1, SomeTrailerIsTaken
      <3>3. QED
          BY <2>2, <3>2
    <2>4. i \in archivedLifecycleTrailers(d)
        BY <2>1, <2>3 DEF archivedLifecycleTrailers
    <2> DEFINE p == Payload(i, d.messages[i].change, "archived", None)
    <2>5. p \in eventPayloads(d)
        BY <2>1, <2>4 DEF eventPayloads
    <2>6. d.messages[i].change # None
        BY <2>2, <2>3 DEF IsLifecycleTrailer
    <2>7. actionIdentity(d, p) = a
        BY <2>2, <2>3, <2>6 DEF actionIdentity, Payload, None
    <2>8. matchesBehavior(d, b)
        BY <1>1, <2>1, <2>4 DEF matchesBehavior, matchesArchivePush
    <2>9. QED
        BY <2>5, <2>7, <2>8
  <1>2. CASE b = "gitlab.issue-hook"
    <2>1. /\ matchesPublicationIssue(d)
          /\ a = IF d.change = None THEN <<"delivery", d.id>> ELSE <<"publication", d.change, d.head>>
        BY <1>2 DEF Announced
    <2>2. d.kind = "issue" /\ ~matchesAbandonIssue(d) /\ matchesBehavior(d, b)
        BY <1>2, <2>1 DEF matchesPublicationIssue, matchesAbandonIssue, matchesBehavior
    <2> DEFINE p == Payload(1, d.change, None, d.head)
    <2>3. p \in eventPayloads(d)
        BY <2>2 DEF eventPayloads
    <2>4. actionIdentity(d, p) = a
        BY <2>1 DEF actionIdentity, Payload
    <2>5. QED
        BY <2>2, <2>3, <2>4
  <1>3. CASE b = "gitlab.issue-abandon-hook"
    <2>1. matchesAbandonIssue(d) /\ a = <<"lifecycle", "abandoned", d.change>>
        BY <1>3 DEF Announced
    <2>2. d.kind = "issue" /\ d.change # None /\ matchesBehavior(d, b)
        BY <1>3, <2>1 DEF matchesAbandonIssue, matchesBehavior
    <2> DEFINE p == Payload(1, d.change, "abandoned", d.head)
    <2>3. p \in eventPayloads(d)
        BY <2>1, <2>2 DEF eventPayloads
    <2>4. actionIdentity(d, p) = a
        BY <2>1, <2>2 DEF actionIdentity, Payload, None
    <2>5. QED
        BY <2>2, <2>3, <2>4
  <1>4. QED
      BY <1>1, <1>2, <1>3 DEF Behaviors

(***************************************************************************)
(* Ids.  GitLab names every delivery (webhook-id, X-Gitlab-Delivery), and  *)
(* no delivery is named like a live test.                                  *)
(***************************************************************************)
DistinctIds ==
    /\ \A d, e \in Deliveries : d.id = e.id => d = e
    /\ \A d \in Deliveries : <<d.id>> # LiveTest

\* Events that share an id are about one action.
LEMMA ActionOfEvent ==
  ASSUME DistinctIds, NEW d \in Deliveries, NEW e \in Deliveries,
         NEW p \in eventPayloads(d), NEW q \in eventPayloads(e),
         actionDeliveryID(d, p) = actionDeliveryID(e, q)
  PROVE  actionIdentity(d, p) = actionIdentity(e, q)
  <1>1. d.id = e.id
    <2>1. actionDeliveryID(d, p)[1] = d.id /\ actionDeliveryID(e, q)[1] = e.id
        BY DEF actionDeliveryID
    <2>2. QED
        BY <2>1
  <1>2. d = e
      BY <1>1 DEF DistinctIds
  <1>3. CASE d.kind = "push"
    <2>1. ASSUME NEW r \in eventPayloads(d) PROVE r.change # None /\ r.lifecycle = "archived"
      <3>1. PICK i \in archivedLifecycleTrailers(d) : r = Payload(i, d.messages[i].change, "archived", None)
          BY <1>3, <2>1 DEF eventPayloads
      <3>2. IsLifecycleTrailer(d.messages[i])
          BY <3>1 DEF archivedLifecycleTrailers, lifecycleTrailers
      <3>3. QED
          BY <3>1, <3>2 DEF IsLifecycleTrailer, Payload
    <2>2. p.change # None /\ p.lifecycle = "archived" /\ q.change # None /\ q.lifecycle = "archived"
        BY <1>2, <2>1
    <2>3. <<d.id, "archived", p.change>> = <<d.id, "archived", q.change>>
        BY <1>2, <2>2 DEF actionDeliveryID, None
    <2>4. p.change = q.change
        BY <2>3
    <2>5. QED
        BY <1>2, <2>2, <2>4 DEF actionIdentity, None
  <1>4. CASE d.kind # "push"
      BY <1>2, <1>4 DEF eventPayloads
  <1>5. QED
      BY <1>3, <1>4

LEMMA NoLiveDelivery ==
  ASSUME DistinctIds, NEW d \in Deliveries, NEW p \in eventPayloads(d)
  PROVE  actionDeliveryID(d, p) # LiveTest
  <1>1. CASE p.change # None /\ p.lifecycle # None
    <2>1. actionDeliveryID(d, p) = <<d.id, p.lifecycle, p.change>>
        BY <1>1 DEF actionDeliveryID
    <2>2. Len(actionDeliveryID(d, p)) = 3 /\ Len(LiveTest) = 1
        BY <2>1 DEF LiveTest
    <2>3. QED
        BY <2>2
  <1>2. CASE ~(p.change # None /\ p.lifecycle # None)
      BY <1>2 DEF actionDeliveryID, DistinctIds
  <1>3. QED
      BY <1>1, <1>2

-----------------------------------------------------------------------------
(***************************************************************************)
(* Deliveries.                                                             *)
(***************************************************************************)
Live(r) == flowStatus[r[1]] = "published" /\ versionStatus[r[1]][r[2]] = "published"

Executed(a, r) == \E x \in executions : x.key = <<a, r[1], r[2]>>

\* Nothing is missing at route r of the delivery of h.
Complete(h, r) == Live(r) => \A a \in Announced(hDelivery[h], BehaviorOf[r[1]]) : Executed(a, r)

\* Nothing is missing but what the payloads that are left stand for.
InProgress(h) ==
    Live(hRoute[h]) => \A a \in Announced(hDelivery[h], BehaviorOf[hRoute[h][1]]) :
        \/ Executed(a, hRoute[h])
        \/ \E p \in hPayloads[h] : actionIdentity(hDelivery[h], p) = a

InLoop == {"route", "version", "accept"}

HandlerTypes ==
    /\ hPc \in [Handlers -> HandlerPc]
    /\ hDelivery \in [Handlers -> Deliveries]
    /\ hListed \in [Handlers -> SUBSET Routes]
    /\ hTodo \in [Handlers -> SUBSET Routes]
    /\ hRoute \in [Handlers -> Routes]
    /\ DOMAIN hPayloads = Handlers
    /\ \A h \in Handlers : hPayloads[h] \subseteq eventPayloads(hDelivery[h])

HandlerOK(h) ==
    /\ \A r \in hListed[h] : versionStatus[r[1]][r[2]] # "absent"
    /\ hTodo[h] \subseteq hListed[h]
    /\ hPc[h] \notin InLoop => hTodo[h] = {}
    /\ hPc[h] # "accept" => hPayloads[h] = {}
    /\ hPc[h] \in {"version", "accept"} => hRoute[h] \in hListed[h]
    /\ hPc[h] \in InLoop \cup {"202"} =>
           \A r \in hListed[h] \ hTodo[h] :
               Complete(h, r) \/ (hPc[h] \in {"version", "accept"} /\ r = hRoute[h])
    /\ hPc[h] = "accept" => InProgress(h)

HandlerInv == HandlerTypes /\ \A h \in Handlers : HandlerOK(h)

\* Events are of deliveries or of live tests.
EventsTold ==
    \A y \in events :
        \/ y.action = LiveTest /\ y.id[2] = LiveTest
        \/ \E d \in Deliveries : \E p \in eventPayloads(d) :
               y.id[2] = actionDeliveryID(d, p) /\ y.action = actionIdentity(d, p)

\* A stored version stays stored, and what is not live does not become live again: a Flow is
\* only published with a version that is new.
Stays ==
    \A f \in Flows, v \in Versions : versionStatus[f][v] # "absent" =>
        /\ versionStatus'[f][v] # "absent"
        /\ flowStatus'[f] = "published" /\ versionStatus'[f][v] = "published"
               => flowStatus[f] = "published" /\ versionStatus[f][v] = "published"

LEMMA VersionsStay == FlowShape /\ [Next]_vars => Stays
  <1> SUFFICES ASSUME FlowShape, [Next]_vars PROVE Stays
      OBVIOUS
  <1>1. CASE Quiet
      BY <1>1 DEF Quiet, Stays
  <1>2. ASSUME NEW o \in Requests, ReadNextVersion(o) PROVE Stays
      BY <1>2 DEF ReadNextVersion, flowRows, Stays
  <1>3. ASSUME NEW o \in Requests, SaveFlowVersion(o) PROVE Stays
    <2> DEFINE f == rFlow[o]
               v == rVersion[o]
    <2>1. f \in Flows
        BY DEF FlowShape, LocalsShape
    <2>2. \/ UNCHANGED <<flowStatus, versionStatus>>
          \/ /\ SaveOutcome(f, v, rGraph[o]) = "insert"
             /\ InsertVersion(f, v, rGraph[o])
        BY <1>3 DEF SaveFlowVersion
    <2>3. CASE UNCHANGED <<flowStatus, versionStatus>>
        BY <2>3 DEF Stays
    <2>4. CASE SaveOutcome(f, v, rGraph[o]) = "insert" /\ InsertVersion(f, v, rGraph[o])
      <3>1. versionStatus[f][v] = "absent"
          BY <2>4 DEF SaveOutcome
      <3>2. /\ \A g \in Flows : g # f => versionStatus'[g] = versionStatus[g] /\ flowStatus'[g] = flowStatus[g]
            /\ \A w \in Versions : versionStatus'[f][w] = IF w = v THEN "published"
                   ELSE IF versionStatus[f][w] = "published" THEN "archived" ELSE versionStatus[f][w]
          BY <2>1, <2>4 DEF InsertVersion, FlowShape, RowsShape
      <3>3. ASSUME NEW g \in Flows, NEW w \in Versions, versionStatus[g][w] # "absent"
            PROVE  /\ versionStatus'[g][w] # "absent"
                   /\ flowStatus'[g] = "published" /\ versionStatus'[g][w] = "published"
                          => flowStatus[g] = "published" /\ versionStatus[g][w] = "published"
        <4>1. CASE g # f
            BY <3>2, <3>3, <4>1
        <4>2. CASE g = f
            BY <3>1, <3>2, <3>3, <4>2
        <4>3. QED
            BY <4>1, <4>2
      <3>4. QED
          BY <3>3 DEF Stays
    <2>5. QED
        BY <2>2, <2>3, <2>4
  <1>4. QED
      BY <1>1, <1>2, <1>3, VersionKinds

\* What is known of a route stays known.
LEMMA StaysLive ==
  ASSUME Stays, executions \subseteq executions', NEW r \in Routes, versionStatus[r[1]][r[2]] # "absent"
  PROVE  /\ versionStatus'[r[1]][r[2]] # "absent"
         /\ Live(r)' => Live(r)
         /\ \A a : Executed(a, r) => Executed(a, r)'
  <1>1. r[1] \in Flows /\ r[2] \in Versions
      BY DEF Routes
  <1>2. QED
      BY <1>1 DEF Stays, Live, Executed

\* A handler whose locals stay is not disturbed by the others.
LEMMA Undisturbed ==
  ASSUME HandlerTypes, Stays, executions \subseteq executions', NEW g \in Handlers, HandlerOK(g),
         hPc'[g] = hPc[g], hDelivery'[g] = hDelivery[g], hListed'[g] = hListed[g], hTodo'[g] = hTodo[g],
         hRoute'[g] = hRoute[g], hPayloads'[g] = hPayloads[g]
  PROVE  HandlerOK(g)'
  <1>1. \A r \in hListed[g] : r \in Routes /\ versionStatus[r[1]][r[2]] # "absent"
      BY DEF HandlerOK, HandlerTypes
  <1>2. ASSUME NEW r \in hListed[g], Complete(g, r) PROVE Complete(g, r)'
    <2>1. Live(r)' => Live(r) /\ \A a : Executed(a, r) => Executed(a, r)'
        BY <1>1, StaysLive
    <2>2. (\A a : Executed(a, r) => Executed(a, r)') \/ ~Live(r)'
        BY <1>1, StaysLive
    <2>3. QED
        BY <1>2, <2>1, <2>2 DEF Complete
  <1>3. hPc[g] = "accept" => InProgress(g)'
    <2>1. SUFFICES ASSUME hPc[g] = "accept" PROVE InProgress(g)'
        OBVIOUS
    <2>2. PICK r : r = hRoute[g]
        OBVIOUS
    <2>3. hRoute'[g] = r /\ r \in hListed[g] /\ InProgress(g)
        BY <2>1, <2>2 DEF HandlerOK
    <2>4. (Live(r)' => Live(r)) /\ \A a : Executed(a, r) => Executed(a, r)'
        BY <1>1, <2>3, StaysLive
    <2>5. QED
        BY <2>2, <2>3, <2>4 DEF InProgress, Live, Executed
  <1>4. \A r \in hListed'[g] : versionStatus'[r[1]][r[2]] # "absent"
      BY <1>1, StaysLive
  <1>5. QED
      BY <1>2, <1>3, <1>4 DEF HandlerOK

\* Rows are inserted, never changed or deleted.
LEMMA AcceptGrows ==
  ASSUME NEW id, NEW action, NEW key, AcceptInboundEvent(id, action, key)
  PROVE  /\ events \subseteq events' /\ executions \subseteq executions'
         /\ \E x \in executions' : x.key = key
         /\ \E y \in events' : y.id = id
         /\ \A x \in executions' : x \in executions \/ x = [key |-> key, event |-> id]
         /\ \A y \in events' : y \in events \/ y = [id |-> id, action |-> action]
  <1>1. /\ events \subseteq events' /\ \E y \in events' : y.id = id
        /\ \A y \in events' : y \in events \/ y = [id |-> id, action |-> action]
    <2>1. CASE \E y \in events : y.id = id
        BY <2>1 DEF AcceptInboundEvent
    <2>2. CASE ~\E y \in events : y.id = id
      <3>1. events' = events \cup {[id |-> id, action |-> action]}
          BY <2>2 DEF AcceptInboundEvent
      <3>2. [id |-> id, action |-> action] \in events' /\ [id |-> id, action |-> action].id = id
          BY <3>1
      <3>3. QED
          BY <3>1, <3>2
    <2>3. QED
        BY <2>1, <2>2
  <1>2. /\ executions \subseteq executions' /\ \E x \in executions' : x.key = key
        /\ \A x \in executions' : x \in executions \/ x = [key |-> key, event |-> id]
    <2>1. CASE \E x \in executions : x.key = key
        BY <2>1 DEF AcceptInboundEvent
    <2>2. CASE ~\E x \in executions : x.key = key
      <3>1. executions' = executions \cup {[key |-> key, event |-> id]}
          BY <2>2 DEF AcceptInboundEvent
      <3>2. [key |-> key, event |-> id] \in executions' /\ [key |-> key, event |-> id].key = key
          BY <3>1
      <3>3. QED
          BY <3>1, <3>2
    <2>3. QED
        BY <2>1, <2>2
  <1>3. QED
      BY <1>1, <1>2

\* Only the handler that moves changes its locals.
LEMMA OthersStay ==
  ASSUME HandlerTypes, NEW h \in Handlers, NEW g \in Handlers, g # h,
         HandlerStep(h)
  PROVE  /\ hPc'[g] = hPc[g] /\ hDelivery'[g] = hDelivery[g] /\ hListed'[g] = hListed[g]
         /\ hTodo'[g] = hTodo[g] /\ hRoute'[g] = hRoute[g] /\ hPayloads'[g] = hPayloads[g]
  <1> USE DEF HandlerTypes, HandlerGoto
  <1>1. ASSUME NEW d \in Deliveries, Deliver(h, d)
        PROVE  /\ hPc'[g] = hPc[g] /\ hDelivery'[g] = hDelivery[g] /\ hListed'[g] = hListed[g]
               /\ hTodo'[g] = hTodo[g] /\ hRoute'[g] = hRoute[g] /\ hPayloads'[g] = hPayloads[g]
      BY <1>1 DEF Deliver
  <1>2. CASE ListRoutes(h)
      BY <1>2 DEF ListRoutes
  <1>3. CASE VerifyRoutes(h)
      BY <1>3 DEF VerifyRoutes, Refuse
  <1>4. CASE TakeRoute(h)
      BY <1>4 DEF TakeRoute
  <1>5. CASE CheckVersion(h)
      BY <1>5 DEF CheckVersion, NextRoute
  <1>6. CASE AcceptPayload(h)
      BY <1>6 DEF AcceptPayload, NextRoute
  <1>7. CASE HandlerFails(h)
      BY <1>7 DEF HandlerFails, Refuse
  <1>8. QED
      BY <1>1, <1>2, <1>3, <1>4, <1>5, <1>6, <1>7 DEF HandlerStep

\* What the handler that moves knows after its step.
LEMMA HandlerMoves ==
  ASSUME HandlerInv, NEW h \in Handlers, HandlerStep(h)
  PROVE  HandlerTypes' /\ HandlerOK(h)' /\ executions \subseteq executions'
  <1>0. /\ HandlerTypes /\ HandlerOK(h) /\ UNCHANGED <<flowStatus, versionStatus, routes>>
        /\ \A r : Live(r)' = Live(r)
      BY DEF HandlerInv, HandlerStep, flowVars, flowRows, Live
  <1>1. NoRoute \in Routes /\ NoDelivery \in Deliveries
      BY FlowConstants, IngressConstants, NoFlowIsAFlow DEF NoRoute, Routes, Versions, NoDelivery
  <1>2. ASSUME NEW d \in Deliveries, Deliver(h, d) PROVE HandlerTypes' /\ HandlerOK(h)' /\ executions \subseteq executions'
    <2>1. /\ hTodo' = hTodo /\ hPayloads' = hPayloads /\ hRoute' = hRoute /\ UNCHANGED executions
          /\ hTodo[h] = {} /\ hPayloads[h] = {}
        BY <1>0, <1>2 DEF Deliver, HandlerOK, InLoop, accepted
    <2>2. hPc' = [hPc EXCEPT ![h] = "list"] /\ hDelivery' = [hDelivery EXCEPT ![h] = d] /\ hListed' = [hListed EXCEPT ![h] = {}]
        BY <1>2 DEF Deliver, HandlerGoto
    <2>3. HandlerTypes'
        BY <1>0, <2>1, <2>2 DEF HandlerTypes, HandlerPc
    <2>4. hPc'[h] = "list" /\ hListed'[h] = {} /\ hTodo'[h] = {} /\ hPayloads'[h] = {}
        BY <1>0, <2>1, <2>2 DEF HandlerTypes
    <2>5. QED
        BY <2>1, <2>3, <2>4 DEF HandlerOK, InLoop
  <1>3. CASE ListRoutes(h)
    <2> DEFINE listed == ListHookRoutesForProject
    <2>1. /\ hPc[h] = "list" /\ hListed' = [hListed EXCEPT ![h] = listed]
          /\ hPc' = [hPc EXCEPT ![h] = IF listed = {} THEN "202" ELSE "verify"]
          /\ UNCHANGED <<events, executions, hDelivery, hTodo, hRoute, hPayloads>>
        BY <1>3 DEF ListRoutes, HandlerGoto, accepted
    <2>2. listed \in SUBSET Routes /\ \A r \in listed : versionStatus[r[1]][r[2]] = "published"
        BY DEF ListHookRoutesForProject
    <2> HIDE DEF listed
    <2>3. HandlerTypes'
        BY <1>0, <2>1, <2>2 DEF HandlerTypes, HandlerPc
    <2>4. /\ hPc'[h] = IF listed = {} THEN "202" ELSE "verify"
          /\ hListed'[h] = listed /\ hTodo'[h] = {} /\ hPayloads'[h] = {}
        BY <1>0, <2>1 DEF HandlerTypes, HandlerOK, InLoop
    <2>5. QED
        BY <1>0, <2>1, <2>2, <2>3, <2>4 DEF HandlerOK, InLoop
  <1>4. CASE Refuse(h)
    <2>1. HandlerTypes'
        BY <1>0, <1>1, <1>4 DEF HandlerTypes, HandlerPc, Refuse, HandlerGoto
    <2>2. hPc'[h] = "idle" /\ hListed'[h] = {} /\ hTodo'[h] = {} /\ hPayloads'[h] = {} /\ UNCHANGED executions
        BY <1>0, <1>4 DEF HandlerTypes, Refuse, HandlerGoto, accepted
    <2>3. QED
        BY <2>1, <2>2 DEF HandlerOK, InLoop
  <1>5. CASE VerifyRoutes(h)
    <2>1. CASE hToken[h] = hookRef
      <3>1. /\ hPc[h] = "verify" /\ hTodo' = [hTodo EXCEPT ![h] = hListed[h]] /\ hPc' = [hPc EXCEPT ![h] = "route"]
            /\ UNCHANGED <<executions, hDelivery, hListed, hRoute, hPayloads>>
          BY <1>5, <2>1 DEF VerifyRoutes, HandlerGoto, accepted
      <3>2. HandlerTypes'
          BY <1>0, <3>1 DEF HandlerTypes, HandlerPc
      <3>3. hPc'[h] = "route" /\ hTodo'[h] = hListed[h] /\ hPayloads'[h] = {}
          BY <1>0, <3>1 DEF HandlerTypes, HandlerOK
      <3>4. QED
          BY <1>0, <3>1, <3>2, <3>3 DEF HandlerOK, InLoop
    <2>2. CASE hToken[h] # hookRef
        BY <1>4, <1>5, <2>2 DEF VerifyRoutes
    <2>3. QED
        BY <2>1, <2>2
  <1>6. ASSUME NEW r \in hTodo[h], TakeRoute(h), hTodo' = [hTodo EXCEPT ![h] = @ \ {r}],
               IF matchesBehavior(hDelivery[h], BehaviorOf[r[1]]) /\ flowStatus[r[1]] = "published"
               THEN hRoute' = [hRoute EXCEPT ![h] = r] /\ HandlerGoto(h, "version")
               ELSE UNCHANGED <<hRoute, hPc>>
        PROVE  HandlerTypes' /\ HandlerOK(h)' /\ executions \subseteq executions'
    <2>1. /\ hPc[h] = "route" /\ UNCHANGED <<executions, hDelivery, hListed, hPayloads>> /\ hPayloads[h] = {}
          /\ r \in Routes /\ r \in hListed[h] /\ r[1] \in Flows /\ hTodo'[h] = hTodo[h] \ {r}
      <3>1. r \in Routes /\ r \in hListed[h] /\ hPc[h] = "route"
          BY <1>0, <1>6 DEF TakeRoute, HandlerTypes, HandlerOK
      <3>2. QED
          BY <1>0, <1>6, <3>1 DEF TakeRoute, HandlerTypes, HandlerOK, accepted, Routes
    <2>2. CASE matchesBehavior(hDelivery[h], BehaviorOf[r[1]]) /\ flowStatus[r[1]] = "published"
      <3>1. hRoute' = [hRoute EXCEPT ![h] = r] /\ hPc' = [hPc EXCEPT ![h] = "version"]
          BY <1>6, <2>2 DEF HandlerGoto
      <3>2. HandlerTypes'
          BY <1>0, <1>6, <2>1, <3>1 DEF HandlerTypes, HandlerPc
      <3>3. hPc'[h] = "version" /\ hRoute'[h] = r
          BY <1>0, <3>1 DEF HandlerTypes
      <3>4. \A q : Complete(h, q) => Complete(h, q)'
          BY <1>0, <2>1 DEF Complete, Live, Executed
      <3>5. QED
          BY <1>0, <2>1, <3>2, <3>3, <3>4 DEF HandlerOK, InLoop
    <2>3. CASE ~(matchesBehavior(hDelivery[h], BehaviorOf[r[1]]) /\ flowStatus[r[1]] = "published")
      <3>1. UNCHANGED <<hRoute, hPc>>
          BY <1>6, <2>3
      <3>2. HandlerTypes'
          BY <1>0, <1>6, <2>1, <3>1 DEF HandlerTypes
      <3>3. Complete(h, r)
        <4>1. hDelivery[h] \in Deliveries /\ BehaviorOf[r[1]] \in Behaviors
            BY <1>0, <2>1, IngressConstants DEF HandlerTypes, Behaviors
        <4>2. CASE flowStatus[r[1]] # "published"
            BY <4>2 DEF Complete, Live
        <4>3. CASE ~matchesBehavior(hDelivery[h], BehaviorOf[r[1]])
          <5>1. Announced(hDelivery[h], BehaviorOf[r[1]]) = {}
              BY <4>1, <4>3, PayloadsCover
          <5>2. QED
              BY <5>1 DEF Complete
        <4>4. QED
            BY <2>3, <4>2, <4>3
      <3>4. \A q : Complete(h, q) => Complete(h, q)'
          BY <1>0, <2>1 DEF Complete, Live, Executed
      <3>5. QED
          BY <1>0, <2>1, <3>1, <3>2, <3>3, <3>4 DEF HandlerOK, InLoop
    <2>4. QED
        BY <2>2, <2>3
  <1>7. CASE TakeRoute(h) /\ hTodo[h] = {} /\ hPc' = [hPc EXCEPT ![h] = "202"] /\ UNCHANGED <<hTodo, hRoute>>
    <2>1. /\ hPc[h] = "route" /\ UNCHANGED <<executions, hDelivery, hListed, hPayloads>> /\ hPc'[h] = "202"
        BY <1>0, <1>7 DEF TakeRoute, HandlerTypes, accepted
    <2>2. HandlerTypes'
        BY <1>0, <1>7, <2>1 DEF HandlerTypes, HandlerPc
    <2>3. \A q : Complete(h, q) => Complete(h, q)'
        BY <1>0, <2>1 DEF Complete, Live, Executed
    <2>4. QED
        BY <1>0, <1>7, <2>1, <2>2, <2>3 DEF HandlerOK, InLoop
  <1>8. CASE TakeRoute(h)
      BY <1>6, <1>7, <1>8 DEF TakeRoute, HandlerGoto
  <1>9. ASSUME NextRoute(h), hPc[h] \in {"version", "accept"}, Complete(h, hRoute[h]),
               UNCHANGED <<executions, hDelivery, hListed, hTodo>>
        PROVE  HandlerTypes' /\ HandlerOK(h)' /\ executions \subseteq executions'
    <2>1. /\ hPc' = [hPc EXCEPT ![h] = "route"] /\ hRoute' = [hRoute EXCEPT ![h] = NoRoute]
          /\ hPayloads' = [hPayloads EXCEPT ![h] = {}]
        BY <1>9 DEF NextRoute, HandlerGoto
    <2>2. HandlerTypes'
        BY <1>0, <1>1, <1>9, <2>1 DEF HandlerTypes, HandlerPc
    <2>3. hPc'[h] = "route" /\ hPayloads'[h] = {}
        BY <1>0, <2>1 DEF HandlerTypes
    <2>4. \A q : Complete(h, q) => Complete(h, q)'
        BY <1>0, <1>9 DEF Complete, Live, Executed
    <2>5. QED
        BY <1>0, <1>9, <2>2, <2>3, <2>4 DEF HandlerOK, InLoop
  <1>10. CASE CheckVersion(h)
    <2> DEFINE r == hRoute[h]
    <2>1. hPc[h] = "version" /\ UNCHANGED <<executions, hDelivery, hListed, hTodo>> /\ r \in Routes /\ r \in hListed[h]
        BY <1>0, <1>10 DEF CheckVersion, accepted, HandlerTypes, HandlerOK
    <2>2. CASE versionStatus[r[1]][r[2]] = "published"
      <3>1. /\ hPc' = [hPc EXCEPT ![h] = "accept"] /\ hRoute' = hRoute
            /\ hPayloads' = [hPayloads EXCEPT ![h] = eventPayloads(hDelivery[h])]
          BY <1>10, <2>2 DEF CheckVersion, HandlerGoto
      <3>2. hPc'[h] = "accept" /\ hPayloads'[h] = eventPayloads(hDelivery[h])
          BY <1>0, <3>1 DEF HandlerTypes
      <3>3. HandlerTypes'
        <4>1. \A g \in Handlers : hPayloads'[g] \subseteq eventPayloads(hDelivery[g])
            BY <1>0, <3>1 DEF HandlerTypes
        <4>2. hPc' \in [Handlers -> HandlerPc] /\ DOMAIN hPayloads' = Handlers
            BY <1>0, <3>1 DEF HandlerTypes, HandlerPc
        <4>3. QED
            BY <1>0, <2>1, <3>1, <4>1, <4>2 DEF HandlerTypes
      <3>4. InProgress(h)'
        <4>1. hDelivery[h] \in Deliveries /\ BehaviorOf[r[1]] \in Behaviors
            BY <1>0, <2>1, IngressConstants DEF HandlerTypes, Behaviors, Routes
        <4>2. \A a \in Announced(hDelivery[h], BehaviorOf[r[1]]) :
                  \E p \in eventPayloads(hDelivery[h]) : actionIdentity(hDelivery[h], p) = a
            BY <4>1, PayloadsCover
        <4>3. QED
            BY <2>1, <3>1, <3>2, <4>2 DEF InProgress
      <3>5. \A q : Complete(h, q) => Complete(h, q)'
          BY <1>0, <2>1 DEF Complete, Live, Executed
      <3>6. QED
          BY <1>0, <2>1, <3>1, <3>2, <3>3, <3>4, <3>5 DEF HandlerOK, InLoop
    <2>3. CASE versionStatus[r[1]][r[2]] # "published"
      <3>1. Complete(h, r)
          BY <2>3 DEF Complete, Live
      <3>2. QED
          BY <1>9, <1>10, <2>1, <2>3, <3>1 DEF CheckVersion
    <2>4. QED
        BY <2>2, <2>3
  <1>11. CASE AcceptPayload(h) /\ hPayloads[h] = {} /\ NextRoute(h) /\ UNCHANGED accepted
    <2>1. hPc[h] = "accept" /\ UNCHANGED <<executions, hDelivery, hListed, hTodo>>
        BY <1>11 DEF AcceptPayload, accepted
    <2>2. InProgress(h)
        BY <1>0, <2>1 DEF HandlerOK
    <2>3. Complete(h, hRoute[h])
        BY <1>11, <2>2 DEF InProgress, Complete
    <2>4. QED
        BY <1>9, <1>11, <2>1, <2>3
  <1>12. ASSUME AcceptPayload(h), NEW p \in Newest(h), Accept(h, p),
                hPayloads' = [hPayloads EXCEPT ![h] = @ \ {p}], UNCHANGED <<hPc, hRoute>>
         PROVE  HandlerTypes' /\ HandlerOK(h)' /\ executions \subseteq executions'
    <2> DEFINE r == hRoute[h]
               d == hDelivery[h]
    <2>1. hPc[h] = "accept" /\ UNCHANGED <<hDelivery, hListed, hTodo>> /\ hPayloads'[h] = hPayloads[h] \ {p}
        BY <1>0, <1>12 DEF AcceptPayload, HandlerTypes
    <2>2. /\ executions \subseteq executions'
          /\ \E x \in executions' : x.key = <<actionIdentity(d, p), r[1], r[2]>>
        BY <1>12, AcceptGrows DEF Accept
    <2>3. HandlerTypes'
      <3>1. \A g \in Handlers : hPayloads'[g] \subseteq eventPayloads(hDelivery[g])
          BY <1>0, <1>12 DEF HandlerTypes
      <3>2. DOMAIN hPayloads' = Handlers
          BY <1>0, <1>12 DEF HandlerTypes
      <3>3. QED
          BY <1>0, <1>12, <2>1, <3>1, <3>2 DEF HandlerTypes
    <2>4. InProgress(h)'
      <3>1. InProgress(h)
          BY <1>0, <2>1 DEF HandlerOK
      <3>2. ASSUME NEW a, Executed(a, r) \/ \E q \in hPayloads[h] : actionIdentity(d, q) = a
            PROVE  (\E x \in executions' : x.key = <<a, r[1], r[2]>>) \/ \E q \in hPayloads'[h] : actionIdentity(d, q) = a
          BY <2>1, <2>2, <3>2 DEF Executed
      <3>3. QED
          BY <1>0, <1>12, <2>1, <3>1, <3>2 DEF InProgress, Executed, Live
    <2>5. \A q : Complete(h, q) => Complete(h, q)'
        BY <1>0, <2>1, <2>2 DEF Complete, Live, Executed
    <2>6. QED
        BY <1>0, <1>12, <2>1, <2>2, <2>3, <2>4, <2>5 DEF HandlerOK, InLoop
  <1>13. CASE AcceptPayload(h)
      BY <1>11, <1>12, <1>13 DEF AcceptPayload
  <1>14. CASE HandlerFails(h)
      BY <1>4, <1>14 DEF HandlerFails
  <1>15. QED
      BY <1>2, <1>3, <1>5, <1>8, <1>10, <1>13, <1>14 DEF HandlerStep

\* A live test adds rows, and leaves the handlers alone.
LEMMA LiveTestAdds ==
  ASSUME NEW o \in Requests, LiveTestStep(o)
  PROVE  /\ UNCHANGED <<handlerVars, flowRows>> /\ executions \subseteq executions'
         /\ \/ UNCHANGED <<events, executions>>
            \/ /\ pc[o] = "liveAccept"
               /\ AcceptInboundEvent(<<BehaviorOf[rFlow[o]], LiveTest>>, LiveTest, <<LiveTest, rFlow[o], rVersion[o]>>)
  <1>1. CASE AcceptLiveTest(o)
    <2>1. executions \subseteq executions'
        BY <1>1, AcceptGrows DEF AcceptLiveTest
    <2>2. QED
        BY <1>1, <2>1 DEF AcceptLiveTest, LiveTestStep
  <1>2. CASE CheckLiveVersion(o)
      BY <1>2 DEF CheckLiveVersion, accepted, LiveTestStep
  <1>3. ASSUME NEW f \in TestedFlows, NEW v \in 0 .. MaxVersion, StartLiveTest(o, f, v)
        PROVE  UNCHANGED <<events, executions>>
      BY <1>3 DEF StartLiveTest, accepted
  <1>4. QED
      BY <1>1, <1>2, <1>3 DEF LiveTestStep

\* What is accepted changes only by the steps of a handler and of a live test.
LEMMA AcceptKinds ==
  ASSUME [Next]_vars
  PROVE  \/ UNCHANGED <<handlerVars, events, executions>>
         \/ \E o \in Requests : LiveTestStep(o)
         \/ \E h \in Handlers : HandlerStep(h)
         \/ Crash
  BY DEF Next, vars, ingressVars, accepted

LEMMA HandlerInvInit == Init => HandlerInv
  <1> SUFFICES ASSUME Init PROVE HandlerInv
      OBVIOUS
  <1>1. NoRoute \in Routes /\ NoDelivery \in Deliveries
      BY FlowConstants, IngressConstants, NoFlowIsAFlow DEF NoRoute, Routes, Versions, NoDelivery
  <1>2. HandlerTypes
      BY <1>1 DEF Init, HandlerTypes, HandlerPc
  <1>3. QED
      BY <1>2 DEF Init, HandlerInv, HandlerOK, InLoop

LEMMA HandlerInvStep == FlowShape /\ HandlerInv /\ [Next]_vars => HandlerInv'
  <1> SUFFICES ASSUME FlowShape, HandlerInv, [Next]_vars PROVE HandlerInv'
      OBVIOUS
  <1>1. HandlerTypes /\ Stays
      BY VersionsStay DEF HandlerInv
  <1>2. ASSUME UNCHANGED handlerVars, executions \subseteq executions' PROVE HandlerInv'
    <2>1. HandlerTypes'
        BY <1>1, <1>2 DEF HandlerTypes, handlerVars
    <2>2. \A g \in Handlers : HandlerOK(g)'
        BY <1>1, <1>2, Undisturbed DEF HandlerInv, handlerVars
    <2>3. QED
        BY <2>1, <2>2 DEF HandlerInv
  <1>3. ASSUME NEW o \in Requests, LiveTestStep(o) PROVE HandlerInv'
      BY <1>2, <1>3, LiveTestAdds
  <1>4. ASSUME NEW h \in Handlers, HandlerStep(h) PROVE HandlerInv'
    <2>1. HandlerTypes' /\ HandlerOK(h)' /\ executions \subseteq executions'
        BY <1>4, HandlerMoves
    <2>2. \A g \in Handlers \ {h} : HandlerOK(g)'
        BY <1>1, <1>4, <2>1, OthersStay, Undisturbed DEF HandlerInv
    <2>3. QED
        BY <2>1, <2>2 DEF HandlerInv
  <1>5. CASE Crash
    <2>1. NoRoute \in Routes /\ NoDelivery \in Deliveries
        BY FlowConstants, IngressConstants, NoFlowIsAFlow DEF NoRoute, Routes, Versions, NoDelivery
    <2>2. HandlerTypes'
        BY <1>5, <2>1 DEF Crash, HandlerTypes, HandlerPc
    <2>3. QED
        BY <1>5, <2>2 DEF Crash, HandlerInv, HandlerOK, InLoop
  <1>6. CASE UNCHANGED <<handlerVars, events, executions>>
      BY <1>2, <1>6
  <1>7. QED
      BY <1>3, <1>4, <1>5, <1>6, AcceptKinds

LEMMA IngressInductive == Spec => [](PublicationInv /\ HandlerInv)
  <1>1. FlowShape /\ VersionInv /\ HandlerInv /\ [Next]_vars => HandlerInv'
      BY HandlerInvStep
  <1>2. PublicationInv => FlowShape /\ VersionInv
      BY DEF PublicationInv
  <1>3. QED
      BY <1>1, <1>2, HandlerInvInit, PublicationInductive, PTL DEF Spec

(***************************************************************************)
(* A delivery answered with 202 has an execution for every action it       *)
(* announces to a route that is still live, whatever publications, pauses, *)
(* crashes and other attempts at the delivery came between the reads of    *)
(* the handler (accept in internal/runtime/ingress.go).                    *)
(***************************************************************************)
THEOREM AnsweredIsAccepted == Spec => []AcceptedCompletely
  <1>1. HandlerInv => AcceptedCompletely
    <2>1. SUFFICES ASSUME HandlerInv, NEW h \in Handlers, hPc[h] = "202", NEW r \in hListed[h] PROVE Complete(h, r)
        BY DEF AcceptedCompletely, Complete, Live, Executed
    <2>2. HandlerOK(h) /\ hTodo[h] = {}
        BY <2>1 DEF HandlerInv, HandlerOK, InLoop
    <2>3. QED
        BY <2>1, <2>2 DEF HandlerOK
  <1>2. QED
      BY <1>1, IngressInductive, PTL

-----------------------------------------------------------------------------
(***************************************************************************)
(* The payload of an execution.                                            *)
(***************************************************************************)
CarryInv == EventsTold /\ ExecutionsCarryTheirAction

\* An event that is told of, and taken for an execution, is about the action of the execution.
LEMMA AcceptCarries ==
  ASSUME CarryInv, NEW id, NEW action, NEW key, AcceptInboundEvent(id, action, key), key[1] = action,
         \/ action = LiveTest /\ id[2] = LiveTest
         \/ \E d \in Deliveries : \E p \in eventPayloads(d) :
                id[2] = actionDeliveryID(d, p) /\ action = actionIdentity(d, p),
         DistinctIds
  PROVE  CarryInv'
  <1>1. /\ events \subseteq events' /\ \E y \in events' : y.id = id
        /\ \A x \in executions' : x \in executions \/ x = [key |-> key, event |-> id]
        /\ \A y \in events' : y \in events \/ y = [id |-> id, action |-> action]
      BY AcceptGrows
  <1>2. EventsTold'
      BY <1>1 DEF CarryInv, EventsTold
  <1>3. \A y \in events' : y.id = id => y.action = action
    <2>1. SUFFICES ASSUME NEW y \in events', y.id = id PROVE y.action = action
        OBVIOUS
    <2>2. \/ y.action = LiveTest /\ id[2] = LiveTest
          \/ \E d \in Deliveries : \E p \in eventPayloads(d) :
                 id[2] = actionDeliveryID(d, p) /\ y.action = actionIdentity(d, p)
        BY <1>2, <2>1 DEF EventsTold
    <2>3. CASE id[2] = LiveTest
        BY <2>2, <2>3, NoLiveDelivery
    <2>4. CASE id[2] # LiveTest
        BY <2>2, <2>4, ActionOfEvent
    <2>5. QED
        BY <2>3, <2>4
  <1>4. ExecutionsCarryTheirAction'
    <2>1. ASSUME NEW x \in executions' PROVE \E y \in events' : y.id = x.event /\ y.action = x.key[1]
      <3>1. CASE x \in executions
          BY <1>1, <3>1 DEF CarryInv, ExecutionsCarryTheirAction
      <3>2. CASE x = [key |-> key, event |-> id]
        <4>1. x.event = id /\ x.key[1] = action
            BY <3>2
        <4>2. PICK y \in events' : y.id = id
            BY <1>1
        <4>3. QED
            BY <1>3, <4>1, <4>2
      <3>3. QED
          BY <1>1, <2>1, <3>1, <3>2
    <2>2. QED
        BY <2>1 DEF ExecutionsCarryTheirAction
  <1>5. QED
      BY <1>2, <1>4 DEF CarryInv

LEMMA CarryInvStep ==
  ASSUME DistinctIds
  PROVE  HandlerInv /\ CarryInv /\ [Next]_vars => CarryInv'
  <1> SUFFICES ASSUME HandlerInv, CarryInv, [Next]_vars PROVE CarryInv'
      OBVIOUS
  <1>1. ASSUME UNCHANGED <<events, executions>> PROVE CarryInv'
      BY <1>1 DEF CarryInv, EventsTold, ExecutionsCarryTheirAction
  <1>2. ASSUME NEW o \in Requests, LiveTestStep(o) PROVE CarryInv'
    <2>1. CASE UNCHANGED <<events, executions>>
        BY <1>1, <2>1
    <2>2. CASE AcceptInboundEvent(<<BehaviorOf[rFlow[o]], LiveTest>>, LiveTest, <<LiveTest, rFlow[o], rVersion[o]>>)
        BY <2>2, AcceptCarries
    <2>3. QED
        BY <1>2, <2>1, <2>2, LiveTestAdds
  <1>3. ASSUME NEW h \in Handlers, HandlerStep(h) PROVE CarryInv'
    <2>1. ASSUME NEW p \in Newest(h), Accept(h, p) PROVE CarryInv'
      <3> DEFINE d == hDelivery[h]
                 f == hRoute[h][1]
      <3>1. d \in Deliveries /\ p \in eventPayloads(d)
          BY <2>1 DEF HandlerInv, HandlerTypes, Newest
      <3>2. AcceptInboundEvent(<<BehaviorOf[f], actionDeliveryID(d, p)>>, actionIdentity(d, p),
                               <<actionIdentity(d, p), f, hRoute[h][2]>>)
          BY <2>1 DEF Accept
      <3>3. <<actionIdentity(d, p), f, hRoute[h][2]>>[1] = actionIdentity(d, p)
            /\ <<BehaviorOf[f], actionDeliveryID(d, p)>>[2] = actionDeliveryID(d, p)
          OBVIOUS
      <3>4. QED
          BY <3>1, <3>2, <3>3, AcceptCarries
    <2>2. CASE UNCHANGED <<events, executions>>
        BY <1>1, <2>2
    <2>3. QED
        BY <1>3, <2>1, <2>2
        DEF HandlerStep, Deliver, ListRoutes, VerifyRoutes, Refuse, TakeRoute, CheckVersion, AcceptPayload, HandlerFails, accepted
  <1>4. CASE Crash
      BY <1>1, <1>4 DEF Crash, accepted
  <1>5. QED
      BY <1>1, <1>2, <1>3, <1>4, AcceptKinds

(***************************************************************************)
(* An execution runs with the payload of its own action, when the ids of   *)
(* deliveries tell them apart.                                             *)
(***************************************************************************)
THEOREM PayloadsAreTheirOwn == DistinctIds => (Spec => []ExecutionsCarryTheirAction)
  <1> SUFFICES ASSUME DistinctIds PROVE Spec => []ExecutionsCarryTheirAction
      OBVIOUS
  <1>1. Init => CarryInv
      BY DEF Init, CarryInv, EventsTold, ExecutionsCarryTheirAction
  <1>2. HandlerInv /\ CarryInv /\ [Next]_vars => CarryInv'
      BY CarryInvStep
  <1>3. CarryInv => ExecutionsCarryTheirAction
      BY DEF CarryInv
  <1>4. QED
      BY <1>1, <1>2, <1>3, IngressInductive, PTL DEF Spec

-----------------------------------------------------------------------------
(***************************************************************************)
(* Types.                                                                  *)
(***************************************************************************)
\* A step meets at most one fault.
LEMMA FaultsCounted == [Next]_vars => UNCHANGED faults \/ Fault
  <1> SUFFICES ASSUME [Next]_vars PROVE UNCHANGED faults \/ Fault
      OBVIOUS
  <1>1. ASSUME NEW o \in Requests, HookStep(o) PROVE UNCHANGED faults \/ Fault
      BY <1>1 DEF HookStep, GetHook, PutSecret, EnsureProvider, ProviderHook, UpsertHook, UpsertHookFails, Rotate,
                  PutRotated, RotateProvider, RotateHookFails, Rollback, RollbackFails
  <1>2. ASSUME NEW o \in Requests, RequestStep(o) PROVE UNCHANGED faults \/ Fault
      BY <1>1, <1>2 DEF RequestStep, EnsureAbandonFlow, CreateFlow, CreateDraft, Publish, Pause, Archive, GetFlowDraft,
                  ReadNextVersion, SaveFlowVersion, ActivateRoute, RecordHook, PauseAfterFailure, PauseCheck,
                  PauseInputFlow, SetFlowStatus
  <1>3. ASSUME NEW o \in Requests, LiveTestStep(o) PROVE UNCHANGED faults
      BY <1>3 DEF LiveTestStep
  <1>4. ASSUME NEW f \in Flows, NEW g \in Drafts, SaveDraft(f, g) PROVE UNCHANGED faults
      BY <1>4 DEF SaveDraft, hookVars
  <1>5. ASSUME NEW h \in Handlers, HandlerStep(h) PROVE UNCHANGED faults \/ Fault
      BY <1>5 DEF HandlerStep, HandlerFails
  <1>6. CASE Crash
      BY <1>6 DEF Crash, FlowCrash, HookCrash
  <1>7. CASE UNCHANGED vars
      BY <1>7 DEF vars, hookVars
  <1>8. CASE ConnectionStep
      BY <1>8 DEF ConnectionStep, DisableConnection, UpdateConnectionStatus
  <1>9. QED
      BY <1>2, <1>3, <1>4, <1>5, <1>6, <1>7, <1>8 DEF Next

\* The token of GitLab, and the history of the reconciliation.
HookTypes == gitlabToken \in Refs \cup {NoRef} /\ entangled \subseteq Requests /\ hookSuspect \in BOOLEAN

LEMMA HookTypesStep == HookShape /\ OldShape /\ HookTypes /\ [Next]_vars => HookTypes'
  <1> SUFFICES ASSUME HookShape, OldShape, HookTypes, [Next]_vars PROVE HookTypes'
      OBVIOUS
  <1>1. ASSUME NEW o \in Requests, HookStep(o) PROVE HookTypes'
    <2>1. rRef[o] \in Refs \cup {NoRef} /\ rOld[o] \in Refs \cup {NoRef}
        BY DEF HookShape, OldShape
    <2>2. gitlabToken' \in {gitlabToken, rRef[o], rOld[o]}
        BY <1>1 DEF HookStep, GetHook, PutSecret, EnsureProvider, ProviderHook, UpsertHook, UpsertHookFails, Rotate,
                    PutRotated, RotateProvider, RotateHookFails, Rollback, RollbackFails
    <2>3. EnterHook(o, TRUE) => entangled' \subseteq Requests
        BY DEF EnterHook, HookTypes
    <2>4. entangled' \subseteq Requests
        BY <1>1, <2>3 DEF HookTypes, HookStep, GetHook, PutSecret, EnsureProvider, ProviderHook, UpsertHook,
                    UpsertHookFails, Rotate, PutRotated, RotateProvider, RotateHookFails, Rollback, RollbackFails,
                    HookGoto, HookGotoWith, HookReturn, hookLocal
    <2>5. \/ hookSuspect' = hookSuspect \/ hookSuspect' = TRUE \/ hookSuspect' = (o \in entangled)
          \/ hookSuspect' = (hookSuspect \/ o \in entangled)
        BY <1>1, Zenon DEF HookStep, GetHook, PutSecret, EnsureProvider, ProviderHook, UpsertHook, UpsertHookFails,
                    Rotate, PutRotated, RotateProvider, RotateHookFails, Rollback, RollbackFails, Settled
    <2>6. hookSuspect' \in BOOLEAN
      <3>1. CASE hookSuspect' = hookSuspect
          BY <3>1 DEF HookTypes
      <3>2. CASE hookSuspect' = TRUE
          BY <3>2
      <3>3. CASE hookSuspect' = (o \in entangled)
          BY <3>3, SMT
      <3>4. CASE hookSuspect' = (hookSuspect \/ o \in entangled)
          BY <3>4, Zenon
      <3>5. QED
          BY <2>5, <3>1, <3>2, <3>3, <3>4
    <2>7. QED
        BY <2>1, <2>2, <2>4, <2>6 DEF HookTypes
  <1>2. CASE Apart
      BY <1>2 DEF Apart, HookTypes
  <1>3. ASSUME NEW o \in Requests, Entry(o) PROVE HookTypes'
      BY <1>3 DEF Entry, EnterHook, HookTypes
  <1>4. CASE HookCrash
    <2>1. hookSuspect' \in BOOLEAN
        BY <1>4, Zenon DEF HookCrash
    <2>2. QED
        BY <1>4, <2>1 DEF HookCrash, HookTypes
  <1>5. QED
      BY <1>1, <1>2, <1>3, <1>4, ApartOrNot

\* Where a request is, and the history of requests.
RequestTypes ==
    /\ pc \in [Requests -> RequestPc]
    /\ crowded \subseteq Requests /\ flowSuspect \subseteq Flows
    /\ \A f \in Flows : Cardinality(draft[f]) <= 1

\* What is done with a draft, and with the history, by a step of a request at o.
LEMMA RequestGoes ==
  ASSUME RequestTypes, FlowShape, NEW o \in Requests, NEW l \in RequestPc, pc' = [pc EXCEPT ![o] = l],
         crowded' \subseteq crowded \cup Requests, flowSuspect' \subseteq flowSuspect \cup Flows,
         draft' = draft \/ \E f \in Flows, g \in Drafts : draft' = [draft EXCEPT ![f] = {g}]
  PROVE  RequestTypes'
  <1>1. pc' \in [Requests -> RequestPc]
      BY DEF RequestTypes
  <1>2. ASSUME NEW f \in Flows PROVE Cardinality(draft'[f]) <= 1
    <2>1. draft'[f] = draft[f] \/ \E g \in Drafts : draft'[f] = {g}
        BY DEF FlowShape, RowsShape
    <2>2. ASSUME NEW g \in Drafts, draft'[f] = {g} PROVE Cardinality(draft'[f]) <= 1
        BY <2>2, FS_Singleton
    <2>3. QED
        BY <2>1, <2>2 DEF RequestTypes
  <1>3. QED
      BY <1>1, <1>2 DEF RequestTypes

LEMMA RequestTypesStep == FlowShape /\ RequestTypes /\ [Next]_vars => RequestTypes'
  <1> SUFFICES ASSUME FlowShape, RequestTypes, [Next]_vars PROVE RequestTypes'
      OBVIOUS
  <1> DEFINE Quietly == UNCHANGED draft /\ crowded' \subseteq crowded /\ UNCHANGED flowSuspect
             Moves(o) == \E l \in RequestPc : pc' = [pc EXCEPT ![o] = l]
  <1>0. HookPc \subseteq RequestPc /\ LiveTestPc \subseteq RequestPc
        /\ {"idle", "createFlow", "createDraft", "getDraft", "nextVersion", "saveVersion",
              "activateRoute", "recordHook", "activationFailed", "pauseCheck", "pauseRoute",
              "pauseStatus", "archiveRoute", "archiveStatus"} \subseteq RequestPc
        /\ NoFlow \in Flows /\ TemplateDraft \in Drafts /\ "getHook" \in HookPc
      BY FlowConstants, NoFlowIsAFlow DEF RequestPc, HookPc, EnsurePc
  <1>1. ASSUME NEW o \in Requests, Quietly, Moves(o) PROVE RequestTypes'
      BY <1>1, RequestGoes
  <1>2. ASSUME NEW o \in Requests, NEW f \in Flows, NEW l \in RequestPc, Enter(o, f, l), UNCHANGED draft PROVE RequestTypes'
    <2>1. crowded' \subseteq crowded \cup Requests /\ flowSuspect' \subseteq flowSuspect \cup Flows
      <3>1. CASE InFlight(f) # {}
          BY <1>2, <3>1 DEF Enter, InFlight
      <3>2. CASE InFlight(f) = {}
          BY <1>2, <3>2 DEF Enter, flowHistory
      <3>3. QED
          BY <3>1, <3>2
    <2>2. pc' = [pc EXCEPT ![o] = l]
        BY <1>2 DEF Enter
    <2>3. QED
        BY <1>2, <2>1, <2>2, RequestGoes
  <1>3. ASSUME NEW o \in Requests, EnsureAbandonFlow(o) PROVE RequestTypes'
    <2>1. PICK i \in ReservedIndices, l \in {"getDraft", "createFlow"} : Enter(o, ReservedFlows[i], l)
        BY <1>3 DEF EnsureAbandonFlow, Installed
    <2>2. UNCHANGED draft
        BY <1>3 DEF EnsureAbandonFlow, flowRows
    <2>3. QED
        BY <1>0, <1>2, <2>1, <2>2, ReservedAreFlows
  <1>4. ASSUME NEW o \in Requests, NEW f \in Flows, Publish(o, f) \/ Pause(o, f) \/ Archive(o, f) PROVE RequestTypes'
      BY <1>0, <1>2, <1>4 DEF Publish, Pause, Archive, flowRows
  <1>5. ASSUME NEW o \in Requests, CreateFlow(o) PROVE RequestTypes'
    <2>1. Quietly
        BY <1>5 DEF CreateFlow, FlowGoto, Return, flowHistory
    <2>2. Moves(o)
        BY <1>0, <1>5 DEF CreateFlow, FlowGoto, Return, Goto
    <2>3. QED
        BY <1>1, <2>1, <2>2
  <1>6. ASSUME NEW o \in Requests, CreateDraft(o) PROVE RequestTypes'
    <2>1. draft' = draft \/ draft' = [draft EXCEPT ![rFlow[o]] = {TemplateDraft}]
        BY <1>6 DEF CreateDraft
    <2>2. crowded' \subseteq crowded /\ UNCHANGED flowSuspect
        BY <1>6 DEF CreateDraft, FlowGoto, Return, flowHistory
    <2>3. Moves(o)
        BY <1>0, <1>6 DEF CreateDraft, FlowGoto, Return, Goto
    <2>4. rFlow[o] \in Flows
        BY DEF FlowShape, LocalsShape
    <2>5. QED
        BY <1>0, <2>1, <2>2, <2>3, <2>4, RequestGoes
  <1>7. ASSUME NEW o \in Requests,
               GetFlowDraft(o) \/ ReadNextVersion(o) \/ SaveFlowVersion(o) \/ ActivateRoute(o) \/ PauseCheck(o)
               \/ PauseInputFlow(o)
        PROVE  RequestTypes'
    <2>1. Quietly
        BY <1>7 DEF GetFlowDraft, ReadNextVersion, SaveFlowVersion, ActivateRoute, PauseCheck, PauseInputFlow,
                    FlowGoto, Return, flowHistory, flowRows
    <2>2. Moves(o)
        BY <1>0, <1>7 DEF GetFlowDraft, ReadNextVersion, SaveFlowVersion, ActivateRoute, PauseCheck, PauseInputFlow,
                    FlowGoto, Return, Goto
    <2>3. QED
        BY <1>1, <2>1, <2>2
  <1>8. ASSUME NEW o \in Requests, RecordHook(o) \/ PauseAfterFailure(o) \/ SetFlowStatus(o) PROVE RequestTypes'
    <2>1. UNCHANGED draft /\ crowded' \subseteq crowded
        BY <1>8 DEF RecordHook, PauseAfterFailure, SetFlowStatus, FlowGoto, Return, flowHistory, flowRows
    <2>2. rFlow[o] \in Flows
        BY DEF FlowShape, LocalsShape
    <2>3. flowSuspect' \subseteq flowSuspect \cup Flows
        BY <1>8, <2>2 DEF RecordHook, PauseAfterFailure, SetFlowStatus, FlowGoto, flowHistory
    <2>4. Moves(o)
        BY <1>0, <1>8 DEF RecordHook, PauseAfterFailure, SetFlowStatus, FlowGoto, Return, Goto
    <2>5. QED
        BY <2>1, <2>3, <2>4, RequestGoes
  <1>9. ASSUME NEW o \in Requests, HookStep(o), UNCHANGED flowVars PROVE RequestTypes'
    <2>1. Quietly
        BY <1>9 DEF flowVars, flowRows, flowHistory
    <2>2. Moves(o)
        BY <1>0, <1>9, HookStepGoes
    <2>3. QED
        BY <1>1, <2>1, <2>2
  <1>10. ASSUME NEW o \in Requests, LiveTestStep(o) PROVE RequestTypes'
    <2>1. Quietly
        BY <1>10 DEF LiveTestStep, StartLiveTest, CheckLiveVersion, AcceptLiveTest, FlowGoto, Return, flowHistory, flowRows
    <2>2. Moves(o)
        BY <1>0, <1>10 DEF LiveTestStep, StartLiveTest, CheckLiveVersion, AcceptLiveTest, FlowGoto, Return, Goto, LiveTestPc
    <2>3. QED
        BY <1>1, <2>1, <2>2
  <1>11. ASSUME NEW f \in Flows, NEW g \in Drafts, SaveDraft(f, g) PROVE RequestTypes'
    <2>1. UNCHANGED <<pc, crowded, flowSuspect>> /\ draft' = [draft EXCEPT ![f] = {g}]
        BY <1>11 DEF SaveDraft, hookVars, flowHistory
    <2>2. ASSUME NEW e \in Flows PROVE Cardinality(draft'[e]) <= 1
      <3>1. draft'[e] = draft[e] \/ draft'[e] = {g}
          BY <2>1 DEF FlowShape, RowsShape
      <3>2. Cardinality({g}) = 1
          BY FS_Singleton
      <3>3. QED
          BY <3>1, <3>2 DEF RequestTypes
    <2>3. QED
        BY <2>1, <2>2 DEF RequestTypes
  <1>12. ASSUME NEW h \in Handlers, HandlerStep(h) PROVE RequestTypes'
      BY <1>12 DEF HandlerStep, flowVars, flowRows, flowHistory, RequestTypes
  <1>13. CASE Crash
    <2>1. pc' = [o \in Requests |-> "idle"] /\ crowded' = {} /\ flowSuspect' \subseteq flowSuspect \cup Flows /\ UNCHANGED draft
        BY <1>13 DEF Crash, FlowCrash, HookCrash, flowRows
    <2>2. QED
        BY <1>0, <2>1 DEF RequestTypes
  <1>14. CASE UNCHANGED vars
      BY <1>14 DEF vars, hookVars, flowVars, flowRows, flowHistory, RequestTypes
  <1>15. CASE ConnectionStep
    <2>1. UNCHANGED <<pc, draft>> /\ crowded' \subseteq crowded \cup Requests /\ flowSuspect' \subseteq flowSuspect \cup Flows
        BY <1>15 DEF ConnectionStep, DisableConnection, UpdateConnectionStatus, connectionRest, flowHistory
    <2>2. QED
        BY <2>1 DEF RequestTypes
  <1>16. QED
      BY <1>3, <1>4, <1>5, <1>6, <1>7, <1>8, <1>9, <1>10, <1>11, <1>12, <1>13, <1>14, <1>15 DEF Next, RequestStep

\* A version that is executed, or that a live test is about to execute, is stored.
ExecutedStored == \A x \in executions : x.key[2] \in Flows /\ x.key[3] \in Stored(x.key[2])
TestedStored == \A o \in Requests : pc[o] \in LiveTestPc => rVersion[o] \in Stored(rFlow[o])

LEMMA AcceptedStored ==
  ASSUME FlowShape, Stays, ExecutedStored, NEW id, NEW a, NEW f \in Flows, NEW v \in Stored(f),
         AcceptInboundEvent(id, a, <<a, f, v>>)
  PROVE  ExecutedStored'
  <1>1. \A e \in Flows : Stored(e) \subseteq Stored(e)'
      BY DEF Stored, Stays
  <1>2. \A x \in executions' : x \in executions \/ x = [key |-> <<a, f, v>>, event |-> id]
      BY DEF AcceptInboundEvent
  <1>3. ASSUME NEW x \in executions' PROVE x.key[2] \in Flows /\ x.key[3] \in Stored(x.key[2])'
    <2>1. CASE x \in executions
        BY <1>1, <2>1 DEF ExecutedStored
    <2>2. CASE x = [key |-> <<a, f, v>>, event |-> id]
        BY <1>1, <2>2
    <2>3. QED
        BY <1>2, <2>1, <2>2
  <1>4. QED
      BY <1>3 DEF ExecutedStored, Stored

\* A live test keeps its version until it is answered; only its start gives it one.
Tests == \A q \in Requests : pc'[q] \in LiveTestPc =>
             pc[q] \in LiveTestPc /\ rFlow'[q] = rFlow[q] /\ rVersion'[q] = rVersion[q]

LEMMA TestKinds ==
  FlowShape /\ [Next]_vars =>
      Tests \/ \E o \in Requests, f \in TestedFlows, pinned \in 0 .. MaxVersion :
                   StartLiveTest(o, f, pinned) /\ UNCHANGED versionStatus
  <1> SUFFICES ASSUME FlowShape, [Next]_vars
               PROVE  Tests \/ \E o \in Requests, f \in TestedFlows, pinned \in 0 .. MaxVersion :
                                   StartLiveTest(o, f, pinned) /\ UNCHANGED versionStatus
      OBVIOUS
  <1> USE DEF FlowShape, LocalsShape, Tests, LiveTestPc
  <1>1. ASSUME NEW o \in Requests, EnsureAbandonFlow(o) PROVE Tests
      BY <1>1 DEF EnsureAbandonFlow, Enter
  <1>2. ASSUME NEW o \in Requests, CreateFlow(o) \/ CreateDraft(o) PROVE Tests
      BY <1>2 DEF CreateFlow, CreateDraft, FlowGoto, Return, Goto, requestVars
  <1>3. ASSUME NEW o \in Requests, NEW f \in Flows, Publish(o, f) \/ Pause(o, f) \/ Archive(o, f) PROVE Tests
      BY <1>3 DEF Publish, Pause, Archive, Enter
  <1>4. ASSUME NEW o \in Requests, GetFlowDraft(o) \/ ReadNextVersion(o) PROVE Tests
      BY <1>4 DEF GetFlowDraft, ReadNextVersion, Return, Goto
  <1>5. ASSUME NEW o \in Requests, SaveFlowVersion(o) PROVE Tests
      BY <1>5 DEF SaveFlowVersion, FlowGoto, Return, Goto, requestVars
  <1>6. ASSUME NEW o \in Requests, HookStep(o), UNCHANGED flowVars PROVE Tests
      BY <1>6, HookStepGoes DEF flowVars, requestVars, HookPc, EnsurePc, RotatePc
  <1>7. ASSUME NEW o \in Requests, ActivateRoute(o) \/ RecordHook(o) \/ PauseAfterFailure(o) PROVE Tests
      BY <1>7 DEF ActivateRoute, RecordHook, PauseAfterFailure, FlowGoto, Return, Goto, requestVars
  <1>8. ASSUME NEW o \in Requests, PauseCheck(o) PROVE Tests
      BY <1>8 DEF PauseCheck, Return, Goto
  <1>9. ASSUME NEW o \in Requests, PauseInputFlow(o) \/ SetFlowStatus(o) PROVE Tests
      BY <1>9 DEF PauseInputFlow, SetFlowStatus, FlowGoto, Return, Goto, requestVars
  <1>10. ASSUME NEW o \in Requests, CheckLiveVersion(o) \/ AcceptLiveTest(o) PROVE Tests
      BY <1>10 DEF CheckLiveVersion, AcceptLiveTest, FlowGoto, Return, Goto, requestVars
  <1>11. ASSUME NEW f \in Flows, NEW g \in Drafts, SaveDraft(f, g) PROVE Tests
      BY <1>11 DEF SaveDraft, hookVars, requestVars
  <1>12. ASSUME NEW h \in Handlers, HandlerStep(h) PROVE Tests
      BY <1>12 DEF HandlerStep, flowVars, requestVars
  <1>13. CASE Crash
      BY <1>13 DEF Crash, FlowCrash, HookCrash
  <1>14. CASE UNCHANGED vars
      BY <1>14 DEF vars, hookVars, flowVars, requestVars
  <1>15. CASE ConnectionStep
      BY <1>15 DEF ConnectionStep, DisableConnection, UpdateConnectionStatus, connectionRest, requestVars
  <1>16. QED
      BY <1>1, <1>2, <1>3, <1>4, <1>5, <1>6, <1>7, <1>8, <1>9, <1>10, <1>11, <1>12, <1>13, <1>14, <1>15
      DEF Next, RequestStep, LiveTestStep, flowRows

LEMMA StoredStep ==
  FlowShape /\ HandlerInv /\ ExecutedStored /\ TestedStored /\ [Next]_vars => ExecutedStored' /\ TestedStored'
  <1> SUFFICES ASSUME FlowShape, HandlerInv, ExecutedStored, TestedStored, [Next]_vars
               PROVE  ExecutedStored' /\ TestedStored'
      OBVIOUS
  <1>1. Stays
      BY VersionsStay
  <1>2. \A f \in Flows : Stored(f) \subseteq Stored(f)'
      BY <1>1 DEF Stored, Stays
  <1>3. TestedStored'
    <2>1. CASE Tests
      <3> SUFFICES ASSUME NEW q \in Requests, pc'[q] \in LiveTestPc
                   PROVE  rVersion'[q] \in Stored(rFlow[q])'
          BY DEF TestedStored, Stored
      <3>1. PICK f \in Flows : f = rFlow'[q] /\ rVersion'[q] \in Stored(f)
          BY <2>1 DEF Tests, TestedStored, FlowShape, LocalsShape
      <3>2. QED
          BY <1>2, <3>1 DEF Stored
    <2>2. ASSUME NEW o \in Requests, NEW f \in TestedFlows, NEW pinned \in 0 .. MaxVersion,
                 StartLiveTest(o, f, pinned), UNCHANGED versionStatus
          PROVE  TestedStored'
      <3>1. PICK v \in Stored(f) : rVersion' = [rVersion EXCEPT ![o] = v]
          BY <2>2 DEF StartLiveTest
      <3>2. /\ rFlow' = [rFlow EXCEPT ![o] = f] /\ \A q \in Requests \ {o} : pc'[q] = pc[q]
          BY <2>2 DEF StartLiveTest, Goto, FlowShape, LocalsShape
      <3>3. \A q \in Requests \ {o} : pc[q] \in LiveTestPc => rVersion[q] \in Stored(rFlow[q])
          BY DEF TestedStored
      <3>4. QED
          BY <2>2, <3>1, <3>2, <3>3 DEF TestedStored, Stored, FlowShape, LocalsShape
    <2>3. QED
        BY <2>1, <2>2, TestKinds
  <1>4. ASSUME UNCHANGED executions PROVE ExecutedStored'
      BY <1>2, <1>4 DEF ExecutedStored, Stored
  <1>5. ASSUME NEW o \in Requests, LiveTestStep(o) PROVE ExecutedStored'
    <2>1. CASE UNCHANGED executions
        BY <1>4, <2>1
    <2>2. CASE /\ pc[o] = "liveAccept"
               /\ AcceptInboundEvent(<<BehaviorOf[rFlow[o]], LiveTest>>, LiveTest, <<LiveTest, rFlow[o], rVersion[o]>>)
      <3>1. rFlow[o] \in Flows /\ rVersion[o] \in Stored(rFlow[o])
          BY <2>2 DEF TestedStored, LiveTestPc, FlowShape, LocalsShape
      <3>2. QED
          BY <1>1, <2>2, <3>1, AcceptedStored
    <2>3. QED
        BY <1>5, <2>1, <2>2, LiveTestAdds
  <1>6. ASSUME NEW h \in Handlers, HandlerStep(h) PROVE ExecutedStored'
    <2>1. ASSUME NEW p \in Newest(h), hPc[h] = "accept", Accept(h, p) PROVE ExecutedStored'
      <3>1. HandlerOK(h) /\ hRoute[h] \in Routes
          BY DEF HandlerInv, HandlerTypes
      <3>2. hRoute[h] \in hListed[h]
          BY <2>1, <3>1 DEF HandlerOK
      <3>3. hRoute[h][1] \in Flows /\ hRoute[h][2] \in Stored(hRoute[h][1])
          BY <3>1, <3>2 DEF HandlerOK, Routes, Stored
      <3>4. QED
          BY <1>1, <2>1, <3>3, AcceptedStored DEF Accept
    <2>2. CASE UNCHANGED executions
        BY <1>4, <2>2
    <2>3. QED
        BY <1>6, <2>1, <2>2
        DEF HandlerStep, Deliver, ListRoutes, VerifyRoutes, Refuse, TakeRoute, CheckVersion, AcceptPayload, HandlerFails, accepted
  <1>7. CASE Crash
    <2>1. UNCHANGED executions
        BY <1>7 DEF Crash, accepted
    <2>2. QED
        BY <1>3, <1>4, <2>1
  <1>8. QED
      BY <1>3, <1>4, <1>5, <1>6, <1>7, AcceptKinds

\* The token a delivery was sent with.
SentTokens == hToken \in [Handlers -> Refs \cup {NoRef}]

LEMMA SentTokensStep == HookTypes /\ SentTokens /\ [Next]_vars => SentTokens'
  <1> SUFFICES ASSUME HookTypes, SentTokens, [Next]_vars PROVE SentTokens'
      OBVIOUS
  <1>1. UNCHANGED hToken => SentTokens'
      BY DEF SentTokens
  <1>2. ASSUME NEW h \in Handlers, HandlerStep(h) PROVE SentTokens'
    <2>1. UNCHANGED hToken \/ \E t \in {gitlabToken, NoRef} : hToken' = [hToken EXCEPT ![h] = t]
        BY <1>2 DEF HandlerStep, Deliver, ListRoutes, VerifyRoutes, Refuse, TakeRoute, CheckVersion, AcceptPayload, HandlerFails
    <2>2. QED
        BY <1>1, <2>1 DEF SentTokens, HookTypes
  <1>3. ASSUME NEW o \in Requests, LiveTestStep(o) PROVE SentTokens'
      BY <1>1, <1>3 DEF LiveTestStep, handlerVars
  <1>4. CASE Crash
      BY <1>4 DEF Crash, SentTokens
  <1>5. CASE UNCHANGED <<handlerVars, events, executions>>
      BY <1>1, <1>5 DEF handlerVars
  <1>6. QED
      BY <1>2, <1>3, <1>4, <1>5, AcceptKinds

\* Only the disable and the end of an onboarding write the status of the Connection.
ConnectionTypes == connectionStatus \in {"active", "disabled"}

LEMMA ConnectionTypesStep == ConnectionTypes /\ [Next]_vars => ConnectionTypes'
  <1> SUFFICES ASSUME ConnectionTypes, [Next]_vars PROVE ConnectionTypes'
      OBVIOUS
  <1>1. CASE UNCHANGED connectionStatus
      BY <1>1 DEF ConnectionTypes
  <1>2. CASE ConnectionStep
      BY <1>2 DEF ConnectionStep, DisableConnection, UpdateConnectionStatus, ConnectionTypes
  <1>3. ASSUME NEW o \in Requests, RequestStep(o) PROVE UNCHANGED connectionStatus
    <2>1. CASE HookStep(o) /\ UNCHANGED flowVars
        BY <2>1 DEF flowVars
    <2>2. ASSUME NEW f \in Flows, Publish(o, f) \/ Pause(o, f) \/ Archive(o, f) PROVE UNCHANGED connectionStatus
        BY <2>2 DEF Publish, Pause, Archive, hookRest
    <2>3. QED
        BY <1>3, <2>1, <2>2
        DEF RequestStep, EnsureAbandonFlow, CreateFlow, CreateDraft, GetFlowDraft, ReadNextVersion, SaveFlowVersion,
            ActivateRoute, RecordHook, PauseAfterFailure, PauseCheck, PauseInputFlow, SetFlowStatus, hookRest
  <1>4. ASSUME NEW o \in Requests, LiveTestStep(o) PROVE UNCHANGED connectionStatus
      BY <1>4 DEF LiveTestStep, hookRest
  <1>5. ASSUME NEW f \in Flows, NEW g \in Drafts, SaveDraft(f, g) PROVE UNCHANGED connectionStatus
      BY <1>5 DEF SaveDraft
  <1>6. ASSUME NEW h \in Handlers, HandlerStep(h) PROVE UNCHANGED connectionStatus
      BY <1>6 DEF HandlerStep, flowVars
  <1>7. ASSUME Crash \/ UNCHANGED vars PROVE UNCHANGED connectionStatus
      BY <1>7 DEF Crash, FlowCrash, vars, flowVars
  <1>8. QED
      BY <1>1, <1>2, <1>3, <1>4, <1>5, <1>6, <1>7 DEF Next

ControlRest ==
    /\ ConnectionTypes
    /\ faults \in 0 .. MaxFaults
    /\ HookTypes /\ RequestTypes /\ SentTokens /\ ExecutedStored /\ TestedStored

(***************************************************************************)
(* Types of the control plane and of ingress.  The part that is not the    *)
(* shape of a row: an execution names a version that is stored, also when  *)
(* it comes from a live test or of a route that was read before the Flow   *)
(* was published again, paused or archived (AcceptInboundEvent refers to   *)
(* flow_versions).                                                         *)
(***************************************************************************)
THEOREM ControlTypes == Spec => []ControlTypeOK
  <1>1. Init => ControlRest
    <2> SUFFICES ASSUME Init PROVE ControlRest
        OBVIOUS
    <2>1. "idle" \in RequestPc /\ "idle" \notin LiveTestPc
        BY DEF RequestPc, LiveTestPc
    <2>2. \A f \in Flows : Cardinality(draft[f]) <= 1
        BY FS_EmptySet DEF Init, FlowInit
    <2>3. RequestTypes /\ TestedStored
        BY <2>1, <2>2 DEF Init, HookInit, FlowInit, RequestTypes, TestedStored
    <2>4. HookTypes /\ SentTokens /\ ExecutedStored /\ faults \in 0 .. MaxFaults
      <3>1. hookSuspect = FALSE
          BY DEF Init, HookInit
      <3>2. HookTypes
          BY <3>1 DEF Init, HookInit, HookTypes
      <3>3. SentTokens /\ ExecutedStored
          BY DEF Init, SentTokens, ExecutedStored
      <3>4. faults \in 0 .. MaxFaults
          BY HookConstants DEF Init, HookInit
      <3>5. QED
          BY <3>2, <3>3, <3>4
    <2>5. ConnectionTypes
        BY DEF Init, FlowInit, ConnectionTypes
    <2>6. QED
        BY <2>3, <2>4, <2>5 DEF ControlRest
  <1>2. PublicationInv /\ HandlerInv /\ TokenInv /\ ControlRest /\ [Next]_vars => ControlRest'
    <2> SUFFICES ASSUME PublicationInv, HandlerInv, TokenInv, ControlRest, [Next]_vars PROVE ControlRest'
        OBVIOUS
    <2>1. faults' \in 0 .. MaxFaults
        BY HookConstants, FaultsCounted DEF ControlRest, Fault
    <2>2. HookTypes'
        BY HookTypesStep DEF PublicationInv, TokenInv, ControlRest
    <2>3. RequestTypes'
        BY RequestTypesStep DEF PublicationInv, ControlRest
    <2>4. SentTokens'
        BY SentTokensStep DEF ControlRest
    <2>5. ExecutedStored' /\ TestedStored'
        BY StoredStep DEF PublicationInv, ControlRest
    <2>6. ConnectionTypes'
        BY ConnectionTypesStep DEF ControlRest
    <2>7. QED
        BY <2>1, <2>2, <2>3, <2>4, <2>5, <2>6 DEF ControlRest
  <1>3. PublicationInv /\ HandlerInv /\ TokenInv /\ ControlRest => ControlTypeOK
    <2> SUFFICES ASSUME PublicationInv, HandlerInv, TokenInv, ControlRest PROVE ControlTypeOK
        OBVIOUS
    <2>1. HookTypeOK
        BY DEF PublicationInv, TokenInv, ControlRest, HookShape, OldShape, HookTypes, HookTypeOK
    <2>2. FlowTypeOK
        BY <2>1 DEF PublicationInv, ControlRest, FlowShape, LocalsShape, RowsShape, RequestTypes, ConnectionTypes, FlowTypeOK
    <2>3. QED
        BY <2>2 DEF HandlerInv, HandlerTypes, ControlRest, SentTokens, ExecutedStored, ControlTypeOK
  <1>4. PublicationInv /\ TokenInv /\ [Next]_vars => TokenInv'
      BY TokenInvStep DEF PublicationInv
  <1>5. QED
      BY <1>1, <1>2, <1>3, <1>4, TokenInvInit, IngressInductive, PTL DEF Spec
=============================================================================
