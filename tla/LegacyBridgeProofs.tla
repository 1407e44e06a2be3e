------------------------- MODULE LegacyBridgeProofs -------------------------
(***************************************************************************)
(* Theorems about LegacyBridge, for every set of Issues, archives,         *)
(* deliveries and administrators, and every number of cards and restarts.  *)
(***************************************************************************)
EXTENDS LegacyBridge, LegacyAdminProofs, WellFoundedInduction

PublishLocals ==
    [pc : PublishPc, issue : Issue, target : Target \cup {DefaultTarget, Unmapped}, card : 0 .. MaxCards]
ArchiveLocals == [pc : ArchivePc, archive : Archive, card : 0 .. MaxCards, todo : SUBSET Issue]
HandlerLocals == {Free} \cup PublishLocals \cup ArchiveLocals

RowOf == [key : Keys, state : {"processing", "created", "error"}, card : 0 .. MaxCards]
CardOf == [key : Keys, done : BOOLEAN]

\* From the claim on a delivery knows where its card goes.
Targeted(h) == handler[h].pc \in {"claim", "create", "created", "failed", "link"}

\* The delivery that has claimed a row and not yet finished it.
Working(h) == handler[h].pc \in {"create", "created", "failed"}

BridgeTypes ==
    /\ TypeOK /\ HasToken
    /\ \A h \in Handlers : Targeted(h) => handler[h].target # Unmapped

\* A stable key has one row, and one delivery at most is working on it.
OneClaim ==
    /\ \A m, n \in DOMAIN rows : rows[m].key = rows[n].key => m = n
    /\ \A h \in Handlers :
         Working(h) => \E n \in DOMAIN rows : rows[n].key = Key(h) /\ rows[n].state = "processing"
    /\ \A g, h \in Handlers : Working(g) /\ Working(h) /\ Key(g) = Key(h) => g = h

Count(key) == Cardinality(CardsOf(key))

\* A row that may be tried again, or is about to, has lost all the cards of its key.
Counted ==
    /\ \A m \in DOMAIN cards : \E n \in DOMAIN rows : rows[n].key = cards[m].key
    /\ \A n \in DOMAIN rows :
         /\ Count(rows[n].key) <= 1 + lost
         /\ rows[n].state = "error" => Count(rows[n].key) <= lost
    /\ \A h \in Handlers : handler[h].pc \in {"create", "failed"} => Count(Key(h)) <= lost

\* A finished row names a card of its own key.
Named ==
    /\ \A n \in DOMAIN rows :
         rows[n].state = "created" =>
             rows[n].card \in DOMAIN cards /\ cards[rows[n].card].key = rows[n].key
    /\ \A h \in Handlers :
         handler[h].pc = "created" =>
             handler[h].card \in DOMAIN cards /\ cards[handler[h].card].key = Key(h)

\* An archive push works on a card of its change, and closes Issues of its change only after
\* that card is done.
Archives(h) ==
    LET a == handler[h].archive
        n == handler[h].card
    IN  /\ handler[h].pc \in {"done", "list", "close"} =>
             n \in DOMAIN cards /\ cards[n].key.project = a.project /\ cards[n].key.change = a.change
        /\ handler[h].pc \in {"list", "close"} => cards[n].done
        /\ handler[h].pc = "close" =>
             \A i \in handler[h].todo :
                 Publication[i].project = a.project /\ Publication[i].change = a.change

BridgeInv ==
    /\ BridgeTypes /\ OneClaim /\ Counted /\ Named
    /\ \A h \in Handlers : Archives(h)
    /\ ClosedAfterDone

USE DEF tables, multica

-----------------------------------------------------------------------------
(***************************************************************************)
(* The locals of a delivery.                                               *)
(***************************************************************************)
\* A delivery of a publication has an Issue, a target and a card; one of an archive push has
\* an archive, a card and Issues to close.
LEMMA LocalsOf ==
  ASSUME TypeOK, NEW h \in Handlers
  PROVE  /\ handler[h] \in HandlerLocals
         /\ handler[h].pc \in PublishPc => handler[h] \in PublishLocals
         /\ handler[h].pc \in ArchivePc => handler[h] \in ArchiveLocals
  BY DEF TypeOK, HandlerLocals, PublishLocals, ArchiveLocals, Free, PublishPc, ArchivePc

\* The key of a delivery that knows its target.
LEMMA KeyOf ==
  ASSUME BridgeTypes, NEW h \in Handlers, Targeted(h)
  PROVE  Key(h) \in Keys
  <1>1. handler[h] \in PublishLocals /\ handler[h].target \in Target \cup {DefaultTarget}
      BY LocalsOf DEF BridgeTypes, Targeted, PublishPc, PublishLocals
  <1>2. QED
      BY <1>1 DEF Key, stableKeyOf, Keys, PublishLocals

\* Deliveries change one at a time.
LEMMA HandlerStep ==
  ASSUME TypeOK, NEW h \in Handlers, NEW l \in HandlerLocals, handler' = [handler EXCEPT ![h] = l]
  PROVE  /\ handler' \in [Handlers -> HandlerLocals]
         /\ handler'[h] = l
         /\ \A g \in Handlers : g # h => handler'[g] = handler[g]
  BY DEF TypeOK, HandlerLocals, PublishLocals, ArchiveLocals

\* Goto and Finish.
LEMMA GotoStep ==
  ASSUME TypeOK, NEW h \in Handlers, NEW pc,
         \/ handler[h] \in PublishLocals /\ pc \in PublishPc
         \/ handler[h] \in ArchiveLocals /\ pc \in ArchivePc,
         Goto(h, pc)
  PROVE  /\ handler' \in [Handlers -> HandlerLocals]
         /\ handler'[h] = [handler[h] EXCEPT !.pc = pc]
         /\ \A g \in Handlers : g # h => handler'[g] = handler[g]
  <1>1. [handler[h] EXCEPT !.pc = pc] \in HandlerLocals
      BY DEF HandlerLocals, PublishLocals, ArchiveLocals
  <1>2. handler' = [handler EXCEPT ![h] = [handler[h] EXCEPT !.pc = pc]]
      BY DEF Goto
  <1>3. QED
      BY <1>1, <1>2, HandlerStep

LEMMA FinishStep ==
  ASSUME TypeOK, NEW h \in Handlers, Finish(h)
  PROVE  /\ handler' \in [Handlers -> HandlerLocals]
         /\ handler'[h] = Free
         /\ \A g \in Handlers : g # h => handler'[g] = handler[g]
  BY HandlerStep DEF Finish, HandlerLocals

-----------------------------------------------------------------------------
(***************************************************************************)
(* Types.                                                                  *)
(***************************************************************************)
\* The types of the bridge's own variables.
OwnTypes ==
    /\ rows \in Seq(RowOf) /\ cards \in Seq(CardOf)
    /\ links \subseteq Issue /\ closed \subseteq Issue
    /\ lost \in 0 .. MaxLost
    /\ handler \in [Handlers -> HandlerLocals]

LEMMA TypesSplit == TypeOK <=> AdminTypeOK /\ OwnTypes
  BY DEF TypeOK, OwnTypes, RowOf, CardOf, HandlerLocals, PublishLocals, ArchiveLocals

\* The administration runs on its own beside the deliveries.
LEMMA AdminBeside == [Next]_vars => [Step]_adminVars
  BY DEF Next, Step, Crash, Deliver, ServeHTTP, CheckAllowed, ChooseMapping, LookUpMapping, Claim,
     ClaimFails, createBacklogIssue, createFails, MarkCreated, MarkError, InsertIssueLink,
     InsertIssueLinkFails, LatestCreatedIssue, updateIssueStatus, ListIssueLinks, CloseIssue, vars

\* A row, where it is and what it holds.
LEMMA RowAt ==
  ASSUME rows \in Seq(RowOf), NEW n \in DOMAIN rows
  PROVE  /\ n \in 1 .. Len(rows) /\ rows[n] \in RowOf
         /\ rows[n].key \in Keys /\ rows[n].card \in 0 .. MaxCards
  <1>1. n \in 1 .. Len(rows) /\ rows[n] \in RowOf
      BY ElementOfSeq, LenProperties
  <1>2. QED
      BY <1>1 DEF RowOf

\* A row that changes its state keeps its key.
LEMMA RowChange ==
  ASSUME rows \in Seq(RowOf), NEW n \in DOMAIN rows, NEW s \in {"processing", "created", "error"},
         NEW c \in 0 .. MaxCards,
         \/ rows' = [rows EXCEPT ![n].state = s] /\ c = rows[n].card
         \/ rows' = [rows EXCEPT ![n].state = s, ![n].card = c]
  PROVE  /\ rows' \in Seq(RowOf) /\ DOMAIN rows' = DOMAIN rows
         /\ rows'[n].state = s /\ rows'[n].card = c /\ rows'[n].key = rows[n].key
         /\ \A m \in DOMAIN rows : m # n => rows'[m] = rows[m]
  <1> DEFINE r == [rows[n] EXCEPT !.state = s, !.card = c]
  <1>1. n \in 1 .. Len(rows) /\ rows[n] \in RowOf
      BY ElementOfSeq, LenProperties
  <1>2. r \in RowOf /\ r.state = s /\ r.card = c /\ r.key = rows[n].key
      BY <1>1 DEF RowOf
  <1>3. rows' = [rows EXCEPT ![n] = r]
      BY <1>1 DEF RowOf
  <1> HIDE DEF r
  <1>4. rows' \in Seq(RowOf) /\ Len(rows') = Len(rows)
        /\ \A m \in 1 .. Len(rows) : rows'[m] = IF m = n THEN r ELSE rows[m]
      BY <1>1, <1>2, <1>3, ExceptSeq
  <1>5. DOMAIN rows' = DOMAIN rows /\ DOMAIN rows = 1 .. Len(rows)
      BY <1>4, LenProperties
  <1>6. QED
      BY <1>1, <1>2, <1>4, <1>5

\* A new row, or a new card, is the last one.
LEMMA Appended ==
  ASSUME NEW S, NEW s \in Seq(S), NEW x \in S
  PROVE  /\ Append(s, x) \in Seq(S)
         /\ Len(Append(s, x)) = Len(s) + 1 /\ Len(s) \in Nat
         /\ DOMAIN s = 1 .. Len(s) /\ DOMAIN Append(s, x) = 1 .. (Len(s) + 1)
         /\ Append(s, x)[Len(s) + 1] = x
         /\ \A n \in DOMAIN s : Append(s, x)[n] = s[n]
  BY AppendProperties, LenProperties

\* A card that is set done keeps its key.
LEMMA CardDone ==
  ASSUME cards \in Seq(CardOf), NEW n, cards' = [cards EXCEPT ![n].done = TRUE] \/ cards' = cards
  PROVE  /\ cards' \in Seq(CardOf) /\ DOMAIN cards' = DOMAIN cards
         /\ \A m \in DOMAIN cards : cards'[m].key = cards[m].key /\ (cards[m].done => cards'[m].done)
         /\ n \in DOMAIN cards /\ cards' = [cards EXCEPT ![n].done = TRUE] => cards'[n].done
  <1>1. CASE n \in DOMAIN cards /\ cards' = [cards EXCEPT ![n].done = TRUE]
    <2> DEFINE r == [cards[n] EXCEPT !.done = TRUE]
    <2>1. n \in 1 .. Len(cards) /\ cards[n] \in CardOf
        BY <1>1, ElementOfSeq, LenProperties
    <2>2. r \in CardOf /\ r.done = TRUE /\ r.key = cards[n].key
        BY <2>1 DEF CardOf
    <2>3. cards' = [cards EXCEPT ![n] = r]
        BY <1>1
    <2> HIDE DEF r
    <2>4. cards' \in Seq(CardOf) /\ Len(cards') = Len(cards)
          /\ \A m \in 1 .. Len(cards) : cards'[m] = IF m = n THEN r ELSE cards[m]
        BY <2>1, <2>2, <2>3, ExceptSeq
    <2>5. DOMAIN cards' = DOMAIN cards /\ DOMAIN cards = 1 .. Len(cards)
        BY <2>4, LenProperties
    <2>6. QED
        BY <2>1, <2>2, <2>4, <2>5
  <1>2. CASE n \notin DOMAIN cards /\ cards' = [cards EXCEPT ![n].done = TRUE]
    <2>1. cards' = cards
        BY <1>2, LenProperties
    <2>2. QED
        BY <1>2, <2>1
  <1>3. QED
      BY <1>1, <1>2
\* A set of row numbers that is not empty has a last one.
LEMMA LastOf ==
  ASSUME NEW k \in Nat, NEW S \in SUBSET (1 .. k), S # {}
  PROVE  Max(S) \in S
  <1> DEFINE T == {k - x : x \in S}
  <1>1. T \subseteq Nat /\ T # {}
    <2>1. \A x \in S : x \in Nat /\ x <= k /\ k - x \in Nat
        OBVIOUS
    <2>2. QED
        BY <2>1
  <1>2. PICK m \in T : \A y \in T : ~(<<y, m>> \in OpToRel(<, Nat))
      BY <1>1, NatLessThanWellFounded, WFMin
  <1>3. PICK x \in S : m = k - x
      BY <1>2
  <1>4. \A y \in S : y <= x
    <2>1. TAKE y \in S
    <2>2. k - y \in T /\ k - y \in Nat /\ m \in Nat
        BY <1>1, <1>2
    <2>3. ~(k - y < m)
        BY <1>2, <2>2 DEF OpToRel
    <2>4. QED
        BY <1>3, <2>2, <2>3
  <1>5. QED
      BY <1>3, <1>4 DEF Max

\* The card of the newest finished row of a change is named by a finished row of that change.
LEMMA NewestIsCreated ==
  ASSUME rows \in Seq(RowOf), NEW a, Newest(a) # NoCard
  PROVE  \E n \in DOMAIN rows :
           /\ rows[n].state = "created" /\ rows[n].card = Newest(a) /\ Newest(a) \in 0 .. MaxCards
           /\ rows[n].key.project = a.project /\ rows[n].key.change = a.change
  <1> DEFINE found == {n \in DOMAIN rows : rows[n].state = "created" /\ rows[n].key.project = a.project
                                          /\ rows[n].key.change = a.change}
  <1>1. found # {} /\ Newest(a) = rows[Max(found)].card
      BY DEF Newest
  <1>2. found \in SUBSET (1 .. Len(rows)) /\ Len(rows) \in Nat
      BY LenProperties
  <1>3. Max(found) \in found
      BY <1>1, <1>2, LastOf
  <1>4. rows[Max(found)].card \in 0 .. MaxCards
      BY <1>3, RowAt
  <1>5. QED
      BY <1>1, <1>3, <1>4

LEMMA TypesInit == Init => BridgeTypes
  <1> SUFFICES ASSUME Init PROVE BridgeTypes
      OBVIOUS
  <1>1. AdminTypeOK
      BY AdminTypeInit DEF Init
  <1>2. HasToken
      BY RestIsLocal DEF Init, AdminInit, HasToken
  <1>3. OwnTypes
      BY LegacyConstants DEF Init, OwnTypes, HandlerLocals
  <1>4. QED
      BY <1>1, <1>2, <1>3, TypesSplit DEF BridgeTypes, Targeted, Init, Free

\* Every step of a delivery keeps the types, and is about that delivery only.
LEMMA DeliverTypes ==
  ASSUME BridgeTypes, NEW h \in Handlers, Deliver(h)
  PROVE  /\ OwnTypes'
         /\ \A g \in Handlers : g # h => handler'[g] = handler[g]
         /\ Targeted(h)' => handler'[h].target # Unmapped
  <1> DEFINE L == handler' \in [Handlers -> HandlerLocals]
             Others == \A g \in Handlers : g # h => handler'[g] = handler[g]
             Aimed == Targeted(h)' => handler'[h].target # Unmapped
  <1> USE LegacyConstants
  <1>1. /\ TypeOK /\ OwnTypes /\ AdminTypeOK
        /\ handler[h].pc \in PublishPc => handler[h] \in PublishLocals
        /\ handler[h].pc \in ArchivePc => handler[h] \in ArchiveLocals
        /\ Targeted(h) => handler[h].target # Unmapped
      BY TypesSplit, LocalsOf DEF BridgeTypes
  <1>2. CASE ServeHTTP(h)
    <2>1. PICK l \in HandlerLocals : handler' = [handler EXCEPT ![h] = l] /\ l.pc \in {"allow", "allowed"}
      <3>1. ASSUME NEW i \in Issue, handler' = [handler EXCEPT ![h] = Publishing("allow", i, Unmapped, NoCard)]
            PROVE \E l \in HandlerLocals : handler' = [handler EXCEPT ![h] = l] /\ l.pc \in {"allow", "allowed"}
        <4>1. Publishing("allow", i, Unmapped, NoCard) \in PublishLocals
            BY DEF Publishing, PublishLocals, PublishPc, NoCard
        <4>2. Publishing("allow", i, Unmapped, NoCard).pc = "allow"
            BY DEF Publishing
        <4>3. QED
            BY <3>1, <4>1, <4>2 DEF HandlerLocals
      <3>2. ASSUME NEW a \in Archive, handler' = [handler EXCEPT ![h] = Archiving("allowed", a, NoCard, {})]
            PROVE \E l \in HandlerLocals : handler' = [handler EXCEPT ![h] = l] /\ l.pc \in {"allow", "allowed"}
        <4>1. Archiving("allowed", a, NoCard, {}) \in ArchiveLocals
            BY DEF Archiving, ArchiveLocals, ArchivePc, NoCard
        <4>2. Archiving("allowed", a, NoCard, {}).pc = "allowed"
            BY DEF Archiving
        <4>3. QED
            BY <3>2, <4>1, <4>2 DEF HandlerLocals
      <3>3. QED
          BY <1>2, <3>1, <3>2 DEF ServeHTTP
    <2>2. L /\ Others /\ Aimed
        BY <1>1, <2>1, HandlerStep DEF Targeted
    <2>3. QED
        BY <1>1, <1>2, <2>2 DEF ServeHTTP, OwnTypes
  <1>3. CASE CheckAllowed(h)
    <2>1. L /\ Others /\ handler'[h].pc \in {"map", "latest", "idle"}
      <3>1. CASE handler[h].pc = "allow" /\ Goto(h, "map")
        <4>1. handler[h] \in PublishLocals /\ "map" \in PublishPc
            BY <1>1, <3>1 DEF PublishPc
        <4>2. L /\ Others /\ handler'[h] = [handler[h] EXCEPT !.pc = "map"]
            BY <1>1, <3>1, <4>1, GotoStep
        <4>3. QED
            BY <4>1, <4>2 DEF PublishLocals
      <3>2. CASE handler[h].pc = "allowed" /\ Goto(h, "latest")
        <4>1. handler[h] \in ArchiveLocals /\ "latest" \in ArchivePc
            BY <1>1, <3>2 DEF ArchivePc
        <4>2. L /\ Others /\ handler'[h] = [handler[h] EXCEPT !.pc = "latest"]
            BY <1>1, <3>2, <4>1, GotoStep
        <4>3. QED
            BY <4>1, <4>2 DEF ArchiveLocals
      <3>3. CASE Finish(h)
          BY <1>1, <3>3, FinishStep DEF Free
      <3>4. QED
          BY <1>3, <3>1, <3>2, <3>3 DEF CheckAllowed
    <2>2. QED
        BY <1>1, <1>3, <2>1 DEF CheckAllowed, OwnTypes, Targeted
  <1>4. CASE ChooseMapping(h)
    <2>1. handler[h] \in PublishLocals
        BY <1>1, <1>4 DEF ChooseMapping, PublishPc
    <2>2. PICK l \in HandlerLocals : /\ handler' = [handler EXCEPT ![h] = l]
                                     /\ l.pc = "lookup" \/ l.target = DefaultTarget
      <3>1. [handler[h] EXCEPT !.pc = "lookup"] \in PublishLocals
            /\ [handler[h] EXCEPT !.pc = "lookup"].pc = "lookup"
          BY <2>1 DEF PublishLocals, PublishPc
      <3>2. [handler[h] EXCEPT !.pc = "claim", !.target = DefaultTarget] \in PublishLocals
            /\ [handler[h] EXCEPT !.pc = "claim", !.target = DefaultTarget].target = DefaultTarget
          BY <2>1 DEF PublishLocals, PublishPc
      <3>3. QED
          BY <1>4, <3>1, <3>2 DEF ChooseMapping, HandlerLocals
    <2>3. L /\ Others /\ Aimed
        BY <1>1, <2>2, HandlerStep, AdminConstants DEF Targeted
    <2>4. QED
        BY <1>1, <1>4, <2>3 DEF ChooseMapping, OwnTypes
  <1>5. CASE LookUpMapping(h)
    <2> DEFINE t == config.target[Publication[handler[h].issue].project]
    <2>1. handler[h] \in PublishLocals
        BY <1>1, <1>5 DEF LookUpMapping, PublishPc
    <2>2. t \in Target \cup {DefaultTarget, Unmapped}
        BY <1>1, <2>1 DEF AdminTypeOK, Config, PublishLocals
    <2> HIDE DEF t
    <2>3. PICK l \in HandlerLocals : /\ handler' = [handler EXCEPT ![h] = l]
                                     /\ l.pc = "idle" \/ l.target # Unmapped
      <3>1. CASE Missing(t)
        <4>1. handler' = [handler EXCEPT ![h] = Free]
            BY <1>5, <3>1 DEF LookUpMapping, t
        <4>2. Free \in HandlerLocals /\ Free.pc = "idle"
            BY DEF HandlerLocals, Free
        <4>3. QED
            BY <4>1, <4>2
      <3>2. CASE ~Missing(t)
        <4>1. [handler[h] EXCEPT !.pc = "claim", !.target = t] \in PublishLocals
              /\ [handler[h] EXCEPT !.pc = "claim", !.target = t].target = t
            BY <2>1, <2>2 DEF PublishLocals, PublishPc
        <4>2. handler' = [handler EXCEPT ![h] = [handler[h] EXCEPT !.pc = "claim", !.target = t]]
            BY <1>5, <3>2 DEF LookUpMapping, t
        <4>3. QED
            BY <3>2, <4>1, <4>2 DEF HandlerLocals, Missing
      <3>3. QED
          BY <3>1, <3>2
    <2>4. L /\ Others /\ Aimed
        BY <1>1, <2>3, HandlerStep DEF Targeted
    <2>5. QED
        BY <1>1, <1>5, <2>4 DEF LookUpMapping, OwnTypes
  <1>6. CASE Claim(h)
    <2>1. handler[h] \in PublishLocals /\ Targeted(h)
        BY <1>1, <1>6 DEF Claim, PublishPc, Targeted
    <2>2. PICK pc \in {"create", "link"} : Goto(h, pc)
        BY <1>6 DEF Claim
    <2>3. L /\ Others /\ Aimed
        BY <1>1, <2>1, <2>2, GotoStep DEF PublishPc, PublishLocals, Targeted
    <2>4. Key(h) \in Keys
        BY <2>1, KeyOf
    <2>5. rows' \in Seq(RowOf)
      <3>1. CASE rows' = Append(rows, [key |-> Key(h), state |-> "processing", card |-> NoCard])
          BY <1>1, <2>4, <3>1, Appended DEF OwnTypes, RowOf, NoCard
      <3>2. ASSUME NEW n \in Row(Key(h)), rows' = [rows EXCEPT ![n].state = "processing"] PROVE rows' \in Seq(RowOf)
        <4>1. n \in DOMAIN rows /\ rows[n].card \in 0 .. MaxCards
            BY <1>1, RowAt DEF Row, OwnTypes
        <4>2. QED
            BY <1>1, <3>2, <4>1, RowChange DEF OwnTypes
      <3>3. CASE rows' = rows
          BY <1>1, <3>3 DEF OwnTypes
      <3>4. QED
          BY <1>6, <3>1, <3>2, <3>3 DEF Claim
    <2>6. QED
        BY <1>1, <1>6, <2>3, <2>5 DEF Claim, OwnTypes
  <1>7. CASE ClaimFails(h) \/ InsertIssueLinkFails(h)
    <2>1. L /\ Others /\ handler'[h] = Free
        BY <1>1, <1>7, FinishStep DEF ClaimFails, InsertIssueLinkFails
    <2>2. QED
        BY <1>1, <1>7, <2>1 DEF ClaimFails, InsertIssueLinkFails, OwnTypes, Targeted, Free
  <1>8. CASE createBacklogIssue(h)
    <2>1. handler[h] \in PublishLocals /\ Targeted(h)
        BY <1>1, <1>8 DEF createBacklogIssue, PublishPc, Targeted
    <2>2. Key(h) \in Keys
        BY <2>1, KeyOf
    <2>3. cards' \in Seq(CardOf) /\ Len(cards') \in 0 .. MaxCards
        BY <1>1, <1>8, <2>2, Appended DEF createBacklogIssue, OwnTypes, CardOf
    <2>4. PICK l \in HandlerLocals : handler' = [handler EXCEPT ![h] = l] /\ l.target = handler[h].target
      <3>1. [handler[h] EXCEPT !.pc = "created", !.card = Len(cards')] \in HandlerLocals
            /\ [handler[h] EXCEPT !.pc = "failed"] \in HandlerLocals
          BY <2>1, <2>3 DEF HandlerLocals, PublishLocals, PublishPc
      <3>2. QED
          BY <1>8, <2>1, <3>1 DEF createBacklogIssue, Goto, PublishLocals
    <2>5. L /\ Others /\ Aimed
        BY <1>1, <2>1, <2>4, HandlerStep
    <2>6. QED
        BY <1>1, <1>8, <2>3, <2>5 DEF createBacklogIssue, OwnTypes
  <1>9. CASE createFails(h)
    <2>1. handler[h] \in PublishLocals /\ Targeted(h)
        BY <1>1, <1>9 DEF createFails, PublishPc, Targeted
    <2>2. L /\ Others /\ Aimed
        BY <1>1, <1>9, <2>1, GotoStep DEF createFails, PublishPc, PublishLocals
    <2>3. QED
        BY <1>1, <1>9, <2>2 DEF createFails, OwnTypes
  <1>10. CASE MarkCreated(h)
    <2>1. handler[h] \in PublishLocals /\ Targeted(h)
        BY <1>1, <1>10 DEF MarkCreated, PublishPc, Targeted
    <2>2. PICK l \in HandlerLocals : handler' = [handler EXCEPT ![h] = l] /\ l.target = handler[h].target
      <3>1. [handler[h] EXCEPT !.pc = "link", !.card = NoCard] \in PublishLocals
            /\ [handler[h] EXCEPT !.pc = "link", !.card = NoCard].target = handler[h].target
        <4>1. "link" \in PublishPc /\ NoCard \in 0 .. MaxCards
            BY DEF PublishPc, NoCard
        <4>2. QED
            BY <2>1, <4>1 DEF PublishLocals
      <3>2. handler' = [handler EXCEPT ![h] = [handler[h] EXCEPT !.pc = "link", !.card = NoCard]]
          BY <1>10 DEF MarkCreated
      <3>3. QED
          BY <3>1, <3>2 DEF HandlerLocals
    <2>3. L /\ Others /\ Aimed
        BY <1>1, <2>1, <2>2, HandlerStep
    <2>4. rows' \in Seq(RowOf)
        BY <1>1, <1>10, <2>1, RowChange DEF MarkCreated, Row, OwnTypes, PublishLocals
    <2>5. QED
        BY <1>1, <1>10, <2>3, <2>4 DEF MarkCreated, OwnTypes
  <1>11. CASE MarkError(h)
    <2>1. L /\ Others /\ handler'[h] = Free
        BY <1>1, <1>11, FinishStep DEF MarkError
    <2>2. rows' \in Seq(RowOf)
      <3>1. ASSUME NEW n \in Row(Key(h)), rows' = [rows EXCEPT ![n].state = "error"] PROVE rows' \in Seq(RowOf)
        <4>1. n \in DOMAIN rows /\ rows[n].card \in 0 .. MaxCards
            BY <1>1, RowAt DEF Row, OwnTypes
        <4>2. QED
            BY <1>1, <3>1, <4>1, RowChange DEF OwnTypes
      <3>2. QED
          BY <1>1, <1>11, <3>1 DEF MarkError, OwnTypes
    <2>3. QED
        BY <1>1, <1>11, <2>1, <2>2 DEF MarkError, OwnTypes, Targeted, Free
  <1>12. CASE InsertIssueLink(h)
    <2>1. L /\ Others /\ handler'[h] = Free
        BY <1>1, <1>12, FinishStep DEF InsertIssueLink
    <2>2. handler[h].issue \in Issue
        BY <1>1, <1>12 DEF InsertIssueLink, PublishPc, PublishLocals
    <2>3. QED
        BY <1>1, <1>12, <2>1, <2>2 DEF InsertIssueLink, OwnTypes, Targeted, Free
  <1>13. CASE LatestCreatedIssue(h)
    <2> DEFINE card == Newest(handler[h].archive)
    <2>1. handler[h] \in ArchiveLocals
        BY <1>1, <1>13 DEF LatestCreatedIssue, ArchivePc
    <2>2. CASE card = NoCard
      <3>1. Finish(h)
          BY <1>13, <2>2 DEF LatestCreatedIssue, Finish
      <3>2. L /\ Others /\ handler'[h] = Free
          BY <1>1, <3>1, FinishStep
      <3>3. QED
          BY <1>1, <1>13, <3>2 DEF LatestCreatedIssue, OwnTypes, Targeted, Free
    <2>3. CASE card # NoCard
      <3>1. card \in 0 .. MaxCards
          BY <1>1, <2>3, NewestIsCreated DEF OwnTypes
      <3>2. [handler[h] EXCEPT !.pc = "done", !.card = card] \in ArchiveLocals
            /\ [handler[h] EXCEPT !.pc = "done", !.card = card].pc = "done"
          BY <2>1, <3>1 DEF ArchiveLocals, ArchivePc
      <3>3. handler' = [handler EXCEPT ![h] = [handler[h] EXCEPT !.pc = "done", !.card = card]]
          BY <1>13, <2>3 DEF LatestCreatedIssue
      <3>4. PICK l \in HandlerLocals : handler' = [handler EXCEPT ![h] = l] /\ l.pc = "done"
          BY <3>2, <3>3 DEF HandlerLocals
      <3>5. L /\ Others /\ Aimed
          BY <1>1, <3>4, HandlerStep DEF Targeted
      <3>6. QED
          BY <1>1, <1>13, <3>5 DEF LatestCreatedIssue, OwnTypes
    <2>4. QED
        BY <2>2, <2>3
  <1>14. CASE updateIssueStatus(h)
    <2>1. handler[h] \in ArchiveLocals
        BY <1>1, <1>14 DEF updateIssueStatus, ArchivePc
    <2>2. cards' \in Seq(CardOf)
        BY <1>1, <1>14, CardDone DEF updateIssueStatus, OwnTypes
    <2>3. L /\ Others /\ handler'[h].pc \in {"list", "idle"}
      <3>1. CASE Goto(h, "list")
        <4>1. "list" \in ArchivePc
            BY DEF ArchivePc
        <4>2. L /\ Others /\ handler'[h] = [handler[h] EXCEPT !.pc = "list"]
            BY <1>1, <2>1, <3>1, <4>1, GotoStep
        <4>3. QED
            BY <2>1, <4>2 DEF ArchiveLocals
      <3>2. CASE Finish(h)
          BY <1>1, <3>2, FinishStep DEF Free
      <3>3. QED
          BY <1>14, <3>1, <3>2 DEF updateIssueStatus, LeaveOpen
    <2>4. QED
        BY <1>1, <1>14, <2>2, <2>3 DEF updateIssueStatus, OwnTypes, Targeted
  <1>15. CASE ListIssueLinks(h)
    <2> DEFINE a == handler[h].archive
               todo == {i \in links : Publication[i].project = a.project /\ Publication[i].change = a.change}
    <2>1. handler[h] \in ArchiveLocals /\ todo \in SUBSET Issue
        BY <1>1, <1>15 DEF ListIssueLinks, ArchivePc, OwnTypes
    <2>2. handler' = [handler EXCEPT ![h] = [handler[h] EXCEPT !.pc = "close", !.todo = todo]]
        BY <1>15 DEF ListIssueLinks
    <2> HIDE DEF todo
    <2>3. [handler[h] EXCEPT !.pc = "close", !.todo = todo] \in ArchiveLocals
          /\ [handler[h] EXCEPT !.pc = "close", !.todo = todo].pc = "close"
        BY <2>1 DEF ArchiveLocals, ArchivePc
    <2>4. PICK l \in HandlerLocals : handler' = [handler EXCEPT ![h] = l] /\ l.pc = "close"
        BY <2>2, <2>3 DEF HandlerLocals
    <2>5. L /\ Others /\ Aimed
        BY <1>1, <2>4, HandlerStep DEF Targeted
    <2>6. QED
        BY <1>1, <1>15, <2>5 DEF ListIssueLinks, OwnTypes
  <1>16. CASE CloseIssue(h)
    <2>1. handler[h] \in ArchiveLocals
        BY <1>1, <1>16 DEF CloseIssue, ArchivePc
    <2>2. CASE handler[h].todo = {}
      <3>1. L /\ Others /\ handler'[h] = Free
          BY <1>1, <1>16, <2>2, FinishStep DEF CloseIssue
      <3>2. QED
          BY <1>1, <1>16, <2>2, <3>1 DEF CloseIssue, OwnTypes, Targeted, Free
    <2>3. CASE handler[h].todo # {}
      <3>1. PICK i \in handler[h].todo :
              /\ handler' = [handler EXCEPT ![h].todo = @ \ {i}]
              /\ closed' \in {closed, closed \cup {i}}
          BY <1>16, <2>3 DEF CloseIssue
      <3>2. handler' = [handler EXCEPT ![h] = [handler[h] EXCEPT !.todo = handler[h].todo \ {i}]]
          BY <3>1
      <3>3. /\ i \in Issue
            /\ [handler[h] EXCEPT !.todo = handler[h].todo \ {i}] \in ArchiveLocals
            /\ [handler[h] EXCEPT !.todo = handler[h].todo \ {i}].pc = "close"
          BY <1>16, <2>1 DEF CloseIssue, ArchiveLocals
      <3>4. PICK l \in HandlerLocals : handler' = [handler EXCEPT ![h] = l] /\ l.pc = "close"
          BY <3>2, <3>3 DEF HandlerLocals
      <3>5. L /\ Others /\ Aimed
          BY <1>1, <3>4, HandlerStep DEF Targeted
      <3>6. QED
          BY <1>1, <1>16, <3>1, <3>3, <3>5 DEF CloseIssue, OwnTypes
    <2>4. QED
        BY <2>2, <2>3
  <1>17. QED
      BY <1>2, <1>3, <1>4, <1>5, <1>6, <1>7, <1>8, <1>9, <1>10, <1>11, <1>12, <1>13, <1>14, <1>15, <1>16
      DEF Deliver

\* So does every step.
LEMMA TypesStep == BridgeTypes /\ [Next]_vars => BridgeTypes'
  <1> SUFFICES ASSUME BridgeTypes, [Next]_vars PROVE BridgeTypes'
      OBVIOUS
  <1>1. AdminTypeOK' /\ HasToken'
      BY AdminBeside, AdminTypeStep, HasTokenStep, TypesSplit DEF BridgeTypes
  <1>2. OwnTypes' /\ (\A h \in Handlers : Targeted(h)' => handler'[h].target # Unmapped)
    <2>1. ASSUME NEW h \in Handlers, Deliver(h)
          PROVE  OwnTypes' /\ (\A g \in Handlers : Targeted(g)' => handler'[g].target # Unmapped)
        BY <2>1, DeliverTypes DEF BridgeTypes, Targeted
    <2>2. CASE UNCHANGED bridgeVars
        BY <2>2, TypesSplit DEF bridgeVars, BridgeTypes, OwnTypes, Targeted
    <2>3. CASE Crash
      <3>1. handler' \in [Handlers -> HandlerLocals] /\ \A h \in Handlers : handler'[h] = Free
          BY <2>3 DEF Crash, HandlerLocals
      <3>2. QED
          BY <2>3, <3>1, TypesSplit DEF Crash, BridgeTypes, OwnTypes, Targeted, Free
    <2>4. QED
        BY <2>1, <2>2, <2>3 DEF Next, vars
  <1>3. TypeOK'
      BY <1>1, <1>2, TypesSplit, PTL
  <1>4. QED
      BY <1>1, <1>2, <1>3 DEF BridgeTypes
-----------------------------------------------------------------------------
(***************************************************************************)
(* What the steps of a delivery do to its own work.                        *)
(***************************************************************************)
\* The locals before a step, and after one.
LEMMA LocalsMove ==
  ASSUME BridgeTypes, NEW h \in Handlers
  PROVE  /\ handler[h].pc \in PublishPc => handler[h] \in PublishLocals
         /\ handler[h].pc \in ArchivePc => handler[h] \in ArchiveLocals
         /\ \A l : handler' = [handler EXCEPT ![h] = l] => handler'[h] = l
         /\ \A pc : Goto(h, pc) => handler'[h] = [handler[h] EXCEPT !.pc = pc]
         /\ Finish(h) => handler'[h] = Free
  BY LocalsOf DEF BridgeTypes, TypeOK, Goto, Finish

\* A delivery of a publication that only moves on keeps its Issue, its target and its card.
LEMMA PublishMove ==
  ASSUME BridgeTypes, NEW h \in Handlers, handler[h].pc \in PublishPc, NEW pc, Goto(h, pc)
  PROVE  /\ handler'[h].pc = pc /\ Key(h)' = Key(h) /\ handler'[h].card = handler[h].card
  <1>1. handler[h] \in PublishLocals /\ handler'[h] = [handler[h] EXCEPT !.pc = pc]
      BY LocalsMove
  <1>2. handler'[h].pc = pc /\ handler'[h].issue = handler[h].issue /\ handler'[h].target = handler[h].target
        /\ handler'[h].card = handler[h].card
      BY <1>1 DEF PublishLocals
  <1>3. QED
      BY <1>2 DEF Key

LEMMA Claims ==
  ASSUME BridgeTypes, NEW h \in Handlers, Claim(h)
  PROVE  /\ handler[h].pc = "claim" /\ Key(h) \in Keys /\ Key(h)' = Key(h)
         /\ UNCHANGED <<cards, lost, closed>>
         /\ \/ /\ Row(Key(h)) = {} /\ handler'[h].pc = "create"
               /\ rows' = Append(rows, [key |-> Key(h), state |-> "processing", card |-> NoCard])
            \/ /\ handler'[h].pc = "create"
               /\ \E n \in Row(Key(h)) : /\ rows[n].state = "error"
                                         /\ rows' = [rows EXCEPT ![n].state = "processing"]
            \/ rows' = rows /\ handler'[h].pc = "link"
  <1>1. handler[h].pc \in PublishPc /\ Targeted(h)
      BY DEF Claim, PublishPc, Targeted
  <1>2. \A pc : Goto(h, pc) => handler'[h].pc = pc /\ Key(h)' = Key(h)
      BY <1>1, PublishMove
  <1>3. Key(h) \in Keys
      BY <1>1, KeyOf
  <1>4. CASE /\ Row(Key(h)) = {} /\ Goto(h, "create")
             /\ rows' = Append(rows, [key |-> Key(h), state |-> "processing", card |-> NoCard])
      BY <1>2, <1>3, <1>4 DEF Claim
  <1>5. ASSUME NEW n \in Row(Key(h)), rows[n].state = "error", Goto(h, "create"),
               rows' = [rows EXCEPT ![n].state = "processing"]
        PROVE  /\ handler'[h].pc = "create" /\ Key(h)' = Key(h)
               /\ \E m \in Row(Key(h)) : rows[m].state = "error" /\ rows' = [rows EXCEPT ![m].state = "processing"]
      BY <1>2, <1>5
  <1>6. CASE rows' = rows /\ Goto(h, "link")
      BY <1>2, <1>3, <1>6 DEF Claim
  <1>7. handler[h].pc = "claim" /\ UNCHANGED <<cards, lost, closed>>
      BY DEF Claim
  <1>8. QED
      BY <1>3, <1>4, <1>5, <1>6, <1>7 DEF Claim, Retryable

LEMMA Creates ==
  ASSUME BridgeTypes, NEW h \in Handlers, createBacklogIssue(h)
  PROVE  /\ handler[h].pc = "create" /\ Key(h) \in Keys /\ Key(h)' = Key(h)
         /\ UNCHANGED <<rows, closed>>
         /\ cards' = Append(cards, [key |-> Key(h), done |-> FALSE])
         /\ \/ handler'[h].pc = "created" /\ handler'[h].card = Len(cards') /\ lost' = lost
            \/ handler'[h].pc = "failed" /\ lost' = lost + 1
  <1>1. handler[h].pc = "create" /\ handler[h].pc \in PublishPc /\ Targeted(h)
      BY DEF createBacklogIssue, PublishPc, Targeted
  <1>2. Key(h) \in Keys
      BY <1>1, KeyOf
  <1>3. CASE lost' = lost + 1 /\ Goto(h, "failed")
      BY <1>1, <1>2, <1>3, PublishMove DEF createBacklogIssue
  <1>4. CASE lost' = lost /\ handler' = [handler EXCEPT ![h].pc = "created", ![h].card = Len(cards')]
    <2> DEFINE l == [handler[h] EXCEPT !.pc = "created", !.card = Len(cards')]
    <2>1. handler[h] \in PublishLocals
        BY <1>1, LocalsMove
    <2>2. handler' = [handler EXCEPT ![h] = l]
        BY <1>4
    <2>3. l.pc = "created" /\ l.card = Len(cards') /\ l.issue = handler[h].issue /\ l.target = handler[h].target
        BY <2>1 DEF PublishLocals
    <2> HIDE DEF l
    <2>4. handler'[h] = l
        BY <2>2, LocalsMove
    <2>5. Key(h)' = Key(h)
        BY <2>3, <2>4 DEF Key
    <2>6. QED
        BY <1>1, <1>2, <1>4, <2>3, <2>4, <2>5 DEF createBacklogIssue
  <1>5. QED
      BY <1>3, <1>4 DEF createBacklogIssue

LEMMA Fails ==
  ASSUME BridgeTypes, NEW h \in Handlers, createFails(h)
  PROVE  /\ handler[h].pc = "create" /\ handler'[h].pc = "failed" /\ Key(h)' = Key(h)
         /\ UNCHANGED <<rows, cards, lost, closed>>
  BY PublishMove DEF createFails, PublishPc

LEMMA Marks ==
  ASSUME BridgeTypes, NEW h \in Handlers, MarkCreated(h) \/ MarkError(h)
  PROVE  /\ handler'[h].pc \in {"link", "idle"} /\ Targeted(h) /\ Working(h)
         /\ UNCHANGED <<cards, lost, closed>>
         /\ \/ rows' = rows
            \/ \E n \in Row(Key(h)) :
                 \/ /\ handler[h].pc = "created"
                    /\ rows' = [rows EXCEPT ![n].state = "created", ![n].card = handler[h].card]
                 \/ /\ handler[h].pc = "failed"
                    /\ rows' = [rows EXCEPT ![n].state = "error"]
  <1>1. CASE MarkCreated(h)
    <2> DEFINE l == [handler[h] EXCEPT !.pc = "link", !.card = NoCard]
    <2>1. handler[h] \in PublishLocals /\ Targeted(h) /\ Working(h)
        BY <1>1, LocalsMove DEF MarkCreated, PublishPc, Targeted, Working
    <2>2. handler' = [handler EXCEPT ![h] = l]
        BY <1>1 DEF MarkCreated
    <2>3. l.pc = "link"
        BY <2>1 DEF PublishLocals
    <2> HIDE DEF l
    <2>4. handler'[h] = l
        BY <2>2, LocalsMove
    <2>5. QED
        BY <1>1, <2>1, <2>3, <2>4 DEF MarkCreated
  <1>2. CASE MarkError(h)
      BY <1>2, LocalsMove DEF MarkError, Targeted, Working, Free
  <1>3. QED
      BY <1>1, <1>2

\* The others do not work on a row, nor do they begin to.
Elsewhere(h) ==
    \/ ServeHTTP(h) \/ CheckAllowed(h) \/ ChooseMapping(h) \/ LookUpMapping(h) \/ ClaimFails(h)
    \/ InsertIssueLink(h) \/ InsertIssueLinkFails(h) \/ LatestCreatedIssue(h)
    \/ updateIssueStatus(h) \/ ListIssueLinks(h) \/ CloseIssue(h)

LEMMA WorksElsewhere ==
  ASSUME BridgeTypes, NEW h \in Handlers, Elsewhere(h)
  PROVE  ~Working(h)' /\ UNCHANGED <<rows, lost>>
  <1> USE LocalsMove
  <1>1. CASE ServeHTTP(h)
    <2>1. ASSUME NEW i \in Issue, handler' = [handler EXCEPT ![h] = Publishing("allow", i, Unmapped, NoCard)]
          PROVE  handler'[h].pc = "allow"
      <3>1. handler'[h] = Publishing("allow", i, Unmapped, NoCard)
          BY <2>1
      <3>2. QED
          BY <3>1 DEF Publishing
    <2>2. ASSUME NEW a \in Archive, handler' = [handler EXCEPT ![h] = Archiving("allowed", a, NoCard, {})]
          PROVE  handler'[h].pc = "allowed"
      <3>1. handler'[h] = Archiving("allowed", a, NoCard, {})
          BY <2>2
      <3>2. QED
          BY <3>1 DEF Archiving
    <2>3. QED
        BY <1>1, <2>1, <2>2 DEF ServeHTTP, Working
  <1>2. CASE CheckAllowed(h)
    <2>1. CASE handler[h].pc = "allow" /\ Goto(h, "map")
        BY <1>2, <2>1, PublishMove DEF CheckAllowed, PublishPc, Working
    <2>2. CASE handler[h].pc = "allowed" /\ Goto(h, "latest")
      <3>1. handler[h] \in ArchiveLocals /\ handler'[h] = [handler[h] EXCEPT !.pc = "latest"]
          BY <2>2 DEF ArchivePc
      <3>2. handler'[h].pc = "latest"
          BY <3>1 DEF ArchiveLocals
      <3>3. QED
          BY <1>2, <3>2 DEF CheckAllowed, Working
    <2>3. CASE Finish(h)
        BY <1>2, <2>3 DEF CheckAllowed, Working, Free
    <2>4. QED
        BY <1>2, <2>1, <2>2, <2>3 DEF CheckAllowed
  <1>3. CASE ChooseMapping(h)
    <2>1. handler[h] \in PublishLocals
        BY <1>3 DEF ChooseMapping, PublishPc
    <2>2. [handler[h] EXCEPT !.pc = "lookup"].pc = "lookup"
          /\ [handler[h] EXCEPT !.pc = "claim", !.target = DefaultTarget].pc = "claim"
        BY <2>1 DEF PublishLocals
    <2>3. handler'[h].pc \in {"lookup", "claim"}
        BY <1>3, <2>2 DEF ChooseMapping
    <2>4. QED
        BY <1>3, <2>3 DEF ChooseMapping, Working
  <1>4. CASE LookUpMapping(h)
    <2> DEFINE t == config.target[Publication[handler[h].issue].project]
    <2>1. handler[h] \in PublishLocals
        BY <1>4 DEF LookUpMapping, PublishPc
    <2>2. [handler[h] EXCEPT !.pc = "claim", !.target = t].pc = "claim" /\ Free.pc = "idle"
        BY <2>1 DEF PublishLocals, Free
    <2>3. handler'[h] \in {Free, [handler[h] EXCEPT !.pc = "claim", !.target = t]}
        BY <1>4 DEF LookUpMapping
    <2>4. QED
        BY <1>4, <2>2, <2>3 DEF LookUpMapping, Working
  <1>5. CASE ClaimFails(h) \/ InsertIssueLink(h) \/ InsertIssueLinkFails(h)
      BY <1>5 DEF ClaimFails, InsertIssueLink, InsertIssueLinkFails, Working, Free
  <1>6. CASE LatestCreatedIssue(h)
    <2> DEFINE card == Newest(handler[h].archive)
    <2>1. handler[h] \in ArchiveLocals
        BY <1>6 DEF LatestCreatedIssue, ArchivePc
    <2>2. [handler[h] EXCEPT !.pc = "done", !.card = card].pc = "done" /\ Free.pc = "idle"
        BY <2>1 DEF ArchiveLocals, Free
    <2>3. handler'[h] \in {Free, [handler[h] EXCEPT !.pc = "done", !.card = card]}
        BY <1>6 DEF LatestCreatedIssue
    <2>4. QED
        BY <1>6, <2>2, <2>3 DEF LatestCreatedIssue, Working
  <1>7. CASE updateIssueStatus(h)
    <2>1. CASE Goto(h, "list")
      <3>1. handler[h] \in ArchiveLocals /\ handler'[h] = [handler[h] EXCEPT !.pc = "list"]
          BY <1>7, <2>1 DEF updateIssueStatus, ArchivePc
      <3>2. handler'[h].pc = "list"
          BY <3>1 DEF ArchiveLocals
      <3>3. QED
          BY <1>7, <3>2 DEF updateIssueStatus, Working
    <2>2. CASE Finish(h)
        BY <1>7, <2>2 DEF updateIssueStatus, Working, Free
    <2>3. QED
        BY <1>7, <2>1, <2>2 DEF updateIssueStatus, LeaveOpen
  <1>8. CASE ListIssueLinks(h)
    <2> DEFINE a == handler[h].archive
               todo == {i \in links : Publication[i].project = a.project /\ Publication[i].change = a.change}
    <2>1. handler[h] \in ArchiveLocals
        BY <1>8 DEF ListIssueLinks, ArchivePc
    <2>2. handler' = [handler EXCEPT ![h] = [handler[h] EXCEPT !.pc = "close", !.todo = todo]]
        BY <1>8 DEF ListIssueLinks
    <2> HIDE DEF todo
    <2>3. handler'[h] = [handler[h] EXCEPT !.pc = "close", !.todo = todo]
        BY <2>2
    <2>4. handler'[h].pc = "close"
        BY <2>1, <2>3 DEF ArchiveLocals
    <2>5. QED
        BY <1>8, <2>4 DEF ListIssueLinks, Working
  <1>9. CASE CloseIssue(h)
    <2>1. handler[h] \in ArchiveLocals /\ handler[h].pc = "close"
        BY <1>9 DEF CloseIssue, ArchivePc
    <2>2. CASE Finish(h)
        BY <1>9, <2>2 DEF CloseIssue, Working, Free
    <2>3. ASSUME NEW i \in handler[h].todo, handler' = [handler EXCEPT ![h].todo = @ \ {i}]
          PROVE  ~Working(h)'
      <3>1. handler' = [handler EXCEPT ![h] = [handler[h] EXCEPT !.todo = handler[h].todo \ {i}]]
          BY <2>3
      <3>2. handler'[h].pc = "close"
          BY <2>1, <3>1 DEF ArchiveLocals
      <3>3. QED
          BY <3>2 DEF Working
    <2>4. QED
        BY <1>9, <2>2, <2>3 DEF CloseIssue
  <1>10. QED
      BY <1>1, <1>2, <1>3, <1>4, <1>5, <1>6, <1>7, <1>8, <1>9 DEF Elsewhere
\* The other deliveries go on with the work they had.
LEMMA OthersWork ==
  ASSUME BridgeTypes, NEW h \in Handlers, Deliver(h), NEW g \in Handlers, g # h
  PROVE  handler'[g] = handler[g] /\ Key(g)' = Key(g) /\ (Working(g)' <=> Working(g))
  BY DeliverTypes DEF Key, Working

\* A row stays where it is and keeps its key.
LEMMA RowsStay ==
  ASSUME BridgeTypes, NEW h \in Handlers, Deliver(h)
  PROVE  \A m \in DOMAIN rows : m \in DOMAIN rows' /\ rows'[m].key = rows[m].key
  <1>1. rows \in Seq(RowOf)
      BY TypesSplit DEF BridgeTypes, OwnTypes
  <1>2. CASE Claim(h)
    <2>1. Key(h) \in Keys
        BY <1>2, Claims
    <2>2. CASE rows' = Append(rows, [key |-> Key(h), state |-> "processing", card |-> NoCard])
      <3>1. [key |-> Key(h), state |-> "processing", card |-> NoCard] \in RowOf
          BY <2>1, LegacyConstants DEF RowOf, NoCard
      <3>2. QED
          BY <1>1, <2>2, <3>1, Appended
    <2>3. ASSUME NEW n \in Row(Key(h)), rows' = [rows EXCEPT ![n].state = "processing"]
          PROVE  \A m \in DOMAIN rows : m \in DOMAIN rows' /\ rows'[m].key = rows[m].key
      <3>1. n \in DOMAIN rows /\ rows[n].card \in 0 .. MaxCards
          BY <1>1, RowAt DEF Row
      <3>2. QED
          BY <1>1, <2>3, <3>1, RowChange
    <2>4. QED
        BY <1>2, <2>2, <2>3, Claims
  <1>3. CASE MarkCreated(h) \/ MarkError(h)
    <2>1. ASSUME NEW n \in Row(Key(h)), rows' = [rows EXCEPT ![n].state = "error"]
          PROVE  \A m \in DOMAIN rows : m \in DOMAIN rows' /\ rows'[m].key = rows[m].key
      <3>1. n \in DOMAIN rows /\ rows[n].card \in 0 .. MaxCards
          BY <1>1, RowAt DEF Row
      <3>2. QED
          BY <1>1, <2>1, <3>1, RowChange
    <2>2. ASSUME NEW n \in Row(Key(h)), handler[h].pc = "created",
                 rows' = [rows EXCEPT ![n].state = "created", ![n].card = handler[h].card]
          PROVE  \A m \in DOMAIN rows : m \in DOMAIN rows' /\ rows'[m].key = rows[m].key
      <3>1. n \in DOMAIN rows /\ handler[h].card \in 0 .. MaxCards
          BY <2>2, LocalsMove DEF Row, PublishPc, PublishLocals
      <3>2. QED
          BY <1>1, <2>2, <3>1, RowChange
    <2>3. QED
        BY <1>3, <2>1, <2>2, Marks
  <1>4. CASE createBacklogIssue(h) \/ createFails(h) \/ Elsewhere(h)
      BY <1>4, Creates, Fails, WorksElsewhere
  <1>5. QED
      BY <1>2, <1>3, <1>4 DEF Deliver, Elsewhere

\* A card stays and keeps its key, and is not undone; only createBacklogIssue makes one.
LEMMA CardsStay ==
  ASSUME BridgeTypes, NEW h \in Handlers, Deliver(h)
  PROVE  /\ \A m \in DOMAIN cards : /\ m \in DOMAIN cards' /\ cards'[m].key = cards[m].key
                                    /\ cards[m].done => cards'[m].done
         /\ DOMAIN cards' = DOMAIN cards \/ createBacklogIssue(h)
  <1>1. cards \in Seq(CardOf)
      BY TypesSplit DEF BridgeTypes, OwnTypes
  <1>2. CASE createBacklogIssue(h)
    <2>1. cards' = Append(cards, [key |-> Key(h), done |-> FALSE]) /\ Key(h) \in Keys
        BY <1>2, Creates
    <2>2. [key |-> Key(h), done |-> FALSE] \in CardOf
        BY <2>1 DEF CardOf
    <2>3. QED
        BY <1>1, <1>2, <2>1, <2>2, Appended
  <1>3. CASE updateIssueStatus(h)
    <2>1. cards' = [cards EXCEPT ![handler[h].card].done = TRUE] \/ cards' = cards
        BY <1>3 DEF updateIssueStatus
    <2>2. QED
        BY <1>1, <2>1, CardDone
  <1>4. CASE cards' = cards
      BY <1>4
  <1>5. QED
      BY <1>2, <1>3, <1>4 DEF Deliver, ServeHTTP, CheckAllowed, ChooseMapping, LookUpMapping, Claim, ClaimFails,
         createFails, MarkCreated, MarkError, InsertIssueLink, InsertIssueLinkFails, LatestCreatedIssue,
         ListIssueLinks, CloseIssue

-----------------------------------------------------------------------------
(***************************************************************************)
(* One delivery at a time works on a row.                                  *)
(***************************************************************************)
LEMMA OneClaimDeliver ==
  ASSUME BridgeTypes, OneClaim, NEW h \in Handlers, Deliver(h)
  PROVE  OneClaim'
  <1> DEFINE Unique == \A m, n \in DOMAIN rows' : rows'[m].key = rows'[n].key => m = n
             Held(g) == Working(g)' => \E n \in DOMAIN rows' : rows'[n].key = Key(g)' /\ rows'[n].state = "processing"
             Alone == \A f, g \in Handlers : Working(f)' /\ Working(g)' /\ Key(f)' = Key(g)' => f = g
  <1>1. rows \in Seq(RowOf)
      BY TypesSplit DEF BridgeTypes, OwnTypes
  <1>2. \A g \in Handlers : g # h => Key(g)' = Key(g) /\ (Working(g)' <=> Working(g))
      BY OthersWork
  <1>3. ASSUME DOMAIN rows' = DOMAIN rows PROVE Unique
      BY <1>3, RowsStay DEF OneClaim
  <1>4. SUFFICES Unique /\ (\A g \in Handlers : Held(g)) /\ Alone
      BY DEF OneClaim
  <1>5. CASE Claim(h)
    <2>1. Key(h)' = Key(h) /\ ~Working(h)
        BY <1>5, Claims DEF Working
    <2>2. CASE /\ Row(Key(h)) = {}
               /\ rows' = Append(rows, [key |-> Key(h), state |-> "processing", card |-> NoCard])
      <3> DEFINE n == Len(rows) + 1
      <3>1. [key |-> Key(h), state |-> "processing", card |-> NoCard] \in RowOf
        <4>1. Key(h) \in Keys
            BY <1>5, Claims
        <4>2. QED
            BY <4>1, LegacyConstants DEF RowOf, NoCard
      <3>2. /\ DOMAIN rows = 1 .. Len(rows) /\ Len(rows) \in Nat /\ DOMAIN rows' = 1 .. n
            /\ rows'[n] = [key |-> Key(h), state |-> "processing", card |-> NoCard]
            /\ \A m \in DOMAIN rows : rows'[m] = rows[m]
          BY <1>1, <2>2, <3>1, Appended
      <3>3. DOMAIN rows' = DOMAIN rows \cup {n} /\ rows'[n].key = Key(h) /\ rows'[n].state = "processing"
          BY <3>2
      <3> HIDE DEF n
      <3>4. \A m \in DOMAIN rows : rows[m].key # Key(h)
          BY <2>2 DEF Row
      <3>5. Unique
          BY <3>2, <3>3, <3>4 DEF OneClaim
      <3>6. ASSUME NEW g \in Handlers PROVE Held(g)
        <4>1. CASE g = h
            BY <2>1, <3>3, <4>1
        <4>2. CASE g # h /\ Working(g)'
          <5>1. Working(g) /\ Key(g)' = Key(g)
              BY <1>2, <4>2
          <5>2. PICK m \in DOMAIN rows : rows[m].key = Key(g) /\ rows[m].state = "processing"
              BY <5>1 DEF OneClaim
          <5>3. m \in DOMAIN rows' /\ rows'[m].key = Key(g)' /\ rows'[m].state = "processing"
              BY <3>2, <3>3, <5>1, <5>2
          <5>4. QED
              BY <5>3
        <4>3. QED
            BY <4>1, <4>2
      <3>7. \A g \in Handlers : Working(g) => Key(g) # Key(h)
          BY <3>4 DEF OneClaim
      <3>8. Alone
          BY <1>2, <2>1, <3>7 DEF OneClaim
      <3>9. QED
          BY <3>5, <3>6, <3>8
    <2>3. ASSUME NEW n \in Row(Key(h)), rows[n].state = "error", rows' = [rows EXCEPT ![n].state = "processing"]
          PROVE  Unique /\ (\A g \in Handlers : Held(g)) /\ Alone
      <3>1. n \in DOMAIN rows /\ rows[n].key = Key(h) /\ rows[n].card \in 0 .. MaxCards
          BY <1>1, RowAt DEF Row
      <3>2. /\ DOMAIN rows' = DOMAIN rows /\ rows'[n].state = "processing" /\ rows'[n].key = rows[n].key
            /\ \A m \in DOMAIN rows : m # n => rows'[m] = rows[m]
          BY <1>1, <2>3, <3>1, RowChange
      <3>3. \A g \in Handlers : Working(g) => Key(g) # Key(h)
          BY <2>3, <3>1 DEF OneClaim
      <3>4. ASSUME NEW g \in Handlers PROVE Held(g)
          BY <1>2, <2>1, <3>1, <3>2 DEF OneClaim
      <3>5. Alone
          BY <1>2, <2>1, <3>3 DEF OneClaim
      <3>6. QED
          BY <1>3, <3>2, <3>4, <3>5
    <2>4. CASE rows' = rows /\ handler'[h].pc = "link"
      <3>1. ~Working(h)'
          BY <2>4 DEF Working
      <3>2. QED
          BY <1>2, <2>4, <3>1 DEF OneClaim
    <2>5. QED
        BY <1>5, <2>2, <2>3, <2>4, Claims
  <1>6. CASE createBacklogIssue(h) \/ createFails(h)
    <2>1. rows' = rows /\ Key(h)' = Key(h) /\ Working(h) /\ Working(h)'
        BY <1>6, Creates, Fails DEF Working
    <2>2. QED
        BY <1>2, <2>1 DEF OneClaim
  <1>7. CASE MarkCreated(h) \/ MarkError(h)
    <2>1. ~Working(h)' /\ Working(h)
        BY <1>7, Marks DEF Working
    <2>2. Alone
        BY <1>2, <2>1 DEF OneClaim
    <2>3. CASE rows' = rows
        BY <1>2, <2>1, <2>2, <2>3 DEF OneClaim
    <2>4. ASSUME NEW n \in Row(Key(h)),
                 \/ rows' = [rows EXCEPT ![n].state = "error"]
                 \/ /\ handler[h].pc = "created"
                    /\ rows' = [rows EXCEPT ![n].state = "created", ![n].card = handler[h].card]
          PROVE  DOMAIN rows' = DOMAIN rows /\ \A m \in DOMAIN rows : m # n => rows'[m] = rows[m]
      <3>1. n \in DOMAIN rows /\ rows[n].card \in 0 .. MaxCards
          BY <1>1, RowAt DEF Row
      <3>2. handler[h].pc = "created" => handler[h].card \in 0 .. MaxCards
          BY LocalsMove DEF PublishPc, PublishLocals
      <3>3. QED
          BY <1>1, <2>4, <3>1, <3>2, RowChange
    <2>5. ASSUME NEW n \in Row(Key(h)), DOMAIN rows' = DOMAIN rows,
                 \A m \in DOMAIN rows : m # n => rows'[m] = rows[m], NEW g \in Handlers, Working(g)'
          PROVE  \E m \in DOMAIN rows' : rows'[m].key = Key(g)' /\ rows'[m].state = "processing"
      <3>1. g # h /\ Working(g) /\ Key(g) # Key(h) /\ Key(g)' = Key(g)
          BY <1>2, <2>1, <2>5 DEF OneClaim
      <3>2. QED
          BY <2>5, <3>1 DEF OneClaim, Row
    <2>6. QED
        BY <1>3, <1>7, <2>2, <2>3, <2>4, <2>5, Marks
  <1>8. CASE Elsewhere(h)
      BY <1>2, <1>8, WorksElsewhere DEF OneClaim
  <1>9. QED
      BY <1>5, <1>6, <1>7, <1>8 DEF Deliver, Elsewhere

\* When no delivery takes a step, the ones there are go on, or all of them have ended.
LEMMA Beside ==
  ASSUME [Next]_vars, ~\E h \in Handlers : Deliver(h)
  PROVE  /\ UNCHANGED <<rows, cards, lost, closed, links>>
         /\ handler' = handler \/ \A h \in Handlers : handler'[h] = Free
  BY DEF Next, Crash, vars, bridgeVars

LEMMA OneClaimStep == BridgeTypes /\ OneClaim /\ [Next]_vars => OneClaim'
  <1> SUFFICES ASSUME BridgeTypes, OneClaim, [Next]_vars, ~\E h \in Handlers : Deliver(h)
               PROVE  OneClaim'
      BY OneClaimDeliver
  <1>1. rows' = rows /\ \A h \in Handlers : Working(h)' => Working(h) /\ Key(h)' = Key(h)
      BY Beside DEF Working, Key, Free
  <1>2. QED
      BY <1>1 DEF OneClaim
-----------------------------------------------------------------------------
(***************************************************************************)
(* The cards of a key.                                                     *)
(***************************************************************************)
LEMMA Counts ==
  ASSUME BridgeTypes, NEW key
  PROVE  IsFiniteSet(CardsOf(key)) /\ Count(key) \in Nat
  <1>1. CardsOf(key) \subseteq 1 .. Len(cards) /\ Len(cards) \in Nat
      BY TypesSplit, LenProperties DEF BridgeTypes, OwnTypes, CardsOf
  <1>2. IsFiniteSet(CardsOf(key))
    <2>1. IsFiniteSet(1 .. Len(cards))
        BY <1>1, FS_Interval
    <2>2. QED
        BY <1>1, <2>1, FS_Subset
  <1>3. QED
      BY <1>2, FS_CardinalityType DEF Count

\* A step that makes no card changes no count; a new card counts for its own key.
LEMMA CountsStay ==
  ASSUME BridgeTypes, NEW h \in Handlers, Deliver(h), ~createBacklogIssue(h), NEW key
  PROVE  Count(key)' = Count(key)
  <1>1. CardsOf(key)' = CardsOf(key)
      BY CardsStay DEF CardsOf
  <1>2. QED
      BY <1>1 DEF Count

LEMMA CountsGrow ==
  ASSUME BridgeTypes, NEW h \in Handlers, createBacklogIssue(h), NEW key
  PROVE  Count(key)' = IF key = Key(h) THEN Count(key) + 1 ELSE Count(key)
  <1> DEFINE c == [key |-> Key(h), done |-> FALSE]
             n == Len(cards) + 1
  <1>1. cards' = Append(cards, c) /\ Key(h) \in Keys
      BY Creates
  <1>2. cards \in Seq(CardOf) /\ c \in CardOf
      BY <1>1, TypesSplit DEF BridgeTypes, OwnTypes, CardOf
  <1>3. /\ DOMAIN cards = 1 .. Len(cards) /\ Len(cards) \in Nat /\ DOMAIN cards' = 1 .. n
        /\ cards'[n] = c /\ \A m \in DOMAIN cards : cards'[m] = cards[m]
      BY <1>1, <1>2, Appended
  <1>4. DOMAIN cards' = DOMAIN cards \cup {n} /\ n \notin DOMAIN cards /\ cards'[n].key = Key(h)
      BY <1>3
  <1> HIDE DEF n
  <1>5. CASE key = Key(h)
    <2>1. CardsOf(key)' = CardsOf(key) \cup {n} /\ n \notin CardsOf(key)
        BY <1>3, <1>4, <1>5 DEF CardsOf
    <2>2. Cardinality(CardsOf(key) \cup {n}) = Cardinality(CardsOf(key)) + 1
        BY <2>1, Counts, FS_AddElement
    <2>3. Count(key)' = Cardinality(CardsOf(key)')
        BY DEF Count
    <2>4. QED
        BY <1>5, <2>1, <2>2, <2>3 DEF Count
  <1>6. CASE key # Key(h)
    <2>1. CardsOf(key)' = CardsOf(key)
        BY <1>3, <1>4, <1>6 DEF CardsOf
    <2>2. QED
        BY <1>6, <2>1 DEF Count
  <1>7. QED
      BY <1>5, <1>6

LEMMA CountedDeliver ==
  ASSUME BridgeTypes, OneClaim, Counted, NEW h \in Handlers, Deliver(h)
  PROVE  Counted'
  <1> DEFINE Tally(key) == Cardinality({n \in DOMAIN cards' : cards'[n].key = key})
             Rowed == \A m \in DOMAIN cards' : \E n \in DOMAIN rows' : rows'[n].key = cards'[m].key
             Rows == \A n \in DOMAIN rows' : /\ Tally(rows'[n].key) <= 1 + lost'
                                             /\ rows'[n].state = "error" => Tally(rows'[n].key) <= lost'
             Mine == handler'[h].pc \in {"create", "failed"} => Tally(Key(h)') <= lost'
             Others == \A g \in Handlers : g # h /\ handler'[g].pc \in {"create", "failed"} => Tally(Key(g)') <= lost'
  <1>1. /\ rows \in Seq(RowOf) /\ cards \in Seq(CardOf) /\ lost \in Nat
        /\ \A key : Count(key) \in Nat
      BY LegacyConstants, TypesSplit, Counts DEF BridgeTypes, OwnTypes
  <1>2. \A g \in Handlers : g # h => handler'[g] = handler[g] /\ Key(g)' = Key(g)
      BY OthersWork
  <1>3. \A key : Tally(key) = Count(key)'
      BY DEF Count, CardsOf
  <1>4. SUFFICES Rowed /\ Rows /\ Mine /\ Others
      BY DEF Counted, Count, CardsOf
  <1> HIDE DEF Tally
  <1>5. ASSUME ~createBacklogIssue(h) PROVE Rowed /\ \A key : Tally(key) = Count(key)
    <2>1. \A m \in DOMAIN cards' : m \in DOMAIN cards /\ cards'[m].key = cards[m].key
        BY <1>5, CardsStay
    <2>2. \A key : Tally(key) = Count(key)
        BY <1>5, <1>3, CountsStay
    <2>3. QED
        BY <2>1, <2>2, RowsStay DEF Counted
  <1>6. CASE createBacklogIssue(h)
    <2>1. /\ handler[h].pc = "create" /\ Working(h) /\ Key(h)' = Key(h) /\ rows' = rows
          /\ \/ handler'[h].pc = "created" /\ lost' = lost
             \/ handler'[h].pc = "failed" /\ lost' = lost + 1
        BY <1>6, Creates DEF Working
    <2>2. \A key : Tally(key) = IF key = Key(h) THEN Count(key) + 1 ELSE Count(key)
        BY <1>6, <1>3, CountsGrow
    <2>3. Count(Key(h)) <= lost
        BY <2>1 DEF Counted
    <2>4. Rowed
      <3>1. TAKE m \in DOMAIN cards'
      <3>2. CASE m \in DOMAIN cards
          BY <2>1, <3>2, CardsStay DEF Counted
      <3>3. CASE m \notin DOMAIN cards
        <4>1. cards' = Append(cards, [key |-> Key(h), done |-> FALSE]) /\ Key(h) \in Keys
            BY <1>6, Creates
        <4>2. [key |-> Key(h), done |-> FALSE] \in CardOf
            BY <4>1 DEF CardOf
        <4>3. m = Len(cards) + 1 /\ cards'[m] = [key |-> Key(h), done |-> FALSE]
            BY <1>1, <3>3, <4>1, <4>2, Appended
        <4>4. cards'[m].key = Key(h)
            BY <4>3
        <4>5. QED
            BY <2>1, <4>4 DEF OneClaim
      <3>4. QED
          BY <3>2, <3>3
    <2>5. Rows
      <3>1. TAKE n \in DOMAIN rows'
      <3>2. CASE rows[n].key = Key(h)
        <4>1. rows[n].state = "processing"
            BY <2>1, <3>2 DEF OneClaim
        <4>2. QED
            BY <1>1, <2>1, <2>2, <2>3, <3>2, <4>1
      <3>3. CASE rows[n].key # Key(h)
          BY <1>1, <2>1, <2>2, <3>3 DEF Counted
      <3>4. QED
          BY <3>2, <3>3
    <2>6. Mine
        BY <1>1, <2>1, <2>2, <2>3
    <2>7. Others
      <3>1. ASSUME NEW g \in Handlers, g # h, handler'[g].pc \in {"create", "failed"} PROVE Tally(Key(g)') <= lost'
        <4>1. handler[g].pc \in {"create", "failed"} /\ Working(g) /\ Key(g)' = Key(g)
            BY <1>2, <3>1 DEF Working
        <4>2. Key(g) # Key(h) /\ Count(Key(g)) <= lost
            BY <2>1, <3>1, <4>1 DEF OneClaim, Counted
        <4>3. QED
            BY <1>1, <2>1, <2>2, <4>1, <4>2
      <3>2. QED
          BY <3>1
    <2>8. QED
        BY <2>4, <2>5, <2>6, <2>7
  <1>7. ASSUME ~createBacklogIssue(h) PROVE Rowed /\ Others
    <2>1. lost' = lost
        BY <1>7, Claims, Fails, Marks, WorksElsewhere DEF Deliver, Elsewhere
    <2>2. QED
        BY <1>2, <1>5, <1>7, <2>1 DEF Counted
  <1>8. CASE Claim(h)
    <2>1. Key(h)' = Key(h) /\ ~createBacklogIssue(h) /\ lost' = lost
        BY <1>8, Claims DEF createBacklogIssue
    <2>2. \A key : Tally(key) = Count(key)
        BY <1>5, <2>1
    <2>3. CASE /\ Row(Key(h)) = {}
               /\ rows' = Append(rows, [key |-> Key(h), state |-> "processing", card |-> NoCard])
      <3>1. Count(Key(h)) = 0
        <4>1. CardsOf(Key(h)) = {}
            BY <2>3 DEF Counted, CardsOf, Row
        <4>2. QED
            BY <4>1, FS_EmptySet DEF Count
      <3>2. Key(h) \in Keys
          BY <1>8, Claims
      <3>3. [key |-> Key(h), state |-> "processing", card |-> NoCard] \in RowOf
          BY <3>2, LegacyConstants DEF RowOf, NoCard
      <3>4. \A n \in DOMAIN rows' : \/ n \in DOMAIN rows /\ rows'[n] = rows[n]
                                    \/ rows'[n] = [key |-> Key(h), state |-> "processing", card |-> NoCard]
          BY <1>1, <2>3, <3>3, Appended
      <3>5. Rows
        <4>1. TAKE n \in DOMAIN rows'
        <4>2. CASE n \in DOMAIN rows /\ rows'[n] = rows[n]
            BY <2>1, <2>2, <4>2 DEF Counted
        <4>3. CASE rows'[n] = [key |-> Key(h), state |-> "processing", card |-> NoCard]
          <5>1. rows'[n].key = Key(h) /\ rows'[n].state = "processing"
              BY <4>3
          <5>2. QED
              BY <1>1, <2>1, <2>2, <3>1, <5>1
        <4>4. QED
            BY <3>4, <4>2, <4>3
      <3>6. QED
          BY <1>1, <1>7, <2>1, <2>2, <3>1, <3>5
    <2>4. ASSUME NEW n \in Row(Key(h)), rows[n].state = "error", rows' = [rows EXCEPT ![n].state = "processing"]
          PROVE  Rows /\ Mine
      <3>1. n \in DOMAIN rows /\ rows[n].key = Key(h) /\ rows[n].card \in 0 .. MaxCards
          BY <1>1, RowAt DEF Row
      <3>2. /\ DOMAIN rows' = DOMAIN rows /\ rows'[n].state = "processing" /\ rows'[n].key = rows[n].key
            /\ \A m \in DOMAIN rows : m # n => rows'[m] = rows[m]
          BY <1>1, <2>4, <3>1, RowChange
      <3>3. QED
          BY <2>1, <2>2, <2>4, <3>1, <3>2 DEF Counted
    <2>5. CASE rows' = rows /\ handler'[h].pc = "link"
        BY <1>7, <2>1, <2>2, <2>5 DEF Counted
    <2>6. QED
        BY <1>7, <1>8, <2>1, <2>3, <2>4, <2>5, Claims
  <1>9. CASE createFails(h) /\ ~createBacklogIssue(h)
    <2>1. handler[h].pc = "create" /\ Key(h)' = Key(h) /\ rows' = rows /\ lost' = lost
        BY <1>9, Fails
    <2>2. QED
        BY <1>5, <1>7, <1>9, <2>1 DEF Counted
  <1>10. CASE MarkCreated(h) \/ MarkError(h)
    <2>1. handler'[h].pc \in {"link", "idle"} /\ ~createBacklogIssue(h) /\ lost' = lost
        BY <1>10, Marks DEF MarkCreated, MarkError, createBacklogIssue
    <2>2. \A key : Tally(key) = Count(key)
        BY <1>5, <2>1
    <2>3. ASSUME rows' = rows PROVE Rows
        BY <2>1, <2>2, <2>3 DEF Counted
    <2>4. ASSUME NEW n \in Row(Key(h)), handler[h].pc = "failed", rows' = [rows EXCEPT ![n].state = "error"]
          PROVE  Rows
      <3>1. n \in DOMAIN rows /\ rows[n].key = Key(h) /\ rows[n].card \in 0 .. MaxCards
          BY <1>1, RowAt DEF Row
      <3>2. /\ DOMAIN rows' = DOMAIN rows /\ rows'[n].key = Key(h)
            /\ \A m \in DOMAIN rows : m # n => rows'[m] = rows[m]
          BY <1>1, <2>4, <3>1, RowChange
      <3>3. Count(Key(h)) <= lost
          BY <2>4 DEF Counted
      <3>4. ASSUME NEW m \in DOMAIN rows'
            PROVE  /\ Tally(rows'[m].key) <= 1 + lost'
                   /\ rows'[m].state = "error" => Tally(rows'[m].key) <= lost'
        <4>1. CASE m = n
            BY <1>1, <2>1, <2>2, <3>2, <3>3, <4>1
        <4>2. CASE m # n
            BY <2>1, <2>2, <3>2, <4>2 DEF Counted
        <4>3. QED
            BY <4>1, <4>2
      <3>5. QED
          BY <3>4
    <2>5. ASSUME NEW n \in Row(Key(h)), handler[h].pc = "created",
                 rows' = [rows EXCEPT ![n].state = "created", ![n].card = handler[h].card]
          PROVE  Rows
      <3>1. n \in DOMAIN rows /\ handler[h].card \in 0 .. MaxCards
          BY <2>5, LocalsMove DEF Row, PublishPc, PublishLocals
      <3>2. /\ DOMAIN rows' = DOMAIN rows /\ rows'[n].key = rows[n].key /\ rows'[n].state = "created"
            /\ \A m \in DOMAIN rows : m # n => rows'[m] = rows[m]
          BY <1>1, <2>5, <3>1, RowChange
      <3>3. QED
          BY <2>1, <2>2, <3>2 DEF Counted
    <2>6. Rows
        BY <1>10, <2>3, <2>4, <2>5, Marks
    <2>7. QED
        BY <1>7, <2>1, <2>6
  <1>11. CASE Elsewhere(h) /\ ~createBacklogIssue(h)
    <2>1. handler'[h].pc \notin {"create", "failed"} /\ rows' = rows /\ lost' = lost
        BY <1>11, WorksElsewhere DEF Working
    <2>2. QED
        BY <1>5, <1>7, <1>11, <2>1 DEF Counted
  <1>12. QED
      BY <1>6, <1>8, <1>9, <1>10, <1>11 DEF Deliver, Elsewhere

LEMMA CountedStep == BridgeTypes /\ OneClaim /\ Counted /\ [Next]_vars => Counted'
  <1> SUFFICES ASSUME BridgeTypes, OneClaim, Counted, [Next]_vars, ~\E h \in Handlers : Deliver(h)
               PROVE  Counted'
      BY CountedDeliver
  <1>1. UNCHANGED <<rows, cards, lost>>
      BY Beside
  <1>2. \A key : Count(key)' = Count(key)
      BY <1>1 DEF Count, CardsOf
  <1>3. \A h \in Handlers : handler'[h].pc \in {"create", "failed"} => handler[h].pc \in {"create", "failed"} /\ Key(h)' = Key(h)
      BY Beside DEF Key, Free
  <1>4. QED
      BY <1>1, <1>2, <1>3 DEF Counted
-----------------------------------------------------------------------------
(***************************************************************************)
(* The cards that rows name.                                               *)
(***************************************************************************)
LEMMA NamedDeliver ==
  ASSUME BridgeTypes, Named, NEW h \in Handlers, Deliver(h)
  PROVE  Named'
  <1> DEFINE Card(n, key) == n \in DOMAIN cards' /\ cards'[n].key = key
             Rows == \A n \in DOMAIN rows' : rows'[n].state = "created" => Card(rows'[n].card, rows'[n].key)
             Made(g) == handler'[g].pc = "created" => Card(handler'[g].card, Key(g)')
  <1>1. rows \in Seq(RowOf) /\ cards \in Seq(CardOf)
      BY TypesSplit DEF BridgeTypes, OwnTypes
  <1>2. \A m \in DOMAIN cards : Card(m, cards[m].key)
      BY CardsStay
  <1>3. SUFFICES Rows /\ Made(h)
    <2>1. ASSUME NEW g \in Handlers, g # h PROVE Made(g)
        BY <1>2, <2>1, OthersWork DEF Named
    <2>2. QED
        BY <2>1 DEF Named
  <1>4. ASSUME NEW n \in DOMAIN rows, rows[n].state = "created" PROVE Card(rows[n].card, rows[n].key)
      BY <1>2, <1>4 DEF Named
  <1> HIDE DEF Card
  <1>5. CASE Claim(h)
    <2>1. handler'[h].pc # "created" /\ Key(h) \in Keys
        BY <1>5, Claims
    <2>2. CASE rows' = Append(rows, [key |-> Key(h), state |-> "processing", card |-> NoCard])
      <3>1. [key |-> Key(h), state |-> "processing", card |-> NoCard] \in RowOf
          BY <2>1, LegacyConstants DEF RowOf, NoCard
      <3>2. \A n \in DOMAIN rows' : \/ n \in DOMAIN rows /\ rows'[n] = rows[n]
                                    \/ rows'[n] = [key |-> Key(h), state |-> "processing", card |-> NoCard]
          BY <1>1, <2>2, <3>1, Appended
      <3>3. QED
          BY <1>4, <2>1, <3>2
    <2>3. ASSUME NEW n \in Row(Key(h)), rows' = [rows EXCEPT ![n].state = "processing"]
          PROVE  Rows
      <3>1. n \in DOMAIN rows /\ rows[n].card \in 0 .. MaxCards
          BY <1>1, RowAt DEF Row
      <3>2. /\ DOMAIN rows' = DOMAIN rows /\ rows'[n].state = "processing"
            /\ \A m \in DOMAIN rows : m # n => rows'[m] = rows[m]
          BY <1>1, <2>3, <3>1, RowChange
      <3>3. QED
          BY <1>4, <3>2
    <2>4. CASE rows' = rows
        BY <1>4, <2>1, <2>4
    <2>5. QED
        BY <1>5, <2>1, <2>2, <2>3, <2>4, Claims
  <1>6. CASE createBacklogIssue(h)
    <2>1. /\ cards' = Append(cards, [key |-> Key(h), done |-> FALSE]) /\ Key(h) \in Keys
          /\ Key(h)' = Key(h) /\ rows' = rows
          /\ handler'[h].pc = "created" => handler'[h].card = Len(cards')
        BY <1>6, Creates
    <2>2. [key |-> Key(h), done |-> FALSE] \in CardOf
        BY <2>1 DEF CardOf
    <2>3. Len(cards') \in DOMAIN cards' /\ cards'[Len(cards')] = [key |-> Key(h), done |-> FALSE]
        BY <1>1, <2>1, <2>2, Appended
    <2>4. Card(Len(cards'), Key(h))
        BY <2>3 DEF Card
    <2>5. QED
        BY <1>4, <2>1, <2>4
  <1>7. CASE createFails(h)
      BY <1>4, <1>7, Fails
  <1>8. CASE MarkCreated(h) \/ MarkError(h)
    <2>1. handler'[h].pc # "created"
        BY <1>8, Marks
    <2>2. ASSUME NEW n \in Row(Key(h)), rows' = [rows EXCEPT ![n].state = "error"]
          PROVE  Rows
      <3>1. n \in DOMAIN rows /\ rows[n].card \in 0 .. MaxCards
          BY <1>1, RowAt DEF Row
      <3>2. /\ DOMAIN rows' = DOMAIN rows /\ rows'[n].state = "error"
            /\ \A m \in DOMAIN rows : m # n => rows'[m] = rows[m]
          BY <1>1, <2>2, <3>1, RowChange
      <3>3. QED
          BY <1>4, <3>2
    <2>3. ASSUME NEW n \in Row(Key(h)), handler[h].pc = "created",
                 rows' = [rows EXCEPT ![n].state = "created", ![n].card = handler[h].card]
          PROVE  Rows
      <3>1. n \in DOMAIN rows /\ rows[n].key = Key(h) /\ handler[h].card \in 0 .. MaxCards
          BY <2>3, LocalsMove DEF Row, PublishPc, PublishLocals
      <3>2. /\ DOMAIN rows' = DOMAIN rows /\ rows'[n].card = handler[h].card /\ rows'[n].key = Key(h)
            /\ \A m \in DOMAIN rows : m # n => rows'[m] = rows[m]
          BY <1>1, <2>3, <3>1, RowChange
      <3>3. Card(handler[h].card, Key(h))
          BY <1>2, <2>3 DEF Named
      <3>4. QED
          BY <1>4, <3>2, <3>3
    <2>4. CASE rows' = rows
        BY <1>4, <2>1, <2>4
    <2>5. QED
        BY <1>8, <2>1, <2>2, <2>3, <2>4, Marks
  <1>9. CASE Elsewhere(h)
    <2>1. handler'[h].pc # "created" /\ rows' = rows
        BY <1>9, WorksElsewhere DEF Working
    <2>2. QED
        BY <1>4, <2>1
  <1>10. QED
      BY <1>5, <1>6, <1>7, <1>8, <1>9 DEF Deliver, Elsewhere

LEMMA NamedStep == BridgeTypes /\ Named /\ [Next]_vars => Named'
  <1> SUFFICES ASSUME BridgeTypes, Named, [Next]_vars, ~\E h \in Handlers : Deliver(h)
               PROVE  Named'
      BY NamedDeliver
  <1>1. UNCHANGED <<rows, cards>>
        /\ \A h \in Handlers : handler'[h].pc = "created" => handler'[h] = handler[h] /\ Key(h)' = Key(h)
      BY Beside DEF Key, Free
  <1>2. QED
      BY <1>1 DEF Named

-----------------------------------------------------------------------------
(***************************************************************************)
(* Archive pushes.                                                         *)
(***************************************************************************)
LEMMA ArchivesDeliver ==
  ASSUME BridgeTypes, Named, NEW h \in Handlers, Deliver(h), \A g \in Handlers : Archives(g), NEW f \in Handlers
  PROVE  Archives(f)'
  <1> DEFINE Shows(l) ==
               /\ l.pc \in {"done", "list", "close"} =>
                    l.card \in DOMAIN cards' /\ cards'[l.card].key.project = l.archive.project
                    /\ cards'[l.card].key.change = l.archive.change
               /\ l.pc \in {"list", "close"} => cards'[l.card].done
               /\ l.pc = "close" => \A i \in l.todo : Publication[i].project = l.archive.project
                                                      /\ Publication[i].change = l.archive.change
  <1>1. SUFFICES Shows(handler'[f])
      BY DEF Archives
  <1>2. \A m \in DOMAIN cards : /\ m \in DOMAIN cards' /\ cards'[m].key = cards[m].key
                                /\ cards[m].done => cards'[m].done
      BY CardsStay
  <1>3. \A g \in Handlers : Shows(handler[g])
    <2>1. TAKE g \in Handlers
    <2>2. Archives(g)
        OBVIOUS
    <2>3. QED
        BY <1>2, <2>2 DEF Archives
  <1>4. CASE f # h
      BY <1>3, <1>4, OthersWork
  <1>5. SUFFICES ASSUME f = h PROVE Shows(handler'[h])
      BY <1>4
  <1>6. ASSUME handler'[h].pc \notin {"done", "list", "close"} PROVE Shows(handler'[h])
      BY <1>6
  <1> HIDE DEF Shows
  <1>7. CASE Claim(h) \/ createBacklogIssue(h) \/ createFails(h) \/ MarkCreated(h) \/ MarkError(h)
    <2>1. handler'[h].pc \notin {"done", "list", "close"}
        BY <1>7, Claims, Creates, Fails, Marks
    <2>2. QED
        BY <1>6, <2>1
  <1>8. CASE ClaimFails(h) \/ InsertIssueLink(h) \/ InsertIssueLinkFails(h)
      BY <1>6, <1>8, LocalsMove DEF ClaimFails, InsertIssueLink, InsertIssueLinkFails, Free
  <1>9. CASE ServeHTTP(h)
    <2>1. ASSUME NEW i \in Issue, handler' = [handler EXCEPT ![h] = Publishing("allow", i, Unmapped, NoCard)]
          PROVE  handler'[h].pc = "allow"
      <3>1. handler'[h] = Publishing("allow", i, Unmapped, NoCard)
          BY <2>1, LocalsMove
      <3>2. QED
          BY <3>1 DEF Publishing
    <2>2. ASSUME NEW a \in Archive, handler' = [handler EXCEPT ![h] = Archiving("allowed", a, NoCard, {})]
          PROVE  handler'[h].pc = "allowed"
      <3>1. handler'[h] = Archiving("allowed", a, NoCard, {})
          BY <2>2, LocalsMove
      <3>2. QED
          BY <3>1 DEF Archiving
    <2>3. QED
        BY <1>6, <1>9, <2>1, <2>2 DEF ServeHTTP
  <1>10. CASE CheckAllowed(h)
    <2>1. CASE handler[h].pc = "allow" /\ Goto(h, "map")
        BY <1>6, <2>1, PublishMove DEF PublishPc
    <2>2. CASE handler[h].pc = "allowed" /\ Goto(h, "latest")
      <3>1. handler[h] \in ArchiveLocals /\ handler'[h] = [handler[h] EXCEPT !.pc = "latest"]
          BY <2>2, LocalsMove DEF ArchivePc
      <3>2. handler'[h].pc = "latest"
          BY <3>1 DEF ArchiveLocals
      <3>3. QED
          BY <1>6, <3>2
    <2>3. CASE Finish(h)
        BY <1>6, <2>3, LocalsMove DEF Free
    <2>4. QED
        BY <1>10, <2>1, <2>2, <2>3 DEF CheckAllowed
  <1>11. CASE ChooseMapping(h) \/ LookUpMapping(h)
    <2> DEFINE t == config.target[Publication[handler[h].issue].project]
    <2>1. handler[h] \in PublishLocals
        BY <1>11, LocalsMove DEF ChooseMapping, LookUpMapping, PublishPc
    <2>2. /\ [handler[h] EXCEPT !.pc = "lookup"].pc = "lookup"
          /\ [handler[h] EXCEPT !.pc = "claim", !.target = DefaultTarget].pc = "claim"
          /\ [handler[h] EXCEPT !.pc = "claim", !.target = t].pc = "claim"
          /\ Free.pc = "idle"
        BY <2>1 DEF PublishLocals, Free
    <2>3. handler'[h] \in {Free, [handler[h] EXCEPT !.pc = "lookup"],
                           [handler[h] EXCEPT !.pc = "claim", !.target = DefaultTarget],
                           [handler[h] EXCEPT !.pc = "claim", !.target = t]}
        BY <1>11, LocalsMove DEF ChooseMapping, LookUpMapping
    <2>4. QED
        BY <1>6, <2>2, <2>3
  <1>12. CASE LatestCreatedIssue(h)
    <2> DEFINE a == handler[h].archive
               card == Newest(a)
    <2>1. handler[h] \in ArchiveLocals /\ cards' = cards
        BY <1>12, LocalsMove DEF LatestCreatedIssue, ArchivePc
    <2>2. CASE card = NoCard
      <3>1. handler'[h] = Free
          BY <1>12, <2>2, LocalsMove DEF LatestCreatedIssue
      <3>2. QED
          BY <1>6, <3>1 DEF Free
    <2>3. CASE card # NoCard
      <3>1. handler'[h] = [handler[h] EXCEPT !.pc = "done", !.card = card]
          BY <1>12, <2>3, LocalsMove DEF LatestCreatedIssue
      <3>2. handler'[h].pc = "done" /\ handler'[h].card = card /\ handler'[h].archive = a
          BY <2>1, <3>1 DEF ArchiveLocals
      <3>3. PICK n \in DOMAIN rows : /\ rows[n].state = "created" /\ rows[n].card = card
                                     /\ rows[n].key.project = a.project /\ rows[n].key.change = a.change
          BY <2>3, NewestIsCreated, TypesSplit DEF BridgeTypes, OwnTypes
      <3>4. card \in DOMAIN cards /\ cards[card].key = rows[n].key
          BY <3>3 DEF Named
      <3>5. QED
          BY <2>1, <3>2, <3>3, <3>4 DEF Shows
    <2>4. QED
        BY <2>2, <2>3
  <1>13. CASE updateIssueStatus(h)
    <2>1. handler[h] \in ArchiveLocals /\ handler[h].pc = "done" /\ Shows(handler[h])
        BY <1>3, <1>13, LocalsMove DEF updateIssueStatus, ArchivePc
    <2>2. CASE cards' = [cards EXCEPT ![handler[h].card].done = TRUE] /\ Goto(h, "list")
      <3>1. handler'[h] = [handler[h] EXCEPT !.pc = "list"]
          BY <2>2, LocalsMove
      <3>2. handler'[h].pc = "list" /\ handler'[h].card = handler[h].card /\ handler'[h].archive = handler[h].archive
          BY <2>1, <3>1 DEF ArchiveLocals
      <3>3. handler[h].card \in DOMAIN cards
          BY <2>1 DEF Archives
      <3>4. cards'[handler[h].card].done
          BY <2>2, <3>3, TypesSplit, CardDone DEF BridgeTypes, OwnTypes
      <3>5. QED
          BY <2>1, <3>2, <3>4 DEF Shows
    <2>3. CASE Finish(h)
        BY <1>6, <2>3, LocalsMove DEF Free
    <2>4. QED
        BY <1>13, <2>2, <2>3 DEF updateIssueStatus, LeaveOpen
  <1>14. CASE ListIssueLinks(h)
    <2> DEFINE a == handler[h].archive
               todo == {i \in links : Publication[i].project = a.project /\ Publication[i].change = a.change}
    <2>1. handler[h] \in ArchiveLocals /\ handler[h].pc = "list" /\ Shows(handler[h])
        BY <1>3, <1>14, LocalsMove DEF ListIssueLinks, ArchivePc
    <2>2. handler' = [handler EXCEPT ![h] = [handler[h] EXCEPT !.pc = "close", !.todo = todo]]
        BY <1>14 DEF ListIssueLinks
    <2>3. \A i \in todo : Publication[i].project = a.project /\ Publication[i].change = a.change
        OBVIOUS
    <2> HIDE DEF todo
    <2>4. handler'[h] = [handler[h] EXCEPT !.pc = "close", !.todo = todo]
        BY <2>2, LocalsMove
    <2>5. handler'[h].pc = "close" /\ handler'[h].card = handler[h].card /\ handler'[h].archive = a
          /\ handler'[h].todo = todo
        BY <2>1, <2>4 DEF ArchiveLocals
    <2>6. QED
        BY <2>1, <2>3, <2>5 DEF Shows
  <1>15. CASE CloseIssue(h)
    <2>1. handler[h] \in ArchiveLocals /\ handler[h].pc = "close" /\ Shows(handler[h])
        BY <1>3, <1>15, LocalsMove DEF CloseIssue, ArchivePc
    <2>2. CASE Finish(h)
        BY <1>6, <2>2, LocalsMove DEF Free
    <2>3. ASSUME NEW i \in handler[h].todo, handler' = [handler EXCEPT ![h].todo = @ \ {i}]
          PROVE  Shows(handler'[h])
      <3>1. handler' = [handler EXCEPT ![h] = [handler[h] EXCEPT !.todo = handler[h].todo \ {i}]]
          BY <2>3
      <3>2. handler'[h] = [handler[h] EXCEPT !.todo = handler[h].todo \ {i}]
          BY <3>1, LocalsMove
      <3>3. handler'[h].pc = "close" /\ handler'[h].card = handler[h].card
            /\ handler'[h].archive = handler[h].archive /\ handler'[h].todo = handler[h].todo \ {i}
          BY <2>1, <3>2 DEF ArchiveLocals
      <3>4. QED
          BY <2>1, <3>3 DEF Shows
    <2>4. QED
        BY <1>15, <2>2, <2>3 DEF CloseIssue
  <1>16. QED
      BY <1>7, <1>8, <1>9, <1>10, <1>11, <1>12, <1>13, <1>14, <1>15 DEF Deliver
LEMMA ArchivesStep ==
  BridgeTypes /\ Named /\ (\A h \in Handlers : Archives(h)) /\ [Next]_vars => \A h \in Handlers : Archives(h)'
  <1> SUFFICES ASSUME BridgeTypes, Named, \A h \in Handlers : Archives(h), [Next]_vars,
                      ~\E h \in Handlers : Deliver(h), NEW f \in Handlers
               PROVE  Archives(f)'
      BY ArchivesDeliver
  <1>1. cards' = cards /\ handler'[f] \in {handler[f], Free}
      BY Beside
  <1>2. CASE handler'[f] = handler[f]
    <2>1. Archives(f)
        OBVIOUS
    <2>2. QED
        BY <1>1, <1>2, <2>1 DEF Archives
  <1>3. CASE handler'[f] = Free
      BY <1>3 DEF Archives, Free
  <1>4. QED
      BY <1>1, <1>2, <1>3

\* Only CloseIssue closes, and what it closes is of the change of a card that is done.
LEMMA ClosedStep ==
  BridgeTypes /\ (\A h \in Handlers : Archives(h)) /\ ClosedAfterDone /\ [Next]_vars => ClosedAfterDone'
  <1> SUFFICES ASSUME BridgeTypes, \A h \in Handlers : Archives(h), ClosedAfterDone, [Next]_vars
               PROVE  ClosedAfterDone'
      OBVIOUS
  <1>1. ASSUME NEW h \in Handlers, Deliver(h) PROVE ClosedAfterDone'
    <2>1. \A i \in closed : \E n \in DOMAIN cards' :
             /\ cards'[n].done
             /\ cards'[n].key.project = Publication[i].project
             /\ cards'[n].key.change = Publication[i].change
      <3>1. TAKE i \in closed
      <3>2. PICK n \in DOMAIN cards : /\ cards[n].done
                                      /\ cards[n].key.project = Publication[i].project
                                      /\ cards[n].key.change = Publication[i].change
          BY DEF ClosedAfterDone
      <3>3. n \in DOMAIN cards' /\ cards'[n].key = cards[n].key /\ cards'[n].done
          BY <1>1, <3>2, CardsStay
      <3>4. QED
          BY <3>2, <3>3
    <2>2. CASE closed' = closed
        BY <2>1, <2>2 DEF ClosedAfterDone
    <2>3. CASE CloseIssue(h) /\ closed' # closed
      <3>1. PICK i \in handler[h].todo : closed' = closed \cup {i}
          BY <2>3 DEF CloseIssue
      <3>2. Archives(h) /\ handler[h].pc = "close" /\ cards' = cards
          BY <2>3 DEF CloseIssue
      <3>3. /\ handler[h].card \in DOMAIN cards' /\ cards'[handler[h].card].done
            /\ cards'[handler[h].card].key.project = Publication[i].project
            /\ cards'[handler[h].card].key.change = Publication[i].change
          BY <3>1, <3>2 DEF Archives
      <3>4. QED
          BY <2>1, <3>1, <3>3 DEF ClosedAfterDone
    <2>4. QED
        BY <1>1, <2>2, <2>3 DEF Deliver, ServeHTTP, CheckAllowed, ChooseMapping, LookUpMapping, Claim, ClaimFails,
           createBacklogIssue, createFails, MarkCreated, MarkError, InsertIssueLink, InsertIssueLinkFails,
           LatestCreatedIssue, updateIssueStatus, ListIssueLinks
  <1>2. CASE ~\E h \in Handlers : Deliver(h)
    <2>1. UNCHANGED <<cards, closed>>
        BY <1>2, Beside
    <2>2. QED
        BY <2>1 DEF ClosedAfterDone
  <1>3. QED
      BY <1>1, <1>2

-----------------------------------------------------------------------------
(***************************************************************************)
(* The theorems.                                                           *)
(***************************************************************************)
LEMMA BridgeInvInit == Init => BridgeInv
  <1> SUFFICES ASSUME Init PROVE BridgeInv
      OBVIOUS
  <1>1. /\ rows = <<>> /\ cards = <<>> /\ closed = {} /\ DOMAIN rows = {} /\ DOMAIN cards = {}
        /\ \A h \in Handlers : handler[h].pc = "idle"
      BY DEF Init, Free
  <1>2. OneClaim /\ Counted /\ Named
      BY <1>1 DEF OneClaim, Counted, Named, Working
  <1>3. (\A h \in Handlers : Archives(h)) /\ ClosedAfterDone
      BY <1>1 DEF Archives, ClosedAfterDone
  <1>4. QED
      BY <1>2, <1>3, TypesInit DEF BridgeInv

LEMMA BridgeInvStep == BridgeInv /\ [Next]_vars => BridgeInv'
  BY TypesStep, OneClaimStep, CountedStep, NamedStep, ArchivesStep, ClosedStep DEF BridgeInv

LEMMA BridgeInvariant == Spec => []BridgeInv
  BY BridgeInvInit, BridgeInvStep, PTL DEF Spec

(***************************************************************************)
(* A stable key gets one card, and one more for each creation whose answer *)
(* was lost, however deliveries overlap, repeat, fail or are cut off by a  *)
(* crash.                                                                  *)
(***************************************************************************)
THEOREM OneCard == Spec => []OneCardPerKey
  <1>1. BridgeInv => OneCardPerKey
      BY DEF BridgeInv, Counted, Count, OneCardPerKey
  <1>2. QED
      BY <1>1, BridgeInvariant, PTL

(***************************************************************************)
(* An Issue is closed only after a card of its project and change was      *)
(* done, whatever happens to the rows and the configuration while an       *)
(* archive push is worked on.                                              *)
(***************************************************************************)
THEOREM ClosesAfterDone == Spec => []ClosedAfterDone
  <1>1. BridgeInv => ClosedAfterDone
      BY DEF BridgeInv
  <1>2. QED
      BY <1>1, BridgeInvariant, PTL

\* Only the delivery that holds the claim of a row writes it, and only while the
\* row is 'processing'; a claim itself takes a new row or a failed one.
LEMMA CreatedRowsStay ==
  ASSUME BridgeTypes, OneClaim, NEW h \in Handlers, Deliver(h), NEW n \in DOMAIN rows, rows[n].state = "created"
  PROVE  rows'[n] = rows[n]
  <1>1. rows \in Seq(RowOf)
      BY TypesSplit DEF BridgeTypes, OwnTypes
  <1>2. CASE rows' = rows
      BY <1>2
  <1>3. CASE Claim(h) /\ Row(Key(h)) = {}
             /\ rows' = Append(rows, [key |-> Key(h), state |-> "processing", card |-> NoCard])
    <2>1. [key |-> Key(h), state |-> "processing", card |-> NoCard] \in RowOf
      <3>1. Key(h) \in Keys
          BY <1>3, Claims
      <3>2. QED
          BY <3>1, LegacyConstants DEF RowOf, NoCard
    <2>2. QED
        BY <1>1, <1>3, <2>1, Appended
  <1>4. ASSUME NEW m \in Row(Key(h)), rows[m].state # "created",
               \/ rows' = [rows EXCEPT ![m].state = "processing"]
               \/ rows' = [rows EXCEPT ![m].state = "error"]
               \/ /\ handler[h].pc = "created"
                  /\ rows' = [rows EXCEPT ![m].state = "created", ![m].card = handler[h].card]
        PROVE  rows'[n] = rows[n]
    <2>1. m \in DOMAIN rows /\ m # n /\ rows[m].card \in 0 .. MaxCards
        BY <1>1, <1>4, RowAt DEF Row
    <2>2. handler[h].pc = "created" => handler[h].card \in 0 .. MaxCards
        BY LocalsMove DEF PublishPc, PublishLocals
    <2>3. QED
        BY <1>1, <1>4, <2>1, <2>2, RowChange
  <1>5. CASE Claim(h)
      BY <1>2, <1>3, <1>4, <1>5, Claims
  <1>6. CASE MarkCreated(h) \/ MarkError(h)
    <2>1. ASSUME NEW m \in Row(Key(h)) PROVE rows[m].state = "processing"
      <3>1. PICK k \in DOMAIN rows : rows[k].key = Key(h) /\ rows[k].state = "processing"
          BY <1>6, Marks DEF OneClaim
      <3>2. QED
          BY <3>1 DEF OneClaim, Row
    <2>2. QED
        BY <1>2, <1>4, <1>6, <2>1, Marks
  <1>7. CASE createBacklogIssue(h) \/ createFails(h)
      BY <1>2, <1>7, Creates, Fails
  <1>8. CASE Elsewhere(h)
      BY <1>2, <1>8, WorksElsewhere
  <1>9. QED
      BY <1>5, <1>6, <1>7, <1>8 DEF Deliver, Elsewhere

(***************************************************************************)
(* A row that reached 'created' keeps its state and its card, however many *)
(* deliveries of its key overlap, fail late or are repeated.               *)
(***************************************************************************)
THEOREM CreatedRowsStand == Spec => CreatedStands
  <1> DEFINE Stands == \A n \in DOMAIN rows : rows[n].state = "created" => rows'[n] = rows[n]
  <1>1. BridgeInv /\ [Next]_vars => [Stands]_rows
    <2> SUFFICES ASSUME BridgeInv, [Next]_vars PROVE [Stands]_rows
        OBVIOUS
    <2>1. ASSUME NEW h \in Handlers, Deliver(h) PROVE Stands
        BY <2>1, CreatedRowsStay DEF BridgeInv
    <2>2. CASE ~\E h \in Handlers : Deliver(h)
        BY <2>2, Beside
    <2>3. QED
        BY <2>1, <2>2
  <1>2. QED
      BY <1>1, BridgeInvariant, PTL DEF Spec, CreatedStands

(***************************************************************************)
(* The bridge runs the administration unchanged: whatever holds of         *)
(* LegacyAdmin on its own holds beside the deliveries.                     *)
(***************************************************************************)
THEOREM BridgeKeepsAdmin == Spec => AdminSpec
  <1>1. Init => AdminInit
      BY DEF Init
  <1>2. [Next]_vars => [AdminNext \/ AdminCrash \/ Start]_adminVars
      BY AdminBeside DEF Step
  <1>3. QED
      BY <1>1, <1>2, PTL DEF Spec, AdminSpec
=============================================================================
