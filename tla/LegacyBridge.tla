---------------------------- MODULE LegacyBridge ----------------------------
(***************************************************************************)
(* The process-level webhook bridge (src/bridge/handler.go, store.go):     *)
(* publication Issues of GitLab become Multica cards, once per stable key, *)
(* and an archive push sets the card done and closes the Issues.  Every    *)
(* request reads the configuration again at each use, while LegacyAdmin's  *)
(* requests exchange it.  GitLab may deliver a webhook any number of times, *)
(* concurrently and after any answer.                                      *)
(***************************************************************************)
EXTENDS LegacyAdmin, SequencesExt

CONSTANTS
    Issue,            \* publication Issues
    Publication,      \* Issue -> [project, change, head]
    Archive,          \* [project, change] of the archive trailers
    Handlers,         \* concurrently served deliveries
    MaxLost,          \* bound: cards whose creation was answered by an error
    MaxCards          \* bound: cards

ASSUME LegacyConstants ==
    /\ \A i \in Issue : Publication[i].project \in Project
    /\ \A a \in Archive : a.project \in Project
    /\ MaxLost \in Nat /\ MaxCards \in Nat

VARIABLES
    rows,             \* table events in rowid order
    cards,            \* Multica, in the order of creation
    links,            \* table issue_links
    closed,           \* Issues closed at GitLab
    lost,             \* cards created without the bridge knowing
    handler           \* locals of a delivery

tables == <<rows, links>>
multica == <<cards, lost>>
bridgeVars == <<tables, multica, closed, handler>>
vars == <<adminVars, bridgeVars>>

NoCard == 0
Keys == [project : {Publication[i].project : i \in Issue}, change : {Publication[i].change : i \in Issue},
         head : {Publication[i].head : i \in Issue}, target : Target \cup {DefaultTarget}]
stableKeyOf(i, t) ==
    [project |-> Publication[i].project, change |-> Publication[i].change,
     head |-> Publication[i].head, target |-> t]

Free == [pc |-> "idle"]
Publishing(pc, i, t, card) == [pc |-> pc, issue |-> i, target |-> t, card |-> card]
Archiving(pc, a, card, todo) == [pc |-> pc, archive |-> a, card |-> card, todo |-> todo]

PublishPc == {"allow", "map", "lookup", "claim", "create", "created", "failed", "link"}
ArchivePc == {"allowed", "latest", "done", "list", "close"}

Init ==
    /\ AdminInit
    /\ rows = <<>> /\ cards = <<>> /\ links = {} /\ closed = {}
    /\ lost = 0
    /\ handler = [h \in Handlers |-> Free]

TypeOK ==
    /\ AdminTypeOK
    /\ rows \in Seq([key : Keys, state : {"processing", "created", "error"}, card : 0 .. MaxCards])
    /\ cards \in Seq([key : Keys, done : BOOLEAN])
    /\ links \subseteq Issue /\ closed \subseteq Issue
    /\ lost \in 0 .. MaxLost
    /\ handler \in [Handlers ->
         {Free}
         \cup [pc : PublishPc, issue : Issue, target : Target \cup {DefaultTarget, Unmapped}, card : 0 .. MaxCards]
         \cup [pc : ArchivePc, archive : Archive, card : 0 .. MaxCards, todo : SUBSET Issue]]

Row(key) == {n \in DOMAIN rows : rows[n].key = key}
CardsOf(key) == {n \in DOMAIN cards : cards[n].key = key}
Goto(h, pc) == handler' = [handler EXCEPT ![h].pc = pc]
Finish(h) == handler' = [handler EXCEPT ![h] = Free]

-----------------------------------------------------------------------------
(***************************************************************************)
(* Receiving: GitLab signs with the token of a hook of the project.        *)
(***************************************************************************)
verifySignature(p) == \E n \in DOMAIN hooks[p] : hooks[p][n] \in config.secrets

\* ServeHTTP; a delivery that is refused changes nothing.
ServeHTTP(h) ==
    /\ running
    /\ handler[h] = Free
    /\ \/ \E i \in Issue :
             /\ verifySignature(Publication[i].project)
             /\ handler' = [handler EXCEPT ![h] = Publishing("allow", i, Unmapped, NoCard)]
       \/ \E a \in Archive :
             /\ verifySignature(a.project)
             /\ handler' = [handler EXCEPT ![h] = Archiving("allowed", a, NoCard, {})]
    /\ UNCHANGED <<adminVars, tables, multica, closed>>

\* The allowlist, with the Config of this moment.
CheckAllowed(h) ==
    /\ running
    /\ \/ /\ handler[h].pc = "allow"
          /\ IF Publication[handler[h].issue].project \in config.allowed THEN Goto(h, "map") ELSE Finish(h)
       \/ /\ handler[h].pc = "allowed"
          /\ IF handler[h].archive.project \in config.allowed THEN Goto(h, "latest") ELSE Finish(h)
    /\ UNCHANGED <<adminVars, tables, multica, closed>>

-----------------------------------------------------------------------------
(***************************************************************************)
(* handlePublication.                                                      *)
(***************************************************************************)
\* len(ProjectMap): without a map the card goes to the default project.
ChooseMapping(h) ==
    /\ running
    /\ handler[h].pc = "map"
    /\ handler' = [handler EXCEPT ![h] =
                      IF Mapped(config) # {} THEN [@ EXCEPT !.pc = "lookup"]
                      ELSE [@ EXCEPT !.pc = "claim", !.target = DefaultTarget]]
    /\ UNCHANGED <<adminVars, tables, multica, closed>>

\* A project that has no entry, the others having one, is an error.
Missing(t) == t = Unmapped

\* The lookup reads the Config once more.
LookUpMapping(h) ==
    LET t == config.target[Publication[handler[h].issue].project]
    IN  /\ running
        /\ handler[h].pc = "lookup"
        /\ handler' = [handler EXCEPT ![h] =
                          IF Missing(t) THEN Free ELSE [@ EXCEPT !.pc = "claim", !.target = t]]
        /\ UNCHANGED <<adminVars, tables, multica, closed>>

Key(h) == stableKeyOf(handler[h].issue, handler[h].target)

\* Mutant: an unfinished card may be tried again as well.
RetryUnfinished(n) == rows[n].state # "created"

\* A failed card may be tried again; its row keeps its place.
Retryable(n) == rows[n].state = "error"

Claim(h) ==
    /\ running
    /\ handler[h].pc = "claim"
    /\ \/ /\ Row(Key(h)) = {}
          /\ rows' = Append(rows, [key |-> Key(h), state |-> "processing", card |-> NoCard])
          /\ Goto(h, "create")
       \/ \E n \in Row(Key(h)) :
             IF Retryable(n)
             THEN /\ rows' = [rows EXCEPT ![n].state = "processing"]
                  /\ Goto(h, "create")
             ELSE /\ rows' = rows
                  /\ Goto(h, "link")
    /\ UNCHANGED <<adminVars, links, multica, closed>>

\* The store refuses: error, answered 502.
ClaimFails(h) ==
    /\ running
    /\ handler[h].pc = "claim"
    /\ Finish(h)
    /\ UNCHANGED <<adminVars, tables, multica, closed>>

createBacklogIssue(h) ==
    /\ running
    /\ handler[h].pc = "create"
    /\ Len(cards) < MaxCards
    /\ cards' = Append(cards, [key |-> Key(h), done |-> FALSE])
    /\ \/ /\ handler' = [handler EXCEPT ![h].pc = "created", ![h].card = Len(cards')]
          /\ lost' = lost
       \/ \* timeout of the CLI, or output that cannot be read
          /\ lost < MaxLost
          /\ lost' = lost + 1
          /\ Goto(h, "failed")
    /\ UNCHANGED <<adminVars, tables, closed>>

createFails(h) ==
    /\ running
    /\ handler[h].pc = "create"
    /\ Goto(h, "failed")
    /\ UNCHANGED <<adminVars, tables, multica, closed>>

\* A failure of the store is only logged: the answer is created all the same.
MarkCreated(h) ==
    /\ running
    /\ handler[h].pc = "created"
    /\ \/ rows' = rows
       \/ \E n \in Row(Key(h)) :
             rows' = [rows EXCEPT ![n].state = "created", ![n].card = handler[h].card]
    /\ handler' = [handler EXCEPT ![h].pc = "link", ![h].card = NoCard]
    /\ UNCHANGED <<adminVars, links, multica, closed>>

\* Here too: the answer is 502 in any case.
MarkError(h) ==
    /\ running
    /\ handler[h].pc = "failed"
    /\ \/ rows' = rows
       \/ \E n \in Row(Key(h)) : rows' = [rows EXCEPT ![n].state = "error"]
    /\ Finish(h)
    /\ UNCHANGED <<adminVars, links, multica, closed>>

\* INSERT OR IGNORE, then the answer created or duplicate: a duplicate repairs a
\* link that an earlier delivery could not write.
InsertIssueLink(h) ==
    /\ running
    /\ handler[h].pc = "link"
    /\ links' = links \cup {handler[h].issue}
    /\ Finish(h)
    /\ UNCHANGED <<adminVars, rows, multica, closed>>

InsertIssueLinkFails(h) ==
    /\ running
    /\ handler[h].pc = "link"
    /\ Finish(h)
    /\ UNCHANGED <<adminVars, tables, multica, closed>>

-----------------------------------------------------------------------------
(***************************************************************************)
(* handleArchived, for one archived change of a push: a failure ends the   *)
(* work on this change and is logged.                                      *)
(***************************************************************************)
Newest(a) ==
    LET found == {n \in DOMAIN rows : rows[n].state = "created" /\ rows[n].key.project = a.project
                                     /\ rows[n].key.change = a.change}
    IN  IF found = {} THEN NoCard ELSE rows[Max(found)].card

LatestCreatedIssue(h) ==
    LET card == Newest(handler[h].archive)
    IN  /\ running
        /\ handler[h].pc = "latest"
        /\ handler' = [handler EXCEPT ![h] =
                          IF card = NoCard THEN Free ELSE [@ EXCEPT !.pc = "done", !.card = card]]
        /\ UNCHANGED <<adminVars, tables, multica, closed>>

\* Mutant: a failure of Multica does not end the work.
CloseAnyway(h) == Goto(h, "list")

\* Without the card being done the Issues stay open.
LeaveOpen(h) == Finish(h)

\* An error may hide that the card was set.
updateIssueStatus(h) ==
    LET set == [cards EXCEPT ![handler[h].card].done = TRUE]
    IN  /\ running
        /\ handler[h].pc = "done"
        /\ \/ cards' = set /\ Goto(h, "list")
           \/ cards' \in {cards, set} /\ LeaveOpen(h)
        /\ UNCHANGED <<adminVars, tables, lost, closed>>

ListIssueLinks(h) ==
    LET a == handler[h].archive
    IN  /\ running
        /\ handler[h].pc = "list"
        /\ handler' = [handler EXCEPT ![h].pc = "close",
                                      ![h].todo = {i \in links : Publication[i].project = a.project
                                                               /\ Publication[i].change = a.change}]
        /\ UNCHANGED <<adminVars, tables, multica, closed>>

\* closeLinkedGitLabIssues: one after the other, in the order of the table; a failure does not stop the others.
CloseIssue(h) ==
    /\ running
    /\ handler[h].pc = "close"
    /\ IF handler[h].todo = {}
       THEN Finish(h) /\ UNCHANGED closed
       ELSE \E i \in handler[h].todo :
               /\ handler' = [handler EXCEPT ![h].todo = @ \ {i}]
               /\ closed' \in {closed, closed \cup {i}}
    /\ UNCHANGED <<adminVars, tables, multica>>

-----------------------------------------------------------------------------
Crash ==
    /\ AdminCrash
    /\ handler' = [h \in Handlers |-> Free]
    /\ UNCHANGED <<tables, multica, closed>>

Deliver(h) ==
    \/ ServeHTTP(h) \/ CheckAllowed(h)
    \/ ChooseMapping(h) \/ LookUpMapping(h)
    \/ Claim(h) \/ ClaimFails(h)
    \/ createBacklogIssue(h) \/ createFails(h)
    \/ MarkCreated(h) \/ MarkError(h)
    \/ InsertIssueLink(h) \/ InsertIssueLinkFails(h)
    \/ LatestCreatedIssue(h) \/ updateIssueStatus(h)
    \/ ListIssueLinks(h) \/ CloseIssue(h)

Next ==
    \/ \E h \in Handlers : Deliver(h)
    \/ (AdminNext \/ Start) /\ UNCHANGED bridgeVars
    \/ Crash

Spec == Init /\ [][Next]_vars

-----------------------------------------------------------------------------
(***************************************************************************)
(* A stable key gets one card, and one more for each creation that was     *)
(* reported as failed although Multica had made the card: never because    *)
(* deliveries overlap, repeat or outlive a crash.                          *)
(***************************************************************************)
OneCardPerKey ==
    \A key \in {rows[n].key : n \in DOMAIN rows} : Cardinality(CardsOf(key)) <= 1 + lost

(***************************************************************************)
(* A row that reached 'created' stays what it is and keeps its card, which *)
(* is the one an archive push will set done: MarkCreated and MarkError     *)
(* (store.go) write by the key alone, whatever the row has become, so that *)
(* only the claim keeps a slower delivery from undoing it.                 *)
(***************************************************************************)
CreatedStands ==
    [][\A n \in DOMAIN rows : rows[n].state = "created" => rows'[n] = rows[n]]_rows

(***************************************************************************)
(* An Issue is closed only after a card of the same project and change     *)
(* was done.                                                               *)
(***************************************************************************)
ClosedAfterDone ==
    \A i \in closed :
        \E n \in DOMAIN cards :
            /\ cards[n].done
            /\ cards[n].key.project = Publication[i].project
            /\ cards[n].key.change = Publication[i].change

(***************************************************************************)
(* "Duplicate" is answered for an unfinished row because the delivery that *)
(* claimed it will finish it or be answered 502 and repeated               *)
(* (store.go:15-16): some delivery is working on it.  It does not hold     *)
(* after a crash, or when the error cannot be recorded.                    *)
(***************************************************************************)
ProcessingIsServed ==
    \A n \in DOMAIN rows :
        rows[n].state = "processing" =>
            \E h \in Handlers :
                /\ handler[h].pc \in {"create", "created", "failed"}
                /\ Key(h) = rows[n].key
=============================================================================
