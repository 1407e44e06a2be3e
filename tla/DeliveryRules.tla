--------------------------- MODULE DeliveryRules ---------------------------
(***************************************************************************)
(* What a GitLab delivery asks for: the matching, trailer and identity     *)
(* rules of internal/runtime/ingress.go.                                   *)
(*                                                                         *)
(* A commit message is reduced to the values of its SpecWire trailers, a   *)
(* push to its ref, whether it deletes the ref, and its messages (the head *)
(* commit first, then the commits, oldest first), an issue event to its    *)
(* action, labels, label change and the change its description names.      *)
(***************************************************************************)
EXTENDS Naturals, Sequences

None == ""
Reasons == {None, "fits", "tooLong"}   \* a reason has at most 1000 runes and one line

\* The messages, pushes and issue events over given changes and head commits.
Message(changes) ==
    [event : {None, "archived", "abandoned"}, status : {None, "archived", "abandoned"},
     change : changes \cup {None}, reason : Reasons]
Push(id, changes) ==
    [kind : {"push"}, id : {id}, main : BOOLEAN, deletes : BOOLEAN, messages : Seq(Message(changes))]
ChangeLabel == "change"
AbandonLabel == "specwire::abandoned"
NoDiff == {"no label change"}
Issue(id, changes, heads) ==
    [kind : {"issue"}, id : {id}, action : {"open", "update"}, labels : SUBSET {ChangeLabel, AbandonLabel},
     previous : (SUBSET {ChangeLabel, AbandonLabel}) \cup {NoDiff},
     current : SUBSET {ChangeLabel, AbandonLabel},
     change : changes \cup {None}, head : heads]

-----------------------------------------------------------------------------
\* parseLifecycleTrailer: an abandonment needs its status and a reason.
IsLifecycleTrailer(m) ==
    /\ m.event \in {"archived", "abandoned"}
    /\ m.change # None
    /\ m.status \in {None, m.event}
    /\ m.event = "abandoned" => m.status = "abandoned" /\ m.reason = "fits"

\* lifecycleTrailers, from the newest message back: of the trailers with one
\* event and change the newest is taken.
lifecycleTrailers(messages) ==
    {i \in DOMAIN messages :
        /\ IsLifecycleTrailer(messages[i])
        /\ \A j \in i + 1 .. Len(messages) :
               ~(/\ IsLifecycleTrailer(messages[j])
                 /\ messages[j].event = messages[i].event
                 /\ messages[j].change = messages[i].change)}

archivedLifecycleTrailers(e) ==
    IF e.main /\ ~e.deletes
    THEN {i \in lifecycleTrailers(e.messages) : e.messages[i].event = "archived"}
    ELSE {}

\* A change issue is opened.
matchesPublicationIssue(e) ==
    e.kind = "issue" /\ e.action = "open" /\ ChangeLabel \in e.labels

\* The label is added, to an issue that names its change; an update that does
\* not say which labels it changed may be Bridge's own.
matchesAbandonIssue(e) ==
    /\ e.kind = "issue" /\ e.action = "update"
    /\ e.change # None
    /\ AbandonLabel \in e.labels
    /\ e.previous # NoDiff /\ AbandonLabel \in e.current /\ AbandonLabel \notin e.previous

matchesArchivePush(e) ==
    e.kind = "push" /\ archivedLifecycleTrailers(e) # {}

matchesBehavior(e, behavior) ==
    CASE behavior = "gitlab.issue-abandon-hook" -> matchesAbandonIssue(e)
      [] behavior = "gitlab.issue-hook" -> matchesPublicationIssue(e)
      [] behavior = "gitlab.push-hook" -> matchesArchivePush(e)

\* eventPayloads: a push stands for every change it archives, newest first.
Payload(at, change, lifecycle, head) ==
    [at |-> at, change |-> change, lifecycle |-> lifecycle, head |-> head]

eventPayloads(e) ==
    IF e.kind = "push"
    THEN {Payload(i, e.messages[i].change, "archived", None) : i \in archivedLifecycleTrailers(e)}
    ELSE {Payload(1, e.change, IF matchesAbandonIssue(e) THEN "abandoned" ELSE None, e.head)}

\* What is one action, whichever delivery brings it.
actionIdentity(e, p) ==
    IF p.change = None THEN <<"delivery", e.id>>
    ELSE IF p.lifecycle = None THEN <<"publication", p.change, p.head>>
    ELSE <<"lifecycle", p.lifecycle, p.change>>

\* Mutant: the id GitLab sent.
deliveryIDOnly(e, p) == <<e.id>>

\* The delivery id of the event row: events of one delivery are told apart by change.
actionDeliveryID(e, p) ==
    IF p.change # None /\ p.lifecycle # None THEN <<e.id, p.lifecycle, p.change>> ELSE <<e.id>>

-----------------------------------------------------------------------------
(***************************************************************************)
(* What a delivery announces to a behaviour, without the rules above.      *)
(***************************************************************************)
Announced(e, behavior) ==
    CASE behavior = "gitlab.push-hook" /\ e.kind = "push" /\ e.main /\ ~e.deletes ->
             {<<"lifecycle", "archived", m.change>> :
                 m \in {e.messages[i] : i \in {j \in DOMAIN e.messages :
                            IsLifecycleTrailer(e.messages[j]) /\ e.messages[j].event = "archived"}}}
      [] behavior = "gitlab.issue-hook" /\ matchesPublicationIssue(e) ->
             IF e.change = None THEN {<<"delivery", e.id>>} ELSE {<<"publication", e.change, e.head>>}
      [] behavior = "gitlab.issue-abandon-hook" /\ matchesAbandonIssue(e) ->
             {<<"lifecycle", "abandoned", e.change>>}
      [] OTHER -> {}
=============================================================================
