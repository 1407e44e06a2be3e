------------------------- MODULE MCWebhookIngress -------------------------
(***************************************************************************)
(* Small instances of WebhookIngress.                                      *)
(***************************************************************************)
EXTENDS WebhookIngress, TLC

CONSTANTS f1, abandon

\* The rows of the reserved name there may be.  With two, overlapping calls of
\* EnsureAbandonFlow may each create one (OneReservedFlow).
OneReserved == <<abandon>>
TwoReserved == <<abandon, f1>>

Archives(change) == [event |-> "archived", status |-> None, change |-> change, reason |-> None]

\* A push that archives two changes, one of them named again by its head
\* commit, beside a trailer that is none; GitLab may send it again.
ArchivePush ==
    [kind |-> "push", id |-> "push", main |-> TRUE, deletes |-> FALSE,
     messages |-> <<Archives("b"), Archives("a"),
                    [event |-> "abandoned", status |-> None, change |-> "a", reason |-> "fits"],
                    Archives("b")>>]

\* The issue of a change gets the abandon label.
AbandonUpdate ==
    [kind |-> "issue", id |-> "issue", action |-> "update", labels |-> {ChangeLabel, AbandonLabel},
     previous |-> {ChangeLabel}, current |-> {ChangeLabel, AbandonLabel}, change |-> "a", head |-> "h"]

PushOnly == {ArchivePush}
PushAndAbandon == {ArchivePush, AbandonUpdate}
TwoChanges == {"a", "b"}
OneHead == {"h"}
PushOrAbandon == [f \in Flows |-> IF f = abandon THEN "gitlab.issue-abandon-hook" ELSE "gitlab.push-hook"]

RequestSymmetry == Permutations(Requests)
HandlerSymmetry == Permutations(Handlers)
=============================================================================
