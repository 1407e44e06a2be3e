------------------------- MODULE MCIssueProjection -------------------------
(***************************************************************************)
(* Small instances of IssueProjection.                                     *)
(***************************************************************************)
EXTENDS IssueProjection

CONSTANTS f1, f2, ch1, p1, p2, p3, archive, abandon

\* p1 and p3 are deliveries of one Flow, p2 belongs to the other one.
FlowOfPublish == [x \in Publishes |-> IF x = p2 THEN f2 ELSE f1]

OneChange == [x \in Executions |-> ch1]

\* Every Flow has a title or description of its own.
OwnCards == [k \in Keys |-> k[1]]
=============================================================================
