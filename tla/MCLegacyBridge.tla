--------------------------- MODULE MCLegacyBridge ---------------------------
(***************************************************************************)
(* Instances of LegacyBridge for TLC: Issues publish the same head of one  *)
(* change, and the change is archived.                                     *)
(***************************************************************************)
EXTENDS LegacyBridge

CONSTANTS p, c, s1

Published == [i \in Issue |-> [project |-> p, change |-> c, head |-> s1]]
Archived == {[project |-> p, change |-> c]}

\* Deliveries are alike, and so are the Issues.
Symmetry == Permutations(Handlers) \cup Permutations(Issue)
=============================================================================
