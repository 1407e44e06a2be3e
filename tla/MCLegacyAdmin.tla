---------------------------- MODULE MCLegacyAdmin ----------------------------
(***************************************************************************)
(* Instances of LegacyAdmin for TLC: one project that stays and one that   *)
(* comes and goes, administered by overlapping requests.                   *)
(***************************************************************************)
EXTENDS LegacyAdmin, TLC

\* The requests are alike.
Symmetry == Permutations(AdminRequests)
=============================================================================
