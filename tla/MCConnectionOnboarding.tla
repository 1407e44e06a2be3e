---------------------- MODULE MCConnectionOnboarding ----------------------
(***************************************************************************)
(* Small instances of ConnectionOnboarding: one source project, a Multica  *)
(* project that exists and one that may be created.                        *)
(***************************************************************************)
EXTENDS ConnectionOnboarding, TLC

CONSTANTS s1, o1, o2

\* The first operation creates its target, the second one asks for the
\* project that exists.
CreateOrChoose == [o \in Operations |-> IF o = o1 THEN {<<s1, 0>>} ELSE {<<s1, 1>>}]

\* One resource: the chosen project has it already, a created one does not.
ProjectOnly == <<"project">>
ForeignResource == {<<"project", s1, 1>>}

RunSymmetry == Permutations(Runs)
=============================================================================
