--------------------------- MODULE MCFlowRuntime ---------------------------
(***************************************************************************)
(* Small instances of FlowRuntime.                                         *)
(***************************************************************************)
EXTENDS FlowRuntime, TLC

CONSTANTS e1, e2, c1, c2

\* Both executions belong to one Connection: its mutex is contended.
SharedConnection == [e \in Executions |-> c1]

\* Goroutines are interchangeable, and so are executions of one Connection.
WorkerSymmetry == Permutations(Goroutines)
RunSymmetry == Permutations(Goroutines) \cup Permutations(Executions)
=============================================================================
