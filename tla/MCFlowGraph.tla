---------------------------- MODULE MCFlowGraph ----------------------------
(***************************************************************************)
(* Small instances of FlowGraph.                                           *)
(***************************************************************************)
EXTENDS FlowGraph, TLC

CONSTANTS p, MaxEdges, MaxParallel

UpTo(k, S) == {{}} \cup {{f[i] : i \in 1 .. k} : f \in [1 .. k -> S]}

Proper == {e \in Edge : e[1] # e[2]}
Used == {"input", "output", "generic", "terminal"}

\* At most MaxEdges edges, no two of them parallel.
PlainGraphs == [kind : [Node -> Used], edges : UpTo(MaxEdges, {e \in Proper : e[3] = p})]

\* Without one of the nodes, and with parallel edges.
ParallelGraphs ==
    UNION {[kind : {k \in [Node -> Used \cup {"absent"}] : \A m \in Node : k[m] = "absent" <=> m = n},
            edges : UpTo(MaxParallel, {e \in Proper : n \notin {e[1], e[2]}})] : n \in Node}

\* Dangling edges, loops and unregistered behaviours.
OddGraphs ==
    [kind : [Node -> {"absent", "unknown", "input", "output"}], edges : UpTo(1, {e \in Edge : e[3] = p})]

AllGraphs == PlainGraphs \cup ParallelGraphs \cup OddGraphs

NodeSymmetry == Permutations(Node)
=============================================================================
