----------------------------- MODULE FlowGraph -----------------------------
(***************************************************************************)
(* A Flow graph from its draft to its run: ValidateShape of                *)
(* internal/domain/flow.go, Validate of internal/flow/validation.go with   *)
(* its two traversals, the topological order that Compile, Simulate and    *)
(* the executor compute, and the walk of Simulate (internal/flow/          *)
(* simulation.go) that the executor repeats with provider calls.           *)
(*                                                                         *)
(* A node is what its kind and its behaviour make it: a connector is an    *)
(* input, an output or has no published behaviour; ports of a node that    *)
(* exist are told apart, their models and the parameters of a node are     *)
(* not.  Edges are taken in any order, as are the maps the code iterates.  *)
(***************************************************************************)
EXTENDS Naturals, Sequences, FiniteSets

CONSTANTS
    Node,
    Port, Required,   \* input ports of a node, those a generic node needs
    Graphs            \* drafts: kind of every node, and edges <<from, to, port>>

Kinds == {"absent", "input", "output", "unknown", "generic", "terminal"}
Edge == Node \X Node \X Port

ASSUME GraphConstants ==
    /\ IsFiniteSet(Node) /\ IsFiniteSet(Port) /\ Required \subseteq Port
    /\ Graphs \subseteq [kind : [Node -> Kinds], edges : SUBSET Edge]

VARIABLES
    graph,            \* the draft
    pc,
    color, stack, todo, cyclic,     \* hasCycle: "white", "gray", "black"; path; edges not looked at
    seen,                           \* reachableFromInput
    indegree, queue, order,         \* executionOrder
    position,                       \* the walk: place in order
    inputs,                         \* edges that have brought a value
    status                          \* trace of a node

search == <<color, stack, todo, cyclic>>
sorting == <<indegree, queue, order>>
walk == <<position, inputs, status>>
vars == <<graph, pc, search, seen, sorting, walk>>

GraphPc == {"shape", "cycle", "reach", "publish", "order", "walk", "rejected", "noOrder", "failed", "done"}
NodeStatus == {"none", "succeeded", "suppressed", "skipped", "failed"}

nodes == {n \in Node : graph.kind[n] # "absent"}
OutEdges(n) == {e \in graph.edges : e[1] = n}
InEdges(n) == {e \in graph.edges : e[2] = n}
InputNodes == {n \in nodes : graph.kind[n] = "input"}

Init ==
    /\ graph \in Graphs
    /\ pc = "shape"
    /\ color = [n \in Node |-> "white"]
    /\ stack = <<>>
    /\ todo = graph.edges
    /\ cyclic = FALSE
    /\ seen = {}
    /\ indegree = [n \in Node |-> 0]
    /\ queue = {}
    /\ order = <<>>
    /\ position = 1
    /\ inputs = {}
    /\ status = [n \in Node |-> "none"]

GraphTypeOK ==
    /\ graph \in [kind : [Node -> Kinds], edges : SUBSET Edge]
    /\ pc \in GraphPc
    /\ color \in [Node -> {"white", "gray", "black"}]
    /\ stack \in Seq(Node)
    /\ todo \subseteq graph.edges
    /\ cyclic \in BOOLEAN
    /\ seen \subseteq Node
    /\ indegree \in [Node -> Nat]
    /\ queue \subseteq Node
    /\ order \in Seq(Node)
    /\ position \in 1 .. Len(order) + 1
    /\ inputs \subseteq graph.edges
    /\ status \in [Node -> NodeStatus]

-----------------------------------------------------------------------------
(***************************************************************************)
(* Validate.                                                               *)
(***************************************************************************)
\* ValidateShape: edges join two nodes of the graph.
ValidShape ==
    \A e \in graph.edges : e[1] \in nodes /\ e[2] \in nodes /\ e[1] # e[2]

ValidateShape ==
    /\ pc = "shape"
    /\ pc' = IF ValidShape THEN "cycle" ELSE "rejected"
    /\ UNCHANGED <<graph, search, seen, sorting, walk>>

\* Mutant: a node that is on the path counts as done.
CycleThrough(n) == FALSE

\* The search runs into its own path.
ClosesCycle(n) == color[n] = "gray"

\* visit, called for every node of the map ...
VisitRoot ==
    /\ pc = "cycle" /\ stack = <<>> /\ ~cyclic
    /\ \E n \in nodes :
          /\ color[n] = "white"
          /\ color' = [color EXCEPT ![n] = "gray"]
          /\ stack' = <<n>>
    /\ UNCHANGED <<graph, pc, todo, cyclic, seen, sorting, walk>>

\* ... and for every successor.
VisitNext ==
    /\ pc = "cycle" /\ stack # <<>> /\ ~cyclic
    /\ \E e \in todo \cap OutEdges(Head(stack)) :
          /\ todo' = todo \ {e}
          /\ cyclic' = ClosesCycle(e[2])
          /\ IF color[e[2]] = "white"
             THEN /\ color' = [color EXCEPT ![e[2]] = "gray"]
                  /\ stack' = <<e[2]>> \o stack
             ELSE UNCHANGED <<color, stack>>
    /\ UNCHANGED <<graph, pc, seen, sorting, walk>>

LeaveNode ==
    /\ pc = "cycle" /\ stack # <<>> /\ ~cyclic
    /\ todo \cap OutEdges(Head(stack)) = {}
    /\ color' = [color EXCEPT ![Head(stack)] = "black"]
    /\ stack' = Tail(stack)
    /\ UNCHANGED <<graph, pc, todo, cyclic, seen, sorting, walk>>

\* The checks that do not depend on publication: registered behaviours,
\* exactly one input, no cycle, and required ports of generic nodes connected.
Diagnosed ==
    \/ \E n \in nodes : graph.kind[n] = "unknown"
    \/ Cardinality(InputNodes) # 1
    \/ cyclic
    \/ \E n \in nodes, p \in Required : graph.kind[n] = "generic" /\ ~\E e \in InEdges(n) : e[3] = p

EndOfSearch ==
    /\ pc = "cycle"
    /\ cyclic \/ (stack = <<>> /\ \A n \in nodes : color[n] # "white")
    /\ pc' = IF Diagnosed THEN "rejected" ELSE "reach"
    /\ seen' = InputNodes
    /\ UNCHANGED <<graph, search, sorting, walk>>

\* reachableFromInput, a layer of its queue at a time.
ExtendReach ==
    LET next == {e[2] : e \in {x \in graph.edges : x[1] \in seen}}
    IN  /\ pc = "reach"
        /\ IF next \subseteq seen
           THEN pc' = "publish" /\ UNCHANGED seen
           ELSE seen' = seen \cup next /\ UNCHANGED pc
        /\ UNCHANGED <<graph, search, sorting, walk>>

\* Mutant: the last node of a path is not looked at.
PathEndsAnywhere == TRUE

\* path_not_terminated, output_required.
PathsTerminate ==
    \A n \in seen : OutEdges(n) = {} => graph.kind[n] \in {"output", "terminal"}

\* Mutant: parallel edges count once.
IndegreeOnce(n) == Cardinality({e[1] : e \in InEdges(n)})

Indegree(n) == Cardinality(InEdges(n))

Publish ==
    /\ pc = "publish"
    /\ pc' = IF PathsTerminate THEN "order" ELSE "rejected"
    /\ indegree' = [n \in Node |-> Indegree(n)]
    /\ queue' = {n \in nodes : InEdges(n) = {}}
    /\ UNCHANGED <<graph, search, seen, order, walk>>

-----------------------------------------------------------------------------
(***************************************************************************)
(* executionOrder, simulationOrder and the loop of Compile.                *)
(***************************************************************************)
\* Mutant: an edge is counted, but a successor is discounted once.
DiscountOnce(n, m) == IF \E e \in OutEdges(n) : e[2] = m THEN 1 ELSE 0

\* What dequeuing n takes off the indegree of m: one per edge.
Discount(n, m) == Cardinality({e \in OutEdges(n) : e[2] = m})

\* Mutant: a successor is queued at its first discount.
QueuedEarly(n, left) == {m \in nodes : Discount(n, m) > 0}

\* A successor is queued when nothing is left.
Queued(n, left) == {m \in nodes : Discount(n, m) > 0 /\ left[m] = 0}

Dequeue(n) ==
    LET left == [m \in Node |-> indegree[m] - Discount(n, m)]
    IN  /\ pc = "order"
        /\ n \in queue
        /\ order' = Append(order, n)
        /\ indegree' = left
        /\ queue' = (queue \ {n}) \cup Queued(n, left)
        /\ UNCHANGED <<graph, pc, search, seen, walk>>

\* A node that was never queued is on a cycle.
EndOfOrder ==
    /\ pc = "order"
    /\ queue = {}
    /\ pc' = IF Len(order) = Cardinality(nodes) THEN "walk" ELSE "noOrder"
    /\ UNCHANGED <<graph, search, seen, sorting, walk>>

-----------------------------------------------------------------------------
(***************************************************************************)
(* The walk.                                                               *)
(***************************************************************************)
Active(n) == n \in InputNodes \/ \E e \in InEdges(n) : e \in inputs

\* Outcomes of simulateNode: an output is suppressed, a generic node may fail
\* on the data, and a filter may not match.
PossibleStatus(n) ==
    CASE graph.kind[n] = "output" -> {"suppressed"}
      [] graph.kind[n] = "generic" -> {"succeeded", "skipped", "failed"}
      [] OTHER -> {"succeeded"}

Skip ==
    /\ pc = "walk"
    /\ position <= Len(order)
    /\ ~Active(order[position])
    /\ position' = position + 1
    /\ UNCHANGED <<graph, pc, search, seen, sorting, inputs, status>>

Visit ==
    LET n == order[position]
    IN  /\ pc = "walk"
        /\ position <= Len(order)
        /\ Active(n)
        /\ \E s \in PossibleStatus(n) :
              /\ status' = [status EXCEPT ![n] = s]
              /\ inputs' = IF s \in {"succeeded", "suppressed"} THEN inputs \cup OutEdges(n) ELSE inputs
              /\ pc' = IF s = "failed" THEN "failed" ELSE pc
        /\ position' = position + 1
        /\ UNCHANGED <<graph, search, seen, sorting>>

EndOfWalk ==
    /\ pc = "walk"
    /\ position > Len(order)
    /\ pc' = "done"
    /\ UNCHANGED <<graph, search, seen, sorting, walk>>

Next ==
    \/ ValidateShape
    \/ VisitRoot
    \/ VisitNext
    \/ LeaveNode
    \/ EndOfSearch
    \/ ExtendReach
    \/ Publish
    \/ \E n \in Node : Dequeue(n)
    \/ EndOfOrder
    \/ Skip
    \/ Visit
    \/ EndOfWalk

Spec == Init /\ [][Next]_vars

-----------------------------------------------------------------------------
(***************************************************************************)
(* The depth-first search rejects exactly the graphs with a cycle, which   *)
(* is a set of nodes each of which is entered from the set.                *)
(***************************************************************************)
HasCycle ==
    \E S \in (SUBSET nodes) \ {{}} : \A n \in S : \E e \in InEdges(n) : e[1] \in S

CycleIsFound ==
    /\ cyclic => HasCycle
    /\ pc \in {"reach", "publish", "order", "walk", "done", "failed"} => ~HasCycle

(***************************************************************************)
(* A graph that Validate accepts can be ordered: Compile, Simulate and the *)
(* executor never meet the cycle that they check for once more.            *)
(***************************************************************************)
AcceptedHasOrder == pc # "noOrder"

(***************************************************************************)
(* A node comes after all its predecessors, and once.                      *)
(***************************************************************************)
OrderRespectsEdges ==
    /\ \A i, j \in DOMAIN order : order[i] = order[j] => i = j
    /\ \A j \in DOMAIN order : \A e \in InEdges(order[j]) : \E i \in 1 .. j - 1 : order[i] = e[1]

(***************************************************************************)
(* What a node has read is final: no value arrives at a node that the walk *)
(* has passed, so a join never runs on half of its branches while another  *)
(* one is still to come (the order of nodes in Simulate and in the         *)
(* executor).                                                              *)
(***************************************************************************)
InputsAreFinal ==
    [][\A i \in DOMAIN order : i < position => inputs' \cap InEdges(order[i]) = inputs \cap InEdges(order[i])]_walk

(***************************************************************************)
(* Every path that is walked comes to an end that publication accepts: an  *)
(* output, a terminal or a filter that does not match; and only what is    *)
(* reachable from the input is walked ("every executable path must         *)
(* terminate at an output ConnectorNode or filtered terminal").            *)
(***************************************************************************)
PathsAreTerminated ==
    pc = "done" =>
        /\ {n \in Node : status[n] # "none"} \subseteq seen
        /\ \E n \in Node :
               \/ status[n] \in {"suppressed", "skipped"}
               \/ graph.kind[n] = "terminal" /\ status[n] = "succeeded"
        /\ \A n \in Node : status[n] = "succeeded" =>
               graph.kind[n] = "terminal" \/ \E e \in OutEdges(n) : status[e[2]] # "none"
=============================================================================
