-------------------------- MODULE FlowGraphProofs --------------------------
(***************************************************************************)
(* Theorems about FlowGraph, for every set of nodes, ports and drafts.     *)
(***************************************************************************)
EXTENDS FlowGraph, FiniteSetTheorems, SequenceTheorems, TLAPS

\* A node is listed by a path or an order.
Lists(s, n) == \E i \in DOMAIN s : s[i] = n

\* No node is listed twice.
Distinct(s) == \A i, j \in DOMAIN s : s[i] = s[j] => i = j

Black(n) == color[n] = "black"

\* The path of the search runs along edges, from its last element to its first.
Path ==
    /\ Distinct(stack)
    /\ \A n \in Node : color[n] = "gray" <=> Lists(stack, n)
    /\ \A n \in Node : color[n] # "white" => n \in nodes
    /\ \A i \in DOMAIN stack : i > 1 => \E e \in graph.edges : e[1] = stack[i] /\ e[2] = stack[i - 1]

\* An edge that was looked at leads to a finished node, or on along the path;
\* a finished node has no edge left.
LookedAt ==
    /\ \A e \in graph.edges \ todo :
           Black(e[2]) \/ \E i \in DOMAIN stack : i > 1 /\ stack[i] = e[1] /\ stack[i - 1] = e[2]
    /\ \A n \in Node : Black(n) => todo \cap OutEdges(n) = {}

\* No cycle runs through finished nodes alone.
FinishedAcyclic ==
    \A S \in SUBSET {n \in nodes : Black(n)} :
        S # {} => \E n \in S : \A e \in InEdges(n) : e[1] \notin S

BeforeReach == {"shape", "cycle", "rejected"}

SearchTypes ==
    /\ graph \in [kind : [Node -> Kinds], edges : SUBSET Edge]
    /\ pc \in GraphPc
    /\ color \in [Node -> {"white", "gray", "black"}]
    /\ stack \in Seq(Node)
    /\ todo \subseteq graph.edges
    /\ cyclic \in BOOLEAN

SearchInv ==
    /\ SearchTypes
    /\ pc = "shape" => color = [n \in Node |-> "white"] /\ stack = <<>>
    /\ pc \notin {"shape", "rejected"} => ValidShape
    /\ Path
    /\ ~cyclic => LookedAt /\ FinishedAcyclic
    /\ CycleIsFound

-----------------------------------------------------------------------------
(***************************************************************************)
(* The depth-first search.                                                 *)
(***************************************************************************)
LEMMA Pushed ==
  ASSUME NEW s \in Seq(Node), NEW x \in Node
  PROVE  LET t == <<x>> \o s
         IN  /\ t \in Seq(Node)
             /\ DOMAIN t = 1 .. Len(s) + 1 /\ DOMAIN s = 1 .. Len(s) /\ Len(s) \in Nat
             /\ t[1] = x
             /\ \A i \in DOMAIN s : t[i + 1] = s[i]
             /\ \A i \in DOMAIN t : i > 1 => t[i] = s[i - 1] /\ i - 1 \in DOMAIN s
  <1>1. <<x>> \in Seq(Node) /\ Len(<<x>>) = 1 /\ <<x>>[1] = x
      OBVIOUS
  <1>2. QED
      BY <1>1, ConcatProperties, LenProperties

LEMMA Popped ==
  ASSUME NEW s \in Seq(Node), s # <<>>
  PROVE  LET t == Tail(s)
         IN  /\ t \in Seq(Node)
             /\ Len(s) \in Nat \ {0} /\ DOMAIN s = 1 .. Len(s) /\ DOMAIN t = 1 .. Len(s) - 1
             /\ Head(s) = s[1] /\ Head(s) \in Node
             /\ \A i \in DOMAIN t : t[i] = s[i + 1] /\ i + 1 \in DOMAIN s
  <1>1. Len(s) \in Nat \ {0} /\ Head(s) = s[1]
      BY EmptySeq
  <1>2. QED
      BY <1>1, HeadTailProperties, LenProperties

LEMMA SearchInvInit == Init => SearchInv
  <1> SUFFICES ASSUME Init PROVE SearchInv
      OBVIOUS
  <1>1. graph \in [kind : [Node -> Kinds], edges : SUBSET Edge]
      BY GraphConstants DEF Init
  <1>2. SearchTypes
    <2>1. stack \in Seq(Node) /\ todo \subseteq graph.edges /\ cyclic \in BOOLEAN /\ pc \in GraphPc
        BY EmptySeq DEF Init, GraphPc
    <2>2. color \in [Node -> {"white", "gray", "black"}]
        BY DEF Init
    <2>3. QED
        BY <1>1, <2>1, <2>2 DEF SearchTypes
  <1>3. Path
      BY DEF Init, Path, Distinct, Lists
  <1>4. LookedAt /\ FinishedAcyclic
      BY DEF Init, LookedAt, FinishedAcyclic, Black, nodes
  <1>5. CycleIsFound
      BY DEF Init, CycleIsFound
  <1>6. QED
      BY <1>2, <1>3, <1>4, <1>5 DEF Init, SearchInv

\* What the search has found stays true of a graph that is not searched any more.
LEMMA SearchRests ==
  ASSUME SearchInv, UNCHANGED <<graph, search>>, pc' \in GraphPc \ {"shape"},
         pc' # "rejected" => ValidShape,
         pc' \in {"reach", "publish", "order", "walk", "done", "failed"} => ~HasCycle
  PROVE  SearchInv'
  <1>1. SearchTypes'
      BY DEF SearchInv, SearchTypes, search
  <1>2. Path'
      BY DEF SearchInv, Path, Distinct, Lists, nodes, search
  <1>3. cyclic' = cyclic /\ (LookedAt => LookedAt')
      BY DEF LookedAt, Black, OutEdges, search
  <1>4. FinishedAcyclic => FinishedAcyclic'
      BY DEF FinishedAcyclic, Black, InEdges, nodes, search
  <1>5. HasCycle' = HasCycle
      BY DEF HasCycle, InEdges, nodes
  <1>6. CycleIsFound'
      BY <1>3, <1>5 DEF SearchInv, CycleIsFound
  <1>7. ValidShape' = ValidShape
      BY DEF ValidShape, nodes
  <1>8. QED
      BY <1>1, <1>2, <1>3, <1>4, <1>6, <1>7 DEF SearchInv

\* No node becomes finished, no edge becomes unlooked-at by a step along the path.
LEMMA SameFinished ==
  ASSUME SearchTypes, UNCHANGED graph, \A n \in Node : Black(n)' <=> Black(n), FinishedAcyclic
  PROVE  FinishedAcyclic'
  <1>1. nodes' = nodes /\ nodes \subseteq Node /\ \A n : InEdges(n)' = InEdges(n)
      BY DEF nodes, InEdges
  <1>2. {n \in nodes : Black(n)}' = {n \in nodes : Black(n)}
      BY <1>1
  <1>3. QED
      BY <1>1, <1>2 DEF FinishedAcyclic

LEMMA VisitRootStep == SearchInv /\ VisitRoot => SearchInv'
  <1> SUFFICES ASSUME SearchInv, VisitRoot PROVE SearchInv'
      OBVIOUS
  <1>1. PICK n \in nodes : color[n] = "white" /\ color' = [color EXCEPT ![n] = "gray"] /\ stack' = <<n>>
      BY DEF VisitRoot
  <1>2. n \in Node /\ nodes' = nodes
      BY DEF nodes, VisitRoot
  <1>3. stack = <<>> /\ ~cyclic /\ pc = "cycle" /\ UNCHANGED <<graph, pc, todo, cyclic>> /\ ~cyclic'
      BY DEF VisitRoot
  <1>4. SearchTypes'
      BY <1>1, <1>2, <1>3 DEF SearchInv, SearchTypes
  <1>5. DOMAIN stack' = {1} /\ stack'[1] = n
      BY <1>1
  <1>6. \A m \in Node : Black(m)' <=> Black(m)
      BY <1>1, <1>2 DEF Black, SearchInv, SearchTypes
  <1>7. \A m \in Node : color[m] # "gray"
      BY <1>3 DEF SearchInv, Path, Lists
  <1>8. Path'
    <2>1. Distinct(stack)'
        BY <1>5 DEF Distinct
    <2>2. \A m \in Node : color'[m] = "gray" <=> m = n
        BY <1>1, <1>2, <1>7 DEF SearchInv, SearchTypes
    <2>3. \A m \in Node : color'[m] = "gray" <=> Lists(stack, m)'
        BY <1>5, <2>2 DEF Lists
    <2>4. \A m \in Node : color'[m] # "white" => m \in nodes
        BY <1>1, <1>2 DEF SearchInv, SearchTypes, Path
    <2>5. \A i \in DOMAIN stack' : ~(i > 1)
        BY <1>5
    <2>6. QED
        BY <1>2, <2>1, <2>3, <2>4, <2>5 DEF Path
  <1>9. LookedAt'
    <2>1. graph.edges \subseteq Edge /\ \A e \in graph.edges : e[2] \in Node
        BY DEF SearchInv, SearchTypes, Edge
    <2>2. \A e \in graph.edges \ todo : Black(e[2])
        BY <1>3 DEF SearchInv, LookedAt
    <2>3. \A m \in Node : Black(m) => todo \cap OutEdges(m) = {}
        BY <1>3 DEF SearchInv, LookedAt
    <2>4. \A e \in graph.edges' \ todo' : Black(e[2])'
        BY <1>3, <1>6, <2>1, <2>2
    <2>5. \A m \in Node : Black(m)' => todo' \cap OutEdges(m)' = {}
        BY <1>3, <1>6, <2>3 DEF OutEdges
    <2>6. QED
        BY <2>4, <2>5 DEF LookedAt
  <1>10. FinishedAcyclic'
      BY <1>3, <1>6, SameFinished DEF SearchInv
  <1>11. CycleIsFound' /\ ValidShape'
      BY <1>2, <1>3 DEF CycleIsFound, SearchInv, ValidShape
  <1>12. QED
      BY <1>3, <1>4, <1>8, <1>9, <1>10, <1>11 DEF SearchInv

\* Nodes of the path up to the k-th one make a cycle when the first has an edge to the k-th.
LEMMA PathCloses ==
  ASSUME SearchTypes, Path, NEW k \in DOMAIN stack, NEW e \in graph.edges, e[1] = stack[1], e[2] = stack[k]
  PROVE  HasCycle
  <1> DEFINE S == {stack[i] : i \in 1 .. k}
  <1>1. /\ DOMAIN stack = 1 .. Len(stack) /\ Len(stack) \in Nat /\ k \in 1 .. Len(stack)
        /\ \A i \in DOMAIN stack : stack[i] \in Node
      BY LenProperties, ElementOfSeq DEF SearchTypes
  <1>2. \A i \in DOMAIN stack : stack[i] \in nodes
    <2>1. \A i \in DOMAIN stack : color[stack[i]] = "gray"
        BY <1>1 DEF Path, Lists
    <2>2. QED
        BY <1>1, <2>1 DEF Path
  <1>3. S \in (SUBSET nodes) \ {{}}
    <2>1. 1 .. k \subseteq DOMAIN stack /\ k \in 1 .. k
        BY <1>1
    <2>2. S \subseteq nodes /\ stack[k] \in S
        BY <1>2, <2>1
    <2>3. \A T : T \subseteq nodes /\ stack[k] \in T => T \in (SUBSET nodes) \ {{}}
        OBVIOUS
    <2>4. QED
        BY <2>2, <2>3
  <1>4. ASSUME NEW n \in S PROVE \E d \in InEdges(n) : d[1] \in S
    <2>1. PICK i \in 1 .. k : n = stack[i]
        BY <1>4
    <2>2. CASE i = k
        BY <1>1, <2>1, <2>2 DEF InEdges
    <2>3. CASE i < k
      <3>1. i + 1 \in DOMAIN stack /\ i + 1 > 1 /\ (i + 1) - 1 = i /\ i + 1 \in 1 .. k
          BY <1>1, <2>3
      <3>2. PICK d \in graph.edges : d[1] = stack[i + 1] /\ d[2] = stack[i]
          BY <3>1 DEF Path
      <3>3. QED
          BY <2>1, <3>1, <3>2 DEF InEdges
    <2>4. QED
        BY <1>1, <2>2, <2>3
  <1>5. QED
      BY <1>3, <1>4 DEF HasCycle

LEMMA VisitNextStep == SearchInv /\ VisitNext => SearchInv'
  <1> SUFFICES ASSUME SearchInv, VisitNext PROVE SearchInv'
      OBVIOUS
  <1>1. stack # <<>> /\ ~cyclic /\ pc = "cycle" /\ UNCHANGED <<graph, pc>>
      BY DEF VisitNext
  <1>2. PICK e \in todo \cap OutEdges(Head(stack)) :
            /\ todo' = todo \ {e}
            /\ cyclic' = ClosesCycle(e[2])
            /\ IF color[e[2]] = "white"
               THEN /\ color' = [color EXCEPT ![e[2]] = "gray"]
                    /\ stack' = <<e[2]>> \o stack
               ELSE UNCHANGED <<color, stack>>
      BY DEF VisitNext
  <1>3. /\ SearchTypes /\ Path /\ LookedAt /\ FinishedAcyclic /\ ValidShape
        /\ stack \in Seq(Node) /\ DOMAIN stack = 1 .. Len(stack) /\ Len(stack) \in Nat \ {0}
        /\ Head(stack) = stack[1] /\ 1 \in DOMAIN stack
      BY <1>1, Popped DEF SearchInv, SearchTypes
  <1>4. /\ e \in graph.edges /\ e[1] = stack[1] /\ e[1] \in Node /\ e[2] \in Node
        /\ nodes' = nodes /\ e[1] \in nodes /\ e[2] \in nodes /\ ~Black(e[1])
    <2>1. e \in graph.edges /\ e[1] = stack[1] /\ e \in Edge
        BY <1>2, <1>3 DEF OutEdges, SearchTypes
    <2>2. color[stack[1]] = "gray"
      <3>1. stack[1] \in Node /\ Lists(stack, stack[1])
          BY <1>3, <2>1 DEF Edge, Lists
      <3>2. QED
          BY <1>3, <3>1 DEF Path
    <2>3. QED
        BY <1>1, <1>3, <2>1, <2>2 DEF ValidShape, Edge, nodes, Black
  <1>5. CycleIsFound'
    <2>1. SUFFICES ASSUME cyclic' PROVE HasCycle
        BY <1>1 DEF CycleIsFound, HasCycle, nodes, InEdges
    <2>2. Lists(stack, e[2])
        BY <1>2, <1>3, <1>4, <2>1 DEF ClosesCycle, Path
    <2>3. QED
        BY <1>3, <1>4, <2>2, PathCloses DEF Lists
  <1>6. CASE color[e[2]] # "white"
    <2>1. UNCHANGED <<color, stack>>
        BY <1>2, <1>6
    <2>2. SearchTypes'
        BY <1>1, <1>2, <1>3, <2>1 DEF SearchTypes, ClosesCycle
    <2>3. Path'
        BY <1>1, <1>3, <2>1 DEF Path, Distinct, Lists, nodes
    <2>4. ~cyclic' => Black(e[2])
        BY <1>2, <1>3, <1>4, <1>6 DEF ClosesCycle, SearchTypes, Black
    <2>5. ~cyclic' => LookedAt'
        BY <1>1, <1>2, <1>3, <2>1, <2>4 DEF LookedAt, Black, OutEdges
    <2>6. FinishedAcyclic'
        BY <1>1, <1>3, <2>1, SameFinished DEF Black
    <2>7. QED
        BY <1>1, <1>3, <1>5, <2>2, <2>3, <2>5, <2>6 DEF SearchInv, ValidShape, nodes
  <1>7. CASE color[e[2]] = "white"
    <2>1. color' = [color EXCEPT ![e[2]] = "gray"] /\ stack' = <<e[2]>> \o stack /\ cyclic' = FALSE
        BY <1>2, <1>7 DEF ClosesCycle
    <2>2. /\ stack' \in Seq(Node)
          /\ DOMAIN stack' = 1 .. Len(stack) + 1
          /\ stack'[1] = e[2]
          /\ \A i \in DOMAIN stack : stack'[i + 1] = stack[i]
          /\ \A i \in DOMAIN stack' : i > 1 => stack'[i] = stack[i - 1] /\ i - 1 \in DOMAIN stack
        BY <1>3, <1>4, <2>1, Pushed
    <2>3. SearchTypes'
        BY <1>1, <1>2, <1>3, <1>4, <2>1, <2>2 DEF SearchTypes
    <2>4. \A m \in Node : color'[m] = IF m = e[2] THEN "gray" ELSE color[m]
        BY <1>3, <1>4, <2>1 DEF SearchTypes
    <2>5. \A m \in Node : Lists(stack, m)' <=> m = e[2] \/ Lists(stack, m)
      <3>1. ASSUME NEW m \in Node, Lists(stack, m)' PROVE m = e[2] \/ Lists(stack, m)
        <4>1. PICK i \in DOMAIN stack' : stack'[i] = m
            BY <3>1 DEF Lists
        <4>2. i = 1 \/ i > 1
            BY <1>3, <2>2, <4>1
        <4>3. QED
            BY <2>2, <4>1, <4>2 DEF Lists
      <3>2. ASSUME NEW m \in Node, m = e[2] \/ Lists(stack, m) PROVE Lists(stack, m)'
        <4>1. 1 \in DOMAIN stack' /\ \A i \in DOMAIN stack : i + 1 \in DOMAIN stack'
            BY <1>3, <2>2
        <4>2. QED
            BY <2>2, <3>2, <4>1 DEF Lists
      <3>3. QED
          BY <3>1, <3>2
    <2>6. Path'
      <3>1. \A i \in DOMAIN stack : stack[i] # e[2]
          BY <1>3, <1>4, <1>7 DEF Path, Lists
      <3>2. Distinct(stack)'
        <4>1. \A i, j \in DOMAIN stack : stack[i] = stack[j] => i = j
            BY <1>3 DEF Path, Distinct
        <4>2. ASSUME NEW i \in DOMAIN stack', NEW j \in DOMAIN stack', stack'[i] = stack'[j], i > 1, j > 1
              PROVE  i = j
            BY <1>3, <2>2, <4>1, <4>2
        <4>3. ASSUME NEW i \in DOMAIN stack', i > 1 PROVE stack'[i] # stack'[1]
            BY <2>2, <3>1, <4>3
        <4>4. \A i \in DOMAIN stack' : i = 1 \/ i > 1
            BY <1>3, <2>2
        <4>5. QED
            BY <4>2, <4>3, <4>4 DEF Distinct
      <3>3. \A m \in Node : color'[m] = "gray" <=> Lists(stack, m)'
          BY <1>3, <2>4, <2>5 DEF Path
      <3>4. \A m \in Node : color'[m] # "white" => m \in nodes
          BY <1>3, <1>4, <2>4 DEF Path
      <3>5. ASSUME NEW i \in DOMAIN stack', i > 1
            PROVE  \E d \in graph.edges : d[1] = stack'[i] /\ d[2] = stack'[i - 1]
        <4>1. CASE i = 2
          <5>1. stack'[i] = stack[1] /\ stack'[i - 1] = e[2]
              BY <1>3, <2>2, <4>1
          <5>2. QED
              BY <1>4, <5>1
        <4>2. CASE i > 2
          <5>1. i - 1 \in DOMAIN stack /\ i - 1 > 1 /\ stack'[i] = stack[i - 1] /\ stack'[i - 1] = stack[i - 2]
                /\ (i - 1) - 1 = i - 2
              BY <1>3, <2>2, <3>5, <4>2
          <5>2. \E d \in graph.edges : d[1] = stack[i - 1] /\ d[2] = stack[(i - 1) - 1]
              BY <1>3, <5>1 DEF Path
          <5>3. QED
              BY <5>1, <5>2
        <4>3. QED
            BY <1>3, <2>2, <3>5, <4>1, <4>2
      <3>6. QED
          BY <1>1, <1>4, <3>2, <3>3, <3>4, <3>5 DEF Path
    <2>7. \A m \in Node : Black(m)' <=> Black(m)
        BY <1>7, <2>4 DEF Black
    <2>8. LookedAt'
      <3>1. ASSUME NEW d \in graph.edges \ todo'
            PROVE  Black(d[2])' \/ \E i \in DOMAIN stack' : i > 1 /\ stack'[i] = d[1] /\ stack'[i - 1] = d[2]
        <4>1. d[2] \in Node
            BY <1>3, <3>1 DEF SearchTypes, Edge
        <4>2. CASE d = e
          <5>1. 2 \in DOMAIN stack' /\ stack'[2] = d[1] /\ stack'[2 - 1] = d[2]
              BY <1>3, <1>4, <2>2, <4>2
          <5>2. QED
              BY <5>1
        <4>3. CASE d \in graph.edges \ todo
          <5>1. CASE Black(d[2])
              BY <2>7, <4>1, <5>1
          <5>2. ASSUME NEW i \in DOMAIN stack, i > 1, stack[i] = d[1], stack[i - 1] = d[2]
                PROVE  \E j \in DOMAIN stack' : j > 1 /\ stack'[j] = d[1] /\ stack'[j - 1] = d[2]
            <6>1. i - 1 \in DOMAIN stack /\ i + 1 \in DOMAIN stack' /\ i + 1 > 1 /\ (i + 1) - 1 = (i - 1) + 1
                BY <1>3, <2>2, <5>2
            <6>2. QED
                BY <2>2, <5>2, <6>1
          <5>3. QED
              BY <1>3, <4>3, <5>1, <5>2 DEF LookedAt
        <4>4. QED
            BY <1>2, <3>1, <4>2, <4>3
      <3>2. \A m \in Node : Black(m)' => todo' \cap OutEdges(m)' = {}
          BY <1>1, <1>2, <1>3, <2>7 DEF LookedAt, OutEdges
      <3>3. QED
          BY <1>1, <3>1, <3>2 DEF LookedAt
    <2>9. FinishedAcyclic'
        BY <1>1, <1>3, <2>7, SameFinished
    <2>10. QED
        BY <1>1, <1>3, <1>5, <2>3, <2>6, <2>8, <2>9 DEF SearchInv, ValidShape, nodes
  <1>8. QED
      BY <1>6, <1>7

LEMMA LeaveNodeStep == SearchInv /\ LeaveNode => SearchInv'
  <1> SUFFICES ASSUME SearchInv, LeaveNode PROVE SearchInv'
      OBVIOUS
  <1> DEFINE x == stack[1]
  <1>1. /\ stack # <<>> /\ ~cyclic /\ pc = "cycle" /\ UNCHANGED <<graph, pc, todo, cyclic>> /\ ~cyclic'
        /\ todo \cap OutEdges(Head(stack)) = {}
        /\ color' = [color EXCEPT ![Head(stack)] = "black"]
        /\ stack' = Tail(stack)
      BY DEF LeaveNode
  <1>2. SearchTypes /\ Path /\ LookedAt /\ FinishedAcyclic /\ ValidShape /\ stack \in Seq(Node)
      BY <1>1 DEF SearchInv, SearchTypes
  <1>3. /\ stack' \in Seq(Node)
        /\ Len(stack) \in Nat \ {0} /\ DOMAIN stack = 1 .. Len(stack) /\ DOMAIN stack' = 1 .. Len(stack) - 1
        /\ Head(stack) = x /\ x \in Node
        /\ \A i \in DOMAIN stack' : stack'[i] = stack[i + 1] /\ i + 1 \in DOMAIN stack
      BY <1>1, <1>2, Popped
  <1> HIDE DEF x
  <1>4. /\ \A m \in Node : color'[m] = IF m = x THEN "black" ELSE color[m]
        /\ nodes' = nodes /\ todo \cap OutEdges(x) = {}
        /\ color[x] = "gray" /\ x \in nodes
    <2>1. \A m \in Node : color'[m] = IF m = x THEN "black" ELSE color[m]
        BY <1>1, <1>2, <1>3 DEF SearchTypes
    <2>2. Lists(stack, x)
        BY <1>3 DEF Lists, x
    <2>3. color[x] = "gray"
        BY <1>2, <1>3, <2>2 DEF Path
    <2>4. QED
        BY <1>1, <1>2, <1>3, <2>1, <2>3 DEF Path, nodes
  <1>5. SearchTypes'
    <2>1. color' \in [Node -> {"white", "gray", "black"}]
        BY <1>1, <1>2 DEF SearchTypes
    <2>2. QED
        BY <1>1, <1>2, <1>3, <2>1 DEF SearchTypes
  <1>6. \A i \in DOMAIN stack : i > 1 => i - 1 \in DOMAIN stack' /\ stack'[i - 1] = stack[i] /\ stack[i] # x
    <2>1. \A i \in DOMAIN stack : i > 1 => i - 1 \in DOMAIN stack' /\ (i - 1) + 1 = i /\ 1 \in DOMAIN stack
        BY <1>3
    <2>2. \A i \in DOMAIN stack : i > 1 => stack[i] # stack[1]
        BY <1>2, <2>1 DEF Path, Distinct
    <2>3. \A i \in DOMAIN stack : i > 1 => stack'[i - 1] = stack[(i - 1) + 1]
        BY <1>3, <2>1
    <2>4. QED
        BY <2>1, <2>2, <2>3 DEF x
  <1>7. \A m \in Node : Lists(stack, m)' <=> m # x /\ Lists(stack, m)
    <2>1. ASSUME NEW m \in Node, Lists(stack, m)' PROVE m # x /\ Lists(stack, m)
      <3>1. PICK i \in DOMAIN stack' : stack'[i] = m
          BY <2>1 DEF Lists
      <3>2. i + 1 \in DOMAIN stack /\ stack[i + 1] = m /\ i + 1 > 1
          BY <1>3, <3>1
      <3>3. QED
          BY <1>6, <3>2 DEF Lists
    <2>2. ASSUME NEW m \in Node, m # x, Lists(stack, m) PROVE Lists(stack, m)'
      <3>1. PICK i \in DOMAIN stack : stack[i] = m
          BY <2>2 DEF Lists
      <3>2. i > 1
          BY <1>3, <2>2, <3>1 DEF x
      <3>3. QED
          BY <1>6, <3>1, <3>2 DEF Lists
    <2>3. QED
        BY <2>1, <2>2
  <1>8. Path'
    <2>1. Distinct(stack)'
      <3>1. \A i, j \in DOMAIN stack : stack[i] = stack[j] => i = j
          BY <1>2 DEF Path, Distinct
      <3>2. ASSUME NEW i \in DOMAIN stack', NEW j \in DOMAIN stack', stack'[i] = stack'[j]
            PROVE  i = j
        <4>1. i + 1 = j + 1
            BY <1>3, <3>1, <3>2
        <4>2. QED
            BY <1>3, <3>2, <4>1
      <3>3. QED
          BY <3>2 DEF Distinct
    <2>2. \A m \in Node : color'[m] = "gray" <=> Lists(stack, m)'
        BY <1>2, <1>4, <1>7 DEF Path
    <2>3. \A m \in Node : color'[m] # "white" => m \in nodes
        BY <1>2, <1>4 DEF Path
    <2>4. ASSUME NEW i \in DOMAIN stack', i > 1
          PROVE  \E e \in graph.edges : e[1] = stack'[i] /\ e[2] = stack'[i - 1]
      <3>1. /\ i + 1 \in DOMAIN stack /\ i + 1 > 1 /\ (i + 1) - 1 = i /\ stack'[i] = stack[i + 1]
            /\ i - 1 \in DOMAIN stack' /\ (i - 1) + 1 = i /\ stack'[i - 1] = stack[i]
          BY <1>3, <1>6, <2>4
      <3>2. QED
          BY <1>2, <3>1 DEF Path
    <2>5. QED
        BY <1>1, <1>4, <2>1, <2>2, <2>3, <2>4 DEF Path
  <1>9. \A m \in Node : Black(m)' <=> m = x \/ Black(m)
      BY <1>4 DEF Black
  <1>10. \A e \in graph.edges : e[1] \in Node /\ e[2] \in Node /\ e[1] # e[2]
      BY <1>2 DEF SearchTypes, Edge, ValidShape
  <1>11. LookedAt'
    <2>1. ASSUME NEW d \in graph.edges \ todo
          PROVE  Black(d[2])' \/ \E i \in DOMAIN stack' : i > 1 /\ stack'[i] = d[1] /\ stack'[i - 1] = d[2]
      <3>1. CASE Black(d[2])
          BY <1>9, <1>10, <2>1, <3>1
      <3>2. ASSUME NEW i \in DOMAIN stack, i > 1, stack[i] = d[1], stack[i - 1] = d[2], d[2] # x
            PROVE  \E j \in DOMAIN stack' : j > 1 /\ stack'[j] = d[1] /\ stack'[j - 1] = d[2]
        <4>1. i # 2
            BY <3>2 DEF x
        <4>2. /\ i - 1 \in DOMAIN stack /\ i - 1 > 1
              /\ i - 1 \in DOMAIN stack' /\ stack'[i - 1] = stack[i]
              /\ stack'[(i - 1) - 1] = stack[i - 1]
            BY <1>3, <1>6, <3>2, <4>1
        <4>3. QED
            BY <3>2, <4>2
      <3>3. CASE d[2] = x
          BY <1>3, <1>9, <3>3
      <3>4. QED
          BY <1>2, <2>1, <3>1, <3>2, <3>3 DEF LookedAt
    <2>2. \A m \in Node : Black(m)' => todo' \cap OutEdges(m)' = {}
        BY <1>1, <1>2, <1>4, <1>9 DEF LookedAt, OutEdges
    <2>3. QED
        BY <1>1, <2>1, <2>2 DEF LookedAt
  <1>12. \A e \in graph.edges : e[1] = x => Black(e[2])
    <2>1. SUFFICES ASSUME NEW e \in graph.edges, e[1] = x, ~Black(e[2]) PROVE FALSE
        OBVIOUS
    <2>2. e \notin todo
        BY <1>4, <2>1 DEF OutEdges
    <2>3. PICK i \in DOMAIN stack : i > 1 /\ stack[i] = e[1]
        BY <1>2, <2>1, <2>2 DEF LookedAt
    <2>4. QED
        BY <1>6, <2>1, <2>3
  <1>13. FinishedAcyclic'
    <2>1. SUFFICES ASSUME NEW S \in SUBSET {n \in nodes : n = x \/ Black(n)}, S # {},
                          \A n \in S : \E e \in InEdges(n) : e[1] \in S
                   PROVE  FALSE
      <3>1. nodes \subseteq Node /\ \A n : InEdges(n)' = InEdges(n)
          BY <1>1 DEF nodes, InEdges
      <3>2. {n \in nodes : Black(n)}' = {n \in nodes : n = x \/ Black(n)}
          BY <1>4, <1>9, <3>1
      <3>3. QED
          BY <2>1, <3>1, <3>2 DEF FinishedAcyclic
    <2>2. CASE x \notin S
      <3>1. S \in SUBSET {n \in nodes : Black(n)}
          BY <2>1, <2>2
      <3>2. QED
          BY <1>2, <2>1, <3>1 DEF FinishedAcyclic
    <2>3. CASE x \in S
      <3>1. PICK e \in InEdges(x) : e[1] \in S
          BY <2>1, <2>3
      <3>2. e \in graph.edges /\ e[2] = x /\ e[1] # x /\ ~Black(x)
          BY <1>4, <1>10, <3>1 DEF InEdges, Black
      <3>3. Black(e[1]) /\ e[1] \in Node
          BY <1>10, <2>1, <3>1, <3>2
      <3>4. e \notin todo
          BY <1>2, <3>2, <3>3 DEF LookedAt, OutEdges
      <3>5. PICK i \in DOMAIN stack : stack[i] = e[1]
          BY <1>2, <3>2, <3>4 DEF LookedAt
      <3>6. color[e[1]] = "gray"
          BY <1>2, <3>3, <3>5 DEF Path, Lists
      <3>7. QED
          BY <3>3, <3>6 DEF Black
    <2>4. QED
        BY <2>2, <2>3
  <1>14. CycleIsFound' /\ ValidShape'
      BY <1>1, <1>2, <1>4 DEF CycleIsFound, ValidShape
  <1>15. QED
      BY <1>1, <1>5, <1>8, <1>11, <1>13, <1>14 DEF SearchInv

\* When the path is empty and every node was visited, every node is finished.
LEMMA EndOfSearchStep == SearchInv /\ EndOfSearch => SearchInv'
  <1> SUFFICES ASSUME SearchInv, EndOfSearch PROVE SearchInv'
      OBVIOUS
  <1>1. /\ pc = "cycle" /\ UNCHANGED <<graph, search>> /\ pc' \in {"rejected", "reach"}
        /\ cyclic \/ (stack = <<>> /\ \A n \in nodes : color[n] # "white")
        /\ pc' = "reach" => ~cyclic
      BY DEF EndOfSearch, Diagnosed
  <1>2. ASSUME pc' = "reach" PROVE ~HasCycle
    <2>1. ~cyclic /\ stack = <<>> /\ Path /\ FinishedAcyclic /\ SearchTypes /\ \A n \in nodes : color[n] # "white"
        BY <1>1, <1>2 DEF SearchInv
    <2>2. \A n \in nodes : Black(n)
      <3>1. \A n \in Node : color[n] # "gray"
          BY <2>1 DEF Path, Lists
      <3>2. QED
          BY <2>1, <3>1 DEF SearchTypes, Black, nodes
    <2>3. ASSUME NEW S \in (SUBSET nodes) \ {{}} PROVE \E n \in S : \A e \in InEdges(n) : e[1] \notin S
      <3>1. S \in SUBSET {n \in nodes : Black(n)} /\ S # {}
          BY <2>2
      <3>2. QED
          BY <2>1, <3>1 DEF FinishedAcyclic
    <2>4. QED
        BY <2>3 DEF HasCycle
  <1>3. pc' \in GraphPc \ {"shape"} /\ ValidShape
      BY <1>1 DEF GraphPc, SearchInv
  <1>4. QED
      BY <1>1, <1>2, <1>3, SearchRests

LEMMA SearchInvStep == SearchInv /\ [Next]_vars => SearchInv'
  <1> SUFFICES ASSUME SearchInv, [Next]_vars PROVE SearchInv'
      OBVIOUS
  <1> DEFINE After == {"reach", "publish", "order", "walk", "done", "failed"}
  <1>1. ASSUME UNCHANGED <<graph, search>>, pc \in After,
               pc' \in After \cup {"rejected", "noOrder"}
        PROVE  SearchInv'
    <2>1. ValidShape /\ ~HasCycle
        BY <1>1 DEF SearchInv, CycleIsFound
    <2>2. QED
        BY <1>1, <2>1, SearchRests DEF GraphPc
  <1>2. CASE ValidateShape
    <2>1. /\ pc = "shape" /\ UNCHANGED <<graph, search>> /\ pc' \in {"cycle", "rejected"}
          /\ pc' = "cycle" => ValidShape
        BY <1>2 DEF ValidateShape
    <2>2. QED
        BY <2>1, SearchRests DEF GraphPc
  <1>3. CASE VisitRoot
      BY <1>3, VisitRootStep
  <1>4. CASE VisitNext
      BY <1>4, VisitNextStep
  <1>5. CASE LeaveNode
      BY <1>5, LeaveNodeStep
  <1>6. CASE EndOfSearch
      BY <1>6, EndOfSearchStep
  <1>7. CASE ExtendReach
      BY <1>1, <1>7 DEF ExtendReach
  <1>8. CASE Publish
      BY <1>1, <1>8 DEF Publish
  <1>9. ASSUME NEW n \in Node, Dequeue(n) PROVE SearchInv'
      BY <1>1, <1>9 DEF Dequeue
  <1>10. CASE EndOfOrder
      BY <1>1, <1>10 DEF EndOfOrder
  <1>11. CASE Skip
      BY <1>1, <1>11 DEF Skip
  <1>12. CASE Visit
      BY <1>1, <1>12 DEF Visit
  <1>13. CASE EndOfWalk
      BY <1>1, <1>13 DEF EndOfWalk
  <1>14. CASE UNCHANGED vars
    <2>1. UNCHANGED <<graph, search, pc>>
        BY <1>14 DEF vars
    <2>2. CASE pc = "shape"
      <3>1. SearchTypes' /\ Path' /\ (LookedAt => LookedAt') /\ (FinishedAcyclic => FinishedAcyclic')
          BY <2>1 DEF SearchInv, SearchTypes, Path, Distinct, Lists, nodes, search, LookedAt, Black, OutEdges,
                      FinishedAcyclic, InEdges
      <3>2. CycleIsFound'
          BY <2>1 DEF SearchInv, CycleIsFound, HasCycle, nodes, InEdges, search
      <3>3. QED
          BY <2>1, <2>2, <3>1, <3>2 DEF SearchInv, search
    <2>3. CASE pc # "shape"
        BY <2>1, <2>3, SearchRests DEF SearchInv, SearchTypes, CycleIsFound
    <2>4. QED
        BY <2>2, <2>3
  <1>15. QED
      BY <1>2, <1>3, <1>4, <1>5, <1>6, <1>7, <1>8, <1>9, <1>10, <1>11, <1>12, <1>13, <1>14 DEF Next

(***************************************************************************)
(* The search of Validate rejects every graph with a cycle and no other,   *)
(* whatever the number of nodes and the order in which the map of nodes    *)
(* and the lists of edges are iterated.                                    *)
(***************************************************************************)
THEOREM CyclesAreFound == Spec => []CycleIsFound
  <1>1. SearchInv => CycleIsFound
      BY DEF SearchInv
  <1>2. QED
      BY <1>1, SearchInvInit, SearchInvStep, PTL DEF Spec

-----------------------------------------------------------------------------
(***************************************************************************)
(* The order.                                                              *)
(***************************************************************************)
\* Edges of a node that come from outside S.
EntersFromOutside(n, S) == {e \in InEdges(n) : e[1] \notin S}

Ordered == {n \in Node : Lists(order, n)}

\* What is left of the indegree of a node are its edges from nodes not ordered yet.
SortingInv ==
    /\ seen \subseteq nodes
    /\ pc \in {"publish", "order", "walk", "done", "failed", "noOrder"} =>
           \A e \in graph.edges : e[1] \in seen => e[2] \in seen
    /\ pc \notin BeforeReach => InputNodes \subseteq seen /\ Cardinality(InputNodes) = 1
    /\ pc \in {"order", "walk", "done", "failed", "noOrder"} =>
           /\ PathsTerminate
           /\ indegree = [n \in Node |-> Cardinality(EntersFromOutside(n, Ordered))]
           /\ queue = {n \in nodes \ Ordered : EntersFromOutside(n, Ordered) = {}}
    /\ pc \in BeforeReach \cup {"reach", "publish"} => order = <<>>
    /\ order \in Seq(Node) /\ Ordered \subseteq nodes
    /\ OrderRespectsEdges
    /\ AcceptedHasOrder
    /\ pc \in {"walk", "done", "failed"} => Ordered = nodes


LEMMA EdgesAreFinite ==
  ASSUME SearchTypes
  PROVE  /\ IsFiniteSet(graph.edges) /\ IsFiniteSet(nodes) /\ nodes \subseteq Node
         /\ \A e \in graph.edges : e[1] \in Node /\ e[2] \in Node
  <1>1. IsFiniteSet(Node) /\ IsFiniteSet(Port)
      BY GraphConstants
  <1>2. IsFiniteSet(Node \X Node)
      BY <1>1, FS_Product
  <1>3. IsFiniteSet((Node \X Node) \X Port)
      BY <1>1, <1>2, FS_Product
  <1>4. graph.edges \subseteq Edge
      BY DEF SearchTypes
  <1>5. IsFiniteSet(graph.edges)
    <2> DEFINE flat == [e \in graph.edges |-> <<<<e[1], e[2]>>, e[3]>>]
    <2>1. flat \in Injection(graph.edges, (Node \X Node) \X Port)
      <3>1. \A e \in graph.edges : flat[e] \in (Node \X Node) \X Port
          BY <1>4 DEF Edge
      <3>2. \A d, e \in graph.edges : flat[d] = flat[e] => d = e
          BY <1>4 DEF Edge
      <3>3. QED
          BY <3>1, <3>2 DEF Injection, IsInjective
    <2>2. QED
        BY <1>3, <2>1, FS_Injection
  <1>6. nodes \subseteq Node /\ IsFiniteSet(nodes)
    <2>1. nodes \in SUBSET Node
        BY DEF nodes
    <2>2. QED
        BY <1>1, <2>1, FS_Subset
  <1>7. QED
      BY <1>4, <1>5, <1>6 DEF Edge

\* As many nodes are listed as a sequence without repetition is long.
LEMMA DistinctLength ==
  ASSUME NEW s \in Seq(Node), Distinct(s)
  PROVE  Cardinality({n \in Node : Lists(s, n)}) = Len(s)
  <1> DEFINE L == {n \in Node : Lists(s, n)}
  <1>1. Len(s) \in Nat /\ DOMAIN s = 1 .. Len(s) /\ s \in [1 .. Len(s) -> Node]
      BY LenProperties
  <1>2. s \in [1 .. Len(s) -> L]
      BY <1>1 DEF Lists
  <1>3. s \in Injection(1 .. Len(s), L)
      BY <1>1, <1>2 DEF Distinct, Injection, IsInjective
  <1>4. s \in Surjection(1 .. Len(s), L)
      BY <1>1, <1>2 DEF Lists, Surjection
  <1>5. ExistsBijection(1 .. Len(s), L)
      BY <1>3, <1>4 DEF ExistsBijection, Bijection
  <1>6. IsFiniteSet(1 .. Len(s)) /\ Cardinality(1 .. Len(s)) = Len(s)
      BY <1>1, FS_Interval
  <1>7. QED
      BY <1>5, <1>6, FS_Bijection

LEMMA SortingInvInit == Init => SortingInv
  <1> SUFFICES ASSUME Init PROVE SortingInv
      OBVIOUS
  <1>1. order = <<>> /\ pc = "shape" /\ seen = {}
      BY DEF Init
  <1>2. order \in Seq(Node) /\ Ordered = {}
      BY <1>1, EmptySeq DEF Ordered, Lists
  <1>3. OrderRespectsEdges /\ AcceptedHasOrder
      BY <1>1 DEF OrderRespectsEdges, AcceptedHasOrder
  <1>4. QED
      BY <1>1, <1>2, <1>3 DEF SortingInv, BeforeReach

\* What is said of an order depends on the graph alone.
LEMMA SameOrder ==
  ASSUME UNCHANGED <<graph, order>>
  PROVE  /\ nodes' = nodes /\ InputNodes' = InputNodes /\ Ordered' = Ordered
         /\ OrderRespectsEdges' = OrderRespectsEdges
         /\ \A n, S : EntersFromOutside(n, S)' = EntersFromOutside(n, S)
         /\ \A n : InEdges(n)' = InEdges(n) /\ OutEdges(n)' = OutEdges(n)
  BY DEF nodes, InputNodes, Ordered, Lists, OrderRespectsEdges, EntersFromOutside, InEdges, OutEdges

\* A node of an order is only entered from the order.
LEMMA OrderIsClosed ==
  ASSUME OrderRespectsEdges, order \in Seq(Node), NEW m \in Ordered, NEW e \in InEdges(m), e[1] \in Node
  PROVE  e[1] \in Ordered
  <1>1. DOMAIN order = 1 .. Len(order) /\ Len(order) \in Nat
      BY LenProperties
  <1>2. PICK j \in DOMAIN order : order[j] = m
      BY DEF Ordered, Lists
  <1>3. PICK i \in 1 .. j - 1 : order[i] = e[1]
      BY <1>2 DEF OrderRespectsEdges
  <1>4. i \in DOMAIN order
      BY <1>1, <1>2
  <1>5. QED
      BY <1>3, <1>4 DEF Ordered, Lists

LEMMA DequeueStep ==
  ASSUME SearchInv, SortingInv, NEW n \in Node, Dequeue(n)
  PROVE  SortingInv'
  <1> DEFINE left == [m \in Node |-> indegree[m] - Discount(n, m)]
             Into(m) == {e \in OutEdges(n) : e[2] = m}
             Now == Ordered \cup {n}
  <1>1. /\ pc = "order" /\ n \in queue
        /\ order' = Append(order, n) /\ indegree' = left
        /\ queue' = (queue \ {n}) \cup Queued(n, left)
        /\ UNCHANGED <<graph, pc, seen>>
      BY DEF Dequeue
  <1>2. /\ SearchTypes /\ PathsTerminate
        /\ indegree = [m \in Node |-> Cardinality(EntersFromOutside(m, Ordered))]
        /\ queue = {m \in nodes \ Ordered : EntersFromOutside(m, Ordered) = {}}
        /\ order \in Seq(Node) /\ Ordered \subseteq nodes /\ OrderRespectsEdges
      BY <1>1 DEF SearchInv, SortingInv
  <1>3. /\ n \in nodes \ Ordered /\ EntersFromOutside(n, Ordered) = {}
        /\ DOMAIN order = 1 .. Len(order) /\ Len(order) \in Nat
      BY <1>1, <1>2, LenProperties
  <1>4. /\ order' \in Seq(Node) /\ DOMAIN order' = 1 .. Len(order) + 1
        /\ order'[Len(order) + 1] = n
        /\ \A i \in DOMAIN order : order'[i] = order[i] /\ i \in DOMAIN order' /\ i < Len(order) + 1
        /\ \A i \in DOMAIN order' : i \in DOMAIN order \/ i = Len(order) + 1
      BY <1>1, <1>2, <1>3
  <1>5. Ordered' = Now
    <2>1. ASSUME NEW m \in Node, Lists(order, m)' PROVE m = n \/ Lists(order, m)
        BY <1>4, <2>1 DEF Lists
    <2>2. ASSUME NEW m \in Node, m = n \/ Lists(order, m) PROVE Lists(order, m)'
      <3>1. Len(order) + 1 \in DOMAIN order'
          BY <1>3, <1>4
      <3>2. QED
          BY <1>4, <2>2, <3>1 DEF Lists
    <2>3. QED
        BY <2>1, <2>2 DEF Ordered
  <1>6. /\ nodes' = nodes /\ InputNodes' = InputNodes /\ \A m : InEdges(m)' = InEdges(m)
        /\ \A m : EntersFromOutside(m, Ordered)' = EntersFromOutside(m, Now)
        /\ \A m : OutEdges(m)' = OutEdges(m)
      BY <1>1, <1>5 DEF nodes, InputNodes, InEdges, OutEdges, EntersFromOutside
  <1>7. \A e \in graph.edges : e[1] \in Node /\ e[2] \in Node
      BY <1>2, EdgesAreFinite
  <1>8. ASSUME NEW m \in Node
        PROVE  /\ Into(m) \subseteq EntersFromOutside(m, Ordered)
               /\ EntersFromOutside(m, Now) = EntersFromOutside(m, Ordered) \ Into(m)
               /\ IsFiniteSet(EntersFromOutside(m, Ordered)) /\ IsFiniteSet(Into(m))
               /\ IsFiniteSet(EntersFromOutside(m, Now))
    <2>1. Into(m) \subseteq EntersFromOutside(m, Ordered)
        BY <1>3 DEF OutEdges, EntersFromOutside, InEdges
    <2>2. EntersFromOutside(m, Now) = EntersFromOutside(m, Ordered) \ Into(m)
        BY DEF OutEdges, EntersFromOutside, InEdges
    <2>3. EntersFromOutside(m, Ordered) \in SUBSET graph.edges
        BY DEF EntersFromOutside, InEdges
    <2>4. IsFiniteSet(EntersFromOutside(m, Ordered))
        BY <1>2, <2>3, EdgesAreFinite, FS_Subset
    <2>5. Into(m) \in SUBSET EntersFromOutside(m, Ordered) /\ EntersFromOutside(m, Now) \in SUBSET EntersFromOutside(m, Ordered)
        BY <2>1, <2>2
    <2>6. QED
        BY <2>1, <2>2, <2>4, <2>5, FS_Subset
  <1>9. ASSUME NEW m \in Node
        PROVE  left[m] = Cardinality(EntersFromOutside(m, Now))
    <2> DEFINE E == EntersFromOutside(m, Ordered)
               I == Into(m)
    <2>1. IsFiniteSet(E) /\ I \subseteq E /\ EntersFromOutside(m, Now) = E \ I
        BY <1>8
    <2>2. Cardinality(E \ I) = Cardinality(E) - Cardinality(E \cap I)
        BY <2>1, FS_Difference
    <2>3. E \cap I = I
        BY <2>1
    <2>4. left[m] = Cardinality(E) - Cardinality(I)
        BY <1>2 DEF Discount
    <2>5. QED
        BY <2>1, <2>2, <2>3, <2>4
  <1>10. \A m \in Node : left[m] = 0 <=> EntersFromOutside(m, Now) = {}
    <2>1. ASSUME NEW m \in Node PROVE left[m] = 0 <=> EntersFromOutside(m, Now) = {}
        BY <1>8, <1>9, FS_EmptySet
    <2>2. QED
        BY <2>1
  <1>11. \A m \in Node : Discount(n, m) > 0 <=> Into(m) # {}
    <2>1. ASSUME NEW m \in Node PROVE Discount(n, m) > 0 <=> Into(m) # {}
      <3>1. IsFiniteSet(Into(m)) /\ Discount(n, m) = Cardinality(Into(m))
          BY <1>8 DEF Discount
      <3>2. Cardinality(Into(m)) \in Nat
          BY <3>1, FS_CardinalityType
      <3>3. Cardinality(Into(m)) = 0 <=> Into(m) = {}
          BY <3>1, FS_EmptySet
      <3>4. QED
          BY <3>1, <3>2, <3>3
    <2>2. QED
        BY <2>1
  <1>12. Queued(n, left) = {m \in nodes : Into(m) # {} /\ EntersFromOutside(m, Now) = {}}
    <2>1. nodes \subseteq Node
        BY DEF nodes
    <2>2. QED
        BY <1>10, <1>11, <2>1 DEF Queued
  <1>13. queue' = {m \in nodes \ Now : EntersFromOutside(m, Now) = {}}
    <2>1. nodes \subseteq Node
        BY DEF nodes
    <2>2. ASSUME NEW m \in nodes, Into(m) # {} PROVE m \notin Now
      <3>1. PICK e \in EntersFromOutside(m, Ordered) : TRUE
          BY <1>8, <2>1, <2>2
      <3>2. e \in InEdges(m) /\ e[1] \notin Ordered /\ e[1] \in Node
          BY <1>7, <3>1 DEF EntersFromOutside, InEdges
      <3>3. m \notin Ordered
          BY <1>2, <3>2, OrderIsClosed
      <3>4. m # n
          BY <1>3, <3>1
      <3>5. QED
          BY <3>3, <3>4
    <2>3. ASSUME NEW m \in nodes \ Now
          PROVE  EntersFromOutside(m, Now) = {} <=> m \in queue \/ (Into(m) # {} /\ EntersFromOutside(m, Now) = {})
        BY <1>2, <1>8, <2>1
    <2>4. queue \ {n} \subseteq nodes \ Now
        BY <1>2
    <2>5. QED
        BY <1>1, <1>12, <2>2, <2>3, <2>4
  <1>14. indegree' = [m \in Node |-> Cardinality(EntersFromOutside(m, Now))]
      BY <1>1, <1>9
  <1>15. OrderRespectsEdges'
    <2>1. ASSUME NEW i \in DOMAIN order', NEW j \in DOMAIN order', order'[i] = order'[j] PROVE i = j
      <3>1. \A k \in DOMAIN order : order[k] # n
          BY <1>3 DEF Ordered, Lists
      <3>2. QED
          BY <1>2, <1>4, <2>1, <3>1 DEF OrderRespectsEdges
    <2>2. ASSUME NEW j \in DOMAIN order', NEW e \in InEdges(order'[j])
          PROVE  \E i \in 1 .. j - 1 : order'[i] = e[1]
      <3>1. CASE j \in DOMAIN order
        <4>1. PICK i \in 1 .. j - 1 : order[i] = e[1]
            BY <1>2, <1>4, <2>2, <3>1 DEF OrderRespectsEdges
        <4>2. i \in DOMAIN order
            BY <1>3, <3>1
        <4>3. QED
            BY <1>4, <4>1, <4>2
      <3>2. CASE j = Len(order) + 1
        <4>1. e \in InEdges(n)
            BY <1>4, <2>2, <3>2
        <4>2. e[1] \in Ordered
            BY <1>3, <4>1 DEF EntersFromOutside
        <4>3. PICK i \in DOMAIN order : order[i] = e[1]
            BY <4>2 DEF Ordered, Lists
        <4>4. i \in 1 .. j - 1
            BY <1>3, <3>2, <4>3
        <4>5. QED
            BY <1>4, <4>3, <4>4
      <3>3. QED
          BY <1>4, <3>1, <3>2
    <2>3. QED
        BY <1>6, <2>1, <2>2 DEF OrderRespectsEdges
  <1>16. PathsTerminate' /\ AcceptedHasOrder'
      BY <1>1, <1>2 DEF PathsTerminate, OutEdges, AcceptedHasOrder
  <1>17. Now \subseteq nodes
      BY <1>2, <1>3
  <1>18. /\ seen' \subseteq nodes'
         /\ \A e \in graph'.edges : e[1] \in seen' => e[2] \in seen'
         /\ InputNodes' \subseteq seen' /\ Cardinality(InputNodes') = 1
      BY <1>1, <1>6 DEF SortingInv, BeforeReach
  <1>19. indegree' = [m \in Node |-> Cardinality(EntersFromOutside(m, Ordered))]'
    <2>1. [m \in Node |-> Cardinality(EntersFromOutside(m, Ordered))]'
              = [m \in Node |-> Cardinality(EntersFromOutside(m, Now))]
        BY <1>6
    <2>2. QED
        BY <1>14, <2>1
  <1>20. queue' = {m \in nodes \ Ordered : EntersFromOutside(m, Ordered) = {}}'
    <2>1. {m \in nodes \ Ordered : EntersFromOutside(m, Ordered) = {}}' = {m \in nodes \ Now : EntersFromOutside(m, Now) = {}}
        BY <1>5, <1>6
    <2>2. QED
        BY <1>13, <2>1
  <1>21. Ordered' \subseteq nodes' /\ order' \in Seq(Node) /\ pc' = "order"
      BY <1>1, <1>4, <1>5, <1>6, <1>17
  <1>22. QED
      BY <1>15, <1>16, <1>18, <1>19, <1>20, <1>21 DEF SortingInv, BeforeReach
\* Where no node is left to dequeue, what is not ordered would be a cycle.
LEMMA EndOfOrderStep ==
  ASSUME SearchInv, SortingInv, EndOfOrder
  PROVE  Ordered = nodes /\ pc' = "walk"
  <1>1. /\ pc = "order" /\ queue = {}
        /\ pc' = IF Len(order) = Cardinality(nodes) THEN "walk" ELSE "noOrder"
      BY DEF EndOfOrder
  <1>2. /\ SearchTypes /\ ValidShape /\ ~HasCycle
        /\ queue = {m \in nodes \ Ordered : EntersFromOutside(m, Ordered) = {}}
        /\ order \in Seq(Node) /\ Ordered \subseteq nodes /\ OrderRespectsEdges
      BY <1>1 DEF SearchInv, SortingInv, CycleIsFound
  <1>3. Ordered = nodes
    <2>1. SUFFICES ASSUME nodes \ Ordered # {} PROVE FALSE
        BY <1>2
    <2>2. ASSUME NEW m \in nodes \ Ordered PROVE \E e \in InEdges(m) : e[1] \in nodes \ Ordered
      <3>1. PICK e \in InEdges(m) : e[1] \notin Ordered
          BY <1>1, <1>2, <2>2 DEF EntersFromOutside
      <3>2. e[1] \in nodes
          BY <1>2, <3>1 DEF ValidShape, InEdges
      <3>3. QED
          BY <3>1, <3>2
    <2>3. QED
        BY <1>2, <2>1, <2>2 DEF HasCycle
  <1>4. Distinct(order)
      BY <1>2 DEF OrderRespectsEdges, Distinct
  <1>5. Cardinality(Ordered) = Len(order)
      BY <1>2, <1>4, DistinctLength DEF Ordered
  <1>6. QED
      BY <1>1, <1>3, <1>5

LEMMA PublishStep ==
  ASSUME SearchInv, SortingInv, Publish
  PROVE  SortingInv'
  <1>1. /\ pc = "publish" /\ pc' \in {"order", "rejected"} /\ (pc' = "order" => PathsTerminate)
        /\ indegree' = [n \in Node |-> Indegree(n)]
        /\ queue' = {n \in nodes : InEdges(n) = {}}
        /\ UNCHANGED <<graph, seen, order>>
      BY DEF Publish
  <1>2. /\ nodes' = nodes /\ InputNodes' = InputNodes /\ Ordered' = Ordered
        /\ OrderRespectsEdges' = OrderRespectsEdges
        /\ \A n, S : EntersFromOutside(n, S)' = EntersFromOutside(n, S)
        /\ \A n : InEdges(n)' = InEdges(n) /\ OutEdges(n)' = OutEdges(n)
      BY <1>1, SameOrder
  <1>3. order = <<>> /\ order \in Seq(Node) /\ Ordered = {}
      BY <1>1 DEF SortingInv, BeforeReach, Ordered, Lists
  <1>4. \A n : EntersFromOutside(n, Ordered) = InEdges(n)
      BY <1>3 DEF EntersFromOutside
  <1>5. indegree' = [n \in Node |-> Cardinality(EntersFromOutside(n, Ordered))]'
    <2>1. [n \in Node |-> Cardinality(EntersFromOutside(n, Ordered))]' = [n \in Node |-> Cardinality(InEdges(n))]
        BY <1>2, <1>4
    <2>2. QED
        BY <1>1, <2>1 DEF Indegree
  <1>6. queue' = {n \in nodes \ Ordered : EntersFromOutside(n, Ordered) = {}}'
    <2>1. {n \in nodes \ Ordered : EntersFromOutside(n, Ordered) = {}}' = {n \in nodes : InEdges(n) = {}}
        BY <1>2, <1>3, <1>4
    <2>2. QED
        BY <1>1, <2>1
  <1>7. PathsTerminate' = PathsTerminate
      BY <1>1, <1>2 DEF PathsTerminate
  <1>8. /\ seen' \subseteq nodes'
        /\ \A e \in graph'.edges : e[1] \in seen' => e[2] \in seen'
        /\ InputNodes' \subseteq seen' /\ Cardinality(InputNodes') = 1
      BY <1>1, <1>2 DEF SortingInv, BeforeReach
  <1>9. Ordered' \subseteq nodes' /\ order' \in Seq(Node) /\ OrderRespectsEdges' /\ order' = <<>> /\ AcceptedHasOrder'
      BY <1>1, <1>2, <1>3 DEF SortingInv, AcceptedHasOrder
  <1>10. QED
      BY <1>1, <1>5, <1>6, <1>7, <1>8, <1>9 DEF SortingInv, BeforeReach

\* Steps that leave the order and what was reached alone.
LEMMA SortingRests ==
  ASSUME SortingInv, UNCHANGED <<graph, seen, sorting>>, pc' # "noOrder",
         pc \in BeforeReach => pc' \in BeforeReach,
         pc' = "publish" => pc = "publish" \/ \A e \in graph.edges : e[1] \in seen => e[2] \in seen,
         pc' = "order" => pc = "order",
         pc' \in {"reach", "publish"} => pc \in {"reach", "publish"},
         pc' \in BeforeReach => order = <<>>,
         pc' \in {"walk", "done", "failed"} => pc \in {"order", "walk", "done", "failed"} /\ Ordered = nodes
  PROVE  SortingInv'
  <1>1. /\ nodes' = nodes /\ InputNodes' = InputNodes /\ Ordered' = Ordered
        /\ OrderRespectsEdges' = OrderRespectsEdges
        /\ \A n, S : EntersFromOutside(n, S)' = EntersFromOutside(n, S)
        /\ \A n : InEdges(n)' = InEdges(n) /\ OutEdges(n)' = OutEdges(n)
        /\ UNCHANGED <<indegree, queue, order>>
      BY SameOrder DEF sorting
  <1>2. PathsTerminate' = PathsTerminate
      BY <1>1 DEF PathsTerminate
  <1>3. [n \in Node |-> Cardinality(EntersFromOutside(n, Ordered))]' = [n \in Node |-> Cardinality(EntersFromOutside(n, Ordered))]
      BY <1>1
  <1>4. {n \in nodes \ Ordered : EntersFromOutside(n, Ordered) = {}}' = {n \in nodes \ Ordered : EntersFromOutside(n, Ordered) = {}}
      BY <1>1
  <1>5. /\ seen' \subseteq nodes'
        /\ pc' \in {"publish", "order", "walk", "done", "failed", "noOrder"} =>
               \A e \in graph.edges' : e[1] \in seen' => e[2] \in seen'
        /\ pc' \notin BeforeReach => InputNodes' \subseteq seen' /\ Cardinality(InputNodes)' = 1
      BY <1>1 DEF SortingInv, BeforeReach
  <1>6. pc' \in {"order", "walk", "done", "failed", "noOrder"} =>
           /\ PathsTerminate'
           /\ indegree' = [n \in Node |-> Cardinality(EntersFromOutside(n, Ordered))]'
           /\ queue' = {n \in nodes \ Ordered : EntersFromOutside(n, Ordered) = {}}'
      BY <1>1, <1>2, <1>3, <1>4 DEF SortingInv
  <1>7. /\ pc' \in BeforeReach \cup {"reach", "publish"} => order' = <<>>
        /\ order' \in Seq(Node) /\ Ordered' \subseteq nodes'
        /\ OrderRespectsEdges' /\ AcceptedHasOrder'
        /\ pc' \in {"walk", "done", "failed"} => Ordered' = nodes'
      BY <1>1 DEF SortingInv, AcceptedHasOrder
  <1>8. QED
      BY <1>5, <1>6, <1>7 DEF SortingInv

LEMMA SortingInvStep == SearchInv /\ SortingInv /\ [Next]_vars => SortingInv'
  <1> SUFFICES ASSUME SearchInv, SortingInv, [Next]_vars PROVE SortingInv'
      OBVIOUS
  <1>1. ASSUME UNCHANGED <<graph, seen, sorting>>, pc \in BeforeReach, pc' \in BeforeReach
        PROVE  SortingInv'
      BY <1>1, SortingRests DEF BeforeReach, SortingInv
  <1>2. CASE ValidateShape
      BY <1>1, <1>2 DEF ValidateShape, BeforeReach
  <1>3. CASE VisitRoot
      BY <1>1, <1>3 DEF VisitRoot, BeforeReach
  <1>4. CASE VisitNext
      BY <1>1, <1>4 DEF VisitNext, BeforeReach
  <1>5. CASE LeaveNode
      BY <1>1, <1>5 DEF LeaveNode, BeforeReach
  <1>6. CASE EndOfSearch
    <2>1. /\ pc = "cycle" /\ pc' \in {"rejected", "reach"} /\ seen' = InputNodes
          /\ pc' = "reach" => Cardinality(InputNodes) = 1
          /\ UNCHANGED <<graph, order>>
        BY <1>6 DEF EndOfSearch, Diagnosed, sorting
    <2>2. /\ nodes' = nodes /\ InputNodes' = InputNodes /\ Ordered' = Ordered
          /\ OrderRespectsEdges' = OrderRespectsEdges
        BY <2>1, SameOrder
    <2>3. InputNodes \subseteq nodes /\ order = <<>> /\ order \in Seq(Node) /\ Ordered \subseteq nodes /\ OrderRespectsEdges
        BY <2>1 DEF InputNodes, SortingInv, BeforeReach
    <2>4. AcceptedHasOrder'
        BY <2>1 DEF AcceptedHasOrder
    <2>5. QED
        BY <2>1, <2>2, <2>3, <2>4 DEF SortingInv, BeforeReach
  <1>7. CASE ExtendReach
    <2> DEFINE next == {e[2] : e \in {x \in graph.edges : x[1] \in seen}}
    <2>1. /\ pc = "reach" /\ UNCHANGED <<graph, sorting>>
          /\ IF next \subseteq seen THEN pc' = "publish" /\ UNCHANGED seen
                                    ELSE seen' = seen \cup next /\ UNCHANGED pc
        BY <1>7 DEF ExtendReach
    <2>2. CASE next \subseteq seen
      <3>1. \A e \in graph.edges : e[1] \in seen => e[2] \in seen
          BY <2>2
      <3>2. pc' = "publish" /\ UNCHANGED seen
          BY <2>1, <2>2
      <3>3. QED
          BY <2>1, <3>1, <3>2, SortingRests DEF BeforeReach
    <2>3. CASE ~(next \subseteq seen)
      <3>1. next \subseteq nodes
          BY <2>1 DEF SearchInv, ValidShape
      <3>2. pc' = "reach" /\ seen' = seen \cup next /\ UNCHANGED <<graph, order>>
          BY <2>1, <2>3 DEF sorting
      <3>3. /\ nodes' = nodes /\ InputNodes' = InputNodes /\ Ordered' = Ordered
            /\ OrderRespectsEdges' = OrderRespectsEdges
          BY <3>2, SameOrder
      <3>4. seen' \subseteq nodes' /\ InputNodes' \subseteq seen' /\ Cardinality(InputNodes') = 1
          BY <2>1, <3>1, <3>2, <3>3 DEF SortingInv, BeforeReach
      <3>5. order' = <<>> /\ order' \in Seq(Node) /\ Ordered' \subseteq nodes' /\ OrderRespectsEdges' /\ AcceptedHasOrder'
          BY <2>1, <3>2, <3>3 DEF SortingInv, BeforeReach, AcceptedHasOrder
      <3>6. QED
          BY <3>2, <3>4, <3>5 DEF SortingInv, BeforeReach
    <2>4. QED
        BY <2>2, <2>3
  <1>8. CASE Publish
      BY <1>8, PublishStep
  <1>9. ASSUME NEW n \in Node, Dequeue(n) PROVE SortingInv'
      BY <1>9, DequeueStep
  <1>10. CASE EndOfOrder
    <2>1. pc = "order" /\ pc' = "walk" /\ Ordered = nodes /\ UNCHANGED <<graph, seen, sorting>>
        BY <1>10, EndOfOrderStep DEF EndOfOrder
    <2>2. QED
        BY <2>1, SortingRests DEF BeforeReach
  <1>11. ASSUME UNCHANGED <<graph, seen, sorting>>, pc = "walk", pc' \in {"walk", "done", "failed"}
         PROVE  SortingInv'
    <2>1. Ordered = nodes
        BY <1>11 DEF SortingInv
    <2>2. QED
        BY <1>11, <2>1, SortingRests DEF BeforeReach
  <1>12. CASE Skip
      BY <1>11, <1>12 DEF Skip, sorting
  <1>13. CASE Visit
      BY <1>11, <1>13 DEF Visit
  <1>14. CASE EndOfWalk
      BY <1>11, <1>14 DEF EndOfWalk
  <1>15. CASE UNCHANGED vars
    <2>1. UNCHANGED <<graph, seen, sorting, pc>>
        BY <1>15 DEF vars
    <2>2. QED
        BY <2>1, SortingRests DEF SortingInv, AcceptedHasOrder, BeforeReach
  <1>16. QED
      BY <1>2, <1>3, <1>4, <1>5, <1>6, <1>7, <1>8, <1>9, <1>10, <1>12, <1>13, <1>14, <1>15 DEF Next

(***************************************************************************)
(* Compile, Simulate and the executor compute an order for every graph     *)
(* that Validate accepts: the search and the count of indegrees agree on   *)
(* what a cycle is.                                                        *)
(***************************************************************************)
THEOREM AcceptedGraphsHaveOrder == Spec => []AcceptedHasOrder
  <1>1. SortingInv => AcceptedHasOrder
      BY DEF SortingInv
  <1>2. QED
      BY <1>1, SearchInvInit, SearchInvStep, SortingInvInit, SortingInvStep, PTL DEF Spec

(***************************************************************************)
(* In every order a node comes once and after all its predecessors.        *)
(***************************************************************************)
THEOREM OrdersRespectEdges == Spec => []OrderRespectsEdges
  <1>1. SortingInv => OrderRespectsEdges
      BY DEF SortingInv
  <1>2. QED
      BY <1>1, SearchInvInit, SearchInvStep, SortingInvInit, SortingInvStep, PTL DEF Spec

-----------------------------------------------------------------------------
(***************************************************************************)
(* The walk.                                                               *)
(***************************************************************************)
Passed == {n \in Node : \E i \in DOMAIN order : i < position /\ order[i] = n}

Ended(n) ==
    \/ status[n] \in {"suppressed", "skipped"}
    \/ graph.kind[n] = "terminal" /\ status[n] = "succeeded"

\* What was passed was visited when a value had arrived; some path has ended or goes on.
WalkInv ==
    /\ position \in 1 .. Len(order) + 1
    /\ status \in [Node -> NodeStatus]
    /\ pc \in BeforeReach \cup {"reach", "publish", "order"} =>
           position = 1 /\ inputs = {} /\ status = [n \in Node |-> "none"]
    /\ \A n \in Node : status[n] # "none" <=> n \in Passed /\ Active(n)
    /\ inputs = {e \in graph.edges : status[e[1]] \in {"succeeded", "suppressed"}}
    /\ \A n \in Node : status[n] # "none" => n \in seen
    /\ \A n \in Node : status[n] = "succeeded" => graph.kind[n] # "output"
    /\ pc \in {"walk", "done"} => \A n \in Node : status[n] # "failed"
    /\ pc = "done" => position = Len(order) + 1
    /\ pc \in {"walk", "done"} =>
           \E n \in Node : Ended(n) \/ (n \notin Passed /\ n \in nodes /\ Active(n))
NotYet == BeforeReach \cup {"reach", "publish", "order"}

\* Before the walk the invariant says that nothing was visited.
LEMMA NotBegun ==
  /\ SearchTypes /\ order \in Seq(Node) /\ pc \in NotYet /\ position = 1 /\ inputs = {}
  /\ status = [n \in Node |-> "none"]
  => WalkInv
  <1> SUFFICES ASSUME SearchTypes, order \in Seq(Node), pc \in NotYet, position = 1, inputs = {},
                      status = [n \in Node |-> "none"]
               PROVE  WalkInv
      OBVIOUS
  <1>1. Len(order) \in Nat /\ DOMAIN order = 1 .. Len(order)
      BY LenProperties
  <1>2. Passed = {}
      BY <1>1 DEF Passed
  <1>3. \A e \in graph.edges : status[e[1]] = "none"
      BY EdgesAreFinite
  <1>4. pc \notin {"walk", "done"}
      BY DEF NotYet, BeforeReach
  <1>5. position \in 1 .. Len(order) + 1
      BY <1>1
  <1>6. status \in [Node -> NodeStatus]
      BY DEF NodeStatus
  <1>7. \A n \in Node : status[n] = "none"
      OBVIOUS
  <1>8. inputs = {e \in graph.edges : status[e[1]] \in {"succeeded", "suppressed"}}
      BY <1>3
  <1>9. QED
      BY <1>2, <1>4, <1>5, <1>6, <1>7, <1>8 DEF WalkInv

\* The order has no edge from a node to one that was passed, nor to itself.
LEMMA NoEdgeBack ==
  ASSUME OrderRespectsEdges, order \in Seq(Node), NEW i \in DOMAIN order, NEW k \in DOMAIN order, k <= i,
         NEW e \in InEdges(order[k])
  PROVE  e[1] # order[i]
  <1>1. DOMAIN order = 1 .. Len(order) /\ Len(order) \in Nat
      BY LenProperties
  <1>2. PICK j \in 1 .. k - 1 : order[j] = e[1]
      BY DEF OrderRespectsEdges
  <1>3. j \in DOMAIN order /\ j # i
      BY <1>1, <1>2
  <1>4. QED
      BY <1>2, <1>3 DEF OrderRespectsEdges

\* The next node of the walk.
LEMMA NextNode ==
  ASSUME SearchInv, SortingInv, WalkInv, pc = "walk", position <= Len(order),
         position' = position + 1, UNCHANGED order
  PROVE  LET n == order[position]
         IN  /\ n \in nodes /\ n \in Node /\ n \notin Passed /\ status[n] = "none"
             /\ Passed' = Passed \cup {n}
             /\ position' \in 1 .. Len(order) + 1
             /\ \A e \in OutEdges(n) : e \in graph.edges /\ e[2] \in nodes /\ e[2] \notin Passed \cup {n}
  <1> DEFINE n == order[position]
  <1>1. /\ SearchTypes /\ ValidShape /\ OrderRespectsEdges /\ order \in Seq(Node) /\ Ordered = nodes
        /\ DOMAIN order = 1 .. Len(order) /\ Len(order) \in Nat /\ position \in DOMAIN order
    <2>1. order \in Seq(Node)
        BY DEF SortingInv
    <2>2. DOMAIN order = 1 .. Len(order) /\ Len(order) \in Nat
        BY <2>1, LenProperties
    <2>3. QED
        BY <2>1, <2>2 DEF SearchInv, SortingInv, WalkInv
  <1>2. n \in Node /\ n \in nodes
    <2>1. n \in Node
        BY <1>1, ElementOfSeq
    <2>2. QED
        BY <1>1, <2>1 DEF Ordered, Lists
  <1>3. n \notin Passed
      BY <1>1 DEF Passed, OrderRespectsEdges
  <1>4. status[n] = "none"
      BY <1>2, <1>3 DEF WalkInv
  <1>5. Passed' = Passed \cup {n}
    <2>1. \A i \in DOMAIN order : i < position + 1 <=> i < position \/ i = position
        BY <1>1
    <2>2. Passed' = {m \in Node : \E i \in DOMAIN order : i < position + 1 /\ order[i] = m}
        BY DEF Passed
    <2>3. QED
        BY <1>1, <1>2, <2>1, <2>2 DEF Passed
  <1>6. ASSUME NEW e \in OutEdges(n) PROVE e \in graph.edges /\ e[2] \in nodes /\ e[2] \notin Passed \cup {n}
    <2>1. e \in graph.edges /\ e[1] = n /\ e \in InEdges(e[2])
        BY <1>6 DEF OutEdges, InEdges
    <2>2. e[2] \in nodes
        BY <1>1, <2>1 DEF ValidShape
    <2>3. ASSUME e[2] \in Passed \cup {n} PROVE FALSE
      <3>1. PICK k \in DOMAIN order : k <= position /\ order[k] = e[2]
          BY <1>1, <2>3 DEF Passed
      <3>2. QED
          BY <1>1, <2>1, <3>1, NoEdgeBack
    <2>4. QED
        BY <2>1, <2>2, <2>3
  <1>7. position' \in 1 .. Len(order) + 1
      BY <1>1
  <1>8. QED
      BY <1>2, <1>3, <1>4, <1>5, <1>6, <1>7

LEMMA SkipStep == SearchInv /\ SortingInv /\ WalkInv /\ Skip => WalkInv'
  <1> SUFFICES ASSUME SearchInv, SortingInv, WalkInv, Skip PROVE WalkInv'
      OBVIOUS
  <1>0. PICK n : n = order[position]
      OBVIOUS
  <1>1. /\ pc = "walk" /\ position <= Len(order) /\ ~Active(n) /\ position' = position + 1
        /\ UNCHANGED <<graph, pc, seen, order, inputs, status>>
      BY <1>0 DEF Skip, sorting
  <1>2. /\ n \in nodes /\ n \in Node /\ n \notin Passed /\ status[n] = "none"
        /\ Passed' = Passed \cup {n} /\ position' \in 1 .. Len(order) + 1
      BY <1>0, <1>1, NextNode
  <1>3. nodes' = nodes /\ \A m : Active(m)' = Active(m) /\ Ended(m)' = Ended(m)
      BY <1>1 DEF nodes, Active, InputNodes, InEdges, Ended
  <1>4. \A m \in Node : status'[m] # "none" <=> m \in Passed' /\ Active(m)'
      BY <1>1, <1>2, <1>3 DEF WalkInv
  <1>5. \E m \in Node : Ended(m)' \/ (m \notin Passed' /\ m \in nodes' /\ Active(m)')
    <2>1. PICK m \in Node : Ended(m) \/ (m \notin Passed /\ m \in nodes /\ Active(m))
        BY <1>1 DEF WalkInv
    <2>2. QED
        BY <1>1, <1>2, <1>3, <2>1
  <1>6. QED
      BY <1>1, <1>2, <1>4, <1>5 DEF WalkInv, NotYet, BeforeReach

LEMMA VisitStep == SearchInv /\ SortingInv /\ WalkInv /\ Visit => WalkInv'
  <1> SUFFICES ASSUME SearchInv, SortingInv, WalkInv, Visit PROVE WalkInv'
      OBVIOUS
  <1>0. PICK n : n = order[position]
      OBVIOUS
  <1>1. /\ pc = "walk" /\ position <= Len(order) /\ Active(n) /\ position' = position + 1
        /\ UNCHANGED <<graph, seen, order>>
      BY <1>0 DEF Visit, sorting
  <1>2. PICK s \in PossibleStatus(n) :
           /\ status' = [status EXCEPT ![n] = s]
           /\ inputs' = IF s \in {"succeeded", "suppressed"} THEN inputs \cup OutEdges(n) ELSE inputs
           /\ pc' = IF s = "failed" THEN "failed" ELSE pc
      BY <1>0 DEF Visit
  <1>3. /\ n \in nodes /\ n \in Node /\ n \notin Passed /\ status[n] = "none"
        /\ Passed' = Passed \cup {n} /\ position' \in 1 .. Len(order) + 1
        /\ \A e \in OutEdges(n) : e \in graph.edges /\ e[2] \in nodes /\ e[2] \notin Passed \cup {n}
      BY <1>0, <1>1, NextNode
  <1>4. /\ s \in {"succeeded", "suppressed", "skipped", "failed"}
        /\ graph.kind[n] = "output" => s = "suppressed"
      BY <1>2 DEF PossibleStatus
  <1>5. /\ \A m \in Node : status'[m] = IF m = n THEN s ELSE status[m]
        /\ status' \in [Node -> NodeStatus]
      BY <1>2, <1>3, <1>4 DEF WalkInv, NodeStatus
  <1>6. nodes' = nodes /\ InputNodes' = InputNodes /\ \A m : InEdges(m)' = InEdges(m) /\ OutEdges(m)' = OutEdges(m)
      BY <1>1 DEF nodes, InputNodes, InEdges, OutEdges
  <1>7. inputs \subseteq inputs' /\ inputs' \subseteq inputs \cup OutEdges(n)
      BY <1>2
  <1>8. /\ \A m \in Node : Active(m) => Active(m)'
        /\ \A m \in Passed \cup {n} : Active(m)' => Active(m)
    <2>1. \A m \in Passed \cup {n} : \A e \in InEdges(m) : e \in inputs' => e \in inputs
        BY <1>3, <1>7 DEF InEdges
    <2>2. QED
        BY <1>6, <1>7, <2>1 DEF Active
  <1>9. \A m \in Node : status'[m] # "none" <=> m \in Passed' /\ Active(m)'
    <2>1. Passed \subseteq Node /\ n \in Passed'
        BY <1>3 DEF Passed
    <2>2. ASSUME NEW m \in Node, m # n PROVE status'[m] # "none" <=> m \in Passed' /\ Active(m)'
        BY <1>3, <1>5, <1>8, <2>1, <2>2 DEF WalkInv
    <2>3. status'[n] # "none" /\ Active(n)'
        BY <1>1, <1>3, <1>4, <1>5, <1>8
    <2>4. QED
        BY <2>1, <2>2, <2>3
  <1>10. inputs' = {e \in graph.edges' : status'[e[1]] \in {"succeeded", "suppressed"}}
    <2>1. \A e \in graph.edges : e[1] \in Node
        BY EdgesAreFinite DEF SearchInv
    <2>2. inputs = {e \in graph.edges : status[e[1]] \in {"succeeded", "suppressed"}}
        BY DEF WalkInv
    <2>3. \A e \in graph.edges : e \in OutEdges(n) <=> e[1] = n
        BY DEF OutEdges
    <2>4. \A e \in inputs' : e \in graph.edges
        BY <1>3, <1>7, <2>2
    <2>5. ASSUME NEW e \in graph.edges PROVE e \in inputs' <=> status'[e[1]] \in {"succeeded", "suppressed"}
      <3>1. CASE e[1] = n
          BY <1>2, <1>3, <1>4, <1>5, <2>1, <2>2, <2>3, <3>1
      <3>2. CASE e[1] # n
          BY <1>5, <1>7, <2>1, <2>2, <2>3, <3>2
      <3>3. QED
          BY <3>1, <3>2
    <2>6. QED
        BY <1>1, <2>4, <2>5
  <1>11. n \in seen
    <2>1. CASE n \in InputNodes
        BY <1>1, <2>1 DEF SortingInv, BeforeReach
    <2>2. ASSUME NEW e \in InEdges(n), e \in inputs PROVE n \in seen
      <3>1. e \in graph.edges /\ e[2] = n /\ e[1] \in Node
          BY <2>2, EdgesAreFinite DEF InEdges, SearchInv
      <3>2. status[e[1]] # "none"
          BY <2>2 DEF WalkInv
      <3>3. e[1] \in seen
          BY <3>1, <3>2 DEF WalkInv
      <3>4. QED
          BY <1>1, <3>1, <3>3 DEF SortingInv
    <2>3. QED
        BY <1>1, <2>1, <2>2 DEF Active
  <1>12. \A m \in Node : status'[m] # "none" => m \in seen'
      BY <1>1, <1>5, <1>11 DEF WalkInv
  <1>13. \A m \in Node : status'[m] = "succeeded" => graph'.kind[m] # "output"
      BY <1>1, <1>4, <1>5 DEF WalkInv
  <1>14. pc' \in {"walk", "done"} => s # "failed" /\ \A m \in Node : status'[m] # "failed"
      BY <1>1, <1>2, <1>5 DEF WalkInv
  <1>15. ASSUME s # "failed" PROVE \E m \in Node : Ended(m)' \/ (m \notin Passed' /\ m \in nodes' /\ Active(m)')
    <2>1. CASE s \in {"suppressed", "skipped"} \/ graph.kind[n] = "terminal"
        BY <1>1, <1>3, <1>4, <1>5, <1>15, <2>1 DEF Ended
    <2>2. CASE s = "succeeded" /\ graph.kind[n] # "terminal"
      <3>1. graph.kind[n] # "output"
          BY <1>4, <2>2
      <3>2. PathsTerminate
          BY <1>1 DEF SortingInv
      <3>3. PICK e \in OutEdges(n) : TRUE
          BY <1>11, <2>2, <3>1, <3>2 DEF PathsTerminate
      <3>4. e \in inputs' /\ e \in InEdges(e[2])
          BY <1>2, <2>2, <3>3 DEF OutEdges, InEdges
      <3>5. Active(e[2])'
          BY <1>6, <3>4 DEF Active
      <3>6. e[2] \in Node /\ e[2] \in nodes /\ e[2] \notin Passed'
          BY <1>3, <3>3 DEF nodes
      <3>7. QED
          BY <1>6, <3>5, <3>6
    <2>3. QED
        BY <1>4, <1>15, <2>1, <2>2
  <1>16. pc' \in {"walk", "failed"} /\ (pc' = "walk" => s # "failed")
      BY <1>1, <1>2
  <1>17. QED
      BY <1>1, <1>3, <1>5, <1>9, <1>10, <1>12, <1>13, <1>14, <1>15, <1>16 DEF WalkInv, NotYet, BeforeReach

LEMMA WalkInvStep == SearchInv /\ SortingInv /\ WalkInv /\ [Next]_vars => WalkInv'
  <1> SUFFICES ASSUME SearchInv, SortingInv, WalkInv, [Next]_vars PROVE WalkInv'
      OBVIOUS
  <1>1. SearchTypes' /\ order' \in Seq(Node)
      BY SearchInvStep, SortingInvStep DEF SearchInv, SortingInv
  <1>2. ASSUME pc \in NotYet, pc' \in NotYet, UNCHANGED walk PROVE WalkInv'
    <2>1. position' = 1 /\ inputs' = {} /\ status' = [n \in Node |-> "none"]
        BY <1>2 DEF WalkInv, NotYet, walk
    <2>2. (/\ SearchTypes /\ order \in Seq(Node) /\ pc \in NotYet /\ position = 1 /\ inputs = {}
           /\ status = [n \in Node |-> "none"]
           => WalkInv)'
        BY NotBegun, PTL
    <2>3. QED
        BY <1>1, <1>2, <2>1, <2>2
  <1>3. CASE ValidateShape
      BY <1>2, <1>3 DEF ValidateShape, NotYet, BeforeReach
  <1>4. CASE VisitRoot
      BY <1>2, <1>4 DEF VisitRoot, NotYet, BeforeReach
  <1>5. CASE VisitNext
      BY <1>2, <1>5 DEF VisitNext, NotYet, BeforeReach
  <1>6. CASE LeaveNode
      BY <1>2, <1>6 DEF LeaveNode, NotYet, BeforeReach
  <1>7. CASE EndOfSearch
      BY <1>2, <1>7 DEF EndOfSearch, NotYet, BeforeReach
  <1>8. CASE ExtendReach
      BY <1>2, <1>8 DEF ExtendReach, NotYet, BeforeReach
  <1>9. CASE Publish
      BY <1>2, <1>9 DEF Publish, NotYet, BeforeReach
  <1>10. ASSUME NEW n \in Node, Dequeue(n) PROVE WalkInv'
      BY <1>2, <1>10 DEF Dequeue, NotYet, BeforeReach
  <1>11. ASSUME UNCHANGED <<graph, seen, order, walk>>
         PROVE  /\ nodes' = nodes /\ Passed' = Passed /\ UNCHANGED <<graph, seen, order, position, inputs, status>>
                /\ \A m : Active(m)' = Active(m) /\ Ended(m)' = Ended(m)
      BY <1>11 DEF nodes, Passed, Active, InputNodes, InEdges, Ended, walk
  <1>12. CASE EndOfOrder
    <2>1. pc = "order" /\ pc' = "walk" /\ UNCHANGED <<graph, seen, order, walk>>
        BY <1>12, EndOfOrderStep DEF EndOfOrder, sorting
    <2>2. \E m \in Node : m \notin Passed /\ m \in nodes /\ Active(m)
      <3>1. position = 1 /\ Cardinality(InputNodes) = 1
          BY <2>1 DEF WalkInv, SortingInv, BeforeReach
      <3>2. Passed = {}
        <4>1. order \in Seq(Node)
            BY DEF SortingInv
        <4>2. DOMAIN order = 1 .. Len(order)
            BY <4>1, LenProperties
        <4>3. QED
            BY <3>1, <4>2 DEF Passed
      <3>3. InputNodes # {}
          BY <3>1, FS_EmptySet
      <3>4. PICK m \in InputNodes : TRUE
          BY <3>3
      <3>5. QED
          BY <3>2, <3>4 DEF InputNodes, nodes, Active
    <2>3. \A m \in Node : status[m] = "none"
        BY <2>1 DEF WalkInv
    <2>4. WalkInv'
        BY <1>11, <2>1, <2>2, <2>3 DEF WalkInv, BeforeReach
    <2>5. QED
        BY <2>4
  <1>13. CASE Skip
      BY <1>13, SkipStep
  <1>14. CASE Visit
      BY <1>14, VisitStep
  <1>15. CASE EndOfWalk
    <2>1. pc = "walk" /\ pc' = "done" /\ position > Len(order) /\ UNCHANGED <<graph, seen, order, walk>>
        BY <1>15 DEF EndOfWalk, sorting
    <2>2. position = Len(order) + 1
      <3>1. Len(order) \in Nat
          BY LenProperties DEF SortingInv
      <3>2. QED
          BY <2>1, <3>1 DEF WalkInv
    <2>3. QED
        BY <1>11, <2>1, <2>2 DEF WalkInv, BeforeReach
  <1>16. CASE UNCHANGED vars
    <2>1. UNCHANGED <<graph, seen, order, walk, pc>>
        BY <1>16 DEF vars, sorting
    <2>2. QED
        BY <1>11, <2>1 DEF WalkInv
  <1>17. QED
      BY <1>3, <1>4, <1>5, <1>6, <1>7, <1>8, <1>9, <1>10, <1>12, <1>13, <1>14, <1>15, <1>16 DEF Next

LEMMA GraphInvariant == Spec => [](SearchInv /\ SortingInv /\ WalkInv)
  <1>1. Init => SearchInv /\ SortingInv /\ WalkInv
    <2>1. Init => SearchTypes /\ order \in Seq(Node)
        BY SearchInvInit, SortingInvInit DEF SearchInv, SortingInv
    <2>2. Init => pc \in NotYet /\ position = 1 /\ inputs = {} /\ status = [n \in Node |-> "none"]
        BY DEF Init, NotYet, BeforeReach
    <2>3. QED
        BY <2>1, <2>2, SearchInvInit, SortingInvInit, NotBegun
  <1>2. QED
      BY <1>1, SearchInvStep, SortingInvStep, WalkInvStep, PTL DEF Spec

(***************************************************************************)
(* Every walk of an accepted graph ends at an output, at a terminal or at  *)
(* a filter that does not match, and stays where the input leads.          *)
(***************************************************************************)
THEOREM WalksTerminate == Spec => []PathsAreTerminated
  <1>1. ASSUME SearchInv, SortingInv, WalkInv PROVE PathsAreTerminated
    <2>1. SUFFICES ASSUME pc = "done"
                   PROVE  /\ {n \in Node : status[n] # "none"} \subseteq seen
                          /\ \E n \in Node : Ended(n)
                          /\ \A n \in Node : status[n] = "succeeded" =>
                                 graph.kind[n] = "terminal" \/ \E e \in OutEdges(n) : status[e[2]] # "none"
        BY DEF PathsAreTerminated, Ended
    <2>2. /\ position = Len(order) + 1 /\ Ordered = nodes /\ PathsTerminate /\ order \in Seq(Node) /\ ValidShape
        BY <1>1, <2>1 DEF WalkInv, SortingInv, SearchInv
    <2>3. nodes \subseteq Passed
      <3>1. DOMAIN order = 1 .. Len(order) /\ Len(order) \in Nat
          BY <2>2, LenProperties
      <3>2. \A i \in DOMAIN order : i < position
          BY <2>2, <3>1
      <3>3. QED
          BY <2>2, <3>2 DEF Passed, Ordered, Lists
    <2>4. {n \in Node : status[n] # "none"} \subseteq seen
        BY <1>1 DEF WalkInv
    <2>5. \E n \in Node : Ended(n)
        BY <1>1, <2>1, <2>3 DEF WalkInv
    <2>6. ASSUME NEW n \in Node, status[n] = "succeeded", graph.kind[n] # "terminal"
          PROVE  \E e \in OutEdges(n) : status[e[2]] # "none"
      <3>1. n \in seen /\ graph.kind[n] # "output"
          BY <1>1, <2>6 DEF WalkInv
      <3>2. PICK e \in OutEdges(n) : TRUE
          BY <2>2, <2>6, <3>1 DEF PathsTerminate
      <3>3. e \in graph.edges /\ e[1] = n /\ e \in InEdges(e[2])
          BY <3>2 DEF OutEdges, InEdges
      <3>4. e \in inputs
          BY <1>1, <2>6, <3>3 DEF WalkInv
      <3>5. e[2] \in Node /\ e[2] \in Passed /\ Active(e[2])
        <4>1. e[2] \in nodes
            BY <2>2, <3>3 DEF ValidShape
        <4>2. QED
            BY <2>3, <3>3, <3>4, <4>1 DEF Active, nodes
      <3>6. QED
          BY <1>1, <3>2, <3>5 DEF WalkInv
    <2>7. QED
        BY <2>4, <2>5, <2>6
  <1>2. QED
      BY <1>1, GraphInvariant, PTL

(***************************************************************************)
(* A join reads a value that is final: nothing arrives at a node that the  *)
(* walk has passed.                                                        *)
(***************************************************************************)
THEOREM InputsStayFinal == Spec => InputsAreFinal
  <1> DEFINE Final == \A i \in DOMAIN order :
                          i < position => inputs' \cap InEdges(order[i]) = inputs \cap InEdges(order[i])
  <1>1. ASSUME SearchInv, SortingInv, WalkInv, [Next]_vars PROVE [Final]_walk
    <2>1. CASE Visit
      <3> DEFINE n == order[position]
      <3>1. /\ pc = "walk" /\ position <= Len(order) /\ position' = position + 1 /\ UNCHANGED order
            /\ inputs' = inputs \/ inputs' = inputs \cup OutEdges(n)
          BY <2>1 DEF Visit, sorting
      <3>2. \A e \in OutEdges(n) : e[2] \notin Passed
          BY <1>1, <3>1, NextNode
      <3>3. ASSUME NEW i \in DOMAIN order, i < position PROVE OutEdges(n) \cap InEdges(order[i]) = {}
        <4>1. order[i] \in Node
            BY <1>1, <3>3, ElementOfSeq, LenProperties DEF SortingInv
        <4>2. order[i] \in Passed
            BY <3>3, <4>1 DEF Passed
        <4>3. QED
            BY <3>2, <4>2 DEF InEdges
      <3>4. QED
          BY <3>1, <3>3
    <2>2. CASE UNCHANGED inputs
        BY <2>2
    <2>3. [Next]_vars /\ ~Visit => UNCHANGED inputs
        BY DEF Next, vars, walk, ValidateShape, VisitRoot, VisitNext, LeaveNode, EndOfSearch, ExtendReach, Publish,
               Dequeue, EndOfOrder, Skip, EndOfWalk
    <2>4. QED
        BY <1>1, <2>1, <2>2, <2>3
  <1>2. QED
      BY <1>1, GraphInvariant, PTL DEF Spec, InputsAreFinal
=============================================================================
