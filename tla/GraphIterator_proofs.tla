------------------------ MODULE GraphIterator_proofs ------------------------
(***************************************************************************)
(* Theorems about the traversal of any graph (GraphIterator), finite or    *)
(* not, with any cycles, in any order of its roots and children; about     *)
(* list node xml (NodeOrder), for every framework and order graph; about   *)
(* the order of plugins (PluginOrder); and about the boot table and the    *)
(* files made from it (HostBoot), which rest on that order, for any hosts, *)
(* commands that run at a time, and crashes.                               *)
(***************************************************************************)
EXTENDS NodeOrder, HostBoot, FiniteSetTheorems, NaturalsInduction,
        WellFoundedInduction, SequenceTheorems, TLAPS

-----------------------------------------------------------------------------
(* One traversal. *)

(* A set of naturals that is not empty has a least member. *)
LEMMA LeastExists ==
    ASSUME NEW T \in SUBSET Nat, T # {}
    PROVE  \E x \in T : \A y \in T : x <= y
<1> DEFINE less == OpToRel(<, Nat)
<1>1. \A x, y \in Nat : y < x => <<y, x>> \in less
  BY DEF OpToRel
<1> HIDE DEF less
<1>2. \E x \in T : \A y \in T : ~ (<<y, x>> \in less)
  BY NatLessThanWellFounded, WFMin DEF less
<1>3. PICK x \in T : \A y \in T : ~ (<<y, x>> \in less)
  BY <1>2
<1>4. \A y \in T : x <= y
  <2> TAKE y \in T
  <2>1. x \in Nat /\ y \in Nat
    BY <1>3
  <2>2. ~ (y < x)
    BY <1>1, <1>3, <2>1
  <2> QED
    BY <2>1, <2>2
<1> QED
  BY <1>3, <1>4

graphVars == <<edges, position>>

(* The nodes whose visit() has not returned: the stack of the recursion. *)
Open == {n \in Nodes : seen[n] # 0 /\ finish[n] = 0}

Stamps ==
    /\ \A n \in Nodes : seen[n] <= time /\ finish[n] <= time
    /\ \A n \in Nodes : finish[n] # 0 => seen[n] # 0
    /\ \A m, n \in Nodes : seen[m] = seen[n] /\ seen[m] # 0 => m = n

(* The open nodes are a path that ends in top. *)
Stack ==
    /\ top # Nobody => top \in Open
    /\ \A n \in Nodes : n \in Open => top # Nobody /\ seen[n] <= seen[top]
    /\ \A n \in Nodes : n \in Open /\ caller[n] # Nobody =>
          /\ caller[n] \in Open /\ seen[caller[n]] < seen[n]
          /\ \E e \in edges : e.parent = caller[n] /\ e.child = n
    /\ \A m, n \in Nodes : m \in Open /\ n \in Open /\ seen[m] < seen[n] =>
          caller[n] # Nobody /\ seen[m] <= seen[caller[n]]

ChildrenSeen == \A e \in edges : finish[e.parent] # 0 => seen[e.child] # 0

Inv == GraphTypeOK /\ Stamps /\ Stack /\ ChildrenSeen /\ EdgesRespected

-----------------------------------------------------------------------------
(* Every open node leads to top. *)
LEMMA OpenReachesTop ==
    ASSUME GraphTypeOK, Stamps, Stack, NEW v \in Nodes, v \in Open
    PROVE  top \in Nodes /\ Reaches(v, top)
<1>1. top \in Nodes /\ top \in Open /\ seen[v] <= seen[top]
  BY DEF GraphTypeOK, Stack
<1>2. SUFFICES ASSUME NEW S \in SUBSET Nodes, v \in S, Closed(S), top \notin S
               PROVE  FALSE
  BY <1>1 DEF Reaches, Leads, Closed
<1> DEFINE Out == {n \in Nodes : n \in Open /\ seen[v] <= seen[n] /\ n \notin S}
           Times == {seen[n] : n \in Out}
<1>3. Times \in SUBSET Nat /\ Times # {}
  BY <1>1, <1>2 DEF GraphTypeOK
<1>4. PICK t \in Times : \A s \in Times : t <= s
  BY <1>3, LeastExists
<1>5. PICK n \in Out : seen[n] = t
  BY <1>4
<1>6. seen[v] < seen[n]
  <2>1. n # v /\ seen[v] # 0 /\ seen[v] <= seen[n]
    BY <1>2, <1>5 DEF Open
  <2>2. seen[v] # seen[n]
    BY <1>5, <2>1 DEF Stamps
  <2> QED
    BY <1>5, <2>1, <2>2 DEF GraphTypeOK
<1> DEFINE c == caller[n]
<1>7. c \in Nodes /\ c \in Open /\ seen[v] <= seen[c] /\ seen[c] < seen[n]
  BY <1>5, <1>6 DEF Stack, GraphTypeOK
<1>8. \E e \in edges : e.parent = c /\ e.child = n
  BY <1>5, <1>6 DEF Stack
<1>9. c \notin S
  BY <1>2, <1>5, <1>8 DEF Closed, Over
<1>10. seen[c] \in Times
  BY <1>7, <1>9
<1>11. seen[c] \in Nat /\ seen[n] \in Nat
  BY <1>5, <1>7 DEF GraphTypeOK
<1> QED
  BY <1>4, <1>5, <1>7, <1>10, <1>11

(* The traversal starts in a state that satisfies the invariant. *)
LEMMA InitInv == GraphInit => Inv
<1> SUFFICES ASSUME GraphInit PROVE Inv
  OBVIOUS
<1>1. /\ edges \subseteq Edge /\ time = 0 /\ top = Nobody
      /\ seen = [n \in Nodes |-> 0] /\ finish = [n \in Nodes |-> 0]
      /\ caller = [n \in Nodes |-> Nobody] /\ label = [n \in Nodes |-> NoLabel]
  BY DEF GraphInit, Cleared
<1>2. GraphTypeOK
  BY <1>1, GraphAssumption DEF GraphTypeOK
<1>3. Open = {}
  BY <1>1 DEF Open
<1>4. Stamps /\ Stack
  BY <1>1, <1>3 DEF Stamps, Stack
<1>5. \A e \in edges : finish[e.parent] = 0
  BY <1>1 DEF Edge
<1> QED
  BY <1>2, <1>4, <1>5 DEF Inv, ChildrenSeen, EdgesRespected

-----------------------------------------------------------------------------
(* Visiting a node keeps the invariant: from top over an edge, or from      *)
(* nowhere when no visit is under way.                                      *)
LEMMA VisitKept ==
    ASSUME Inv, NEW n \in Nodes, NEW from \in Nodes \cup {Nobody}, NEW l \in Labels,
           Visit(n, from, l), from = top,
           from # Nobody => \E e \in edges : e.parent = from /\ e.child = n
    PROVE  Inv'
<1>1. /\ seen[n] = 0 /\ finish[n] = 0
      /\ time' = time + 1 /\ time \in Nat
      /\ seen' = [seen EXCEPT ![n] = time + 1]
      /\ caller' = [caller EXCEPT ![n] = from]
      /\ top' = n /\ finish' = finish /\ edges' = edges
      /\ label' = [label EXCEPT ![n] = l]
  BY DEF Visit, Inv, GraphTypeOK, Stamps
<1>2. /\ seen'[n] = time + 1 /\ caller'[n] = from
      /\ \A m \in Nodes \ {n} : seen'[m] = seen[m] /\ caller'[m] = caller[m]
      /\ \A m \in Nodes : finish'[m] = finish[m]
  BY <1>1 DEF Inv, GraphTypeOK
<1>3. /\ \A m \in Nodes : seen[m] \in Nat /\ finish[m] \in Nat
      /\ \A m \in Nodes : seen[m] <= time /\ finish[m] <= time
      /\ \A m \in Nodes : finish[m] # 0 => seen[m] # 0
  BY DEF Inv, GraphTypeOK, Stamps
<1>4. GraphTypeOK'
  BY <1>1 DEF Inv, GraphTypeOK
<1>5. Stamps'
  <2>1. \A m \in Nodes : seen'[m] <= time' /\ finish'[m] <= time'
    BY <1>1, <1>2, <1>3
  <2>2. \A m \in Nodes : finish'[m] # 0 => seen'[m] # 0
    BY <1>1, <1>2, <1>3
  <2>3. \A m, k \in Nodes : seen'[m] = seen'[k] /\ seen'[m] # 0 => m = k
    <3> TAKE m, k \in Nodes
    <3>1. CASE m = n \/ k = n
      <4>1. \A j \in Nodes \ {n} : seen'[j] < seen'[n]
        BY <1>1, <1>2, <1>3
      <4> QED
        BY <3>1, <4>1, <1>1, <1>2, <1>3
    <3>2. CASE m # n /\ k # n
      BY <1>2, <3>2 DEF Inv, Stamps
    <3> QED
      BY <3>1, <3>2
  <2> QED
    BY <2>1, <2>2, <2>3 DEF Stamps
<1>6. /\ n \in Open'
      /\ \A m \in Nodes \ {n} : (m \in Open') <=> (m \in Open)
  BY <1>1, <1>2 DEF Open
<1>7. Stack'
  <2>1. \A m \in Nodes : m \in Open' => top' # Nobody /\ seen'[m] <= seen'[top']
    BY <1>1, <1>2, <1>3, GraphAssumption
  <2>2. \A m \in Nodes : m \in Open' /\ caller'[m] # Nobody =>
          /\ caller'[m] \in Open' /\ seen'[caller'[m]] < seen'[m]
          /\ \E e \in edges' : e.parent = caller'[m] /\ e.child = m
    <3> SUFFICES ASSUME NEW m \in Nodes, m \in Open', caller'[m] # Nobody
                 PROVE  /\ caller'[m] \in Open' /\ seen'[caller'[m]] < seen'[m]
                        /\ \E e \in edges' : e.parent = caller'[m] /\ e.child = m
      OBVIOUS
    <3>1. CASE m = n
      <4>1. from \in Nodes /\ from # n /\ from \in Open
        BY <1>1, <1>2, <3>1 DEF Inv, Stack, Open
      <4>2. seen'[from] < seen'[n]
        BY <1>1, <1>2, <1>3, <4>1
      <4> QED
        BY <1>1, <1>2, <1>6, <3>1, <4>1, <4>2
    <3>2. CASE m # n
      <4> DEFINE c == caller[m]
      <4>1. /\ m \in Open /\ c # Nobody /\ c \in Open /\ seen[c] < seen[m]
            /\ \E e \in edges : e.parent = c /\ e.child = m
        BY <1>2, <1>6, <3>2 DEF Inv, Stack
      <4>2. c \in Nodes /\ c # n
        BY <1>1, <4>1 DEF Inv, GraphTypeOK, Open
      <4> QED
        BY <1>1, <1>2, <1>6, <3>2, <4>1, <4>2
    <3> QED
      BY <3>1, <3>2
  <2>3. \A m, k \in Nodes : m \in Open' /\ k \in Open' /\ seen'[m] < seen'[k] =>
          caller'[k] # Nobody /\ seen'[m] <= seen'[caller'[k]]
    <3> SUFFICES ASSUME NEW m \in Nodes, NEW k \in Nodes,
                        m \in Open', k \in Open', seen'[m] < seen'[k]
                 PROVE  caller'[k] # Nobody /\ seen'[m] <= seen'[caller'[k]]
      OBVIOUS
    <3>1. m # n
      BY <1>1, <1>2, <1>3
    <3>2. m \in Open
      BY <1>6, <3>1
    <3>3. CASE k = n
      <4>1. top # Nobody /\ seen[m] <= seen[top]
        BY <3>2 DEF Inv, Stack
      <4>2. top \in Nodes /\ top # n
        BY <1>1, <4>1 DEF Inv, GraphTypeOK, Stack, Open
      <4> QED
        BY <1>2, <3>1, <3>3, <4>1, <4>2
    <3>4. CASE k # n
      <4>1. k \in Open /\ seen[m] < seen[k]
        BY <1>2, <1>6, <3>1, <3>4
      <4>2. caller[k] # Nobody /\ seen[m] <= seen[caller[k]] /\ caller[k] \in Open
        BY <3>2, <4>1 DEF Inv, Stack
      <4>3. caller[k] \in Nodes /\ caller[k] # n
        BY <1>1, <4>2 DEF Inv, GraphTypeOK, Open
      <4> QED
        BY <1>2, <3>1, <3>4, <4>2, <4>3
    <3> QED
      BY <3>3, <3>4
  <2> QED
    BY <1>1, <1>6, <2>1, <2>2, <2>3 DEF Stack
<1>8. ChildrenSeen'
  <2> SUFFICES ASSUME NEW e \in edges, finish[e.parent] # 0
               PROVE  seen'[e.child] # 0
    BY <1>1 DEF ChildrenSeen
  <2>1. e.child \in Nodes /\ seen[e.child] # 0
    BY DEF Inv, GraphTypeOK, Edge, ChildrenSeen
  <2> QED
    BY <1>1, <1>2, <2>1
<1>9. EdgesRespected'
  BY <1>1 DEF Inv, EdgesRespected, Before, Reaches, Leads, Closed, Over
<1> QED
  BY <1>4, <1>5, <1>7, <1>8, <1>9 DEF Inv
-----------------------------------------------------------------------------
(* Finishing top keeps the invariant: a child that is still open would      *)
(* lead back to top.                                                        *)
LEMMA FinishKept == Inv /\ Finish => Inv'
<1> SUFFICES ASSUME Inv, Finish PROVE Inv'
  OBVIOUS
<1> DEFINE up == caller[top]
<1>1. /\ top \in Nodes /\ top \in Open /\ time \in Nat /\ time' = time + 1
      /\ finish' = [finish EXCEPT ![top] = time + 1] /\ top' = up
      /\ edges' = edges /\ seen' = seen /\ caller' = caller /\ label' = label
      /\ \A e \in edges : e.parent = top => seen[e.child] # 0
  BY DEF Finish, Inv, GraphTypeOK, Stack
<1>2. /\ finish'[top] = time + 1
      /\ \A m \in Nodes \ {top} : finish'[m] = finish[m]
  BY <1>1 DEF Inv, GraphTypeOK
<1>3. /\ \A m \in Nodes : seen[m] \in Nat /\ finish[m] \in Nat
      /\ \A m \in Nodes : seen[m] <= time /\ finish[m] <= time
      /\ \A m \in Nodes : finish[m] # 0 => seen[m] # 0
      /\ \A m \in Nodes : caller[m] \in Nodes \cup {Nobody}
  BY DEF Inv, GraphTypeOK, Stamps
<1>4. GraphTypeOK'
  BY <1>1, <1>3 DEF Inv, GraphTypeOK
<1>5. Stamps'
  <2>1. \A m \in Nodes : seen'[m] <= time' /\ finish'[m] <= time'
    BY <1>1, <1>2, <1>3
  <2>2. \A m \in Nodes : finish'[m] # 0 => seen'[m] # 0
    BY <1>1, <1>2, <1>3 DEF Open
  <2> QED
    BY <1>1, <2>1, <2>2 DEF Inv, Stamps
<1>6. Open' = Open \ {top}
  BY <1>1, <1>2, <1>3 DEF Open
<1>7. \A m \in Open' : /\ seen[m] < seen[top]
                       /\ up # Nobody /\ seen[m] <= seen[up]
  <2> SUFFICES ASSUME NEW m \in Open'
               PROVE  seen[m] < seen[top] /\ up # Nobody /\ seen[m] <= seen[up]
    OBVIOUS
  <2>1. m \in Nodes /\ m \in Open /\ m # top /\ seen[m] <= seen[top]
    BY <1>6 DEF Inv, Stack, Open
  <2>2. seen[m] # seen[top]
    BY <1>1, <2>1 DEF Inv, Stamps, Open
  <2>3. seen[m] < seen[top]
    BY <1>1, <1>3, <2>1, <2>2
  <2> QED
    BY <1>1, <2>1, <2>3 DEF Inv, Stack
<1>8. Stack'
  <2>1. top' # Nobody => top' \in Open'
    <3> SUFFICES ASSUME up # Nobody PROVE up \in Open'
      BY <1>1
    <3>1. up \in Open /\ seen[up] < seen[top]
      BY <1>1 DEF Inv, Stack
    <3>2. up # top
      BY <1>1, <1>3, <3>1
    <3> QED
      BY <1>6, <3>1, <3>2
  <2>2. \A m \in Nodes : m \in Open' => top' # Nobody /\ seen'[m] <= seen'[top']
    BY <1>1, <1>7
  <2>3. \A m \in Nodes : m \in Open' /\ caller'[m] # Nobody =>
          /\ caller'[m] \in Open' /\ seen'[caller'[m]] < seen'[m]
          /\ \E e \in edges' : e.parent = caller'[m] /\ e.child = m
    <3> SUFFICES ASSUME NEW m \in Nodes, m \in Open', caller[m] # Nobody
                 PROVE  /\ caller[m] \in Open' /\ seen[caller[m]] < seen[m]
                        /\ \E e \in edges : e.parent = caller[m] /\ e.child = m
      BY <1>1
    <3>1. /\ caller[m] \in Open /\ seen[caller[m]] < seen[m]
          /\ \E e \in edges : e.parent = caller[m] /\ e.child = m
      BY <1>6 DEF Inv, Stack
    <3>2. seen[m] < seen[top] /\ caller[m] \in Nodes
      BY <1>7, <3>1 DEF Open
    <3>3. caller[m] # top
      BY <1>1, <1>3, <3>1, <3>2
    <3> QED
      BY <1>6, <3>1, <3>3
  <2>4. \A m, n \in Nodes : m \in Open' /\ n \in Open' /\ seen'[m] < seen'[n] =>
          caller'[n] # Nobody /\ seen'[m] <= seen'[caller'[n]]
    BY <1>1, <1>6 DEF Inv, Stack
  <2> QED
    BY <2>1, <2>2, <2>3, <2>4 DEF Stack
<1>9. ChildrenSeen'
  <2> SUFFICES ASSUME NEW e \in edges, finish'[e.parent] # 0
               PROVE  seen[e.child] # 0
    BY <1>1 DEF ChildrenSeen
  <2>1. e.parent \in Nodes
    BY DEF Inv, GraphTypeOK, Edge
  <2> QED
    BY <1>1, <1>2, <2>1 DEF Inv, ChildrenSeen
<1>10. EdgesRespected'
  <2> SUFFICES ASSUME NEW e \in edges, finish'[e.parent] # 0,
                      ~ Reaches(e.child, e.parent)
               PROVE  finish'[e.child] # 0 /\ finish'[e.parent] > finish'[e.child]
    BY <1>1 DEF EdgesRespected, Before, Reaches, Leads, Closed, Over
  <2>1. e.parent \in Nodes /\ e.child \in Nodes
    BY DEF Inv, GraphTypeOK, Edge
  <2>2. CASE e.parent = top
    <3>1. e.child \notin Open
      BY <2>1, <2>2, OpenReachesTop DEF Inv, Open
    <3>2. finish[e.child] # 0
      BY <1>1, <2>1, <2>2, <3>1 DEF Open
    <3>3. e.child # top
      BY <1>1, <3>1
    <3> QED
      BY <1>2, <1>3, <1>1, <2>1, <2>2, <3>2, <3>3
  <2>3. CASE e.parent # top
    <3>1. finish[e.parent] # 0
      BY <1>2, <2>1, <2>3
    <3>2. finish[e.child] # 0 /\ finish[e.parent] > finish[e.child]
      BY <3>1 DEF Inv, EdgesRespected, Before
    <3>3. e.child # top
      BY <1>1, <3>2 DEF Open
    <3> QED
      BY <1>2, <2>1, <2>3, <3>2, <3>3
  <2> QED
    BY <2>2, <2>3
<1> QED
  BY <1>4, <1>5, <1>8, <1>9, <1>10 DEF Inv

(* The invariant holds while one graph is traversed. *)
LEMMA InvCorrect == GraphSpec => []Inv
<1>1. GraphInit => Inv
  BY InitInv
<1>2. Inv /\ [GraphNext]_graphVars => Inv'
  <2> SUFFICES ASSUME Inv, [GraphNext]_graphVars PROVE Inv'
    OBVIOUS
  <2>1. ASSUME NEW n \in Roots, Start(n) PROVE Inv'
    <3>1. n \in Nodes
      BY DEF Roots
    <3> QED
      BY <2>1, <3>1, VisitKept, GraphAssumption DEF Start
  <2>2. CASE Descend
    <3>1. PICK e \in edges : e.parent = top /\ Visit(e.child, top, e.label)
      BY <2>2 DEF Descend
    <3>2. e.child \in Nodes /\ e.label \in Labels /\ top \in Nodes \cup {Nobody}
      BY DEF Inv, GraphTypeOK, Edge
    <3> QED
      BY <3>1, <3>2, VisitKept
  <2>3. CASE Finish
    BY <2>3, FinishKept
  <2>4. CASE UNCHANGED graphVars
    BY <2>4 DEF graphVars, position, Inv, GraphTypeOK, Stamps, Stack, ChildrenSeen,
                EdgesRespected, Open, Before, Reaches, Leads, Closed, Over
  <2> QED
    BY <2>1, <2>2, <2>3, <2>4 DEF GraphNext
<1> QED
  BY <1>1, <1>2, PTL DEF GraphSpec, graphVars

(* Types, for any graph. *)
THEOREM GraphTypeCorrect == GraphSpec => []GraphTypeOK
<1>1. Inv => GraphTypeOK
  BY DEF Inv
<1> QED
  BY <1>1, InvCorrect, PTL

(* The reversed finishing times are an order that satisfies every edge that *)
(* is on no cycle, for any graph and any order in which roots and children  *)
(* are visited.                                                             *)
THEOREM EdgesRespectedCorrect == GraphSpec => []EdgesRespected
<1>1. Inv => EdgesRespected
  BY DEF Inv
<1> QED
  BY <1>1, InvCorrect, PTL
-----------------------------------------------------------------------------
(* Whoever was visited is in every closed set that holds the roots. *)
SeenReachable ==
    \A S \in SUBSET Nodes :
        Roots \subseteq S /\ Closed(S) => \A n \in Nodes : seen[n] # 0 => n \in S

(* Only what roots lead to is visited. *)
LEMMA SeenReachableCorrect == GraphSpec => []SeenReachable
<1>1. GraphInit => SeenReachable
  BY DEF GraphInit, Cleared, SeenReachable
<1>2. Inv /\ SeenReachable /\ [GraphNext]_graphVars => SeenReachable'
  <2> SUFFICES ASSUME Inv, SeenReachable, [GraphNext]_graphVars,
                      NEW S \in SUBSET Nodes, Roots' \subseteq S, Closed(S)',
                      NEW n \in Nodes, seen'[n] # 0
               PROVE  n \in S
    BY DEF SeenReachable
  <2>1. edges' = edges
    BY DEF GraphNext, Start, Descend, Finish, Visit, graphVars
  <2>2. Roots \subseteq S /\ Closed(S)
    BY <2>1 DEF Roots, InGraph, Closed, Over
  <2>3. CASE seen[n] # 0
    BY <2>2, <2>3 DEF SeenReachable
  <2>4. ASSUME NEW r \in Roots, Start(r), seen[n] = 0 PROVE n \in S
    <3>1. n = r
      BY <2>4 DEF Start, Visit, Inv, GraphTypeOK
    <3> QED
      BY <2>2, <3>1
  <2>5. CASE Descend /\ seen[n] = 0
    <3>1. PICK e \in edges : e.parent = top /\ Visit(e.child, top, e.label)
      BY <2>5 DEF Descend
    <3>2. n = e.child
      BY <2>5, <3>1 DEF Visit, Inv, GraphTypeOK
    <3>3. top \in Nodes /\ seen[top] # 0
      BY <3>1, GraphAssumption DEF Inv, GraphTypeOK, Stack, Open, Edge
    <3> QED
      BY <2>2, <3>1, <3>2, <3>3 DEF SeenReachable, Closed, Over
  <2>6. CASE Finish \/ UNCHANGED graphVars
    BY <2>2, <2>6 DEF Finish, graphVars, position, SeenReachable
  <2> QED
    BY <2>3, <2>4, <2>5, <2>6 DEF GraphNext
<1> QED
  BY <1>1, <1>2, InvCorrect, PTL DEF GraphSpec, graphVars

(* When it ends the traversal has finished what the roots lead to, whatever *)
(* the graph: a plugin that only cycles lead to never runs.                 *)
THEOREM ReachableOnlyCorrect == GraphSpec => []ReachableOnly
<1>1. Inv /\ SeenReachable => ReachableOnly
  <2> SUFFICES ASSUME Inv, SeenReachable, Done, NEW n \in Nodes
               PROVE  finish[n] # 0 <=>
                        \A S \in SUBSET Nodes : Roots \subseteq S /\ Closed(S) => n \in S
    BY DEF ReachableOnly
  <2> DEFINE Visited == {m \in Nodes : seen[m] # 0}
  <2>1. \A m \in Nodes : seen[m] # 0 <=> finish[m] # 0
    BY DEF Done, Inv, Stack, Stamps, Open
  <2>2. Visited \in SUBSET Nodes /\ Roots \subseteq Visited
    BY DEF Done, Roots
  <2>3. Closed(Visited)
    BY <2>1 DEF Closed, Over, Inv, ChildrenSeen, GraphTypeOK, Edge
  <2>4. ASSUME finish[n] # 0, NEW S \in SUBSET Nodes, Roots \subseteq S, Closed(S)
        PROVE  n \in S
    BY <2>1, <2>4 DEF SeenReachable
  <2>5. ASSUME \A S \in SUBSET Nodes : Roots \subseteq S /\ Closed(S) => n \in S
        PROVE  finish[n] # 0
    BY <2>1, <2>2, <2>3, <2>5
  <2> QED
    BY <2>4, <2>5
<1> QED
  BY <1>1, InvCorrect, SeenReachableCorrect, PTL

-----------------------------------------------------------------------------
(* The passes of list node xml. *)

Graphs == main \subseteq Edge /\ orders \subseteq Edge

OInv == Inv /\ Graphs

-----------------------------------------------------------------------------
(* A traversal of a graph of tags and of edges without a label starts in a *)
(* state that satisfies the invariant of traversals.                       *)
LEMMA TurnKept ==
    ASSUME NEW p, NEW g, g \subseteq Edge, Turn(p, g)
    PROVE  Inv'
<1>1. /\ edges' \subseteq Edge /\ time' = 0 /\ top' = Nobody
      /\ seen' = [n \in Nodes |-> 0] /\ finish' = [n \in Nodes |-> 0]
      /\ caller' = [n \in Nodes |-> Nobody] /\ label' = [n \in Nodes |-> NoLabel]
  BY DEF Turn, Cleared
<1>2. GraphTypeOK'
  BY <1>1, GraphAssumption DEF GraphTypeOK
<1>3. Open' = {}
  BY <1>1 DEF Open
<1>4. Stamps' /\ Stack'
  BY <1>1, <1>3 DEF Stamps, Stack
<1>5. \A e \in edges' : finish'[e.parent] = 0
  BY <1>1 DEF Edge
<1> QED
  BY <1>2, <1>4, <1>5 DEF Inv, ChildrenSeen, EdgesRespected

(* Nothing but a traversal's own steps changes its marks. *)
LEMMA StillKept ==
    ASSUME Inv, UNCHANGED <<edges, position>>
    PROVE  Inv'
BY DEF position, Inv, GraphTypeOK, Stamps, Stack, Open, ChildrenSeen, EdgesRespected,
       Before, Reaches, Leads, Closed, Over

(* Reversing a graph, and adding edges at its leaves, gives a graph. *)
LEMMA MoreEdges ==
    ASSUME OrderAssumption, NEW g, g \subseteq Edge
    PROVE  /\ Reversed(g) \subseteq Edge
           /\ \A n \in Nodes : OrderEdge(HEAD, n) \in Edge /\ OrderEdge(n, TAIL) \in Edge
<1>1. ASSUME NEW e \in g
      PROVE  [e EXCEPT !.parent = e.child, !.child = e.parent] \in Edge
  BY DEF Edge
<1>2. \A n \in Nodes : OrderEdge(HEAD, n) \in Edge /\ OrderEdge(n, TAIL) \in Edge
  BY GraphAssumption, OrderAssumption DEF OrderEdge, Edge
<1> QED
  BY <1>1, <1>2 DEF Reversed

(* Every pass of the command keeps the invariant of traversals. *)
LEMMA OInvCorrect == Spec => []OInv
<1>1. Init => OInv
  <2> SUFFICES ASSUME Init PROVE OInv
    OBVIOUS
  <2>1. main \subseteq Edge
    BY OrderAssumption DEF Init, MainEdge, Edge
  <2>2. orders \subseteq Edge
    BY OrderAssumption DEF Init
  <2>3. GraphInit
    BY <2>1 DEF Init, GraphInit
  <2> QED
    BY <2>1, <2>2, <2>3, InitInv DEF OInv, Graphs
<1>2. OInv /\ [Next]_vars => OInv'
  <2> SUFFICES ASSUME OInv, [Next]_vars PROVE OInv'
    OBVIOUS
  <2> USE DEF OInv
  <2>1. Graphs'
    BY DEF Graphs, Next, vars, Traverse, NoRoot, FrameworkFound, HeadPlaced,
           TailPlaced, Merge
  <2>2. CASE Traverse
    <3>1. ASSUME NEW n \in Starts, Start(n) PROVE Inv'
      <4>1. n \in Nodes
        BY GraphAssumption, OrderAssumption DEF Starts, Roots
      <4> QED
        BY <3>1, <4>1, VisitKept, GraphAssumption DEF Start
    <3>2. ASSUME Descend PROVE Inv'
      <4>1. PICK e \in edges : e.parent = top /\ Visit(e.child, top, e.label)
        BY <3>2 DEF Descend
      <4>2. e.child \in Nodes /\ e.label \in Labels /\ top \in Nodes \cup {Nobody}
        BY DEF Inv, GraphTypeOK, Edge
      <4> QED
        BY <4>1, <4>2, VisitKept
    <3> QED
      BY <2>1, <2>2, <3>1, <3>2, FinishKept DEF Traverse
  <2>3. CASE NoRoot \/ Merge
    BY <2>1, <2>3, StillKept DEF NoRoot, Merge
  <2>4. CASE FrameworkFound
    BY <2>1, <2>4, MoreEdges, TurnKept, OrderAssumption DEF FrameworkFound, Graphs
  <2>5. CASE HeadPlaced
    <3>1. orders \cup {OrderEdge(HEAD, n) : n \in Unmarked(Leaves)} \subseteq Edge
      BY MoreEdges, OrderAssumption DEF Graphs, Unmarked, Leaves
    <3> QED
      BY <2>1, <2>5, <3>1, TurnKept DEF HeadPlaced
  <2>6. CASE TailPlaced
    <3>1. edges \cup {OrderEdge(n, TAIL) : n \in Unmarked(Leaves)} \subseteq Edge
      BY MoreEdges, OrderAssumption DEF Inv, GraphTypeOK, Unmarked, Leaves
    <3> QED
      BY <2>1, <2>6, <3>1, TurnKept DEF TailPlaced
  <2>7. CASE UNCHANGED vars
    BY <2>1, <2>7, StillKept DEF vars
  <2> QED
    BY <2>2, <2>3, <2>4, <2>5, <2>6, <2>7 DEF Next
<1> QED
  BY <1>1, <1>2, PTL DEF Spec

(* In every pass over the framework and over the order graph, whatever tags *)
(* they are made of, a parent is before the child of an edge on no cycle    *)
(* (profile.py:1242-1246).                                                  *)
THEOREM PassesRespectEdges == Spec => []EdgesRespected
<1>1. OInv => EdgesRespected
  BY DEF OInv, Inv
<1> QED
  BY <1>1, OInvCorrect, PTL
-----------------------------------------------------------------------------
(* Marking the nodes from HEAD backwards, or from TAIL, leaves two parts of *)
(* the graph, and an edge out of the one into the other on no cycle.        *)
Placed ==
    /\ pass = "head" => edges = Reversed(orders)
    /\ pass \in {"tail", "final", "done"} =>
          /\ orders \subseteq edges
          /\ \A e \in orders : OnCycle(edges, e) => OnCycle(orders, e)

(* When a traversal has ended, what it has seen is closed. *)
LEMMA SeenClosed ==
    ASSUME Inv, top = Nobody
    PROVE  \A e \in edges : seen[e.parent] # 0 => seen[e.child] # 0
<1> SUFFICES ASSUME NEW e \in edges, seen[e.parent] # 0 PROVE seen[e.child] # 0
  OBVIOUS
<1>1. e.parent \in Nodes
  BY DEF Inv, GraphTypeOK, Edge
<1>2. finish[e.parent] # 0
  BY <1>1 DEF Inv, Stack, Open
<1> QED
  BY <1>2 DEF Inv, ChildrenSeen

(* No edge from HEAD to a node that does not lead to it closes a cycle. *)
LEMMA HeadKept ==
    ASSUME OInv, Placed, HeadPlaced, OrderAssumption
    PROVE  /\ orders' \subseteq edges'
           /\ \A e \in orders' : OnCycle(edges', e) => OnCycle(orders', e)
<1> DEFINE U == {n \in Nodes : seen[n] = 0}
<1>1. /\ edges = Reversed(orders) /\ orders' = orders
      /\ edges' = orders \cup {OrderEdge(HEAD, n) : n \in Unmarked(Leaves)}
      /\ top = Nobody /\ HEAD \notin U
  BY DEF Placed, HeadPlaced, Turn, Ended, Starts
<1>2. Over(orders, U)
  <2> SUFFICES ASSUME NEW e \in orders, e.parent \in U PROVE e.child \in U
    BY DEF Over
  <2>1. e.child \in Nodes /\ e.parent \in Nodes
    BY DEF OInv, Graphs, Edge
  <2> DEFINE r == [e EXCEPT !.parent = e.child, !.child = e.parent]
  <2>2. r \in edges /\ r.parent = e.child /\ r.child = e.parent
    BY <1>1 DEF Reversed, OInv, Graphs, Edge
  <2>3. seen[r.parent] # 0 => seen[r.child] # 0
    BY <1>1, <2>2, SeenClosed DEF OInv
  <2> QED
    BY <2>1, <2>2, <2>3
<1>3. ASSUME NEW e \in orders, ~ OnCycle(orders, e) PROVE ~ OnCycle(edges', e)
  <2>1. PICK S \in SUBSET Nodes : e.child \in S /\ Over(orders, S) /\ e.parent \notin S
    BY <1>3 DEF OnCycle, Leads
  <2> DEFINE T == IF e.parent \in U THEN S \cap U ELSE S \cup U
  <2>2. e.child \in T /\ e.parent \notin T /\ T \in SUBSET Nodes
    BY <1>2, <1>3, <2>1 DEF Over
  <2>3. Over(orders, T)
    BY <1>2, <2>1 DEF Over
  <2>4. ASSUME NEW n \in Unmarked(Leaves), HEAD \in T PROVE n \in T
    <3>1. n \in U /\ e.parent \notin U
      BY <1>1, <2>4 DEF Unmarked, Leaves
    <3> QED
      BY <3>1
  <2>5. Over(edges', T)
    <3> SUFFICES ASSUME NEW f \in edges', f.parent \in T PROVE f.child \in T
      BY DEF Over
    <3>1. CASE f \in orders
      BY <2>3, <3>1 DEF Over
    <3>2. ASSUME NEW n \in Unmarked(Leaves), f = OrderEdge(HEAD, n) PROVE f.child \in T
      <4>1. f.parent = HEAD /\ f.child = n
        BY <3>2 DEF OrderEdge
      <4> QED
        BY <2>4, <4>1
    <3> QED
      BY <1>1, <3>1, <3>2
  <2> QED
    BY <2>2, <2>5 DEF OnCycle, Leads
<1> QED
  BY <1>1, <1>3

(* No edge to TAIL from a node that TAIL does not lead to closes a cycle. *)
LEMMA TailKept ==
    ASSUME OInv, Placed, TailPlaced
    PROVE  /\ orders' \subseteq edges'
           /\ \A e \in orders' : OnCycle(edges', e) => OnCycle(orders', e)
<1> DEFINE M == {n \in Nodes : seen[n] # 0}
<1>1. /\ orders \subseteq edges /\ orders' = orders
      /\ \A e \in orders : OnCycle(edges, e) => OnCycle(orders, e)
      /\ edges' = edges \cup {OrderEdge(n, TAIL) : n \in Unmarked(Leaves)}
      /\ top = Nobody /\ seen[TAIL] # 0
  BY DEF Placed, TailPlaced, Turn, Ended, Starts
<1>2. \A e \in edges : e.child \in Nodes /\ e.parent \in Nodes
  BY DEF OInv, Inv, GraphTypeOK, Edge
<1>3. Over(edges, M)
  BY <1>1, <1>2, SeenClosed DEF Over, OInv
<1>4. ASSUME NEW e \in orders, ~ OnCycle(edges, e) PROVE ~ OnCycle(edges', e)
  <2>1. PICK S \in SUBSET Nodes : e.child \in S /\ Over(edges, S) /\ e.parent \notin S
    BY <1>4 DEF OnCycle, Leads
  <2>2. e \in edges /\ (TAIL \in Nodes => TAIL \in M)
    BY <1>1
  <2>3. CASE e.parent \in M
    <3> DEFINE W == S \cap M
    <3>1. e.child \in W /\ e.parent \notin W /\ W \in SUBSET Nodes
      BY <1>3, <2>1, <2>2, <2>3 DEF Over
    <3>2. Over(edges, W)
      BY <1>3, <2>1 DEF Over
    <3>3. \A n \in Unmarked(Leaves) : n \notin W
      BY DEF Unmarked
    <3>4. Over(edges', W)
      <4> SUFFICES ASSUME NEW f \in edges', f.parent \in W PROVE f.child \in W
        BY DEF Over
      <4>1. ASSUME NEW n \in Unmarked(Leaves), f = OrderEdge(n, TAIL) PROVE FALSE
        BY <3>3, <4>1 DEF OrderEdge
      <4> QED
        BY <1>1, <3>2, <4>1 DEF Over
    <3> QED
      BY <3>1, <3>4 DEF OnCycle, Leads
  <2>4. CASE e.parent \notin M
    <3> DEFINE W == S \cup M
    <3>1. e.child \in W /\ e.parent \notin W /\ W \in SUBSET Nodes
      BY <2>1, <2>4
    <3>2. Over(edges, W)
      BY <1>3, <2>1 DEF Over
    <3>3. Over(edges', W)
      <4> SUFFICES ASSUME NEW f \in edges', f.parent \in W PROVE f.child \in W
        BY DEF Over
      <4>1. ASSUME NEW n \in Unmarked(Leaves), f = OrderEdge(n, TAIL) PROVE f.child \in W
        <5>1. f.child = TAIL /\ TAIL \in Nodes
          BY <4>1, GraphAssumption, OrderAssumption DEF OrderEdge
        <5> QED
          BY <2>2, <5>1
      <4> QED
        BY <1>1, <3>2, <4>1 DEF Over
    <3> QED
      BY <3>1, <3>3 DEF OnCycle, Leads
  <2> QED
    BY <2>3, <2>4
<1> QED
  BY <1>1, <1>4

(* The graph of each pass is what the passes before it made of the tags. *)
LEMMA PlacedCorrect == Spec => []Placed
<1>1. Init => Placed
  BY DEF Init, Placed
<1>2. OInv /\ Placed /\ [Next]_vars => Placed'
  <2> SUFFICES ASSUME OInv, Placed, [Next]_vars PROVE Placed'
    OBVIOUS
  <2>1. CASE Traverse \/ UNCHANGED vars
    <3>1. pass' = pass /\ edges' = edges /\ orders' = orders
      BY <2>1 DEF Traverse, Start, Visit, Descend, Finish, vars
    <3> QED
      BY <3>1 DEF Placed, OnCycle, Leads, Over
  <2>2. CASE NoRoot
    BY <2>2 DEF NoRoot, Placed
  <2>3. CASE FrameworkFound
    BY <2>3 DEF FrameworkFound, Turn, Placed
  <2>4. CASE HeadPlaced
    <3>1. pass' = "tail"
      BY <2>4 DEF HeadPlaced, Turn
    <3> QED
      BY <2>4, <3>1, HeadKept, OrderAssumption DEF Placed
  <2>5. CASE TailPlaced
    <3>1. pass' = "final"
      BY <2>5 DEF TailPlaced, Turn
    <3> QED
      BY <2>5, <3>1, TailKept DEF Placed
  <2>6. CASE Merge
    <3>1. pass = "final" /\ pass' = "done" /\ edges' = edges /\ orders' = orders
      BY <2>6 DEF Merge
    <3> QED
      BY <3>1 DEF Placed, OnCycle, Leads, Over
  <2> QED
    BY <2>1, <2>2, <2>3, <2>4, <2>5, <2>6 DEF Next
<1> QED
  BY <1>1, <1>2, OInvCorrect, PTL DEF Spec

(* Every order tag on no cycle of order tags is satisfied by the order that *)
(* the last traversal finds, for every graph and every order in which the   *)
(* traversals meet nodes and edges (profile.py:1195-1246).                  *)
THEOREM TagsHeldCorrect == Spec => []TagsHeld
<1>1. OInv /\ Placed => TagsHeld
  <2> SUFFICES ASSUME OInv, Placed, pass = "done", NEW e \in orders,
                      finish[e.parent] # 0, ~ OnCycle(orders, e)
               PROVE  finish[e.child] # 0 /\ Before(e.parent, e.child)
    BY DEF TagsHeld
  <2>1. e \in edges /\ ~ OnCycle(edges, e)
    BY DEF Placed
  <2>2. ~ Reaches(e.child, e.parent)
    BY <2>1 DEF OnCycle, Reaches, Leads, Closed, Over
  <2> QED
    BY <2>1, <2>2 DEF OInv, Inv, EdgesRespected
<1> QED
  BY <1>1, OInvCorrect, PlacedCorrect, PTL
-----------------------------------------------------------------------------
(* Sorting. *)

Below(S, key, n) == {m \in S : key[m] < key[n]}

(* What Sorted makes of a set whose members have different keys has each of *)
(* them at one place, in the order of the keys.                             *)
LEMMA SortedCorrect ==
    ASSUME NEW S, IsFiniteSet(S), NEW key, \A n \in S : key[n] \in Nat,
           \A m, n \in S : key[m] = key[n] => m = n
    PROVE  /\ Cardinality(S) \in Nat
           /\ Sorted(S, key) \in [1 .. Cardinality(S) -> S]
           /\ \A n \in S : \E i \in 1 .. Cardinality(S) : Sorted(S, key)[i] = n
           /\ \A i, j \in 1 .. Cardinality(S) :
                  i < j => key[Sorted(S, key)[i]] < key[Sorted(S, key)[j]]
<1> DEFINE N == Cardinality(S)
           f == [n \in S |-> Cardinality(Below(S, key, n)) + 1]
           s == Sorted(S, key)
<1>1. N \in Nat
  BY FS_CardinalityType
<1>2. ASSUME NEW n \in S
      PROVE  /\ IsFiniteSet(Below(S, key, n)) /\ Cardinality(Below(S, key, n)) \in Nat
             /\ Cardinality(Below(S, key, n)) < N
  <2>1. Below(S, key, n) \in SUBSET (S \ {n})
    BY <1>2 DEF Below
  <2>2. IsFiniteSet(S \ {n}) /\ Cardinality(S \ {n}) = N - 1
    BY FS_RemoveElement, <1>2
  <2>3. IsFiniteSet(Below(S, key, n)) /\ Cardinality(Below(S, key, n)) <= N - 1
    BY <2>1, <2>2, FS_Subset
  <2> QED
    BY <1>1, <2>3, FS_CardinalityType
<1>3. f \in [S -> 1 .. N]
  BY <1>1, <1>2
<1>4. ASSUME NEW m \in S, NEW n \in S, key[m] < key[n] PROVE f[m] < f[n]
  <2>1. Below(S, key, m) \in SUBSET Below(S, key, n)
    BY <1>4 DEF Below
  <2>2. m \in Below(S, key, n) /\ m \notin Below(S, key, m)
    BY <1>4 DEF Below
  <2>3. /\ Cardinality(Below(S, key, m)) <= Cardinality(Below(S, key, n))
        /\ Cardinality(Below(S, key, m)) # Cardinality(Below(S, key, n))
    BY <2>1, <2>2, <1>2, FS_Subset
  <2> QED
    BY <2>3, <1>2
<1>5. ASSUME NEW m \in S, NEW n \in S, f[m] = f[n] PROVE m = n
  <2>1. key[m] \in Nat /\ key[n] \in Nat /\ f[m] \in Nat
    BY <1>3
  <2>2. ~ (key[m] < key[n]) /\ ~ (key[n] < key[m])
    BY <2>1, <1>4, <1>5
  <2> QED
    BY <2>1, <2>2
<1>6. f \in Injection(S, 1 .. N)
  BY <1>3, <1>5 DEF Injection, IsInjective
<1>7. IsFiniteSet(1 .. N) /\ Cardinality(1 .. N) = N
  BY <1>1, FS_Interval
<1>8. f \in Surjection(S, 1 .. N)
  BY <1>6, <1>7, FS_Injection
<1>9. \A i \in 1 .. N : \E n \in S : f[n] = i
  BY <1>8 DEF Surjection
<1>10. ASSUME NEW i \in 1 .. N PROVE s[i] \in S /\ f[s[i]] = i
  <2>1. s[i] = CHOOSE n \in S : Cardinality(Below(S, key, n)) = i - 1
    BY DEF Sorted, Below
  <2>2. PICK n \in S : f[n] = i
    BY <1>9
  <2>3. Cardinality(Below(S, key, n)) = i - 1
    BY <2>2, <1>2
  <2>4. s[i] \in S /\ Cardinality(Below(S, key, s[i])) = i - 1
    BY <2>1, <2>3
  <2> QED
    BY <2>4
<1>11. s \in [1 .. N -> S]
  BY <1>10 DEF Sorted
<1>12. ASSUME NEW n \in S PROVE \E i \in 1 .. N : s[i] = n
  <2>1. f[n] \in 1 .. N
    BY <1>3
  <2>2. s[f[n]] \in S /\ f[s[f[n]]] = f[n]
    BY <2>1, <1>10
  <2> QED
    BY <2>1, <2>2, <1>5
<1>13. ASSUME NEW i \in 1 .. N, NEW j \in 1 .. N, i < j PROVE key[s[i]] < key[s[j]]
  <2>1. s[i] \in S /\ f[s[i]] = i /\ s[j] \in S /\ f[s[j]] = j
    BY <1>10
  <2>2. key[s[i]] \in Nat /\ key[s[j]] \in Nat
    BY <2>1
  <2>3. key[s[i]] # key[s[j]]
    BY <2>1, <1>13
  <2>4. ~ (key[s[j]] < key[s[i]])
    BY <2>1, <1>4, <1>13
  <2> QED
    BY <2>2, <2>3, <2>4
<1> HIDE DEF f, s
<1> QED
  BY <1>1, <1>11, <1>12, <1>13 DEF s

(* The same from the other end. *)
LEMMA ReverseSorted ==
    ASSUME NEW S, IsFiniteSet(S), NEW key, \A n \in S : key[n] \in Nat,
           \A m, n \in S : key[m] = key[n] => m = n
    PROVE  /\ Reverse(Sorted(S, key)) \in Seq(S)
           /\ ToSet(Reverse(Sorted(S, key))) = S
           /\ \A i, j \in DOMAIN Reverse(Sorted(S, key)) :
                  i < j => key[Reverse(Sorted(S, key))[i]] > key[Reverse(Sorted(S, key))[j]]
<1> DEFINE N == Cardinality(S)
           s == Sorted(S, key)
           r == Reverse(Sorted(S, key))
<1>1. /\ N \in Nat /\ s \in [1 .. N -> S]
      /\ \A n \in S : \E i \in 1 .. N : s[i] = n
      /\ \A i, j \in 1 .. N : i < j => key[s[i]] < key[s[j]]
  BY SortedCorrect
<1> HIDE DEF N, s
<1>2. Len(s) = N /\ s \in Seq(S)
  BY <1>1
<1>3. r = [i \in 1 .. N |-> s[(N - i) + 1]]
  BY <1>2 DEF Reverse, s
<1> HIDE DEF r
<1>4. \A i \in 1 .. N : (N - i) + 1 \in 1 .. N
  BY <1>1
<1>5. r \in [1 .. N -> S] /\ DOMAIN r = 1 .. N
  BY <1>1, <1>3, <1>4
<1>6. r \in Seq(S)
  BY <1>1, <1>5
<1>7. ASSUME NEW n \in S PROVE \E i \in 1 .. N : r[i] = n
  <2>1. PICK i \in 1 .. N : s[i] = n
    BY <1>1
  <2>2. (N - i) + 1 \in 1 .. N /\ (N - ((N - i) + 1)) + 1 = i
    BY <1>1
  <2>3. r[(N - i) + 1] = n
    BY <1>3, <2>1, <2>2
  <2> QED
    BY <2>2, <2>3
<1>8. ToSet(r) = S
  BY <1>5, <1>7 DEF ToSet
<1>9. ASSUME NEW i \in 1 .. N, NEW j \in 1 .. N, i < j PROVE key[r[i]] > key[r[j]]
  <2>1. (N - j) + 1 \in 1 .. N /\ (N - i) + 1 \in 1 .. N /\ (N - j) + 1 < (N - i) + 1
    BY <1>1, <1>9
  <2>2. key[s[(N - j) + 1]] < key[s[(N - i) + 1]]
    BY <1>1, <2>1
  <2> QED
    BY <2>2, <1>3
<1> QED
  BY <1>5, <1>6, <1>8, <1>9 DEF r
-----------------------------------------------------------------------------
(* When nodes finish. *)

(* No two nodes finish at a time. *)
FinishOnce == \A m, n \in Nodes : finish[m] = finish[n] /\ finish[m] # 0 => m = n

(* Whatever finishes between the two ends of an edge whose child is the     *)
(* later one is led to by that child, which was open when the parent ended. *)
Late ==
    \A e \in edges, n \in Nodes :
        finish[e.parent] # 0 /\ finish[e.parent] < finish[n] =>
            \/ Reaches(e.child, n)
            \/ finish[e.child] # 0 /\ finish[e.child] < finish[n]

LEMMA FinishTimesKept ==
    ASSUME Inv, FinishOnce, Late, Finish
    PROVE  FinishOnce' /\ Late'
<1>1. /\ top \in Nodes /\ top \in Open /\ time \in Nat
      /\ finish' = [finish EXCEPT ![top] = time + 1] /\ edges' = edges
  BY DEF Finish, Inv, GraphTypeOK, Stack
<1>2. /\ finish'[top] = time + 1
      /\ \A m \in Nodes \ {top} : finish'[m] = finish[m]
  BY <1>1 DEF Inv, GraphTypeOK
<1>3. \A m \in Nodes : finish[m] \in Nat /\ finish[m] <= time
  BY DEF Inv, GraphTypeOK, Stamps
<1>4. finish[top] = 0
  BY <1>1 DEF Open
<1>5. FinishOnce'
  <2> SUFFICES ASSUME NEW m \in Nodes, NEW n \in Nodes,
                      finish'[m] = finish'[n], finish'[m] # 0
               PROVE  m = n
    BY DEF FinishOnce
  <2>1. CASE m # top /\ n # top
    BY <2>1, <1>2 DEF FinishOnce
  <2>2. CASE m = top \/ n = top
    BY <2>2, <1>1, <1>2, <1>3
  <2> QED
    BY <2>1, <2>2
<1>6. ASSUME NEW e \in edges', NEW n \in Nodes,
             finish'[e.parent] # 0, finish'[e.parent] < finish'[n]
      PROVE  \/ Reaches(e.child, n)
             \/ finish'[e.child] # 0 /\ finish'[e.child] < finish'[n]
  <2>1. e \in edges /\ e.parent \in Nodes /\ e.child \in Nodes
    BY <1>1 DEF Inv, GraphTypeOK, Edge
  <2>2. e.parent # top
    BY <1>1, <1>2, <1>3, <1>6
  <2>3. finish[e.parent] # 0 /\ finish'[e.parent] = finish[e.parent]
    BY <1>2, <1>6, <2>1, <2>2
  <2>4. CASE n = top
    <3>1. seen[e.child] # 0
      BY <2>1, <2>3 DEF Inv, ChildrenSeen
    <3>2. CASE finish[e.child] = 0
      <4>1. e.child \in Open
        BY <2>1, <3>1, <3>2 DEF Open
      <4> QED
        BY <2>1, <2>4, <4>1, OpenReachesTop DEF Inv
    <3>3. CASE finish[e.child] # 0
      BY <1>1, <1>2, <1>3, <1>4, <2>1, <2>4, <3>3
    <3> QED
      BY <3>2, <3>3
  <2>5. CASE n # top
    <3>1. finish'[n] = finish[n]
      BY <1>2, <2>5
    <3>2. \/ Reaches(e.child, n)
          \/ finish[e.child] # 0 /\ finish[e.child] < finish[n]
      BY <1>6, <2>1, <2>3, <3>1 DEF Late
    <3>3. finish[e.child] # 0 => finish'[e.child] = finish[e.child]
      BY <1>2, <1>4, <2>1
    <3> QED
      BY <3>1, <3>2, <3>3
  <2> QED
    BY <2>4, <2>5
<1>7. \A m, n \in Nodes : Reaches(m, n)' = Reaches(m, n)
  BY <1>1 DEF Reaches, Leads, Over
<1>8. Late'
  <2> SUFFICES ASSUME NEW e \in edges', NEW n \in Nodes,
                      finish'[e.parent] # 0, finish'[e.parent] < finish'[n]
               PROVE  \/ Reaches(e.child, n)'
                      \/ finish'[e.child] # 0 /\ finish'[e.child] < finish'[n]
    BY DEF Late
  <2>1. e.child \in Nodes
    BY <1>1 DEF Inv, GraphTypeOK, Edge
  <2> QED
    BY <1>6, <1>7, <2>1
<1> QED
  BY <1>5, <1>8

LEMMA FinishTimesStill ==
    ASSUME FinishOnce, Late, UNCHANGED <<edges, finish>>
    PROVE  FinishOnce' /\ Late'
BY DEF FinishOnce, Late, Reaches, Leads, Over

LEMMA FinishTimes == GraphSpec => [](FinishOnce /\ Late)
<1>1. GraphInit => FinishOnce /\ Late
  <2> SUFFICES ASSUME GraphInit PROVE FinishOnce /\ Late
    OBVIOUS
  <2>1. finish = [n \in Nodes |-> 0] /\ edges \subseteq Edge
    BY DEF GraphInit, Cleared
  <2> QED
    BY <2>1 DEF FinishOnce, Late, Edge
<1>2. Inv /\ FinishOnce /\ Late /\ [GraphNext]_graphVars => (FinishOnce /\ Late)'
  <2> SUFFICES ASSUME Inv, FinishOnce, Late, [GraphNext]_graphVars
               PROVE  FinishOnce' /\ Late'
    OBVIOUS
  <2>1. CASE Finish
    BY <2>1, FinishTimesKept
  <2>2. CASE (\E n \in Roots : Start(n)) \/ Descend \/ UNCHANGED graphVars
    BY <2>2, FinishTimesStill DEF Start, Descend, Visit, graphVars, position
  <2> QED
    BY <2>1, <2>2 DEF GraphNext
<1> QED
  BY <1>1, <1>2, InvCorrect, PTL DEF GraphSpec, graphVars
-----------------------------------------------------------------------------
(* The plugins of a command. *)

Provided == {p.provides : p \in Plugins}

LEMMA PluginGraphType ==
    /\ PluginGraph \subseteq Edge
    /\ \A p \in Plugins : To(p.provides, TAIL) \in PluginGraph
    /\ \A p \in Plugins : \A n \in p.requires : To(n, p.provides) \in PluginGraph
    /\ Provided \subseteq Nodes /\ IsFiniteSet(Provided)
<1>1. PluginGraph \subseteq Edge
  <2>1. \A m, n \in Nodes : To(m, n) \in Edge
    BY GraphAssumption DEF To, Edge
  <2> QED
    BY <2>1, GraphAssumption, PluginAssumption DEF PluginGraph
<1>2. \A p \in Plugins : To(p.provides, TAIL) \in PluginGraph
  BY DEF PluginGraph
<1>3. \A p \in Plugins : \A n \in p.requires : To(n, p.provides) \in PluginGraph
  BY DEF PluginGraph
<1>4. Provided \subseteq Nodes
  BY PluginAssumption DEF Provided
<1>5. [p \in Plugins |-> p.provides] \in Surjection(Plugins, Provided)
  BY DEF Provided, Surjection
<1>6. IsFiniteSet(Provided)
  BY <1>5, PluginAssumption, FS_Surjection
<1> QED
  BY <1>1, <1>2, <1>3, <1>4, <1>6

(* A command loads its plugins in a traversal of their graph. *)
LEMMA BootTraverses == BootSpec => GraphSpec
<1>1. BootInit => GraphInit
  BY PluginGraphType DEF BootInit, PluginInit, GraphInit
<1>2. [BootNext]_bootVars => [GraphNext]_graphVars
  BY DEF BootNext, bootVars, LoadPlugins, Load, graphVars
<1> QED
  BY <1>1, <1>2, PTL DEF BootSpec, GraphSpec, graphVars

(* The plugins are what was finished, the last one first. *)
Loaded ==
    /\ edges = PluginGraph
    /\ plugins # <<>> => Done /\ plugins = Reverse(Sorted(Finished, finish))

LEMMA LoadedCorrect == BootSpec => []Loaded
<1>1. BootInit => Loaded
  BY DEF BootInit, PluginInit, Loaded
<1>2. Loaded /\ [BootNext]_bootVars => Loaded'
  <2> SUFFICES ASSUME Loaded, [BootNext]_bootVars PROVE Loaded'
    OBVIOUS
  <2>1. CASE LoadPlugins /\ plugins' = plugins /\ plugins = <<>> /\ GraphNext
    BY <2>1 DEF GraphNext, Start, Descend, Finish, Visit, Loaded
  <2>2. CASE Load
    BY <2>2 DEF Load, Loaded, Finished, Sorted, Done, Roots, InGraph, position
  <2>3. CASE UNCHANGED <<edges, position, plugins>>
    BY <2>3 DEF Loaded, Finished, Sorted, Done, Roots, InGraph, position
  <2> QED
    BY <2>1, <2>2, <2>3 DEF BootNext, bootVars, LoadPlugins
<1> QED
  BY <1>1, <1>2, PTL DEF BootSpec

(* What a loaded list of plugins is: all of them, in the order in which the *)
(* traversal finished them.                                                 *)
LEMMA PluginsSorted ==
    ASSUME Inv, FinishOnce, Loaded, plugins # <<>>
    PROVE  /\ plugins \in Seq(Provided) /\ ToSet(plugins) = Provided
           /\ \A n \in Nodes : (\E e \in edges : n \in {e.parent, e.child}) => finish[n] # 0
           /\ \A i, j \in DOMAIN plugins :
                  i < j => finish[plugins[i]] > finish[plugins[j]]
<1>1. Finished \in SUBSET Provided /\ IsFiniteSet(Finished)
  BY PluginGraphType, FS_Subset DEF Finished, Provided
<1>2. \A n \in Provided : n \in Nodes /\ finish[n] \in Nat
  BY PluginGraphType DEF Inv, GraphTypeOK
<1>3. \A m, n \in Finished : finish[m] = finish[n] => m = n
  BY <1>1, <1>2 DEF FinishOnce, Finished
<1>4. /\ plugins \in Seq(Finished) /\ ToSet(plugins) = Finished
      /\ \A i, j \in DOMAIN plugins : i < j => finish[plugins[i]] > finish[plugins[j]]
  BY <1>1, <1>2, <1>3, ReverseSorted DEF Loaded
<1> DEFINE M == {n \in Nodes : finish[n] # 0}
           U == {n \in Nodes : InGraph(n) /\ finish[n] = 0}
<1>5. Roots \subseteq M /\ \A n \in Nodes : seen[n] # 0 => finish[n] # 0
  BY DEF Loaded, Done, Inv, Stack, Open, Roots
<1>6. \A e \in edges : e.parent \in M => e.child \in M
  BY <1>5 DEF Inv, ChildrenSeen, GraphTypeOK, Edge
<1>7. TAIL \in M
  <2>1. PICK p \in Plugins : finish[p.provides] # 0
    <3>1. Finished # {}
      <4>1. plugins[1] \in Finished
        BY <1>4
      <4> QED
        BY <4>1
    <3> QED
      BY <3>1 DEF Finished
  <2>2. To(p.provides, TAIL) \in edges /\ p.provides \in Nodes
    BY PluginGraphType, PluginAssumption DEF Loaded
  <2> QED
    BY <1>6, <2>1, <2>2 DEF To
<1>8. U = {}
  <2> SUFFICES ASSUME U # {} PROVE FALSE
    OBVIOUS
  <2>1. U \in SUBSET (Nodes \ {TAIL})
    BY <1>7
  <2>2. PICK n \in U : \A e \in edges : e.child = n => e.parent \notin U
    BY <2>1, PluginsOrderable DEF Loaded
  <2>3. \A e \in edges : e.child # n
    <3> SUFFICES ASSUME NEW e \in edges, e.child = n PROVE FALSE
      OBVIOUS
    <3>1. e.parent \in Nodes /\ InGraph(e.parent)
      BY DEF Inv, GraphTypeOK, Edge, InGraph
    <3>2. e.parent \in M
      BY <2>2, <3>1
    <3> QED
      BY <1>6, <3>2
  <2>4. n \in Roots
    BY <2>3 DEF Roots
  <2> QED
    BY <1>5, <2>4
<1>9. Finished = Provided
  <2> SUFFICES ASSUME NEW p \in Plugins PROVE finish[p.provides] # 0
    BY DEF Finished, Provided
  <2>1. To(p.provides, TAIL) \in edges /\ p.provides \in Nodes
    BY PluginGraphType, PluginAssumption DEF Loaded
  <2>2. InGraph(p.provides)
    BY <2>1 DEF InGraph, To
  <2> QED
    BY <1>8, <2>1, <2>2
<1> QED
  BY <1>4, <1>8, <1>9 DEF InGraph

(* What TAIL does not lead to is before what requires TAIL: everything that *)
(* finishes after TAIL, but before that plugin, is led to by it.            *)
LEMMA TailRequired ==
    ASSUME Inv, FinishOnce, Late, Loaded, plugins # <<>>,
           NEW p \in Plugins, NEW q \in Plugins,
           TAIL \in p.requires, TAIL \notin q.requires
    PROVE  finish[q.provides] > finish[p.provides]
<1> DEFINE a == p.provides
           b == q.provides
           up == To(TAIL, a)
           down == To(b, TAIL)
<1>1. /\ up \in edges /\ up.parent = TAIL /\ up.child = a
      /\ down \in edges /\ down.parent = b /\ down.child = TAIL
      /\ a \in Nodes /\ b \in Nodes /\ TAIL \in Nodes
  BY PluginGraphType, PluginAssumption, GraphAssumption DEF Loaded, To
<1>2. /\ finish[a] \in Nat \ {0} /\ finish[b] \in Nat \ {0} /\ finish[TAIL] \in Nat \ {0}
  BY <1>1, PluginsSorted DEF Inv, GraphTypeOK
<1>3. ~ Reaches(TAIL, b)
  BY PluginsOrderable DEF Loaded, Reaches
<1>4. finish[b] > finish[TAIL]
  BY <1>1, <1>2, <1>3 DEF Inv, EdgesRespected, Before
<1>5. ~ Reaches(a, b)
  <2> SUFFICES ASSUME Reaches(a, b) PROVE Reaches(TAIL, b)
    BY <1>3
  <2> SUFFICES ASSUME NEW S \in SUBSET Nodes, TAIL \in S, Over(edges, S) PROVE b \in S
    BY DEF Reaches, Leads
  <2>1. a \in S
    BY <1>1 DEF Over
  <2> QED
    BY <2>1 DEF Reaches, Leads
<1>6. finish[a] < finish[b]
  BY <1>1, <1>2, <1>4, <1>5 DEF Late
<1> QED
  BY <1>2, <1>6

(* Every plugin runs once, after what it requires and before what it        *)
(* precedes, and what requires TAIL after everything else: for any plugins  *)
(* on no cycle, in any order of their files                                 *)
(* (commands/__init__.py:2143-2204).                                        *)
THEOREM PluginsOrderedCorrect == BootSpec => []PluginsOrdered
<1>1. Inv /\ FinishOnce /\ Late /\ Loaded => PluginsOrdered
  <2> SUFFICES ASSUME Inv, FinishOnce, Late, Loaded, plugins # <<>>
               PROVE  PluginsOrdered
    BY DEF PluginsOrdered
  <2>1. /\ plugins \in Seq(Provided) /\ ToSet(plugins) = Provided
        /\ \A n \in Nodes : (\E e \in edges : n \in {e.parent, e.child}) => finish[n] # 0
        /\ \A i, j \in DOMAIN plugins : i < j => finish[plugins[i]] > finish[plugins[j]]
    BY PluginsSorted
  <2>2. \A i \in DOMAIN plugins : i \in Nat /\ plugins[i] \in Nodes /\ finish[plugins[i]] \in Nat
    BY <2>1, PluginGraphType DEF Inv, GraphTypeOK
  <2>3. ASSUME NEW i \in DOMAIN plugins, NEW j \in DOMAIN plugins,
               finish[plugins[i]] > finish[plugins[j]]
        PROVE  i < j
    <3>1. i # j /\ ~ (j < i)
      BY <2>1, <2>2, <2>3
    <3> QED
      BY <2>2, <3>1
  <2>4. \A i, j \in DOMAIN plugins : plugins[i] = plugins[j] => i = j
    <3> SUFFICES ASSUME NEW i \in DOMAIN plugins, NEW j \in DOMAIN plugins,
                        plugins[i] = plugins[j]
                 PROVE  i = j
      OBVIOUS
    <3>1. ~ (i < j) /\ ~ (j < i)
      BY <2>1, <2>2
    <3> QED
      BY <2>2, <3>1
  <2>5. \A e \in edges : ~ Reaches(e.child, e.parent) => Follows(e.parent, e.child)
    <3> SUFFICES ASSUME NEW e \in edges, ~ Reaches(e.child, e.parent),
                        NEW i \in DOMAIN plugins, NEW j \in DOMAIN plugins,
                        plugins[i] = e.parent, plugins[j] = e.child
                 PROVE  i < j
      BY DEF Follows
    <3>1. e.parent \in Nodes
      BY DEF Inv, GraphTypeOK, Edge
    <3>2. finish[e.parent] # 0
      BY <2>1, <3>1
    <3>3. finish[e.parent] > finish[e.child]
      BY <3>2 DEF Inv, EdgesRespected, Before
    <3> QED
      BY <2>3, <3>3
  <2>6. \A p, q \in Plugins :
            TAIL \in p.requires /\ TAIL \notin q.requires =>
                Follows(q.provides, p.provides)
    BY <2>3, TailRequired DEF Follows
  <2> QED
    BY <2>1, <2>4, <2>5, <2>6 DEF PluginsOrdered, Provided
<1> QED
  BY <1>1, InvCorrect, FinishTimes, LoadedCorrect, BootTraverses, PTL

(* Boot is no part of a cycle: TAIL does not lead to it, and without TAIL   *)
(* there is none.                                                           *)
LEMMA InterfaceNotBeforeBoot ==
    ASSUME Loaded, NEW i \in Plugins, i.provides = "interface", "boot" \in i.requires
    PROVE  ~ Reaches("interface", "boot")
<1> SUFFICES ASSUME Reaches("interface", "boot") PROVE FALSE
  OBVIOUS
<1> DEFINE T == {n \in Nodes : Reaches("interface", n) /\ Reaches(n, "boot")}
           e == To("boot", "interface")
<1>1. PICK b \in Plugins : b.provides = "boot"
  BY RemoveHostPlugins
<1>2. TAIL \notin b.requires
  BY <1>1, RemoveHostPlugins
<1>3. e \in edges /\ e.parent = "boot" /\ e.child = "interface"
  BY PluginGraphType DEF Loaded, To
<1>4. "boot" \in Nodes /\ "interface" \in Nodes
  BY <1>1, PluginAssumption
<1>5. edges \subseteq Edge
  BY PluginGraphType DEF Loaded
<1>6. "boot" \in T /\ "interface" \in T
  BY <1>4 DEF Reaches, Leads
<1>7. TAIL \notin T
  BY <1>1, <1>2, PluginsOrderable DEF Loaded, Reaches
<1>8. PICK n \in T : \A f \in edges : f.child = n => f.parent \notin T
  <2>1. T \in SUBSET (Nodes \ {TAIL}) /\ T # {}
    BY <1>6, <1>7
  <2> HIDE DEF T
  <2> QED
    BY <2>1, PluginsOrderable DEF Loaded
<1>9. n # "interface"
  BY <1>3, <1>6, <1>8
<1> DEFINE W == {x \in Nodes : Reaches("interface", x)} \ {n}
<1>10. Over(edges, W)
  <2> SUFFICES ASSUME NEW f \in edges, f.parent \in W PROVE f.child \in W
    BY DEF Over
  <2>1. f.parent \in Nodes /\ f.child \in Nodes
    BY <1>5 DEF Edge
  <2>2. Reaches("interface", f.child)
    BY <2>1 DEF Reaches, Leads, Over
  <2>3. f.child # n
    <3> SUFFICES ASSUME f.child = n PROVE FALSE
      OBVIOUS
    <3>1. Reaches(f.parent, "boot")
      <4>1. Reaches(n, "boot")
        OBVIOUS
      <4> QED
        BY <4>1 DEF Reaches, Leads, Over
    <3>2. f.parent \in T
      BY <2>1, <3>1
    <3> QED
      BY <1>8, <3>2
  <2> QED
    BY <2>1, <2>2, <2>3
<1>11. "interface" \in W
  BY <1>4, <1>6, <1>9
<1>12. Reaches("interface", n)
  OBVIOUS
<1> QED
  <2>1. W \in SUBSET Nodes
    OBVIOUS
  <2>2. n \notin W
    OBVIOUS
  <2> HIDE DEF W
  <2> QED
    BY <1>10, <1>11, <1>12, <2>1, <2>2 DEF Reaches, Leads

(* The plugins of remove host: boot before interface, and host at the end. *)
RemovalOrder ==
    plugins # <<>> =>
        /\ plugins \in Seq(Nodes)
        /\ \E i, j \in DOMAIN plugins :
               i < j /\ plugins[i] = "boot" /\ plugins[j] = "interface"
        /\ \A i \in DOMAIN plugins : plugins[i] = "host" <=> i = Len(plugins)
        /\ \A i, j \in DOMAIN plugins : plugins[i] = plugins[j] => i = j

LEMMA RemovalOrderCorrect == BootSpec => []RemovalOrder
<1>1. Inv /\ FinishOnce /\ Late /\ Loaded /\ PluginsOrdered => RemovalOrder
  <2> SUFFICES ASSUME Inv, FinishOnce, Late, Loaded, PluginsOrdered, plugins # <<>>
               PROVE  RemovalOrder
    BY DEF RemovalOrder
  <2>1. /\ plugins \in Seq(Provided) /\ ToSet(plugins) = Provided
        /\ \A i, j \in DOMAIN plugins : plugins[i] = plugins[j] => i = j
        /\ \A e \in edges : ~ Reaches(e.child, e.parent) => Follows(e.parent, e.child)
        /\ \A p, q \in Plugins :
               TAIL \in p.requires /\ TAIL \notin q.requires =>
                   Follows(q.provides, p.provides)
    BY PluginsSorted DEF PluginsOrdered, Provided
  <2>2. plugins \in Seq(Nodes) /\ DOMAIN plugins = 1 .. Len(plugins) /\ Len(plugins) \in Nat
    BY <2>1, PluginGraphType
  <2>3. PICK b \in Plugins, i \in Plugins, h \in Plugins :
            /\ b.provides = "boot" /\ i.provides = "interface" /\ h.provides = "host"
            /\ "boot" \in i.requires /\ TAIL \in h.requires
    BY RemoveHostPlugins
  <2>4. \A x \in Provided : \E k \in DOMAIN plugins : plugins[k] = x
    BY <2>1 DEF ToSet
  <2>5. PICK kb \in DOMAIN plugins, ki \in DOMAIN plugins, kh \in DOMAIN plugins :
            plugins[kb] = "boot" /\ plugins[ki] = "interface" /\ plugins[kh] = "host"
    BY <2>3, <2>4 DEF Provided
  <2>6. kb < ki
    <3> DEFINE e == To("boot", "interface")
    <3>1. e \in edges /\ e.parent = "boot" /\ e.child = "interface"
      BY <2>3, PluginGraphType DEF Loaded, To
    <3>2. ~ Reaches(e.child, e.parent)
      BY <2>3, <3>1, InterfaceNotBeforeBoot
    <3>3. Follows("boot", "interface")
      BY <2>1, <3>1, <3>2
    <3> QED
      BY <2>5, <3>3 DEF Follows
  <2>7. kh = Len(plugins)
    <3> DEFINE k == Len(plugins)
    <3>1. k \in DOMAIN plugins /\ kh \in 1 .. k
      BY <2>2, <2>5
    <3>2. PICK q \in Plugins : q.provides = plugins[k]
      BY <2>1, <3>1 DEF Provided, ToSet
    <3>3. CASE q.provides = "host"
      BY <2>1, <2>5, <3>1, <3>2, <3>3
    <3>4. CASE q.provides # "host"
      <4>1. TAIL \notin q.requires
        BY <3>4, RemoveHostPlugins
      <4>2. Follows(q.provides, "host")
        BY <2>1, <2>3, <4>1
      <4>3. k < kh
        BY <2>5, <3>1, <3>2, <4>2 DEF Follows
      <4> QED
        BY <2>2, <3>1, <4>3
    <3> QED
      BY <3>3, <3>4
  <2>8. \A x \in DOMAIN plugins : plugins[x] = "host" <=> x = Len(plugins)
    BY <2>1, <2>5, <2>7
  <2> QED
    BY <2>1, <2>2, <2>5, <2>6, <2>8 DEF RemovalOrder
<1> QED
  BY <1>1, InvCorrect, FinishTimes, LoadedCorrect, BootTraverses, PluginsOrderedCorrect, PTL
-----------------------------------------------------------------------------
(* What the commands that write boot files may rely on at each step. *)

Command == [step : Steps, left : SUBSET Hosts, host : Hosts \cup {None},
            action : Actions, addr : Addresses \cup {None}, k : Nat]

Fit(c) ==
    /\ c.step \in Steps \ {"idle", "next"} => c.host \in Hosts
    /\ c.step \in {"insert", "update"} => c.action # "none"
    /\ c.step = "shell" => c.addr \in Addresses
    /\ c.step # "idle" => plugins # <<>>
    /\ c.step \in {"sync", "interface"} => c.left = {} /\ c.action = "none"
    /\ c.step \in {"plugin", "unlink"} =>
          c.left = {} /\ c.action = "none" /\ c.k \in 1 .. Len(plugins)
    /\ c.step = "unlink" => plugins[c.k] = "boot"

StepsOK == HostTypeOK /\ \A p \in Slots : Fit(proc[p])

(* One command makes a step, and the others do not. *)
Moves(p, c) == c \in Command /\ Fit(c) /\ proc' = [proc EXCEPT ![p] = c]

LEMMA IdleOK == Idle \in Command /\ Fit(Idle)
BY HostAssumption DEF Idle, Command, Fit, Steps, Actions

LEMMA ProcType ==
    ASSUME StepsOK, NEW p \in Slots
    PROVE  proc[p] \in Command /\ Fit(proc[p])
BY DEF StepsOK, HostTypeOK, Command

LEMMA GoMoves ==
    ASSUME StepsOK, NEW p \in Slots, NEW s \in Steps, Go(p, s),
           Fit([proc[p] EXCEPT !.step = s])
    PROVE  Moves(p, [proc[p] EXCEPT !.step = s])
<1>1. proc[p] \in Command
  BY ProcType
<1>2. [proc[p] EXCEPT !.step = s] \in Command
  BY <1>1 DEF Command
<1> QED
  BY <1>2 DEF Go, Moves

LEMMA OnwardMoves ==
    ASSUME StepsOK, NEW p \in Slots, proc[p].step # "idle", Onward(p)
    PROVE  IF proc[p].left = {} THEN Moves(p, Idle)
           ELSE Moves(p, [proc[p] EXCEPT !.step = "next"])
<1>1. proc[p] \in Command /\ Fit(proc[p]) /\ Idle \in Command /\ Fit(Idle)
  BY ProcType, IdleOK
<1>2. [proc[p] EXCEPT !.step = "next"] \in Command
  BY <1>1 DEF Command, Steps
<1>3. Fit([proc[p] EXCEPT !.step = "next"])
  BY <1>1 DEF Fit, Steps, Command
<1> QED
  BY <1>1, <1>2, <1>3 DEF Onward, End, Go, Moves

LEMMA PluginMoves ==
    ASSUME StepsOK, RemovalOrder, NEW p \in Slots,
           proc[p].step \in {"plugin", "unlink"}, NextPlugin(p)
    PROVE  IF proc[p].k = Len(plugins) THEN Moves(p, Idle)
           ELSE Moves(p, [proc[p] EXCEPT !.step = "plugin", !.k = proc[p].k + 1])
<1>1. proc[p] \in Command /\ Fit(proc[p]) /\ Idle \in Command /\ Fit(Idle)
  BY ProcType, IdleOK
<1> DEFINE c == [proc[p] EXCEPT !.step = "plugin", !.k = proc[p].k + 1]
<1>2. c \in Command /\ c.step = "plugin" /\ c.k = proc[p].k + 1
      /\ c.left = proc[p].left /\ c.action = proc[p].action /\ c.host = proc[p].host
  <2>1. proc[p].k \in Nat /\ proc[p].k + 1 \in Nat
    BY <1>1 DEF Command
  <2> DEFINE m == proc[p].k + 1
  <2> HIDE DEF m
  <2>2. m \in Nat
    BY <2>1 DEF m
  <2>3. [proc[p] EXCEPT !.step = "plugin", !.k = m] \in Command
    BY <1>1, <2>2 DEF Command, Steps
  <2> QED
    BY <1>1, <2>3 DEF Command, m
<1>3. ASSUME proc[p].k # Len(plugins) PROVE Fit(c)
  <2>1. Len(plugins) \in Nat
    BY <1>1 DEF RemovalOrder, Fit
  <2>2. proc[p].k + 1 \in 1 .. Len(plugins)
    BY <1>1, <1>3, <2>1 DEF Fit
  <2> QED
    BY <1>1, <1>2, <2>2 DEF Fit, Steps
<1>4. proc[p].k # Len(plugins) => proc' = [proc EXCEPT ![p] = c]
  BY <1>1 DEF NextPlugin, Command
<1> QED
  BY <1>1, <1>2, <1>3, <1>4 DEF NextPlugin, End, Moves

(* Where each step of a command leads. *)
LEMMA WorkMoves ==
    ASSUME StepsOK, RemovalOrder, NEW p \in Slots
    PROVE  /\ NextHost(p) =>
                 \E h \in proc[p].left :
                     Moves(p, [proc[p] EXCEPT !.left = @ \ {h}, !.host = h, !.step =
                         CASE proc[p].action = "none" -> "report"
                           [] proc[p].action # "none" /\ rows[h] = <<>> -> "insert"
                           [] OTHER -> "update"])
           /\ Insert(p) => IF proc[p].host \in nodes
                           THEN Moves(p, [proc[p] EXCEPT !.step = "report"])
                           ELSE Moves(p, Idle)
           /\ Update(p) => Moves(p, [proc[p] EXCEPT !.step = "report"])
           /\ Report(p) =>
                 CASE proc[p].host \notin nodes -> Moves(p, Idle)
                   [] proc[p].host \in nodes /\ ip[proc[p].host] = None ->
                         IF proc[p].left = {} THEN Moves(p, Idle)
                         ELSE Moves(p, [proc[p] EXCEPT !.step = "next"])
                   [] OTHER -> Moves(p, [proc[p] EXCEPT !.step = "shell",
                                                        !.addr = ip[proc[p].host]])
           /\ Shell(p) => IF proc[p].left = {} THEN Moves(p, Idle)
                          ELSE Moves(p, [proc[p] EXCEPT !.step = "next"])
           /\ Sync(p) => IF proc[p].host \in nodes /\ rows[proc[p].host] = <<>>
                         THEN Moves(p, [proc[p] EXCEPT !.step = "next",
                                        !.left = {proc[p].host}, !.action = "install"])
                         ELSE Moves(p, Idle)
           /\ Interface(p) => IF proc[p].host \in nodes
                              THEN Moves(p, [proc[p] EXCEPT !.step = "sync"])
                              ELSE Moves(p, Idle)
           /\ Plugin(p) => IF plugins[proc[p].k] = "boot"
                           THEN Moves(p, [proc[p] EXCEPT !.step = "unlink"])
                           ELSE IF proc[p].k = Len(plugins) THEN Moves(p, Idle)
                           ELSE Moves(p, [proc[p] EXCEPT !.step = "plugin",
                                                         !.k = proc[p].k + 1])
           /\ Unlink(p) => IF proc[p].k = Len(plugins) THEN Moves(p, Idle)
                           ELSE Moves(p, [proc[p] EXCEPT !.step = "plugin",
                                                         !.k = proc[p].k + 1])
<1>1. proc[p] \in Command /\ Fit(proc[p]) /\ Idle \in Command /\ Fit(Idle)
  BY ProcType, IdleOK
<1>2. ip \in [Hosts -> Addresses \cup {None}]
  BY DEF StepsOK, HostTypeOK
<1>3. ASSUME NextHost(p)
      PROVE  \E h \in proc[p].left :
                 Moves(p, [proc[p] EXCEPT !.left = @ \ {h}, !.host = h, !.step =
                     CASE proc[p].action = "none" -> "report"
                       [] proc[p].action # "none" /\ rows[h] = <<>> -> "insert"
                       [] OTHER -> "update"])
  <2>1. PICK h \in proc[p].left :
           proc' = [proc EXCEPT ![p].left = @ \ {h}, ![p].host = h,
               ![p].step = CASE proc[p].action = "none" -> "report"
                             [] proc[p].action # "none" /\ rows[h] = <<>> -> "insert"
                             [] OTHER -> "update"]
    BY <1>3 DEF NextHost
  <2> DEFINE s == CASE proc[p].action = "none" -> "report"
                    [] proc[p].action # "none" /\ rows[h] = <<>> -> "insert"
                    [] OTHER -> "update"
             c == [proc[p] EXCEPT !.left = @ \ {h}, !.host = h, !.step = s]
  <2>2. /\ s \in {"report", "insert", "update"}
        /\ s \in {"insert", "update"} => proc[p].action # "none"
    OBVIOUS
  <2> HIDE DEF s
  <2>3. h \in Hosts
    BY <1>1 DEF Command
  <2>4. c \in Command /\ c.step = s /\ c.host = h /\ c.action = proc[p].action
    BY <1>1, <2>2, <2>3 DEF Command, Steps
  <2>5. plugins # <<>>
    BY <1>1, <1>3 DEF NextHost, Fit
  <2>6. Fit(c)
    BY <2>2, <2>3, <2>4, <2>5 DEF Fit, Steps
  <2>7. proc' = [proc EXCEPT ![p] = c]
    BY <2>1, <1>1 DEF Command, s
  <2>8. Moves(p, c)
    BY <2>4, <2>6, <2>7 DEF Moves
  <2> QED
    BY <2>8 DEF s
<1>4. ASSUME Insert(p) \/ Update(p)
      PROVE  /\ Fit([proc[p] EXCEPT !.step = "report"])
             /\ "report" \in Steps
  BY <1>1, <1>4 DEF Insert, Update, Fit, Command, Steps
<1>5. Insert(p) => IF proc[p].host \in nodes
                   THEN Moves(p, [proc[p] EXCEPT !.step = "report"])
                   ELSE Moves(p, Idle)
  BY <1>1, <1>4, GoMoves DEF Insert, End, Moves
<1>6. Update(p) => Moves(p, [proc[p] EXCEPT !.step = "report"])
  BY <1>4, GoMoves DEF Update
<1>7. ASSUME Report(p)
      PROVE  CASE proc[p].host \notin nodes -> Moves(p, Idle)
               [] proc[p].host \in nodes /\ ip[proc[p].host] = None ->
                     IF proc[p].left = {} THEN Moves(p, Idle)
                     ELSE Moves(p, [proc[p] EXCEPT !.step = "next"])
               [] OTHER -> Moves(p, [proc[p] EXCEPT !.step = "shell",
                                                    !.addr = ip[proc[p].host]])
  <2>1. CASE proc[p].host \notin nodes
    BY <1>1, <1>7, <2>1 DEF Report, End, Moves
  <2>2. CASE proc[p].host \in nodes /\ ip[proc[p].host] = None
    <3>1. Onward(p) /\ proc[p].step # "idle"
      BY <1>7, <2>2 DEF Report
    <3> QED
      BY <2>2, <3>1, OnwardMoves
  <2>3. CASE proc[p].host \in nodes /\ ip[proc[p].host] # None
    <3> DEFINE c == [proc[p] EXCEPT !.step = "shell", !.addr = ip[proc[p].host]]
    <3>1. proc' = [proc EXCEPT ![p].step = "shell", ![p].addr = ip[proc[p].host]]
          /\ proc[p].step = "report"
      BY <1>7, <2>3 DEF Report
    <3>2. proc[p].host \in Hosts /\ ip[proc[p].host] \in Addresses
      BY <1>1, <1>2, <2>3, <3>1 DEF Fit, Steps
    <3>3. c \in Command /\ c.step = "shell" /\ c.addr = ip[proc[p].host] /\ c.host = proc[p].host
      BY <1>1, <3>2 DEF Command, Steps
    <3>4. Fit(c)
      BY <1>1, <3>1, <3>2, <3>3 DEF Fit, Steps
    <3>5. proc' = [proc EXCEPT ![p] = c]
      BY <3>1, <1>1 DEF Command
    <3> QED
      BY <2>3, <3>3, <3>4, <3>5 DEF Moves
  <2> QED
    BY <2>1, <2>2, <2>3
<1>8. Shell(p) => IF proc[p].left = {} THEN Moves(p, Idle)
                  ELSE Moves(p, [proc[p] EXCEPT !.step = "next"])
  <2>1. Shell(p) => Onward(p) /\ proc[p].step # "idle"
    BY DEF Shell
  <2> QED
    BY <2>1, OnwardMoves
<1>9. ASSUME Sync(p)
      PROVE  IF proc[p].host \in nodes /\ rows[proc[p].host] = <<>>
             THEN Moves(p, [proc[p] EXCEPT !.step = "next",
                            !.left = {proc[p].host}, !.action = "install"])
             ELSE Moves(p, Idle)
  <2>1. CASE proc[p].host \in nodes /\ rows[proc[p].host] = <<>>
    <3> DEFINE c == [proc[p] EXCEPT !.step = "next", !.left = {proc[p].host},
                                    !.action = "install"]
    <3>1. proc' = [proc EXCEPT ![p].step = "next", ![p].left = {proc[p].host},
                               ![p].action = "install"]
          /\ proc[p].step = "sync"
      BY <1>9, <2>1 DEF Sync
    <3>2. proc[p].host \in Hosts /\ plugins # <<>>
      BY <1>1, <3>1 DEF Fit, Steps
    <3>3. c \in Command /\ c.step = "next"
      BY <1>1, <3>2 DEF Command, Steps, Actions
    <3>4. Fit(c)
      BY <3>2, <3>3 DEF Fit, Steps
    <3>5. proc' = [proc EXCEPT ![p] = c]
      BY <3>1, <1>1 DEF Command
    <3> QED
      BY <2>1, <3>3, <3>4, <3>5 DEF Moves
  <2> QED
    BY <1>1, <1>9, <2>1 DEF Sync, End, Moves
<1>10. ASSUME Interface(p)
       PROVE  IF proc[p].host \in nodes
              THEN Moves(p, [proc[p] EXCEPT !.step = "sync"])
              ELSE Moves(p, Idle)
  <2>1. Fit([proc[p] EXCEPT !.step = "sync"]) /\ "sync" \in Steps
    BY <1>1, <1>10 DEF Interface, Fit, Command, Steps
  <2> QED
    BY <1>1, <1>10, <2>1, GoMoves DEF Interface, End, Moves
<1>11. ASSUME Plugin(p)
       PROVE  IF plugins[proc[p].k] = "boot"
              THEN Moves(p, [proc[p] EXCEPT !.step = "unlink"])
              ELSE IF proc[p].k = Len(plugins) THEN Moves(p, Idle)
              ELSE Moves(p, [proc[p] EXCEPT !.step = "plugin", !.k = proc[p].k + 1])
  <2>1. CASE plugins[proc[p].k] = "boot"
    <3>1. Fit([proc[p] EXCEPT !.step = "unlink"]) /\ "unlink" \in Steps
      BY <1>1, <1>11, <2>1 DEF Plugin, Fit, Command, Steps
    <3> QED
      BY <1>11, <2>1, <3>1, GoMoves DEF Plugin
  <2>2. CASE plugins[proc[p].k] # "boot"
    <3>1. NextPlugin(p) /\ proc[p].step = "plugin"
      BY <1>11, <2>2 DEF Plugin
    <3> QED
      BY <2>2, <3>1, PluginMoves
  <2> QED
    BY <2>1, <2>2
<1>12. ASSUME Unlink(p)
       PROVE  IF proc[p].k = Len(plugins) THEN Moves(p, Idle)
              ELSE Moves(p, [proc[p] EXCEPT !.step = "plugin", !.k = proc[p].k + 1])
  <2>1. NextPlugin(p) /\ proc[p].step = "unlink"
    BY <1>12 DEF Unlink
  <2> QED
    BY <2>1, PluginMoves
<1> QED
  BY <1>3, <1>5, <1>6, <1>7, <1>8, <1>9, <1>10, <1>11, <1>12

LEMMA MovesType ==
    ASSUME StepsOK, NEW p \in Slots, NEW c, Moves(p, c), plugins' = plugins
    PROVE  /\ proc' \in [Slots -> Command] /\ \A q \in Slots : Fit(proc[q])'
           /\ proc'[p] = c /\ \A q \in Slots \ {p} : proc'[q] = proc[q]
<1>1. proc \in [Slots -> Command]
  BY DEF StepsOK, HostTypeOK, Command
<1>2. /\ proc' \in [Slots -> Command]
      /\ proc'[p] = c /\ \A q \in Slots \ {p} : proc'[q] = proc[q]
  BY <1>1 DEF Moves
<1>3. \A q \in Slots : Fit(proc[q])'
  BY <1>2 DEF StepsOK, Moves, Fit
<1> QED
  BY <1>2, <1>3

Booting(hs, action) == [Idle EXCEPT !.step = "next", !.left = hs, !.action = action]
Removal(h) == [Idle EXCEPT !.step = "plugin", !.host = h, !.k = 1]
Addition(h) == [Idle EXCEPT !.step = "interface", !.host = h]
Syncing(h) == [Idle EXCEPT !.step = "sync", !.host = h]

(* What each command begins with. *)
LEMMA BeginMoves ==
    ASSUME StepsOK, RemovalOrder, NEW p \in Slots
    PROVE  /\ \A hs \in SUBSET Hosts, action \in Actions :
                  SetBoot(p, hs, action) => Moves(p, Booting(hs, action))
           /\ \A h \in Hosts : RemoveHost(p, h) => Moves(p, Removal(h))
           /\ \A h \in Hosts : AddHost(p, h) => Moves(p, Addition(h))
           /\ \A h \in Hosts : SyncHost(p, h) => Moves(p, Syncing(h))
           /\ \A h \in Hosts : p = h /\ Call(h) => Moves(p, Booting({h}, "os"))
<1>1. ASSUME NEW hs \in SUBSET Hosts, NEW action \in Actions
      PROVE  Booting(hs, action) \in Command /\ (plugins # <<>> => Fit(Booting(hs, action)))
  <2>1. Booting(hs, action) \in Command
    BY IdleOK DEF Booting, Command, Steps
  <2>2. Booting(hs, action).step = "next" /\ Booting(hs, action).host = Idle.host
    BY IdleOK DEF Booting, Command
  <2> QED
    BY <2>1, <2>2 DEF Fit, Idle
<1>2. ASSUME NEW h \in Hosts PROVE Removal(h) \in Command /\ (plugins # <<>> => Fit(Removal(h)))
  <2>1. plugins # <<>> => 1 \in 1 .. Len(plugins)
    <3>1. plugins # <<>> => plugins \in Seq(Nodes)
      BY DEF RemovalOrder
    <3> QED
      BY <3>1
  <2>2. Removal(h) \in Command
    BY DEF Removal, Idle, Command, Steps, Actions
  <2> QED
    BY <2>1, <2>2 DEF Removal, Idle, Command, Fit, Steps
<1>3. \A h \in Hosts : /\ Addition(h) \in Command /\ (plugins # <<>> => Fit(Addition(h)))
                       /\ Syncing(h) \in Command /\ (plugins # <<>> => Fit(Syncing(h)))
  BY IdleOK DEF Addition, Syncing, Idle, Command, Fit, Steps, Actions
<1>4. ASSUME NEW hs, NEW c \in Command, NEW r, Begin(p, hs, c, r), plugins # <<>> => Fit(c)
      PROVE  Moves(p, c)
  BY <1>4 DEF Begin, Moves
<1>5. ASSUME NEW hs \in SUBSET Hosts, NEW action \in Actions, SetBoot(p, hs, action)
      PROVE  Moves(p, Booting(hs, action))
  <2>1. Begin(p, hs, Booting(hs, action), FALSE)
    BY <1>5 DEF SetBoot, Booting
  <2> QED
    BY <1>1, <1>4, <2>1
<1>6. ASSUME NEW h \in Hosts, RemoveHost(p, h) PROVE Moves(p, Removal(h))
  <2>1. Begin(p, {h}, Removal(h), TRUE)
    BY <1>6 DEF RemoveHost, Removal
  <2> QED
    BY <1>2, <1>4, <2>1
<1>7. ASSUME NEW h \in Hosts, AddHost(p, h) PROVE Moves(p, Addition(h))
  <2>1. Begin(p, {h}, Addition(h), FALSE)
    BY <1>7 DEF AddHost, Addition
  <2> QED
    BY <1>3, <1>4, <2>1
<1>8. ASSUME NEW h \in Hosts, SyncHost(p, h) PROVE Moves(p, Syncing(h))
  <2>1. Begin(p, {h}, Syncing(h), FALSE)
    BY <1>8 DEF SyncHost, Syncing
  <2> QED
    BY <1>3, <1>4, <2>1
<1>9. ASSUME NEW h \in Hosts, p = h, Call(h) PROVE Moves(p, Booting({h}, "os"))
  <2>1. Begin(p, {h}, Booting({h}, "os"), FALSE)
    BY <1>9 DEF Call, Booting
  <2>2. Booting({h}, "os") \in Command /\ (plugins # <<>> => Fit(Booting({h}, "os")))
    BY <1>1 DEF Actions
  <2> QED
    BY <1>4, <2>1, <2>2
<1> QED
  BY <1>5, <1>6, <1>7, <1>8, <1>9

(* Changing the first row of a host. *)
LEMMA FirstRow ==
    ASSUME NEW S, NEW s \in Seq(S), s # <<>>, NEW x \in S
    PROVE  [s EXCEPT ![1] = x] \in Seq(S) /\ Len([s EXCEPT ![1] = x]) = Len(s)
           /\ [s EXCEPT ![1] = x] # <<>>
           /\ (Len(s) <= 1 => [s EXCEPT ![1] = x] = <<x>>)
<1> DEFINE t == [s EXCEPT ![1] = x]
<1>1. Len(s) \in Nat /\ 1 \in 1 .. Len(s) /\ s \in [1 .. Len(s) -> S]
  OBVIOUS
<1>2. t \in [1 .. Len(s) -> S] /\ t[1] = x
  BY <1>1
<1>3. t \in Seq(S) /\ Len(t) = Len(s)
  BY <1>1, <1>2
<1>4. Len(s) <= 1 => Len(s) = 1
  BY <1>1
<1>5. Len(s) <= 1 => t = <<x>>
  BY <1>2, <1>3, <1>4
<1> QED
  BY <1>1, <1>3, <1>5

(* The parts of the types that a step changes. *)
LEMMA WorkType ==
    ASSUME StepsOK, RemovalOrder, NEW p \in Slots, Work(p)
    PROVE  /\ nodes' \subseteq Hosts
           /\ ip' \in [Hosts -> Addresses \cup {None}]
           /\ rows' \in [Hosts -> Seq({"install", "os"})]
           /\ files' \in [Addresses -> File \cup {None}]
           /\ asked' \subseteq Hosts /\ orphans' \subseteq Hosts
           /\ Quiet
<1>1. /\ nodes \subseteq Hosts /\ ip \in [Hosts -> Addresses \cup {None}]
      /\ rows \in [Hosts -> Seq({"install", "os"})]
      /\ files \in [Addresses -> File \cup {None}]
      /\ asked \subseteq Hosts /\ orphans \subseteq Hosts
  BY DEF StepsOK, HostTypeOK
<1>2. proc[p] \in Command /\ Fit(proc[p])
  BY ProcType
<1>3. proc[p].step \in Steps \ {"idle", "next"} => proc[p].host \in Hosts
  BY <1>2 DEF Fit
<1>4. CASE NextHost(p)
  BY <1>1, <1>4 DEF NextHost
<1>5. CASE Insert(p)
  <2>1. proc[p].host \in Hosts /\ proc[p].action \in {"install", "os"}
    BY <1>2, <1>3, <1>5 DEF Insert, Fit, Command, Actions, Steps
  <2>2. Append(rows[proc[p].host], proc[p].action) \in Seq({"install", "os"})
    BY <1>1, <2>1
  <2> QED
    BY <1>1, <1>5, <2>1, <2>2 DEF Insert
<1>6. CASE Update(p)
  <2>1. proc[p].host \in Hosts /\ proc[p].action \in {"install", "os"}
    BY <1>2, <1>3, <1>6 DEF Update, Fit, Command, Actions, Steps
  <2>2. rows[proc[p].host] # <<>> =>
           [rows[proc[p].host] EXCEPT ![1] = proc[p].action] \in Seq({"install", "os"})
    BY <1>1, <2>1, FirstRow
  <2> QED
    BY <1>1, <1>6, <2>1, <2>2 DEF Update
<1>7. CASE Report(p)
  BY <1>1, <1>7 DEF Report
<1>8. CASE Shell(p)
  <2>1. proc[p].host \in Hosts /\ proc[p].addr \in Addresses
    BY <1>2, <1>3, <1>8 DEF Shell, Fit, Steps
  <2>2. [host |-> proc[p].host, kind |-> Kind(proc[p].action)] \in File
    BY <2>1 DEF File, Kind
  <2> QED
    BY <1>1, <1>8, <2>1, <2>2 DEF Shell
<1>9. CASE Sync(p)
  BY <1>1, <1>3, <1>9 DEF Sync, Steps
<1>10. CASE Interface(p)
  BY <1>1, <1>3, <1>10 DEF Interface, Steps
<1>11. CASE Plugin(p)
  <2>1. proc[p].host \in Hosts /\ <<>> \in Seq({"install", "os"})
    BY <1>3, <1>11 DEF Plugin, Steps
  <2> QED
    BY <1>1, <1>11, <2>1 DEF Plugin
<1>12. CASE Unlink(p)
  BY <1>1, <1>3, <1>12 DEF Unlink, Steps
<1>13. Quiet
  BY DEF Work, NextHost, Insert, Update, Report, Shell, Sync, Interface, Plugin, Unlink
<1> QED
  BY <1>4, <1>5, <1>6, <1>7, <1>8, <1>9, <1>10, <1>11, <1>12, <1>13 DEF Work

LEMMA StepsOKKept ==
    ASSUME StepsOK, RemovalOrder, [BootNext]_bootVars
    PROVE  StepsOK'
<1>1. /\ nodes \subseteq Hosts /\ ip \in [Hosts -> Addresses \cup {None}]
      /\ rows \in [Hosts -> Seq({"install", "os"})]
      /\ files \in [Addresses -> File \cup {None}]
      /\ mach \in [Hosts -> {"down", "up", "installing", "calling"}]
      /\ proc \in [Slots -> Command] /\ \A p \in Slots : Fit(proc[p])
      /\ commands \in 0 .. MaxCommands /\ lost \in 0 .. MaxLost
      /\ asked \subseteq Hosts /\ mixed \subseteq Hosts /\ orphans \subseteq Hosts
      /\ stray \in BOOLEAN /\ MaxCommands \in Nat /\ MaxLost \in Nat
  BY HostAssumption DEF StepsOK, HostTypeOK, Command
<1>2. CASE LoadPlugins /\ UNCHANGED hostVars
  <2>1. plugins # <<>> => plugins' = plugins
    BY <1>2 DEF LoadPlugins, Load
  <2>2. \A p \in Slots : proc'[p] = proc[p] /\ proc[p].step \in Steps
    BY <1>1, <1>2 DEF hostVars, Command
  <2>3. ASSUME NEW p \in Slots PROVE Fit(proc[p])'
    <3>1. CASE plugins = <<>>
      BY <1>1, <2>2, <3>1 DEF Fit, Steps
    <3>2. CASE plugins # <<>>
      BY <1>1, <2>1, <2>2, <3>2 DEF Fit
    <3> QED
      BY <3>1, <3>2
  <2>4. HostTypeOK'
    BY <1>2 DEF StepsOK, HostTypeOK, hostVars
  <2> QED
    BY <2>3, <2>4 DEF StepsOK
<1>3. ASSUME NEW p \in Slots, Work(p), plugins' = plugins PROVE StepsOK'
  <2>1. \E c : Moves(p, c)
    BY <1>3, WorkMoves DEF Work
  <2>2. proc' \in [Slots -> Command] /\ \A q \in Slots : Fit(proc[q])'
    BY <1>3, <2>1, MovesType
  <2> QED
    BY <1>1, <1>3, <2>2, WorkType DEF StepsOK, HostTypeOK, Command, Quiet
<1>4. ASSUME NEW p \in Slots, NEW hs \in SUBSET Hosts, NEW c, NEW r \in BOOLEAN,
             Begin(p, hs, c, r), Moves(p, c), plugins' = plugins
      PROVE  /\ proc' \in [Slots -> Command] /\ \A q \in Slots : Fit(proc[q])'
             /\ mixed' \subseteq Hosts /\ stray' \in BOOLEAN
  <2>1. proc' \in [Slots -> Command] /\ \A q \in Slots : Fit(proc[q])'
    BY <1>4, MovesType
  <2>2. mixed' \subseteq Hosts
    BY <1>1, <1>4 DEF Begin
  <2>3. stray' \in BOOLEAN
    BY <1>4 DEF Begin
  <2> QED
    BY <2>1, <2>2, <2>3
<1>5. ASSUME Commands, plugins' = plugins PROVE StepsOK'
  <2>1. ASSUME Person PROVE commands' \in 0 .. MaxCommands
    BY <1>1, <2>1 DEF Person
  <2>2. ASSUME NEW p \in Processes, NEW hs \in SUBSET Hosts, NEW action \in Actions,
               SetBoot(p, hs, action)
        PROVE  StepsOK'
    <3>1. p \in Slots /\ Moves(p, Booting(hs, action))
      BY <2>2, BeginMoves DEF Slots
    <3>2. Begin(p, hs, Booting(hs, action), FALSE)
      BY <2>2 DEF SetBoot, Booting
    <3>3. /\ proc' \in [Slots -> Command] /\ \A q \in Slots : Fit(proc[q])'
          /\ mixed' \subseteq Hosts /\ stray' \in BOOLEAN
      BY <1>4, <1>5, <3>1, <3>2
    <3>4. asked' \subseteq Hosts
      BY <1>1, <2>2 DEF SetBoot
    <3> QED
      BY <1>1, <2>1, <2>2, <3>3, <3>4 DEF SetBoot, StepsOK, HostTypeOK, Command
  <2>3. ASSUME NEW p \in Processes, NEW h \in Hosts, RemoveHost(p, h) PROVE StepsOK'
    <3>1. p \in Slots /\ Moves(p, Removal(h))
      BY <2>3, BeginMoves DEF Slots
    <3>2. Begin(p, {h}, Removal(h), TRUE)
      BY <2>3 DEF RemoveHost, Removal
    <3>3. /\ proc' \in [Slots -> Command] /\ \A q \in Slots : Fit(proc[q])'
          /\ mixed' \subseteq Hosts /\ stray' \in BOOLEAN
      BY <1>4, <1>5, <3>1, <3>2
    <3> QED
      BY <1>1, <2>1, <2>3, <3>3 DEF RemoveHost, StepsOK, HostTypeOK, Command
  <2>4. ASSUME NEW p \in Processes, NEW h \in Hosts, AddHost(p, h) PROVE StepsOK'
    <3>1. p \in Slots /\ Moves(p, Addition(h))
      BY <2>4, BeginMoves DEF Slots
    <3>2. Begin(p, {h}, Addition(h), FALSE)
      BY <2>4 DEF AddHost, Addition
    <3>3. /\ proc' \in [Slots -> Command] /\ \A q \in Slots : Fit(proc[q])'
          /\ mixed' \subseteq Hosts /\ stray' \in BOOLEAN
      BY <1>4, <1>5, <3>1, <3>2
    <3> QED
      BY <1>1, <2>1, <2>4, <3>3 DEF AddHost, StepsOK, HostTypeOK, Command
  <2>5. ASSUME NEW p \in Processes, NEW h \in Hosts, SyncHost(p, h) PROVE StepsOK'
    <3>1. p \in Slots /\ Moves(p, Syncing(h))
      BY <2>5, BeginMoves DEF Slots
    <3>2. Begin(p, {h}, Syncing(h), FALSE)
      BY <2>5 DEF SyncHost, Syncing
    <3>3. /\ proc' \in [Slots -> Command] /\ \A q \in Slots : Fit(proc[q])'
          /\ mixed' \subseteq Hosts /\ stray' \in BOOLEAN
      BY <1>4, <1>5, <3>1, <3>2
    <3>4. asked' \subseteq Hosts
      BY <1>1, <2>5 DEF SyncHost
    <3> QED
      BY <1>1, <2>1, <2>5, <3>3, <3>4 DEF SyncHost, StepsOK, HostTypeOK, Command
  <2> QED
    BY <1>1, <1>5, <2>2, <2>3, <2>4, <2>5 DEF Commands, Actions
<1>6. ASSUME NEW h \in Hosts, Call(h), plugins' = plugins PROVE StepsOK'
  <2>1. h \in Slots /\ Moves(h, Booting({h}, "os"))
    BY <1>6, BeginMoves DEF Slots
  <2>2. Begin(h, {h}, Booting({h}, "os"), FALSE)
    BY <1>6 DEF Call, Booting
  <2>3. /\ proc' \in [Slots -> Command] /\ \A q \in Slots : Fit(proc[q])'
        /\ mixed' \subseteq Hosts /\ stray' \in BOOLEAN
    BY <1>4, <1>6, <2>1, <2>2
  <2>4. asked' \subseteq Hosts /\ mach' \in [Hosts -> {"down", "up", "installing", "calling"}]
    BY <1>1, <1>6 DEF Call
  <2> QED
    BY <1>1, <1>6, <2>3, <2>4 DEF Call, Same, StepsOK, HostTypeOK, Command
<1>7. ASSUME NEW h \in Hosts, Boot(h) \/ Restart(h) \/ Answered(h) \/ CallLost(h),
             plugins' = plugins
      PROVE  StepsOK'
  <2>1. /\ mach' \in [Hosts -> {"down", "up", "installing", "calling"}]
        /\ UNCHANGED <<proc, asked, mixed, stray>> /\ Same
    BY <1>1, <1>7 DEF Boot, Restart, Answered, CallLost
  <2>2. lost' \in 0 .. MaxLost
    BY <1>1, <1>7 DEF Boot, Restart, Answered, CallLost
  <2>3. \A p \in Slots : Fit(proc[p])'
    BY <1>1, <1>7, <2>1 DEF Fit
  <2> QED
    BY <1>1, <2>1, <2>2, <2>3 DEF Same, StepsOK, HostTypeOK, Command
<1>8. CASE UNCHANGED bootVars
  <2>1. UNCHANGED hostVars /\ plugins' = plugins
    BY <1>8 DEF bootVars
  <2>2. HostTypeOK'
    BY <2>1 DEF StepsOK, HostTypeOK, hostVars
  <2>3. \A p \in Slots : Fit(proc[p])'
    BY <1>1, <2>1 DEF Fit, hostVars
  <2> QED
    BY <2>2, <2>3 DEF StepsOK
<1> QED
  BY <1>2, <1>3, <1>5, <1>6, <1>7, <1>8 DEF BootNext, Machine

(* The types of the tables and of the commands, and what is known of a      *)
(* command at each of its steps.                                            *)
LEMMA StepsOKCorrect == BootSpec => []StepsOK
<1>1. BootInit => StepsOK
  <2> SUFFICES ASSUME BootInit PROVE StepsOK
    OBVIOUS
  <2>1. PICK a \in Addresses :
        /\ nodes = {First}
        /\ ip = [h \in Hosts |-> IF h = First THEN a ELSE None]
        /\ rows = [h \in Hosts |-> IF h = First THEN <<"os">> ELSE <<>>]
        /\ files = [x \in Addresses |->
                       IF x = a THEN [host |-> First, kind |-> "run"] ELSE None]
        /\ mach = [h \in Hosts |-> IF h = First THEN "up" ELSE "down"]
        /\ proc = [s \in Slots |-> Idle]
        /\ commands = 0 /\ lost = 0
        /\ asked = {} /\ mixed = {} /\ orphans = {} /\ stray = FALSE
    BY DEF BootInit, HostInit
  <2>2. proc \in [Slots -> Command] /\ \A p \in Slots : Fit(proc[p])
    BY <2>1, IdleOK
  <2>3. <<"os">> \in Seq({"install", "os"}) /\ <<>> \in Seq({"install", "os"})
    OBVIOUS
  <2>4. rows \in [Hosts -> Seq({"install", "os"})]
    BY <2>1, <2>3
  <2>5. files \in [Addresses -> File \cup {None}]
    BY <2>1, HostAssumption DEF File
  <2>6. /\ nodes \subseteq Hosts /\ ip \in [Hosts -> Addresses \cup {None}]
        /\ mach \in [Hosts -> {"down", "up", "installing", "calling"}]
    BY <2>1, HostAssumption
  <2>7. /\ commands \in 0 .. MaxCommands /\ lost \in 0 .. MaxLost
        /\ asked \subseteq Hosts /\ mixed \subseteq Hosts /\ orphans \subseteq Hosts
    BY <2>1, HostAssumption
  <2>8. stray \in BOOLEAN
    <3>1. stray = FALSE
      BY <2>1
    <3> QED
      BY <3>1
  <2> QED
    BY <2>2, <2>4, <2>5, <2>6, <2>7, <2>8 DEF StepsOK, HostTypeOK, Command
<1>2. StepsOK /\ RemovalOrder /\ [BootNext]_bootVars => StepsOK'
  BY StepsOKKept
<1> QED
  BY <1>1, <1>2, RemovalOrderCorrect, PTL DEF BootSpec

(* Types of the boot table, the files and the commands that run. *)
THEOREM HostTypeCorrect == BootSpec => []HostTypeOK
<1>1. StepsOK => HostTypeOK
  BY DEF StepsOK
<1> QED
  BY <1>1, StepsOKCorrect, PTL

(* A command never turns to another host than those it began with. *)
LEMMA WorksOnShrinks ==
    ASSUME StepsOK, RemovalOrder, NEW p \in Slots, Work(p), plugins' = plugins
    PROVE  /\ WorksOn(p)' \subseteq WorksOn(p)
           /\ \A q \in Slots \ {p} : proc'[q] = proc[q] /\ WorksOn(q)' = WorksOn(q)
<1>1. \E c : Moves(p, c)
  BY WorkMoves DEF Work
<1>2. \A q \in Slots \ {p} : proc'[q] = proc[q]
  BY <1>1, MovesType
<1>3. \A q \in Slots \ {p} : WorksOn(q)' = WorksOn(q)
  BY <1>2 DEF WorksOn
<1> SUFFICES WorksOn(p)' \subseteq WorksOn(p)
  BY <1>2, <1>3
<1>4. proc[p] \in Command /\ Fit(proc[p])
  BY ProcType
<1>5. /\ \A c : Moves(p, c) => proc'[p] = c
      /\ WorksOn(p)' = IF proc'[p].step = "idle" THEN {}
                       ELSE proc'[p].left \cup ({proc'[p].host} \cap Hosts)
  BY MovesType DEF WorksOn
<1>6. Idle.step = "idle" /\ (Moves(p, Idle) => WorksOn(p)' = {})
  BY <1>5 DEF Idle
<1>7. CASE NextHost(p)
  <2>1. PICK h \in proc[p].left :
                     Moves(p, [proc[p] EXCEPT !.left = @ \ {h}, !.host = h, !.step =
                         CASE proc[p].action = "none" -> "report"
                           [] proc[p].action # "none" /\ rows[h] = <<>> -> "insert"
                           [] OTHER -> "update"])
    BY <1>7, WorkMoves
  <2>2. proc'[p].left = proc[p].left \ {h} /\ proc'[p].host = h
    BY <1>4, <1>5, <2>1 DEF Command
  <2>3. WorksOn(p)' \subseteq proc[p].left
    BY <1>5, <2>2
  <2> QED
    BY <1>7, <2>3 DEF NextHost, WorksOn
<1>8. ASSUME NEW s \in Steps, s # "idle", proc[p].step # "idle",
             Moves(p, [proc[p] EXCEPT !.step = s])
      PROVE  WorksOn(p)' \subseteq WorksOn(p)
  <2>1. proc'[p].left = proc[p].left /\ proc'[p].host = proc[p].host
    BY <1>4, <1>5, <1>8 DEF Command
  <2> QED
    BY <1>5, <1>8, <2>1 DEF WorksOn
<1>9. CASE Insert(p)
  <2>1. Moves(p, Idle) \/ Moves(p, [proc[p] EXCEPT !.step = "report"])
    BY <1>9, WorkMoves
  <2> QED
    BY <1>6, <1>8, <1>9, <2>1 DEF Insert, Steps
<1>10. CASE Update(p)
  <2>1. Moves(p, [proc[p] EXCEPT !.step = "report"])
    BY <1>10, WorkMoves
  <2> QED
    BY <1>8, <1>10, <2>1 DEF Update, Steps
<1>11. CASE Report(p)
  <2>1. \/ Moves(p, Idle) \/ Moves(p, [proc[p] EXCEPT !.step = "next"])
        \/ Moves(p, [proc[p] EXCEPT !.step = "shell", !.addr = ip[proc[p].host]])
    BY <1>11, WorkMoves
  <2>2. ASSUME Moves(p, [proc[p] EXCEPT !.step = "shell", !.addr = ip[proc[p].host]])
        PROVE  WorksOn(p)' \subseteq WorksOn(p)
    <3>1. proc'[p].left = proc[p].left /\ proc'[p].host = proc[p].host
      BY <1>4, <1>5, <2>2 DEF Command
    <3> QED
      BY <1>5, <1>11, <3>1 DEF WorksOn, Report
  <2> QED
    BY <1>6, <1>8, <1>11, <2>1, <2>2 DEF Report, Steps
<1>12. CASE Shell(p)
  <2>1. Moves(p, Idle) \/ Moves(p, [proc[p] EXCEPT !.step = "next"])
    BY <1>12, WorkMoves
  <2> QED
    BY <1>6, <1>8, <1>12, <2>1 DEF Shell, Steps
<1>13. CASE Sync(p)
  <2>1. \/ Moves(p, Idle)
        \/ Moves(p, [proc[p] EXCEPT !.step = "next", !.left = {proc[p].host},
                                    !.action = "install"])
    BY <1>13, WorkMoves
  <2>2. ASSUME Moves(p, [proc[p] EXCEPT !.step = "next", !.left = {proc[p].host},
                                        !.action = "install"])
        PROVE  WorksOn(p)' \subseteq WorksOn(p)
    <3>1. proc'[p].left = {proc[p].host} /\ proc'[p].host = proc[p].host
      BY <1>4, <1>5, <2>2 DEF Command
    <3>2. proc[p].host \in Hosts
      BY <1>4, <1>13 DEF Sync, Fit, Steps
    <3> QED
      BY <1>5, <1>13, <3>1, <3>2 DEF WorksOn, Sync
  <2> QED
    BY <1>6, <2>1, <2>2
<1>14. CASE Interface(p)
  <2>1. Moves(p, Idle) \/ Moves(p, [proc[p] EXCEPT !.step = "sync"])
    BY <1>14, WorkMoves
  <2> QED
    BY <1>6, <1>8, <1>14, <2>1 DEF Interface, Steps
<1>15. CASE Plugin(p) \/ Unlink(p)
  <2>1. \/ Moves(p, Idle) \/ Moves(p, [proc[p] EXCEPT !.step = "unlink"])
        \/ Moves(p, [proc[p] EXCEPT !.step = "plugin", !.k = proc[p].k + 1])
    BY <1>15, WorkMoves
  <2>2. ASSUME Moves(p, [proc[p] EXCEPT !.step = "plugin", !.k = proc[p].k + 1])
        PROVE  WorksOn(p)' \subseteq WorksOn(p)
    <3>1. proc'[p].left = proc[p].left /\ proc'[p].host = proc[p].host
      BY <1>4, <1>5, <2>2 DEF Command
    <3> QED
      BY <1>5, <1>15, <3>1 DEF WorksOn, Plugin, Unlink
  <2>3. proc[p].step # "idle" /\ "unlink" \in Steps
    BY <1>15 DEF Plugin, Unlink, Steps
  <2> QED
    BY <1>6, <1>8, <2>1, <2>2, <2>3
<1> QED
  BY <1>7, <1>9, <1>10, <1>11, <1>12, <1>13, <1>14, <1>15 DEF Work

(* A step of a command changes nothing of another host than the one it is   *)
(* at, but for removing or overwriting a file.                              *)
LEMMA OthersUntouched ==
    ASSUME StepsOK, RemovalOrder, NEW p \in Slots, Work(p),
           NEW h \in Hosts, h # proc[p].host
    PROVE  /\ rows'[h] = rows[h] /\ ip'[h] = ip[h]
           /\ h \in nodes' <=> h \in nodes
           /\ h \in orphans' <=> h \in orphans
           /\ \A a \in Addresses :
                 files'[a] = files[a] \/ files'[a] = None \/ files'[a].host # h
<1>1. /\ nodes \subseteq Hosts /\ ip \in [Hosts -> Addresses \cup {None}]
      /\ rows \in [Hosts -> Seq({"install", "os"})]
      /\ files \in [Addresses -> File \cup {None}]
  BY DEF StepsOK, HostTypeOK
<1>2. CASE NextHost(p) \/ Report(p) \/ Sync(p)
  BY <1>2 DEF NextHost, Report, Sync
<1>3. CASE Insert(p)
  BY <1>1, <1>3 DEF Insert
<1>4. CASE Update(p)
  BY <1>1, <1>4 DEF Update
<1>5. CASE Shell(p)
  <2> DEFINE f == [host |-> proc[p].host, kind |-> Kind(proc[p].action)]
  <2>1. files' = [files EXCEPT ![proc[p].addr] = f] /\ f.host # h
        /\ rows' = rows /\ ip' = ip /\ nodes' = nodes /\ orphans' = orphans
    BY <1>5 DEF Shell
  <2> HIDE DEF f
  <2> QED
    BY <1>1, <2>1
<1>6. CASE Interface(p)
  BY <1>1, <1>6 DEF Interface
<1>7. CASE Plugin(p)
  BY <1>1, <1>7 DEF Plugin
<1>8. CASE Unlink(p)
  BY <1>1, <1>8 DEF Unlink
<1> QED
  BY <1>2, <1>3, <1>4, <1>5, <1>6, <1>7, <1>8 DEF Work

(* A host that is not mixed has one command at work on it at most. *)
OneWorker ==
    \A h \in Hosts \ mixed : \A p, q \in Slots :
        h \in WorksOn(p) /\ h \in WorksOn(q) => p = q

HostsOf(c) == c.left \cup ({c.host} \cap Hosts)

(* What a command that begins has to do with the others. *)
LEMMA BeginsAlone ==
    ASSUME StepsOK, NEW p \in Slots, NEW hs \in SUBSET Hosts, NEW c \in Command, NEW r \in BOOLEAN,
           Begin(p, hs, c, r), Moves(p, c), plugins' = plugins,
           HostsOf(c) = hs
    PROVE  /\ mixed \subseteq mixed' /\ WorksOn(p) = {} /\ WorksOn(p)' \subseteq hs
           /\ proc'[p] = c /\ \A q \in Slots \ {p} : proc'[q] = proc[q]
           /\ \A q \in Slots \ {p} : WorksOn(q)' = WorksOn(q)
           /\ \A h \in hs \ mixed' : \A q \in Slots : h \notin WorksOn(q)
<1>1. proc'[p] = c /\ \A q \in Slots \ {p} : proc'[q] = proc[q]
  BY MovesType
<1>2. WorksOn(p)' \subseteq hs /\ \A q \in Slots \ {p} : WorksOn(q)' = WorksOn(q)
  BY <1>1 DEF WorksOn, HostsOf
<1>3. WorksOn(p) = {} /\ mixed \subseteq mixed'
  BY DEF Begin, WorksOn
<1>4. \A h \in hs \ mixed' : \A q \in Slots : h \notin WorksOn(q)
  BY DEF Begin
<1> QED
  BY <1>1, <1>2, <1>3, <1>4

LEMMA OneWorkerBegins ==
    ASSUME OneWorker, NEW p \in Slots, NEW hs \in SUBSET Hosts,
           mixed \subseteq mixed', WorksOn(p) = {}, WorksOn(p)' \subseteq hs,
           \A q \in Slots \ {p} : WorksOn(q)' = WorksOn(q),
           \A h \in hs \ mixed' : \A q \in Slots : h \notin WorksOn(q)
    PROVE  OneWorker'
BY DEF OneWorker
-----------------------------------------------------------------------------
(* A host that one command at a time works on. *)

(* Command p is at one of these steps, for h. *)
On(p, h, steps) == proc[p].host = h /\ proc[p].step \in steps

(* The removal p of h has run plugin x. *)
Gone(p, h, x) == On(p, h, {"plugin"}) /\ \E j \in 1 .. proc[p].k - 1 : plugins[j] = x

(* What a command at work on h knows of it. *)
Doing(p, h) ==
    /\ On(p, h, {"insert"}) => rows[h] = <<>>
    /\ On(p, h, {"update"}) => rows[h] # <<>>
    /\ On(p, h, {"report", "shell"}) /\ proc[p].action = "install" =>
           rows[h] = <<"install">>
    /\ On(p, h, {"shell"}) => proc[p].addr = ip[h]
    /\ On(p, h, {"interface"}) => ip[h] = None /\ rows[h] = <<>>
    /\ On(p, h, {"unlink"}) \/ Gone(p, h, "boot") => rows[h] = <<>>
    /\ Gone(p, h, "boot") /\ h \notin Bare =>
           \A a \in Addresses : files[a] = None \/ files[a].host # h
    /\ Gone(p, h, "interface") => ip[h] = None

(* The file of h says install, and its row does not. *)
Stale(h) ==
    /\ ip[h] # None /\ files[ip[h]] # None
    /\ files[ip[h]].host = h /\ files[ip[h]].kind = "install"
    /\ rows[h] # <<"install">>

(* A command at work on h will see to that. *)
Fixing(p, h) ==
    \/ On(p, h, {"report", "shell"}) /\ proc[p].action # "install"
    \/ On(p, h, {"insert", "update"}) /\ proc[p].action = "install"
    \/ On(p, h, {"plugin", "unlink"})
    \/ On(p, h, {"sync"}) /\ rows[h] = <<>>
    \/ proc[p].step = "next" /\ proc[p].left = {h} /\ proc[p].action = "install"

Rows(h) ==
    /\ Len(rows[h]) <= 1
    /\ h \notin orphans
    /\ h \notin nodes => rows[h] = <<>> /\ ip[h] = None

NoOldFile(h) ==
    h \notin Bare => \A a \in Addresses : files[a] # None /\ files[a].host = h => ip[h] = a

Kept(h) == Rows(h) /\ NoOldFile(h) /\ (Stale(h) => \E p \in Slots : Fixing(p, h))

HostsKept == \A h \in Hosts \ mixed : Kept(h) /\ \A p \in Slots : Doing(p, h)

-----------------------------------------------------------------------------
LEMMA BusyWorks ==
    ASSUME NEW p \in Slots, NEW h \in Hosts
    PROVE  /\ On(p, h, Steps \ {"idle"}) => h \in WorksOn(p)
           /\ Fixing(p, h) => h \in WorksOn(p)
           /\ h \notin WorksOn(p) => Doing(p, h)
<1>1. On(p, h, Steps \ {"idle"}) => h \in WorksOn(p)
  BY DEF On, WorksOn
<1>2. Fixing(p, h) => h \in WorksOn(p)
  BY DEF Fixing, On, WorksOn
<1>3. h \notin WorksOn(p) => Doing(p, h)
  BY DEF Doing, Gone, On, WorksOn
<1> QED
  BY <1>1, <1>2, <1>3

(* The hosts a step is not about. *)
LEMMA KeptElsewhere ==
    ASSUME StepsOK, RemovalOrder, HostsKept, NEW p \in Slots, Work(p), plugins' = plugins,
           NEW h \in Hosts \ mixed, h # proc[p].host
    PROVE  Kept(h)' /\ \A q \in Slots : Doing(q, h)'
<1>1. /\ rows'[h] = rows[h] /\ ip'[h] = ip[h]
      /\ h \in nodes' <=> h \in nodes
      /\ h \in orphans' <=> h \in orphans
      /\ \A a \in Addresses :
            files'[a] = files[a] \/ files'[a] = None \/ files'[a].host # h
  BY OthersUntouched
<1>2. \A q \in Slots \ {p} : proc'[q] = proc[q]
  BY WorksOnShrinks
<1>3. Kept(h) /\ \A q \in Slots : Doing(q, h)
  BY DEF HostsKept
<1>4. ip[h] \in Addresses \cup {None}
  BY DEF StepsOK, HostTypeOK
<1>5. Rows(h)'
  BY <1>1, <1>3 DEF Kept, Rows
<1>6. NoOldFile(h)'
  BY <1>1, <1>3 DEF Kept, NoOldFile
<1>7. Stale(h)' => Stale(h)
  BY <1>1, <1>4 DEF Stale
<1>8. \A q \in Slots \ {p} : Doing(q, h)'
  BY <1>1, <1>2, <1>3 DEF Doing, Gone, On
<1>9. \A q \in Slots \ {p} : Fixing(q, h) => Fixing(q, h)'
  BY <1>1, <1>2 DEF Fixing, On
<1>10. proc[p] \in Command /\ \E c : Moves(p, c)
  BY ProcType, WorkMoves DEF Work
<1>11. \A c : Moves(p, c) => proc'[p] = c
  BY MovesType
<1>12. CASE NextHost(p)
  <2> DEFINE Step(g) == CASE proc[p].action = "none" -> "report"
                          [] proc[p].action # "none" /\ rows[g] = <<>> -> "insert"
                          [] OTHER -> "update"
  <2>1. PICK g \in proc[p].left :
           Moves(p, [proc[p] EXCEPT !.left = @ \ {g}, !.host = g, !.step = Step(g)])
    BY <1>12, WorkMoves
  <2>2. /\ proc'[p].host = g /\ proc'[p].step = Step(g)
        /\ proc'[p].action = proc[p].action
    BY <1>10, <1>11, <2>1 DEF Command
  <2>3. /\ Step(g) \in {"report", "insert", "update"}
        /\ Step(g) = "report" => proc[p].action = "none"
        /\ Step(g) = "insert" => rows[g] = <<>>
        /\ Step(g) = "update" => rows[g] # <<>>
    OBVIOUS
  <2> HIDE DEF Step
  <2>4. Doing(p, h)'
    BY <1>1, <2>2, <2>3 DEF Doing, Gone, On
  <2>5. Fixing(p, h) => Fixing(p, h)'
    <3> SUFFICES ASSUME Fixing(p, h) PROVE Fixing(p, h)'
      OBVIOUS
    <3>1. proc[p].left = {h} /\ proc[p].action = "install"
      BY <1>12 DEF Fixing, On, NextHost
    <3>2. g = h
      BY <2>1, <3>1
    <3> QED
      BY <2>2, <2>3, <3>1, <3>2 DEF Fixing, On
  <2> QED
    BY <1>3, <1>5, <1>6, <1>7, <1>8, <1>9, <2>4, <2>5 DEF Kept
<1>13. CASE ~ NextHost(p)
  <2>1. proc[p].step # "next"
    BY <1>13 DEF Work, Insert, Update, Report, Shell, Sync, Interface, Plugin, Unlink
  <2>2. ~ Fixing(p, h)
    BY <2>1 DEF Fixing, On
  <2>3. proc'[p].host = proc[p].host \/ proc'[p].step = "idle"
    <3>1. \/ Moves(p, Idle)
          \/ \E c \in Command : Moves(p, c) /\ c.host = proc[p].host
      <4>1. Insert(p) => \/ Moves(p, [proc[p] EXCEPT !.step = "report"]) \/ Moves(p, Idle)
        BY WorkMoves
      <4>2. Update(p) => Moves(p, [proc[p] EXCEPT !.step = "report"])
        BY WorkMoves
      <4>3. Report(p) =>
              \/ Moves(p, Idle) \/ Moves(p, [proc[p] EXCEPT !.step = "next"])
              \/ Moves(p, [proc[p] EXCEPT !.step = "shell", !.addr = ip[proc[p].host]])
        BY WorkMoves
      <4>4. Shell(p) => Moves(p, Idle) \/ Moves(p, [proc[p] EXCEPT !.step = "next"])
        BY WorkMoves
      <4>5. Sync(p) => \/ Moves(p, Idle)
                       \/ Moves(p, [proc[p] EXCEPT !.step = "next",
                                        !.left = {proc[p].host}, !.action = "install"])
        BY WorkMoves
      <4>6. Interface(p) => Moves(p, Idle) \/ Moves(p, [proc[p] EXCEPT !.step = "sync"])
        BY WorkMoves
      <4>7. Plugin(p) \/ Unlink(p) =>
              \/ Moves(p, Idle) \/ Moves(p, [proc[p] EXCEPT !.step = "unlink"])
              \/ Moves(p, [proc[p] EXCEPT !.step = "plugin", !.k = proc[p].k + 1])
        BY WorkMoves
      <4>8. /\ \A s : [proc[p] EXCEPT !.step = s].host = proc[p].host
            /\ [proc[p] EXCEPT !.step = "shell", !.addr = ip[proc[p].host]].host = proc[p].host
            /\ [proc[p] EXCEPT !.step = "next", !.left = {proc[p].host},
                               !.action = "install"].host = proc[p].host
            /\ [proc[p] EXCEPT !.step = "plugin", !.k = proc[p].k + 1].host = proc[p].host
        BY <1>10 DEF Command
      <4>9. \A c : Moves(p, c) => c \in Command
        BY DEF Moves
      <4> QED
        BY <1>13, <4>1, <4>2, <4>3, <4>4, <4>5, <4>6, <4>7, <4>8, <4>9 DEF Work
    <3> QED
      BY <1>11, <3>1 DEF Idle
  <2>4. Doing(p, h)'
    BY <2>3 DEF Doing, Gone, On
  <2> QED
    BY <1>3, <1>5, <1>6, <1>7, <1>8, <1>9, <2>2, <2>4 DEF Kept
<1> QED
  BY <1>12, <1>13

(* The host a step is about, which nobody else works on. *)
LEMMA KeptHere ==
    ASSUME StepsOK, RemovalOrder, OneWorker, HostsKept,
           NEW p \in Slots, Work(p), plugins' = plugins,
           NEW h \in Hosts \ mixed, h = proc[p].host
    PROVE  Kept(h)' /\ \A q \in Slots : Doing(q, h)'
<1> DEFINE c == proc[p]
           d == proc'[p]
<1>1. /\ nodes \subseteq Hosts /\ ip \in [Hosts -> Addresses \cup {None}]
      /\ rows \in [Hosts -> Seq({"install", "os"})]
      /\ files \in [Addresses -> File \cup {None}]
      /\ None \notin Addresses
  BY HostAssumption DEF StepsOK, HostTypeOK
<1>2. c \in Command /\ Fit(c) /\ c.step \in Steps /\ c.step # "idle"
  BY ProcType DEF Command, Work, NextHost, Insert, Update, Report, Shell, Sync,
                  Interface, Plugin, Unlink
<1>3. h \in WorksOn(p) /\ \A q \in Slots \ {p} : h \notin WorksOn(q)
  BY <1>2 DEF OneWorker, WorksOn
<1>4. \A q \in Slots \ {p} : proc'[q] = proc[q] /\ h \notin WorksOn(q)'
  BY <1>3, WorksOnShrinks
<1>5. \A q \in Slots \ {p} : Doing(q, h)'
  BY <1>4 DEF Doing, Gone, On, WorksOn
<1>6. Stale(h) => Fixing(p, h)
  BY <1>3, BusyWorks DEF HostsKept, Kept
<1>7. Rows(h) /\ NoOldFile(h) /\ Doing(p, h)
  BY DEF HostsKept, Kept
<1>8. SUFFICES Rows(h)' /\ NoOldFile(h)' /\ (Stale(h)' => Fixing(p, h)') /\ Doing(p, h)'
  BY <1>5 DEF Kept
<1>9. /\ \A e : Moves(p, e) => d = e
      /\ Moves(p, Idle) => d.step = "idle"
  BY MovesType DEF Idle
<1>10. ip[h] \in Addresses \cup {None} /\ rows[h] \in Seq({"install", "os"})
  BY <1>1
<1>11. h \notin nodes => ~ Stale(h)
  BY <1>7 DEF Rows, Stale
<1>12. ASSUME UNCHANGED <<rows, ip, files, nodes, orphans>>
       PROVE  Rows(h)' /\ NoOldFile(h)' /\ (Stale(h)' <=> Stale(h))
  BY <1>7, <1>12 DEF Rows, NoOldFile, Stale
<1>13. ASSUME d.step = "idle" PROVE Doing(p, h)'
  BY <1>13 DEF Doing, Gone, On
<1>14. ASSUME NEW s \in Steps, d = [c EXCEPT !.step = s]
       PROVE  d.step = s /\ d.host = h /\ d.left = c.left /\ d.action = c.action
              /\ d.addr = c.addr /\ d.k = c.k
  BY <1>2, <1>14 DEF Command
<1>20. CASE NextHost(p)
  <2> DEFINE Step(g) == CASE proc[p].action = "none" -> "report"
                          [] proc[p].action # "none" /\ rows[g] = <<>> -> "insert"
                          [] OTHER -> "update"
  <2>1. PICK g \in c.left :
           Moves(p, [proc[p] EXCEPT !.left = @ \ {g}, !.host = g, !.step = Step(g)])
    BY <1>20, WorkMoves
  <2>2. d.host = g /\ d.step = Step(g) /\ d.action = c.action
    BY <1>2, <1>9, <2>1 DEF Command
  <2>3. /\ Step(g) \in {"report", "insert", "update"}
        /\ Step(g) = "report" => proc[p].action = "none"
        /\ Step(g) = "insert" => rows[g] = <<>>
        /\ Step(g) = "update" => rows[g] # <<>>
    OBVIOUS
  <2> HIDE DEF Step
  <2>4. UNCHANGED <<rows, ip, files, nodes, orphans>> /\ c.step = "next"
    BY <1>20 DEF NextHost
  <2>5. Doing(p, h)'
    BY <2>2, <2>3, <2>4 DEF Doing, Gone, On
  <2>6. Fixing(p, h) => Fixing(p, h)'
    <3> SUFFICES ASSUME Fixing(p, h) PROVE Fixing(p, h)'
      OBVIOUS
    <3>1. c.left = {h} /\ c.action = "install"
      BY <2>4 DEF Fixing, On
    <3>2. g = h
      BY <2>1, <3>1
    <3> QED
      BY <2>2, <2>3, <3>1, <3>2 DEF Fixing, On
  <2> QED
    BY <1>6, <1>12, <2>4, <2>5, <2>6
<1>21. CASE Insert(p)
  <2>1. UNCHANGED <<ip, files, nodes, orphans>> /\ c.step = "insert"
    BY <1>21 DEF Insert
  <2>2. CASE h \in nodes
    <3>1. Moves(p, [c EXCEPT !.step = "report"])
      BY <1>21, <2>2, WorkMoves
    <3>2. d.step = "report" /\ d.host = h /\ d.action = c.action
      BY <3>1, <1>9, <1>14 DEF Steps
    <3>3. rows[h] = <<>> /\ rows' = [rows EXCEPT ![h] = Append(@, c.action)]
      BY <1>7, <1>21, <2>1, <2>2 DEF Insert, Doing, On
    <3>4. rows'[h] = <<c.action>>
      BY <1>1, <3>3
    <3>5. Rows(h)' /\ NoOldFile(h)'
      BY <1>7, <2>1, <2>2, <3>4 DEF Rows, NoOldFile
    <3>6. Stale(h)' => Fixing(p, h)'
      BY <3>2, <3>4 DEF Stale, Fixing, On
    <3>7. Doing(p, h)'
      BY <3>2, <3>4 DEF Doing, Gone, On
    <3> QED
      BY <3>5, <3>6, <3>7
  <2>3. CASE h \notin nodes
    <3>1. Moves(p, Idle)
      BY <1>21, <2>3, WorkMoves
    <3>2. rows' = rows
      BY <1>21, <2>3 DEF Insert
    <3> QED
      BY <1>9, <1>11, <1>12, <1>13, <2>1, <2>3, <3>1, <3>2
  <2> QED
    BY <2>2, <2>3
<1>22. CASE Update(p)
  <2>1. UNCHANGED <<ip, files, nodes, orphans>> /\ c.step = "update"
    BY <1>22 DEF Update
  <2>2. rows[h] # <<>> /\ rows' = [rows EXCEPT ![h][1] = c.action]
    BY <1>7, <1>22, <2>1 DEF Update, Doing, On
  <2>3. c.action \in {"install", "os"}
    BY <1>2, <2>1 DEF Fit, Command, Actions
  <2>4. rows'[h] = <<c.action>>
    <3>1. [rows[h] EXCEPT ![1] = c.action] = <<c.action>>
      BY <1>7, <1>10, <2>2, <2>3, FirstRow DEF Rows
    <3> QED
      BY <1>1, <2>2, <3>1
  <2>5. Moves(p, [c EXCEPT !.step = "report"])
    BY <1>22, WorkMoves
  <2>6. d.step = "report" /\ d.host = h /\ d.action = c.action
    BY <2>5, <1>9, <1>14 DEF Steps
  <2>7. Rows(h)' /\ NoOldFile(h)'
    BY <1>7, <2>1, <2>2, <2>4 DEF Rows, NoOldFile
  <2>8. Stale(h)' => Fixing(p, h)'
    BY <2>4, <2>6 DEF Stale, Fixing, On
  <2>9. Doing(p, h)'
    BY <2>4, <2>6 DEF Doing, Gone, On
  <2> QED
    BY <2>7, <2>8, <2>9
<1>23. CASE Report(p)
  <2>1. UNCHANGED <<rows, ip, files, nodes, orphans>> /\ c.step = "report"
    BY <1>23 DEF Report
  <2>2. CASE h \notin nodes
    <3>1. Moves(p, Idle)
      BY <1>23, <2>2, WorkMoves
    <3> QED
      BY <1>9, <1>11, <1>12, <1>13, <2>1, <2>2, <3>1
  <2>3. CASE h \in nodes /\ ip[h] = None
    <3>1. Moves(p, Idle) \/ Moves(p, [c EXCEPT !.step = "next"])
      BY <1>23, <2>3, WorkMoves
    <3>2. d.step \in {"idle", "next"}
      BY <3>1, <1>9, <1>14 DEF Steps
    <3>3. Doing(p, h)'
      BY <3>2 DEF Doing, Gone, On
    <3>4. ~ Stale(h)
      BY <2>3 DEF Stale
    <3> QED
      BY <1>12, <2>1, <3>3, <3>4
  <2>4. CASE h \in nodes /\ ip[h] # None
    <3>1. Moves(p, [c EXCEPT !.step = "shell", !.addr = ip[h]])
      BY <1>23, <2>4, WorkMoves
    <3>2. d.step = "shell" /\ d.host = h /\ d.action = c.action /\ d.addr = ip[h]
      BY <3>1, <1>2, <1>9 DEF Command
    <3>3. Doing(p, h)'
      BY <1>7, <2>1, <3>2 DEF Doing, Gone, On
    <3>4. Fixing(p, h) => Fixing(p, h)'
      BY <2>1, <3>2 DEF Fixing, On
    <3> QED
      BY <1>6, <1>12, <2>1, <3>3, <3>4
  <2> QED
    BY <2>2, <2>3, <2>4
<1>24. CASE Shell(p)
  <2> DEFINE f == [host |-> h, kind |-> Kind(c.action)]
  <2>1. UNCHANGED <<rows, ip, nodes, orphans>> /\ c.step = "shell"
        /\ files' = [files EXCEPT ![c.addr] = f]
    BY <1>24 DEF Shell
  <2>2. c.addr = ip[h] /\ c.addr \in Addresses
    BY <1>2, <1>7, <2>1 DEF Fit, Doing, On
  <2>3. f.host = h /\ (f.kind = "install" => c.action = "install")
    BY DEF Kind
  <2> HIDE DEF f
  <2>4. files'[ip[h]] = f /\ \A a \in Addresses \ {ip[h]} : files'[a] = files[a]
    BY <1>1, <2>1, <2>2
  <2>5. Rows(h)' /\ NoOldFile(h)'
    BY <1>7, <2>1, <2>4 DEF Rows, NoOldFile
  <2>6. ~ Stale(h)'
    BY <1>7, <2>1, <2>3, <2>4 DEF Stale, Doing, On
  <2>7. Moves(p, Idle) \/ Moves(p, [c EXCEPT !.step = "next"])
    BY <1>24, WorkMoves
  <2>8. d.step \in {"idle", "next"}
    BY <2>7, <1>9, <1>14 DEF Steps
  <2>9. Doing(p, h)'
    BY <2>8 DEF Doing, Gone, On
  <2> QED
    BY <2>5, <2>6, <2>9
<1>25. CASE Sync(p)
  <2>1. UNCHANGED <<rows, ip, files, nodes, orphans>> /\ c.step = "sync"
    BY <1>25 DEF Sync
  <2>2. CASE h \in nodes /\ rows[h] = <<>>
    <3>1. Moves(p, [c EXCEPT !.step = "next", !.left = {h}, !.action = "install"])
      BY <1>25, <2>2, WorkMoves
    <3>2. d.step = "next" /\ d.left = {h} /\ d.action = "install"
      BY <3>1, <1>2, <1>9 DEF Command
    <3>3. Doing(p, h)' /\ Fixing(p, h)'
      BY <3>2 DEF Doing, Gone, On, Fixing
    <3> QED
      BY <1>12, <2>1, <3>3
  <2>3. CASE ~ (h \in nodes /\ rows[h] = <<>>)
    <3>1. Moves(p, Idle)
      BY <1>25, <2>3, WorkMoves
    <3>2. ~ Stale(h)
      BY <1>6, <1>11, <2>1, <2>3 DEF Fixing, On
    <3> QED
      BY <1>9, <1>12, <1>13, <2>1, <3>1, <3>2
  <2> QED
    BY <2>2, <2>3
<1>26. CASE Interface(p)
  <2>1. UNCHANGED <<rows, files, nodes, orphans>> /\ c.step = "interface"
    BY <1>26 DEF Interface
  <2>2. ip[h] = None /\ rows[h] = <<>>
    BY <1>7, <2>1 DEF Doing, On
  <2>3. CASE h \in nodes
    <3>1. PICK a \in Addresses : ip' = [ip EXCEPT ![h] = a]
      BY <1>26, <2>3 DEF Interface
    <3>2. Moves(p, [c EXCEPT !.step = "sync"])
      BY <1>26, <2>3, WorkMoves
    <3>3. d.step = "sync" /\ d.host = h
      BY <3>2, <1>9, <1>14 DEF Steps
    <3>4. Rows(h)'
      BY <1>7, <2>1, <2>3 DEF Rows
    <3>5. NoOldFile(h)'
      BY <1>1, <1>7, <2>1, <2>2 DEF NoOldFile
    <3>6. Fixing(p, h)' /\ Doing(p, h)'
      BY <2>1, <2>2, <3>3 DEF Fixing, Doing, Gone, On
    <3> QED
      BY <3>4, <3>5, <3>6
  <2>4. CASE h \notin nodes
    <3>1. Moves(p, Idle) /\ ip' = ip
      BY <1>26, <2>4, WorkMoves DEF Interface
    <3> QED
      BY <1>9, <1>11, <1>12, <1>13, <2>1, <2>4, <3>1
  <2> QED
    BY <2>3, <2>4
<1>27. ASSUME c.step \in {"plugin", "unlink"}
       PROVE  /\ plugins \in Seq(Nodes) /\ c.k \in 1 .. Len(plugins)
              /\ Len(plugins) \in Nat /\ DOMAIN plugins = 1 .. Len(plugins)
              /\ \A i \in DOMAIN plugins : plugins[i] = "host" <=> i = Len(plugins)
              /\ \A i, j \in DOMAIN plugins : plugins[i] = plugins[j] => i = j
              /\ \E i, j \in DOMAIN plugins :
                     i < j /\ plugins[i] = "boot" /\ plugins[j] = "interface"
  <2>1. plugins # <<>> /\ c.k \in 1 .. Len(plugins)
    BY <1>2, <1>27 DEF Fit
  <2>2. plugins \in Seq(Nodes)
    BY <2>1 DEF RemovalOrder
  <2> QED
    BY <2>1, <2>2 DEF RemovalOrder
(* The next plugin: what has been gone through is one more. *)
<1>28. ASSUME c.step \in {"plugin", "unlink"}, c.k # Len(plugins),
              Moves(p, [c EXCEPT !.step = "plugin", !.k = c.k + 1])
       PROVE  /\ d.step = "plugin" /\ d.host = h
              /\ \A x : Gone(p, h, x)' => plugins[c.k] = x
                                        \/ \E j \in 1 .. c.k - 1 : plugins[j] = x
  <2>1. d.step = "plugin" /\ d.host = h /\ d.k = c.k + 1
    BY <1>2, <1>9, <1>28 DEF Command
  <2>2. c.k \in Nat
    BY <1>2 DEF Command
  <2>3. \A j \in 1 .. d.k - 1 : j = c.k \/ j \in 1 .. c.k - 1
    BY <2>1, <2>2
  <2> QED
    BY <2>1, <2>3 DEF Gone, On
<1>29. CASE Plugin(p)
  <2> DEFINE this == plugins[c.k]
  <2>1. c.step = "plugin" /\ UNCHANGED files
    BY <1>29 DEF Plugin
  <2>2. CASE this = "boot"
    <3>1. UNCHANGED <<ip, nodes, orphans>> /\ rows' = [rows EXCEPT ![h] = <<>>]
      BY <1>29, <2>2 DEF Plugin
    <3>2. rows'[h] = <<>>
      BY <1>1, <3>1
    <3>3. Moves(p, [c EXCEPT !.step = "unlink"])
      BY <1>29, <2>2, WorkMoves
    <3>4. d.step = "unlink" /\ d.host = h
      BY <3>3, <1>9, <1>14 DEF Steps
    <3>5. Rows(h)' /\ NoOldFile(h)'
      BY <1>7, <2>1, <3>1, <3>2 DEF Rows, NoOldFile
    <3>6. Doing(p, h)' /\ Fixing(p, h)'
      BY <3>2, <3>4 DEF Doing, Gone, On, Fixing
    <3> QED
      BY <3>5, <3>6
  <2>3. CASE this = "host"
    <3>1. c.k = Len(plugins)
      BY <1>27, <2>1, <2>3
    <3>2. Moves(p, Idle)
      BY <1>29, <2>3, <3>1, WorkMoves
    <3>3. /\ Gone(p, h, "boot") /\ Gone(p, h, "interface")
      <4>1. PICK i \in DOMAIN plugins, j \in DOMAIN plugins :
                i < j /\ plugins[i] = "boot" /\ plugins[j] = "interface"
        BY <1>27, <2>1
      <4>2. j # c.k
        BY <2>3, <4>1
      <4>3. i \in 1 .. c.k - 1 /\ j \in 1 .. c.k - 1
        BY <1>27, <2>1, <3>1, <4>1, <4>2
      <4> QED
        BY <2>1, <4>1, <4>3 DEF Gone, On
    <3>4. rows[h] = <<>> /\ ip[h] = None
      BY <1>7, <3>3 DEF Doing
    <3>5. /\ rows' = [rows EXCEPT ![h] = <<>>] /\ orphans' = orphans
          /\ ip' = ip /\ nodes' = nodes \ {h}
      BY <1>29, <2>3, <3>4 DEF Plugin
    <3>6. rows'[h] = <<>> /\ ip'[h] = None
      BY <1>1, <3>4, <3>5
    <3>7. Rows(h)' /\ NoOldFile(h)' /\ ~ Stale(h)'
      BY <1>7, <2>1, <3>5, <3>6 DEF Rows, NoOldFile, Stale
    <3> QED
      BY <1>9, <1>13, <3>2, <3>7
  <2>4. CASE this \notin {"boot", "host"}
    <3>1. c.k # Len(plugins)
      BY <1>27, <2>1, <2>4
    <3>2. Moves(p, [c EXCEPT !.step = "plugin", !.k = c.k + 1])
      BY <1>29, <2>4, <3>1, WorkMoves
    <3>3. UNCHANGED <<rows, orphans, nodes>>
          /\ ip' = IF this = "interface" THEN [ip EXCEPT ![h] = None] ELSE ip
      BY <1>29, <2>4 DEF Plugin
    <3>4. /\ d.step = "plugin" /\ d.host = h
          /\ Gone(p, h, "boot")' => Gone(p, h, "boot")
          /\ Gone(p, h, "interface")' => this = "interface" \/ Gone(p, h, "interface")
      <4>1. /\ d.step = "plugin" /\ d.host = h
            /\ \A x : Gone(p, h, x)' => this = x \/ \E j \in 1 .. c.k - 1 : plugins[j] = x
        BY <1>28, <2>1, <3>1, <3>2
      <4> QED
        BY <2>1, <2>4, <4>1 DEF Gone, On
    <3>5. ip'[h] = IF this = "interface" THEN None ELSE ip[h]
      BY <1>1, <3>3
    <3>6. this = "interface" => Gone(p, h, "boot")
      <4> SUFFICES ASSUME this = "interface" PROVE Gone(p, h, "boot")
        OBVIOUS
      <4>1. PICK i \in DOMAIN plugins, j \in DOMAIN plugins :
                i < j /\ plugins[i] = "boot" /\ plugins[j] = "interface"
        BY <1>27, <2>1
      <4>2. j = c.k
        BY <1>27, <2>1, <4>1
      <4>3. i \in 1 .. c.k - 1
        BY <1>27, <2>1, <4>1, <4>2
      <4> QED
        BY <2>1, <4>1, <4>3 DEF Gone, On
    <3>7. Rows(h)'
      BY <1>7, <3>3, <3>5 DEF Rows
    <3>8. NoOldFile(h)'
      <4>1. CASE this = "interface"
        BY <1>7, <2>1, <3>6, <4>1 DEF Doing, NoOldFile
      <4>2. CASE this # "interface"
        BY <1>7, <2>1, <3>3, <4>2 DEF NoOldFile
      <4> QED
        BY <4>1, <4>2
    <3>9. Fixing(p, h)'
      BY <3>4 DEF Fixing, On
    <3>10. Doing(p, h)'
      <4>1. Gone(p, h, "boot")' => rows'[h] = <<>> /\
               (h \notin Bare => \A a \in Addresses : files'[a] = None \/ files'[a].host # h)
        BY <1>7, <2>1, <3>3, <3>4 DEF Doing
      <4>2. Gone(p, h, "interface")' => ip'[h] = None
        BY <1>7, <3>4, <3>5 DEF Doing
      <4> QED
        BY <3>4, <4>1, <4>2 DEF Doing, On
    <3> QED
      BY <3>7, <3>8, <3>9, <3>10
  <2> QED
    BY <2>2, <2>3, <2>4
<1>30. CASE Unlink(p)
  <2>1. c.step = "unlink" /\ UNCHANGED <<nodes, ip, rows, orphans>>
        /\ files' = IF h \in Bare \/ ip[h] = None THEN files
                    ELSE [files EXCEPT ![ip[h]] = None]
    BY <1>30 DEF Unlink
  <2>2. plugins[c.k] = "boot"
    BY <1>2, <2>1 DEF Fit
  <2>3. c.k # Len(plugins)
    BY <1>27, <2>1, <2>2
  <2>4. Moves(p, [c EXCEPT !.step = "plugin", !.k = c.k + 1])
    BY <1>30, <2>3, WorkMoves
  <2>5. d.step = "plugin" /\ d.host = h /\ ~ Gone(p, h, "interface")'
    <3>1. /\ d.step = "plugin" /\ d.host = h
          /\ \A x : Gone(p, h, x)' => plugins[c.k] = x
                                    \/ \E j \in 1 .. c.k - 1 : plugins[j] = x
      BY <1>28, <2>1, <2>3, <2>4
    <3>2. PICK i \in DOMAIN plugins, j \in DOMAIN plugins :
              i < j /\ plugins[i] = "boot" /\ plugins[j] = "interface"
      BY <1>27, <2>1
    <3>3. i = c.k /\ \A m \in 1 .. c.k - 1 : m \in DOMAIN plugins /\ m < c.k
      BY <1>27, <2>1, <2>2, <3>2
    <3>4. \A m \in DOMAIN plugins : plugins[m] = "interface" => m = j
      BY <1>27, <2>1, <3>2
    <3>5. ~ \E m \in 1 .. c.k - 1 : plugins[m] = "interface"
      BY <1>27, <2>1, <3>2, <3>3, <3>4
    <3> QED
      BY <2>2, <3>1, <3>5
  <2>6. rows[h] = <<>>
    BY <1>7, <2>1 DEF Doing, On
  <2>7. h \notin Bare => \A a \in Addresses : files'[a] = None \/ files'[a].host # h
    <3> SUFFICES ASSUME h \notin Bare, NEW a \in Addresses,
                        files'[a] # None, files'[a].host = h
                 PROVE  FALSE
      OBVIOUS
    <3>1. CASE ip[h] = None
      BY <1>7, <2>1, <3>1, <1>1 DEF NoOldFile
    <3>2. CASE ip[h] # None
      BY <1>7, <1>1, <1>10, <2>1, <3>2 DEF NoOldFile
    <3> QED
      BY <3>1, <3>2
  <2>8. Rows(h)' /\ NoOldFile(h)'
    BY <1>7, <2>1, <2>7 DEF Rows, NoOldFile
  <2>9. Fixing(p, h)' /\ Doing(p, h)'
    BY <2>1, <2>5, <2>6, <2>7 DEF Fixing, Doing, On
  <2> QED
    BY <2>8, <2>9
<1> QED
  BY <1>20, <1>21, <1>22, <1>23, <1>24, <1>25, <1>26, <1>29, <1>30 DEF Work

(* Another command begins, on hosts that nobody works on or that are mixed  *)
(* from now on.                                                             *)
LEMMA KeptAtBegin ==
    ASSUME StepsOK, OneWorker, HostsKept,
           NEW p \in Slots, NEW hs \in SUBSET Hosts, NEW c \in Command, NEW r \in BOOLEAN,
           Begin(p, hs, c, r), Moves(p, c), plugins' = plugins,
           HostsOf(c) = hs,
           UNCHANGED <<ip, rows, files, orphans>>, nodes \subseteq nodes',
           c.step \in {"next", "plugin", "interface", "sync"},
           c.step = "plugin" => c.k = 1, c.step = "interface" => c.host \notin nodes
    PROVE  OneWorker' /\ HostsKept'
<1>1. /\ mixed \subseteq mixed' /\ WorksOn(p) = {} /\ WorksOn(p)' \subseteq hs
      /\ proc'[p] = c /\ \A q \in Slots \ {p} : proc'[q] = proc[q]
      /\ \A q \in Slots \ {p} : WorksOn(q)' = WorksOn(q)
      /\ \A h \in hs \ mixed' : \A q \in Slots : h \notin WorksOn(q)
  BY BeginsAlone
<1>2. OneWorker'
  BY <1>1, OneWorkerBegins
<1>3. ASSUME NEW h \in Hosts \ mixed' PROVE Kept(h)' /\ \A q \in Slots : Doing(q, h)'
  <2>1. Kept(h) /\ \A q \in Slots : Doing(q, h)
    BY <1>1 DEF HostsKept
  <2>2. Rows(h)' /\ NoOldFile(h)' /\ (Stale(h)' <=> Stale(h))
    BY <2>1 DEF Kept, Rows, NoOldFile, Stale
  <2>3. \A q \in Slots \ {p} : Doing(q, h)'
    BY <1>1, <2>1 DEF Doing, Gone, On
  <2>4. Stale(h)' => \E q \in Slots : Fixing(q, h)'
    <3> SUFFICES ASSUME Stale(h)' PROVE \E q \in Slots : Fixing(q, h)'
      OBVIOUS
    <3>1. PICK q \in Slots : Fixing(q, h)
      BY <2>1, <2>2 DEF Kept
    <3>2. q # p
      BY <1>1, <3>1, BusyWorks
    <3>3. proc'[q] = proc[q]
      BY <1>1, <3>2
    <3>4. Fixing(q, h)'
      BY <3>1, <3>3 DEF Fixing, On
    <3> QED
      BY <3>4
  <2>5. Doing(p, h)'
    <3>1. c.step = "interface" /\ c.host = h => ip[h] = None /\ rows[h] = <<>>
      BY <2>1 DEF Kept, Rows
    <3>2. ~ \E j \in 1 .. 1 - 1 : plugins[j] = "boot" \/ plugins[j] = "interface"
      OBVIOUS
    <3> QED
      BY <1>1, <3>1, <3>2 DEF Doing, Gone, On
  <2> QED
    BY <2>2, <2>3, <2>4, <2>5 DEF Kept
<1> QED
  BY <1>2, <1>3 DEF HostsKept

LEMMA HostsKeptKept ==
    ASSUME StepsOK, RemovalOrder, OneWorker, HostsKept, [BootNext]_bootVars
    PROVE  OneWorker' /\ HostsKept'
<1>1. CASE LoadPlugins /\ UNCHANGED hostVars
  <2>1. \/ plugins' = plugins
        \/ plugins = <<>> /\ \A p \in Slots : proc[p].step = "idle"
    <3>1. plugins # <<>> => plugins' = plugins
      BY <1>1 DEF LoadPlugins, Load
    <3>2. plugins = <<>> => \A p \in Slots : proc[p].step = "idle"
      BY ProcType DEF Fit
    <3> QED
      BY <3>1, <3>2
  <2>2. OneWorker'
    BY <1>1 DEF OneWorker, WorksOn, hostVars
  <2>3. ASSUME NEW h \in Hosts \ mixed' PROVE Kept(h)' /\ \A q \in Slots : Doing(q, h)'
    <3>1. h \in Hosts \ mixed /\ UNCHANGED hostVars
      BY <1>1 DEF hostVars
    <3>2. Kept(h) /\ \A q \in Slots : Doing(q, h)
      BY <3>1 DEF HostsKept
    <3>3. Kept(h)'
      BY <3>1, <3>2 DEF Kept, Rows, NoOldFile, Stale, Fixing, On, hostVars
    <3>4. \A q \in Slots : Doing(q, h)'
      BY <2>1, <3>1, <3>2 DEF Doing, Gone, On, hostVars
    <3> QED
      BY <3>3, <3>4
  <2> QED
    BY <2>2, <2>3 DEF HostsKept
<1>2. ASSUME NEW p \in Slots, Work(p), plugins' = plugins PROVE OneWorker' /\ HostsKept'
  <2>1. mixed' = mixed
    BY <1>2, WorkType DEF Quiet
  <2>2. OneWorker'
    BY <1>2, <2>1, WorksOnShrinks DEF OneWorker
  <2>3. \A h \in Hosts \ mixed : Kept(h)' /\ \A q \in Slots : Doing(q, h)'
    BY <1>2, KeptHere, KeptElsewhere
  <2> QED
    BY <2>1, <2>2, <2>3 DEF HostsKept
<1>3. ASSUME Commands, plugins' = plugins PROVE OneWorker' /\ HostsKept'
  <2>1. nodes \subseteq Hosts
    BY DEF StepsOK, HostTypeOK
  <2>2. ASSUME NEW p \in Processes, NEW hs \in SUBSET Hosts, NEW action \in Actions,
               SetBoot(p, hs, action)
        PROVE  OneWorker' /\ HostsKept'
    <3> DEFINE c == Booting(hs, action)
    <3>1. p \in Slots /\ Moves(p, c) /\ c \in Command
      BY <2>2, BeginMoves DEF Slots, Moves
    <3>2. Begin(p, hs, c, FALSE) /\ UNCHANGED <<nodes, ip, rows, files, orphans>>
      BY <2>2 DEF SetBoot, Booting
    <3>3. HostsOf(c) = hs /\ c.step = "next"
      BY HostAssumption DEF Booting, Idle, HostsOf
    <3> HIDE DEF c
    <3> QED
      BY <1>3, <3>1, <3>2, <3>3, KeptAtBegin
  <2>3. ASSUME NEW p \in Processes, NEW h \in Hosts, RemoveHost(p, h)
        PROVE  OneWorker' /\ HostsKept'
    <3> DEFINE c == Removal(h)
    <3>1. p \in Slots /\ Moves(p, c) /\ c \in Command
      BY <2>3, BeginMoves DEF Slots, Moves
    <3>2. Begin(p, {h}, c, TRUE) /\ UNCHANGED <<nodes, ip, rows, files, orphans>>
      BY <2>3 DEF RemoveHost, Removal
    <3>3. HostsOf(c) = {h} /\ c.step = "plugin" /\ c.k = 1
      BY DEF Removal, Idle, HostsOf
    <3> HIDE DEF c
    <3> QED
      BY <1>3, <3>1, <3>2, <3>3, KeptAtBegin
  <2>4. ASSUME NEW p \in Processes, NEW h \in Hosts, AddHost(p, h)
        PROVE  OneWorker' /\ HostsKept'
    <3> DEFINE c == Addition(h)
    <3>1. p \in Slots /\ Moves(p, c) /\ c \in Command
      BY <2>4, BeginMoves DEF Slots, Moves
    <3>2. /\ Begin(p, {h}, c, FALSE) /\ UNCHANGED <<ip, rows, files, orphans>>
          /\ nodes' = nodes \cup {h} /\ h \notin nodes
      BY <2>4 DEF AddHost, Addition
    <3>3. HostsOf(c) = {h} /\ c.step = "interface" /\ c.host = h
      BY DEF Addition, Idle, HostsOf
    <3> HIDE DEF c
    <3> QED
      BY <1>3, <3>1, <3>2, <3>3, KeptAtBegin
  <2>5. ASSUME NEW p \in Processes, NEW h \in Hosts, SyncHost(p, h)
        PROVE  OneWorker' /\ HostsKept'
    <3> DEFINE c == Syncing(h)
    <3>1. p \in Slots /\ Moves(p, c) /\ c \in Command
      BY <2>5, BeginMoves DEF Slots, Moves
    <3>2. Begin(p, {h}, c, FALSE) /\ UNCHANGED <<nodes, ip, rows, files, orphans>>
      BY <2>5 DEF SyncHost, Syncing
    <3>3. HostsOf(c) = {h} /\ c.step = "sync"
      BY DEF Syncing, Idle, HostsOf
    <3> HIDE DEF c
    <3> QED
      BY <1>3, <3>1, <3>2, <3>3, KeptAtBegin
  <2> QED
    BY <1>3, <2>1, <2>2, <2>3, <2>4, <2>5 DEF Commands, Actions
<1>4. ASSUME NEW h \in Hosts, Call(h), plugins' = plugins PROVE OneWorker' /\ HostsKept'
  <2> DEFINE c == Booting({h}, "os")
  <2>1. h \in Slots /\ Moves(h, c) /\ c \in Command
    BY <1>4, BeginMoves DEF Slots, Moves
  <2>2. Begin(h, {h}, c, FALSE) /\ UNCHANGED <<nodes, ip, rows, files, orphans>>
    BY <1>4 DEF Call, Booting, Same
  <2>3. HostsOf(c) = {h} /\ c.step = "next"
    BY HostAssumption DEF Booting, Idle, HostsOf
  <2> HIDE DEF c
  <2> QED
    BY <1>4, <2>1, <2>2, <2>3, KeptAtBegin
<1>5. ASSUME UNCHANGED <<proc, mixed, nodes, ip, rows, files, orphans, plugins>>
      PROVE  OneWorker' /\ HostsKept'
  <2>1. OneWorker'
    BY <1>5 DEF OneWorker, WorksOn
  <2>2. HostsKept'
    BY <1>5 DEF HostsKept, Kept, Doing, Gone, Rows, NoOldFile, Stale, Fixing, On
  <2> QED
    BY <2>1, <2>2
<1>6. ASSUME NEW h \in Hosts, Boot(h) \/ Restart(h) \/ Answered(h) \/ CallLost(h),
             plugins' = plugins
      PROVE  OneWorker' /\ HostsKept'
  BY <1>5, <1>6 DEF Boot, Restart, Answered, CallLost, Same
<1>7. CASE UNCHANGED bootVars
  BY <1>5, <1>7 DEF bootVars, hostVars
<1> QED
  BY <1>1, <1>2, <1>3, <1>4, <1>6, <1>7 DEF BootNext, Machine

LEMMA HostsKeptCorrect == BootSpec => [](OneWorker /\ HostsKept)
<1>1. BootInit => OneWorker /\ HostsKept
  <2> SUFFICES ASSUME BootInit PROVE OneWorker /\ HostsKept
    OBVIOUS
  <2>1. PICK a \in Addresses :
        /\ nodes = {First}
        /\ ip = [h \in Hosts |-> IF h = First THEN a ELSE None]
        /\ rows = [h \in Hosts |-> IF h = First THEN <<"os">> ELSE <<>>]
        /\ files = [x \in Addresses |->
                       IF x = a THEN [host |-> First, kind |-> "run"] ELSE None]
        /\ proc = [s \in Slots |-> Idle] /\ orphans = {}
    BY DEF BootInit, HostInit
  <2>2. \A p \in Slots : proc[p].step = "idle" /\ WorksOn(p) = {}
    BY <2>1 DEF Idle, WorksOn
  <2>3. OneWorker
    BY <2>2 DEF OneWorker
  <2>4. ASSUME NEW h \in Hosts PROVE Kept(h) /\ \A p \in Slots : Doing(p, h)
    <3>1. \A p \in Slots : Doing(p, h)
      BY <2>2 DEF Doing, Gone, On
    <3>2. Rows(h) /\ NoOldFile(h) /\ ~ Stale(h)
      <4>1. h # First => rows[h] = <<>> /\ ip[h] = None
        BY <2>1
      <4>2. h = First => rows[h] = <<"os">> /\ h \in nodes /\ ip[h] = a
        BY <2>1
      <4>3. Rows(h)
        BY <2>1, <4>1, <4>2 DEF Rows
      <4>4. \A x \in Addresses : files[x] # None =>
                x = a /\ files[x].host = First /\ files[x].kind = "run"
        BY <2>1
      <4>5. NoOldFile(h)
        BY <4>2, <4>4 DEF NoOldFile
      <4>6. ip[h] # None => ip[h] \in Addresses
        BY <2>1, <4>1, <4>2
      <4>7. ~ Stale(h)
        BY <4>4, <4>6 DEF Stale
      <4> QED
        BY <4>3, <4>5, <4>7
    <3> QED
      BY <3>1, <3>2 DEF Kept
  <2> QED
    BY <2>3, <2>4 DEF HostsKept
<1>2. /\ StepsOK /\ RemovalOrder /\ (OneWorker /\ HostsKept) /\ [BootNext]_bootVars
      => (OneWorker /\ HostsKept)'
  BY HostsKeptKept
<1> QED
  BY <1>1, <1>2, StepsOKCorrect, RemovalOrderCorrect, PTL DEF BootSpec

(* The boot table has one row of a host, and none of a host that is gone,   *)
(* unless commands worked on the host at the same time: what updateBoot()   *)
(* has read is still so when it inserts or changes the row.                 *)
THEOREM OneRowCorrect == BootSpec => []OneRow
<1>1. HostsKept => OneRow
  BY DEF HostsKept, Kept, Rows, OneRow
<1> QED
  BY <1>1, HostsKeptCorrect, PTL

(* When nobody is at work on a host its file does not tell it to install    *)
(* against its row, and no file is that of a host with another address.     *)
THEOREM FilesMatchCorrect == BootSpec => []FilesMatch
<1>1. StepsOK /\ HostsKept => FilesMatch
  <2> SUFFICES ASSUME StepsOK, HostsKept, NEW h \in Hosts \ mixed, Calm(h)
               PROVE  /\ ip[h] # None /\ files[ip[h]] # None /\ rows[h] \in {<<>>, <<"os">>} =>
                             files[ip[h]].kind = "run" \/ files[ip[h]].host # h
                      /\ h \notin Bare =>
                             \A a \in Addresses :
                                 files[a] # None /\ files[a].host = h => ip[h] = a
    BY DEF FilesMatch
  <2>1. Kept(h) /\ ~ Stale(h)
    BY BusyWorks DEF HostsKept, Kept, Calm
  <2>2. ip[h] # None /\ files[ip[h]] # None => files[ip[h]].kind \in {"install", "run"}
    BY DEF StepsOK, HostTypeOK, File
  <2>3. rows[h] \in {<<>>, <<"os">>} => rows[h] # <<"install">>
    OBVIOUS
  <2> QED
    BY <2>1, <2>2, <2>3 DEF Kept, NoOldFile, Stale
<1> QED
  BY <1>1, StepsOKCorrect, HostsKeptCorrect, PTL
-----------------------------------------------------------------------------
(* What setPxeboot.cgi does: it sets its own host to os while the machine   *)
(* waits for it.                                                            *)
CallOK(h) ==
    /\ proc[h].step \in {"idle", "next", "insert", "update", "report", "shell"}
    /\ proc[h].step # "idle" => mach[h] = "calling" /\ proc[h].action = "os"
    /\ proc[h].step = "next" => proc[h].left = {h} /\ proc[h].host = None
    /\ proc[h].step \notin {"idle", "next"} => proc[h].left = {} /\ proc[h].host = h

CallsOK == \A h \in Hosts : CallOK(h)

LEMMA CallWorks ==
    ASSUME StepsOK, RemovalOrder, NEW h \in Hosts, CallOK(h), Work(h), plugins' = plugins
    PROVE  CallOK(h)'
<1>1. h \in Slots /\ proc[h] \in Command /\ mach' = mach
  BY ProcType, WorkType DEF Slots, Quiet
<1>2. \A c : Moves(h, c) => proc'[h] = c
  BY <1>1, MovesType
<1>3. ASSUME Moves(h, Idle) PROVE CallOK(h)'
  BY <1>2, <1>3 DEF CallOK, Idle
<1>4. ASSUME NEW s \in {"report", "shell"}, proc'[h].step = s,
             proc'[h].left = proc[h].left, proc'[h].host = proc[h].host,
             proc'[h].action = proc[h].action, proc[h].step \notin {"idle", "next"}
      PROVE  CallOK(h)'
  BY <1>1, <1>4 DEF CallOK
<1>5. ASSUME Moves(h, [proc[h] EXCEPT !.step = "report"]),
             proc[h].step \notin {"idle", "next"}
      PROVE  CallOK(h)'
  <2>1. /\ proc'[h].step = "report" /\ proc'[h].left = proc[h].left
        /\ proc'[h].host = proc[h].host /\ proc'[h].action = proc[h].action
    BY <1>1, <1>2, <1>5 DEF Command
  <2> QED
    BY <1>4, <1>5, <2>1
<1>6. CASE NextHost(h)
  <2> DEFINE Step(g) == CASE proc[h].action = "none" -> "report"
                          [] proc[h].action # "none" /\ rows[g] = <<>> -> "insert"
                          [] OTHER -> "update"
  <2>1. PICK g \in proc[h].left :
           Moves(h, [proc[h] EXCEPT !.left = @ \ {g}, !.host = g, !.step = Step(g)])
    BY <1>1, <1>6, WorkMoves
  <2>2. /\ proc'[h].host = g /\ proc'[h].step = Step(g)
        /\ proc'[h].left = proc[h].left \ {g} /\ proc'[h].action = proc[h].action
    BY <1>1, <1>2, <2>1 DEF Command
  <2>3. Step(g) \in {"report", "insert", "update"}
    OBVIOUS
  <2> HIDE DEF Step
  <2>4. proc[h].step = "next"
    BY <1>6 DEF NextHost
  <2>5. proc[h].left = {h} /\ mach[h] = "calling" /\ proc[h].action = "os"
    BY <2>4 DEF CallOK
  <2>6. g = h /\ proc'[h].left = {}
    BY <2>1, <2>2, <2>5
  <2> QED
    BY <1>1, <2>2, <2>3, <2>5, <2>6 DEF CallOK
<1>7. CASE Insert(h)
  <2>1. \/ Moves(h, [proc[h] EXCEPT !.step = "report"]) \/ Moves(h, Idle)
    BY <1>1, <1>7, WorkMoves
  <2> QED
    BY <1>3, <1>5, <1>7, <2>1 DEF Insert
<1>8. CASE Update(h)
  <2>1. Moves(h, [proc[h] EXCEPT !.step = "report"])
    BY <1>1, <1>8, WorkMoves
  <2> QED
    BY <1>5, <1>8, <2>1 DEF Update
<1>9. CASE Report(h)
  <2>1. proc[h].left = {} /\ proc[h].step = "report"
    BY <1>9 DEF Report, CallOK
  <2>2. \/ Moves(h, Idle)
        \/ Moves(h, [proc[h] EXCEPT !.step = "shell", !.addr = ip[proc[h].host]])
    BY <1>1, <1>9, <2>1, WorkMoves
  <2>3. ASSUME Moves(h, [proc[h] EXCEPT !.step = "shell", !.addr = ip[proc[h].host]])
        PROVE  CallOK(h)'
    <3>1. /\ proc'[h].step = "shell" /\ proc'[h].left = proc[h].left
          /\ proc'[h].host = proc[h].host /\ proc'[h].action = proc[h].action
      BY <1>1, <1>2, <2>3 DEF Command
    <3> QED
      BY <1>4, <2>1, <3>1
  <2> QED
    BY <1>3, <2>2, <2>3
<1>10. CASE Shell(h)
  <2>1. proc[h].left = {}
    BY <1>10 DEF Shell, CallOK
  <2>2. Moves(h, Idle)
    BY <1>1, <1>10, <2>1, WorkMoves
  <2> QED
    BY <1>3, <2>2
<1>11. CASE Sync(h) \/ Interface(h) \/ Plugin(h) \/ Unlink(h)
  BY <1>11 DEF Sync, Interface, Plugin, Unlink, CallOK
<1> QED
  BY <1>6, <1>7, <1>8, <1>9, <1>10, <1>11 DEF Work

LEMMA CallsKept ==
    ASSUME StepsOK, RemovalOrder, CallsOK, [BootNext]_bootVars
    PROVE  CallsOK'
<1>1. ASSUME UNCHANGED <<proc, mach>> PROVE CallsOK'
  BY <1>1 DEF CallsOK, CallOK
<1>2. ASSUME NEW p \in Slots, Work(p), plugins' = plugins PROVE CallsOK'
  <2>1. mach' = mach /\ \A q \in Slots \ {p} : proc'[q] = proc[q]
    BY <1>2, WorkType, WorksOnShrinks DEF Quiet
  <2>2. \A h \in Hosts : h # p => CallOK(h)'
    BY <2>1 DEF CallsOK, CallOK, Slots
  <2>3. p \in Hosts => CallOK(p)'
    BY <1>2, CallWorks DEF CallsOK
  <2> QED
    BY <2>2, <2>3 DEF CallsOK
<1>3. ASSUME NEW p \in Processes, NEW c, proc' = [proc EXCEPT ![p] = c], mach' = mach
      PROVE  CallsOK'
  <2>1. \A h \in Hosts : h # p /\ h \in Slots
    BY HostAssumption DEF Slots
  <2>2. \A h \in Hosts : proc'[h] = proc[h]
    BY <1>3, <2>1 DEF StepsOK, HostTypeOK
  <2> QED
    BY <1>3, <2>2 DEF CallsOK, CallOK
<1>4. ASSUME Commands PROVE CallsOK'
  <2>1. PICK p \in Processes : \E c : proc' = [proc EXCEPT ![p] = c] /\ mach' = mach
    <3>1. ASSUME NEW p, NEW hs, NEW c, NEW r, Begin(p, hs, c, r)
          PROVE  proc' = [proc EXCEPT ![p] = c]
      BY <3>1 DEF Begin
    <3>2. ASSUME NEW p \in Processes, NEW hs, NEW action, SetBoot(p, hs, action)
          PROVE  \E c : proc' = [proc EXCEPT ![p] = c] /\ mach' = mach
      BY <3>1, <3>2 DEF SetBoot
    <3>3. ASSUME NEW p \in Processes, NEW h,
                 RemoveHost(p, h) \/ SyncHost(p, h) \/ AddHost(p, h)
          PROVE  \E c : proc' = [proc EXCEPT ![p] = c] /\ mach' = mach
      BY <3>1, <3>3 DEF RemoveHost, SyncHost, AddHost
    <3> QED
      BY <1>4, <3>2, <3>3 DEF Commands
  <2> QED
    BY <1>3, <2>1
<1>5. ASSUME NEW h \in Hosts, Call(h) PROVE CallsOK'
  <2>1. /\ proc' = [proc EXCEPT ![h] = Booting({h}, "os")]
        /\ mach' = [mach EXCEPT ![h] = "calling"]
    BY <1>5 DEF Call, Begin, Booting
  <2>2. /\ proc'[h] = Booting({h}, "os") /\ mach'[h] = "calling"
        /\ \A g \in Hosts \ {h} : proc'[g] = proc[g] /\ mach'[g] = mach[g]
    BY <2>1 DEF StepsOK, HostTypeOK, Slots
  <2>3. CallOK(h)'
    BY <2>2 DEF CallOK, Booting, Idle
  <2>4. \A g \in Hosts \ {h} : CallOK(g)'
    BY <2>2 DEF CallsOK, CallOK
  <2> QED
    BY <2>3, <2>4 DEF CallsOK
<1>6. ASSUME NEW h \in Hosts, Boot(h) \/ Restart(h) \/ Answered(h) \/ CallLost(h)
      PROVE  CallsOK'
  <2>1. proc[h].step = "idle"
    BY <1>6 DEF CallsOK, CallOK, Boot, Restart, Answered, CallLost
  <2>2. proc' = proc /\ \A g \in Hosts \ {h} : mach'[g] = mach[g]
    BY <1>6 DEF StepsOK, HostTypeOK, Boot, Restart, Answered, CallLost
  <2> QED
    BY <2>1, <2>2 DEF CallsOK, CallOK
<1> QED
  BY <1>1, <1>2, <1>4, <1>5, <1>6 DEF BootNext, Machine, bootVars, hostVars

LEMMA CallsCorrect == BootSpec => []CallsOK
<1>1. BootInit => CallsOK
  BY DEF BootInit, HostInit, CallsOK, CallOK, Slots, Idle
<1>2. StepsOK /\ RemovalOrder /\ CallsOK /\ [BootNext]_bootVars => CallsOK'
  BY CallsKept
<1> QED
  BY <1>1, <1>2, StepsOKCorrect, RemovalOrderCorrect, PTL DEF BootSpec
-----------------------------------------------------------------------------
(* As long as nobody works on a host that is removed. *)

RemovesAlone ==
    \A p, q \in Slots : \A h \in Hosts :
        Removing(p) /\ h \in WorksOn(p) /\ h \in WorksOn(q) => p = q

(* What a command that installs or adds a host, or makes its file, relies on. *)
InstallsAsked ==
    \A p \in Slots :
        /\ proc[p].step # "idle" /\ proc[p].action = "install" => WorksOn(p) \subseteq asked
        /\ proc[p].step = "interface" => proc[p].host \in asked /\ ip[proc[p].host] = None
        /\ proc[p].step = "shell" => proc[p].addr = ip[proc[p].host]
        /\ \A q \in Slots : proc[p].step = "interface" /\ proc[q].step = "interface" => p = q
        /\ \A h \in Hosts : Gone(p, h, "interface") => ip[h] = None

(* A file that says install is that of a host which somebody asked for, or  *)
(* which is just reporting its end.                                         *)
FilesAsked ==
    /\ \A h \in Hosts \ nodes : ip[h] = None /\ Calm(h)
    /\ \A g, h \in Hosts : ip[g] = ip[h] /\ ip[g] # None => g = h
    /\ \A h \in nodes : ip[h] # None /\ files[ip[h]] # None /\ files[ip[h]].kind = "install" =>
           h \in asked \/ proc[h].step # "idle"

Undisturbed == ~ stray => RemovesAlone /\ InstallsAsked /\ FilesAsked

LEMMA WorkLeads ==
    ASSUME StepsOK, RemovalOrder, NEW p \in Slots, Work(p), plugins' = plugins
    PROVE  /\ proc'[p].step \in {"plugin", "unlink"} => proc[p].step \in {"plugin", "unlink"}
           /\ proc'[p].step # "interface"
           /\ proc'[p].step = "shell" =>
                  proc'[p].host = proc[p].host /\ proc'[p].addr = ip'[proc[p].host]
           /\ proc'[p].step # "idle" /\ proc'[p].action = "install" =>
                  \/ proc[p].action = "install"
                  \/ proc[p].step = "sync" /\ proc[p].host \in asked'
                     /\ proc'[p].left = {proc[p].host} /\ proc'[p].host = proc[p].host
           /\ \A h : Gone(p, h, "interface")' =>
                  \/ Gone(p, h, "interface")
                  \/ proc[p].step = "plugin" /\ proc[p].host = h
                     /\ plugins[proc[p].k] = "interface"
<1> DEFINE c == proc[p]
           d == proc'[p]
<1>1. c \in Command /\ Fit(c)
  BY ProcType
<1>2. \A e : Moves(p, e) => d = e
  BY MovesType
<1>3. ASSUME NEW s \in Steps \ {"interface", "plugin", "unlink", "shell"},
             Moves(p, [c EXCEPT !.step = s])
      PROVE  d.step = s /\ d.action = c.action /\ ~ \E h : Gone(p, h, "interface")'
  BY <1>1, <1>2, <1>3 DEF Command, Gone, On
<1>4. Moves(p, Idle) => d.step = "idle" /\ ~ \E h : Gone(p, h, "interface")'
  BY <1>2 DEF Idle, Gone, On
<1>5. CASE NextHost(p)
  <2> DEFINE Step(g) == CASE c.action = "none" -> "report"
                          [] c.action # "none" /\ rows[g] = <<>> -> "insert"
                          [] OTHER -> "update"
  <2>1. PICK g \in c.left :
           Moves(p, [c EXCEPT !.left = @ \ {g}, !.host = g, !.step = Step(g)])
    BY <1>5, WorkMoves
  <2>2. d.step = Step(g) /\ d.action = c.action
    BY <1>1, <1>2, <2>1 DEF Command
  <2>3. Step(g) \in {"report", "insert", "update"}
    OBVIOUS
  <2> HIDE DEF Step
  <2> QED
    BY <2>2, <2>3 DEF Gone, On
<1>6. CASE Insert(p) \/ Update(p)
  <2>1. \/ Moves(p, [c EXCEPT !.step = "report"]) \/ Moves(p, Idle)
    BY <1>6, WorkMoves
  <2> QED
    BY <1>3, <1>4, <2>1 DEF Steps
<1>7. CASE Report(p)
  <2>1. \/ Moves(p, Idle) \/ Moves(p, [c EXCEPT !.step = "next"])
        \/ Moves(p, [c EXCEPT !.step = "shell", !.addr = ip[c.host]])
    BY <1>7, WorkMoves
  <2>2. ip' = ip
    BY <1>7 DEF Report
  <2>3. ASSUME Moves(p, [c EXCEPT !.step = "shell", !.addr = ip[c.host]])
        PROVE  /\ d.step = "shell" /\ d.action = c.action /\ d.host = c.host
               /\ d.addr = ip[c.host] /\ ~ \E h : Gone(p, h, "interface")'
    BY <1>1, <1>2, <2>3 DEF Command, Gone, On
  <2> QED
    BY <1>3, <1>4, <2>1, <2>2, <2>3 DEF Steps
<1>8. CASE Shell(p)
  <2>1. Moves(p, Idle) \/ Moves(p, [c EXCEPT !.step = "next"])
    BY <1>8, WorkMoves
  <2> QED
    BY <1>3, <1>4, <2>1 DEF Steps
<1>9. CASE Sync(p)
  <2>1. CASE c.host \in nodes /\ rows[c.host] = <<>>
    <3>1. Moves(p, [c EXCEPT !.step = "next", !.left = {c.host}, !.action = "install"])
      BY <1>9, <2>1, WorkMoves
    <3>2. d.step = "next" /\ d.left = {c.host} /\ d.host = c.host /\ c.step = "sync"
      BY <1>1, <1>2, <1>9, <3>1 DEF Command, Sync
    <3>3. c.host \in asked' /\ ~ \E h : Gone(p, h, "interface")'
      BY <1>9, <2>1, <3>2 DEF Sync, Gone, On
    <3> QED
      BY <3>2, <3>3
  <2>2. CASE ~ (c.host \in nodes /\ rows[c.host] = <<>>)
    <3>1. Moves(p, Idle)
      BY <1>9, <2>2, WorkMoves
    <3> QED
      BY <1>4, <3>1
  <2> QED
    BY <2>1, <2>2
<1>10. CASE Interface(p)
  <2>1. Moves(p, Idle) \/ Moves(p, [c EXCEPT !.step = "sync"])
    BY <1>10, WorkMoves
  <2> QED
    BY <1>3, <1>4, <2>1 DEF Steps
<1>11. CASE Plugin(p) \/ Unlink(p)
  <2>1. c.step \in {"plugin", "unlink"} /\ c.action = "none"
    BY <1>1, <1>11 DEF Plugin, Unlink, Fit
  <2>2. \/ Moves(p, Idle) \/ Moves(p, [c EXCEPT !.step = "unlink"])
        \/ /\ Moves(p, [c EXCEPT !.step = "plugin", !.k = c.k + 1])
           /\ c.k # Len(plugins)
    BY <1>11, WorkMoves
  <2>3. ASSUME Moves(p, [c EXCEPT !.step = "unlink"])
        PROVE  d.step = "unlink" /\ d.action = "none" /\ ~ \E h : Gone(p, h, "interface")'
    BY <1>1, <1>2, <2>1, <2>3 DEF Command, Gone, On
  <2>4. ASSUME Moves(p, [c EXCEPT !.step = "plugin", !.k = c.k + 1]), c.k # Len(plugins)
        PROVE  /\ d.step = "plugin" /\ d.action = "none"
               /\ \A h : Gone(p, h, "interface")' =>
                      \/ Gone(p, h, "interface")
                      \/ c.step = "plugin" /\ c.host = h /\ plugins[c.k] = "interface"
    <3>1. d.step = "plugin" /\ d.action = "none" /\ d.host = c.host /\ d.k = c.k + 1
      BY <1>1, <1>2, <2>1, <2>4 DEF Command
    <3>2. c.k \in Nat
      BY <1>1 DEF Command
    <3>3. \A j \in 1 .. d.k - 1 : j = c.k \/ j \in 1 .. c.k - 1
      BY <3>1, <3>2
    <3>4. ASSUME NEW h, Gone(p, h, "interface")'
          PROVE  \/ Gone(p, h, "interface")
                 \/ c.step = "plugin" /\ c.host = h /\ plugins[c.k] = "interface"
      <4>1. PICK j \in 1 .. d.k - 1 : plugins[j] = "interface"
        BY <3>4 DEF Gone
      <4>2. c.host = h
        BY <3>1, <3>4 DEF Gone, On
      <4>3. CASE c.step = "plugin"
        BY <3>3, <4>1, <4>2, <4>3 DEF Gone, On
      <4>4. CASE c.step = "unlink"
        <5>1. plugins # <<>> /\ plugins[c.k] = "boot" /\ c.k \in 1 .. Len(plugins)
          BY <1>1, <4>4 DEF Fit
        <5>2. PICK i \in DOMAIN plugins, m \in DOMAIN plugins :
                  i < m /\ plugins[i] = "boot" /\ plugins[m] = "interface"
          BY <5>1 DEF RemovalOrder
        <5>3. plugins \in Seq(Nodes) /\ Len(plugins) \in Nat /\ DOMAIN plugins = 1 .. Len(plugins)
          BY <5>1 DEF RemovalOrder
        <5>4. j \in DOMAIN plugins /\ j <= c.k
          BY <3>1, <3>2, <4>1, <5>1, <5>3
        <5>5. i = c.k /\ m = j
          BY <4>1, <5>1, <5>2, <5>3, <5>4 DEF RemovalOrder
        <5> QED
          BY <3>2, <5>2, <5>3, <5>4, <5>5
      <4> QED
        BY <2>1, <4>3, <4>4
    <3> QED
      BY <3>1, <3>4
  <2> QED
    BY <1>4, <2>1, <2>2, <2>3, <2>4
<1> QED
  BY <1>5, <1>6, <1>7, <1>8, <1>9, <1>10, <1>11 DEF Work

LEMMA UndisturbedAtWork ==
    ASSUME StepsOK, RemovalOrder, CallsOK, Undisturbed, ~ stray,
           NEW p \in Slots, Work(p), plugins' = plugins
    PROVE  RemovesAlone' /\ InstallsAsked' /\ FilesAsked'
<1> DEFINE c == proc[p]
           d == proc'[p]
           g == proc[p].host
<1>1. RemovesAlone /\ InstallsAsked /\ FilesAsked
  BY DEF Undisturbed
<1>2. /\ nodes \subseteq Hosts /\ ip \in [Hosts -> Addresses \cup {None}]
      /\ files \in [Addresses -> File \cup {None}]
      /\ None \notin Addresses
  BY HostAssumption DEF StepsOK, HostTypeOK
<1>3. c \in Command /\ Fit(c)
  BY ProcType
<1>4. /\ WorksOn(p)' \subseteq WorksOn(p)
      /\ \A q \in Slots \ {p} : proc'[q] = proc[q] /\ WorksOn(q)' = WorksOn(q)
  BY WorksOnShrinks
<1>5. /\ d.step \in {"plugin", "unlink"} => c.step \in {"plugin", "unlink"}
      /\ d.step # "interface"
      /\ d.step = "shell" => d.host = g /\ d.addr = ip'[g]
      /\ d.step # "idle" /\ d.action = "install" =>
             \/ c.action = "install"
             \/ c.step = "sync" /\ g \in asked' /\ d.left = {g} /\ d.host = g
      /\ \A h : Gone(p, h, "interface")' =>
             \/ Gone(p, h, "interface")
             \/ c.step = "plugin" /\ g = h /\ plugins[c.k] = "interface"
  BY WorkLeads
<1>6. c.step # "idle" /\ asked \subseteq asked' /\ nodes' \subseteq nodes
  BY DEF Work, NextHost, Insert, Update, Report, Shell, Sync, Interface, Plugin, Unlink
<1>7. c.step # "next" => g \in Hosts /\ g \in WorksOn(p) /\ g \in nodes
  <2>1. c.step # "next" => g \in Hosts
    BY <1>3, <1>6 DEF Fit, Command
  <2>2. c.step # "next" => g \in WorksOn(p)
    BY <1>6, <2>1 DEF WorksOn
  <2> QED
    BY <1>1, <2>1, <2>2 DEF FilesAsked, Calm
<1>8. RemovesAlone'
  <2>1. \A q \in Slots : Removing(q)' => Removing(q)
    BY <1>4, <1>5 DEF Removing
  <2>2. \A q \in Slots : WorksOn(q)' \subseteq WorksOn(q)
    BY <1>4
  <2> QED
    BY <1>1, <2>1, <2>2 DEF RemovesAlone
(* The address of a host changes when the host is added or removed. *)
<1>9. \/ ip' = ip /\ ~ (c.step = "plugin" /\ plugins[c.k] = "interface")
      \/ /\ c.step = "plugin" /\ plugins[c.k] = "interface"
         /\ ip' = [ip EXCEPT ![g] = None]
         /\ UNCHANGED <<files, asked, nodes>>
      \/ /\ c.step = "interface" /\ UNCHANGED <<files, asked, nodes>>
         /\ \E a \in Addresses \ {ip[h] : h \in Hosts} : ip' = [ip EXCEPT ![g] = a]
  <2>1. CASE Plugin(p)
    BY <2>1 DEF Plugin
  <2>2. CASE Interface(p)
    BY <1>7, <2>2 DEF Interface
  <2>3. CASE ~ Plugin(p) /\ ~ Interface(p)
    <3>1. ip' = ip /\ c.step # "plugin"
      BY <2>3 DEF Work, NextHost, Insert, Update, Report, Shell, Sync, Unlink
    <3> QED
      BY <3>1
  <2> QED
    BY <2>1, <2>2, <2>3
<1>10. \A h \in Hosts : h # g => ip'[h] = ip[h]
  BY <1>2, <1>9
<1>11. InstallsAsked'
  <2>1. ASSUME NEW q \in Slots, proc'[q].step # "idle", proc'[q].action = "install"
        PROVE  WorksOn(q)' \subseteq asked'
    <3>1. CASE q # p
      BY <1>1, <1>4, <1>6, <2>1, <3>1 DEF InstallsAsked
    <3>2. CASE q = p /\ c.action = "install"
      BY <1>1, <1>4, <1>6, <3>2 DEF InstallsAsked
    <3>3. CASE q = p /\ g \in asked' /\ d.left = {g} /\ d.host = g
      BY <3>3 DEF WorksOn
    <3> QED
      BY <1>5, <2>1, <3>1, <3>2, <3>3
  <2>2. ASSUME NEW q \in Slots, proc'[q].step = "interface"
        PROVE  /\ proc'[q].host \in asked' /\ ip'[proc'[q].host] = None
               /\ proc[q].step = "interface" /\ q # p
    <3>1. q # p /\ proc'[q] = proc[q]
      BY <1>4, <1>5, <2>2
    <3>2. proc[q].host \in asked /\ ip[proc[q].host] = None /\ proc[q].host \in Hosts
      BY <1>1, <2>2, <3>1, ProcType DEF InstallsAsked, Fit, Steps
    <3>3. c.step # "interface"
      BY <1>1, <2>2, <3>1 DEF InstallsAsked
    <3>4. ip'[proc[q].host] = None
      BY <1>2, <1>9, <3>2, <3>3
    <3> QED
      BY <1>6, <2>2, <3>1, <3>2, <3>4
  <2>3. ASSUME NEW q \in Slots, proc'[q].step = "shell"
        PROVE  proc'[q].addr = ip'[proc'[q].host]
    <3>1. CASE q = p
      BY <1>5, <2>3, <3>1
    <3>2. CASE q # p
      <4>1. proc'[q] = proc[q] /\ proc[q].step = "shell"
        BY <1>4, <2>3, <3>2
      <4>2. /\ proc[q].addr = ip[proc[q].host] /\ proc[q].host \in Hosts
            /\ proc[q].addr \in Addresses
        BY <1>1, <4>1, ProcType DEF InstallsAsked, Fit, Steps
      <4>3. proc[q].host \in WorksOn(q)
        BY <4>1, <4>2 DEF WorksOn
      <4>4. CASE proc[q].host # g
        BY <1>10, <4>1, <4>2, <4>4
      <4>5. CASE proc[q].host = g
        <5>1. c.step # "interface"
          BY <1>1, <1>2, <4>2, <4>5 DEF InstallsAsked
        <5>2. c.step # "plugin"
          BY <1>1, <1>7, <3>2, <4>3, <4>5 DEF RemovesAlone, Removing
        <5> QED
          BY <1>9, <4>1, <4>2, <5>1, <5>2
      <4> QED
        BY <4>4, <4>5
    <3> QED
      BY <3>1, <3>2
  <2>4. ASSUME NEW q \in Slots, NEW h \in Hosts, Gone(q, h, "interface")'
        PROVE  ip'[h] = None
    <3>1. CASE q = p
      <4>1. CASE Gone(p, h, "interface")
        <5>1. ip[h] = None /\ c.step = "plugin"
          BY <1>1, <4>1 DEF InstallsAsked, Gone, On
        <5> QED
          BY <1>2, <1>9, <5>1
      <4>2. CASE c.step = "plugin" /\ g = h /\ plugins[c.k] = "interface"
        BY <1>2, <1>9, <4>2
      <4> QED
        BY <1>5, <2>4, <3>1, <4>1, <4>2
    <3>2. CASE q # p
      <4>1. proc'[q] = proc[q]
        BY <1>4, <3>2
      <4>2. Gone(q, h, "interface")
        BY <2>4, <4>1 DEF Gone, On
      <4>3. ip[h] = None /\ Removing(q) /\ h \in WorksOn(q)
        BY <1>1, <4>2 DEF InstallsAsked, Gone, On, Removing, WorksOn
      <4>4. h # g \/ c.step # "interface"
        BY <1>1, <1>7, <3>2, <4>3 DEF RemovesAlone
      <4> QED
        BY <1>2, <1>9, <4>3, <4>4
    <3> QED
      BY <3>1, <3>2
  <2> QED
    BY <1>1, <2>1, <2>2, <2>3, <2>4 DEF InstallsAsked
<1>12. FilesAsked'
  <2>1. \A h \in Hosts \ nodes' : ip'[h] = None /\ Calm(h)'
    <3> SUFFICES ASSUME NEW h \in Hosts, h \notin nodes'
                 PROVE  ip'[h] = None /\ Calm(h)'
      OBVIOUS
    <3>1. CASE h \notin nodes
      <4>1. ip[h] = None /\ Calm(h)
        BY <1>1, <3>1 DEF FilesAsked
      <4>2. Calm(h)'
        BY <1>4, <4>1 DEF Calm
      <4>3. h # g \/ c.step = "next"
        BY <1>7, <3>1
      <4> QED
        BY <1>2, <1>9, <4>1, <4>2, <4>3
    <3>2. CASE h \in nodes
      <4>1. Plugin(p) /\ plugins[c.k] = "host" /\ h = g /\ ip' = ip
        BY <3>2 DEF Work, NextHost, Insert, Update, Report, Shell, Sync, Interface, Plugin, Unlink
      <4>2. c.step = "plugin" /\ Removing(p)
        BY <4>1 DEF Plugin, Removing
      <4>3. plugins # <<>> /\ c.k \in 1 .. Len(plugins)
        BY <1>3, <4>2 DEF Fit
      <4>4. plugins \in Seq(Nodes) /\ DOMAIN plugins = 1 .. Len(plugins)
        BY <4>3 DEF RemovalOrder
      <4>5. c.k = Len(plugins)
        BY <4>1, <4>3, <4>4 DEF RemovalOrder
      <4>6. Moves(p, Idle)
        BY <4>1, <4>5, WorkMoves
      <4>7. d.step = "idle"
        BY <4>6, MovesType DEF Idle
      <4>8. Calm(h)'
        <5>1. h \notin WorksOn(p)'
          BY <4>7 DEF WorksOn
        <5>2. \A q \in Slots \ {p} : h \notin WorksOn(q)
          BY <1>1, <1>7, <4>1, <4>2 DEF RemovesAlone
        <5> QED
          BY <1>4, <5>1, <5>2 DEF Calm
      <4>9. Gone(p, h, "interface")
        <5>1. PICK i \in DOMAIN plugins, j \in DOMAIN plugins :
                  i < j /\ plugins[i] = "boot" /\ plugins[j] = "interface"
          BY <4>3 DEF RemovalOrder
        <5>2. j # c.k
          BY <4>1, <5>1
        <5>3. j \in 1 .. c.k - 1
          BY <4>3, <4>4, <4>5, <5>1, <5>2
        <5> QED
          BY <4>1, <4>2, <5>1, <5>3 DEF Gone, On
      <4> QED
        BY <1>1, <4>1, <4>8, <4>9 DEF InstallsAsked
    <3> QED
      BY <3>1, <3>2
  <2>2. \A f, h \in Hosts : ip'[f] = ip'[h] /\ ip'[f] # None => f = h
    <3>1. \A f, h \in Hosts : ip[f] = ip[h] /\ ip[f] # None => f = h
      BY <1>1 DEF FilesAsked
    <3>2. CASE ip' = ip
      BY <3>1, <3>2
    <3>3. CASE ip' = [ip EXCEPT ![g] = None]
      BY <1>2, <3>1, <3>3
    <3>4. ASSUME NEW a \in Addresses \ {ip[h] : h \in Hosts}, ip' = [ip EXCEPT ![g] = a]
          PROVE  \A f, h \in Hosts : ip'[f] = ip'[h] /\ ip'[f] # None => f = h
      <4>1. \A h \in Hosts : ip[h] # a
        OBVIOUS
      <4>2. \A h \in Hosts : ip'[h] = IF h = g THEN a ELSE ip[h]
        BY <1>2, <3>4
      <4> QED
        BY <3>1, <4>1, <4>2
    <3> QED
      BY <1>9, <3>2, <3>3, <3>4
  <2>3. ASSUME NEW h \in nodes', ip'[h] # None, files'[ip'[h]] # None,
               files'[ip'[h]].kind = "install"
        PROVE  h \in asked' \/ proc'[h].step # "idle"
    <3>1. h \in Hosts /\ h \in nodes /\ h \in Slots
      BY <1>2, <1>6 DEF Slots
    <3>2. CASE Shell(p)
      <4> DEFINE f == [host |-> g, kind |-> Kind(c.action)]
      <4>1. ip' = ip /\ nodes' = nodes /\ asked' = asked
            /\ files' = [files EXCEPT ![c.addr] = f] /\ c.step = "shell"
        BY <3>2 DEF Shell
      <4>2. c.addr = ip[g] /\ ip[g] \in Addresses /\ g \in Hosts
        BY <1>1, <1>3, <1>7, <4>1 DEF InstallsAsked, Fit
      <4>3. CASE h = g
        <5>1. f.kind = "install"
          BY <1>2, <2>3, <4>1, <4>2, <4>3
        <5>2. c.action = "install"
          BY <5>1 DEF Kind
        <5>3. g \in asked
          BY <1>1, <1>6, <1>7, <4>1, <5>2 DEF InstallsAsked
        <5> QED
          BY <4>1, <4>3, <5>3
      <4>4. CASE h # g
        <5>1. ip[h] # ip[g]
          BY <1>1, <2>3, <3>1, <4>1, <4>2, <4>4 DEF FilesAsked
        <5>2. files'[ip[h]] = files[ip[h]]
          BY <1>2, <3>1, <4>1, <4>2, <5>1, <2>3
        <5>3. h \in asked \/ proc[h].step # "idle"
          BY <1>1, <2>3, <3>1, <4>1, <5>2 DEF FilesAsked
        <5>4. h # p \/ h \in asked
          <6>1. p \in Hosts => g = p
            BY <4>1 DEF CallsOK, CallOK
          <6> QED
            BY <3>1, <4>4, <6>1
        <5> QED
          BY <1>4, <3>1, <4>1, <5>3, <5>4
      <4> QED
        BY <4>3, <4>4
    <3>3. CASE ~ Shell(p) /\ h = g /\ c.step = "interface"
      BY <1>1, <1>6, <3>3 DEF InstallsAsked
    <3>4. CASE ~ Shell(p) /\ ~ (h = g /\ c.step = "interface")
      <4>1. ip'[h] = ip[h]
        BY <1>2, <1>9, <2>3, <3>1, <3>4
      <4>2. files'[ip[h]] = files[ip[h]] \/ files'[ip[h]] = None
        <5>1. ip[h] \in Addresses
          BY <1>2, <2>3, <3>1, <4>1
        <5>2. files' = files \/ \E x : files' = [files EXCEPT ![x] = None]
          BY <3>4 DEF Work, NextHost, Insert, Update, Report, Sync, Interface, Plugin, Unlink
        <5> QED
          BY <1>2, <5>1, <5>2
      <4>3. h \in asked \/ proc[h].step # "idle"
        BY <1>1, <2>3, <3>1, <4>1, <4>2 DEF FilesAsked
      <4>4. CASE h \in asked \/ h # p
        BY <1>4, <1>6, <3>1, <4>3, <4>4
      <4>5. CASE h = p /\ d.step = "idle"
        <5>1. /\ c.step \in {"next", "insert", "update", "report", "shell"}
              /\ c.step # "next" => c.left = {} /\ g = h
          BY <1>6, <3>1, <4>5 DEF CallsOK, CallOK
        <5>2. CASE NextHost(p)
          <6>1. PICK x \in c.left, s \in {"report", "insert", "update"} :
                   Moves(p, [c EXCEPT !.left = @ \ {x}, !.host = x, !.step = s])
            BY <5>2, WorkMoves
          <6>2. d = [c EXCEPT !.left = @ \ {x}, !.host = x, !.step = s]
            BY <6>1, MovesType
          <6> QED
            BY <1>3, <4>5, <6>2 DEF Command
        <5>3. CASE Insert(p) \/ Update(p)
          <6>1. Moves(p, [c EXCEPT !.step = "report"])
            BY <1>7, <5>3, WorkMoves DEF Insert
          <6>2. d = [c EXCEPT !.step = "report"]
            BY <6>1, MovesType
          <6> QED
            BY <1>3, <4>5, <6>2 DEF Command
        <5>4. CASE Report(p)
          <6>1. Moves(p, [c EXCEPT !.step = "shell", !.addr = ip[g]])
            BY <1>7, <2>3, <4>1, <5>1, <5>4, WorkMoves DEF Report
          <6>2. d = [c EXCEPT !.step = "shell", !.addr = ip[g]]
            BY <6>1, MovesType
          <6> QED
            BY <1>3, <4>5, <6>2 DEF Command
        <5> QED
          BY <3>4, <5>1, <5>2, <5>3, <5>4 DEF Work, Sync, Interface, Plugin, Unlink
      <4> QED
        BY <4>4, <4>5
    <3> QED
      BY <3>2, <3>3, <3>4
  <2> QED
    BY <2>1, <2>2, <2>3 DEF FilesAsked
<1> QED
  BY <1>8, <1>11, <1>12

(* A command begins, and still nobody works on a host that is removed. *)
LEMMA UndisturbedAtBegin ==
    ASSUME StepsOK, Undisturbed, ~ stray',
           NEW p \in Slots, NEW hs \in SUBSET Hosts, NEW c \in Command, NEW r \in BOOLEAN,
           Begin(p, hs, c, r), Moves(p, c), plugins' = plugins, HostsOf(c) = hs,
           UNCHANGED <<ip, files>>, nodes \subseteq nodes', hs \subseteq nodes', nodes' \subseteq Hosts,
           \/ c.step \in {"next", "sync"}
           \/ c.step = "plugin" /\ r /\ c.k = 1
           \/ /\ c.step = "interface" /\ c.host \in asked' /\ c.host \in Hosts \ nodes
              /\ \A q \in Slots : proc[q].step # "interface",
           c.action = "install" => hs \subseteq asked',
           \A h \in asked : \/ h \in asked'
                            \/ p = h /\ \A q \in Slots : ToInstall(q) => h \notin WorksOn(q)
    PROVE  RemovesAlone' /\ InstallsAsked' /\ FilesAsked'
<1>1. /\ WorksOn(p) = {} /\ WorksOn(p)' \subseteq hs
      /\ proc'[p] = c /\ \A q \in Slots \ {p} : proc'[q] = proc[q]
      /\ \A q \in Slots \ {p} : WorksOn(q)' = WorksOn(q)
  BY BeginsAlone
<1>2. RemovesAlone /\ InstallsAsked /\ FilesAsked
  BY DEF Begin, Undisturbed
<1>3. \A q \in Slots : WorksOn(q) \cap hs # {} => ~ r /\ ~ Removing(q)
  BY DEF Begin
<1>4. c.step # "idle"
  OBVIOUS
<1>5. RemovesAlone'
  <2> SUFFICES ASSUME NEW q \in Slots, NEW s \in Slots, NEW h \in Hosts,
                      Removing(q)', h \in WorksOn(q)', h \in WorksOn(s)', q # s
               PROVE  FALSE
    BY DEF RemovesAlone
  <2>1. CASE q # p /\ s # p
    BY <1>1, <1>2, <2>1 DEF RemovesAlone, Removing
  <2>2. CASE q = p
    <3>1. r /\ h \in hs /\ h \in WorksOn(s)
      BY <1>1, <2>2 DEF Removing
    <3> QED
      BY <1>3, <3>1
  <2>3. CASE s = p
    <3>1. Removing(q) /\ h \in hs /\ h \in WorksOn(q)
      BY <1>1, <2>3 DEF Removing
    <3> QED
      BY <1>3, <3>1
  <2> QED
    BY <2>1, <2>2, <2>3
<1>6. InstallsAsked'
  <2>1. ASSUME NEW q \in Slots, proc'[q].step # "idle", proc'[q].action = "install"
        PROVE  WorksOn(q)' \subseteq asked'
    <3>1. CASE q = p
      BY <1>1, <2>1, <3>1
    <3>2. CASE q # p
      <4>1. ToInstall(q) /\ WorksOn(q) \subseteq asked /\ WorksOn(q)' = WorksOn(q)
        BY <1>1, <1>2, <2>1, <3>2 DEF InstallsAsked, ToInstall
      <4> QED
        BY <4>1
    <3> QED
      BY <3>1, <3>2
  <2>2. ASSUME NEW q \in Slots, proc'[q].step = "interface"
        PROVE  /\ proc'[q].host \in asked' /\ ip'[proc'[q].host] = None
               /\ \A s \in Slots : proc'[s].step = "interface" => s = q
    <3>1. CASE q = p
      BY <1>1, <1>2, <2>2, <3>1 DEF FilesAsked
    <3>2. CASE q # p
      <4>1. /\ proc'[q] = proc[q] /\ proc[q].step = "interface"
            /\ proc[q].host \in asked /\ ip[proc[q].host] = None
            /\ proc[q].host \in Hosts
        BY <1>1, <1>2, <2>2, <3>2, ProcType DEF InstallsAsked, Fit, Steps
      <4>2. c.step # "interface"
        BY <4>1
      <4>3. ToInstall(q) /\ proc[q].host \in WorksOn(q)
        BY <4>1 DEF ToInstall, WorksOn
      <4> QED
        BY <1>1, <1>2, <4>1, <4>2, <4>3 DEF InstallsAsked
    <3> QED
      BY <3>1, <3>2
  <2>3. \A q \in Slots : proc'[q].step = "shell" => proc'[q].addr = ip'[proc'[q].host]
    BY <1>1, <1>2 DEF InstallsAsked
  <2>4. \A q \in Slots : \A h \in Hosts : Gone(q, h, "interface")' => ip'[h] = None
    <3>1. ~ \E j \in 1 .. 1 - 1 : plugins[j] = "interface"
      OBVIOUS
    <3>2. \A h : ~ Gone(p, h, "interface")'
      BY <1>1, <3>1 DEF Gone, On
    <3>3. \A q \in Slots \ {p} : \A h \in Hosts :
              Gone(q, h, "interface")' => Gone(q, h, "interface")
      BY <1>1 DEF Gone, On
    <3> QED
      BY <1>2, <3>2, <3>3 DEF InstallsAsked
  <2> QED
    BY <2>1, <2>2, <2>3, <2>4 DEF InstallsAsked
<1>7. FilesAsked'
  <2>1. \A h \in Hosts \ nodes' : ip'[h] = None /\ Calm(h)'
    <3> SUFFICES ASSUME NEW h \in Hosts \ nodes' PROVE ip'[h] = None /\ Calm(h)'
      OBVIOUS
    <3>1. ip[h] = None /\ Calm(h)
      BY <1>2 DEF FilesAsked
    <3>2. h \notin hs
      OBVIOUS
    <3> QED
      BY <1>1, <3>1, <3>2 DEF Calm
  <2>2. \A g, h \in Hosts : ip'[g] = ip'[h] /\ ip'[g] # None => g = h
    BY <1>2 DEF FilesAsked
  <2>3. ASSUME NEW h \in nodes', ip'[h] # None, files'[ip'[h]] # None,
               files'[ip'[h]].kind = "install", h \in Hosts
        PROVE  h \in asked' \/ proc'[h].step # "idle"
    <3>1. h \in nodes /\ h \in Slots
      BY <1>2, <2>3 DEF FilesAsked, Slots
    <3>2. h \in asked \/ proc[h].step # "idle"
      BY <1>2, <2>3, <3>1 DEF FilesAsked
    <3> QED
      BY <1>1, <1>4, <3>1, <3>2
  <2> QED
    BY <2>1, <2>2, <2>3 DEF FilesAsked
<1> QED
  BY <1>5, <1>6, <1>7

LEMMA UndisturbedKept ==
    ASSUME StepsOK, RemovalOrder, CallsOK, Undisturbed, [BootNext]_bootVars
    PROVE  Undisturbed'
<1> SUFFICES ASSUME ~ stray' PROVE RemovesAlone' /\ InstallsAsked' /\ FilesAsked'
  BY DEF Undisturbed
<1>1. nodes \subseteq Hosts
  BY DEF StepsOK, HostTypeOK
<1>2. ASSUME UNCHANGED <<proc, stray, nodes, ip, files, asked>>,
             \/ plugins' = plugins
             \/ \A p \in Slots : proc[p].step = "idle"
      PROVE  RemovesAlone' /\ InstallsAsked' /\ FilesAsked'
  <2>1. RemovesAlone /\ InstallsAsked /\ FilesAsked
    BY <1>2 DEF Undisturbed
  <2>2. RemovesAlone' /\ FilesAsked'
    BY <1>2, <2>1 DEF RemovesAlone, FilesAsked, Removing, WorksOn, Calm
  <2>3. \A p \in Slots, h \in Hosts : Gone(p, h, "interface")' => Gone(p, h, "interface")
    BY <1>2 DEF Gone, On
  <2>4. InstallsAsked'
    BY <1>2, <2>1, <2>3 DEF InstallsAsked, WorksOn
  <2> QED
    BY <2>2, <2>4
<1>3. CASE LoadPlugins /\ UNCHANGED hostVars
  <2>1. plugins # <<>> => plugins' = plugins
    BY <1>3 DEF LoadPlugins, Load
  <2>2. plugins = <<>> => \A p \in Slots : proc[p].step = "idle"
    BY ProcType DEF Fit
  <2> QED
    BY <1>2, <1>3, <2>1, <2>2 DEF hostVars
<1>4. ASSUME NEW p \in Slots, Work(p), plugins' = plugins
      PROVE  RemovesAlone' /\ InstallsAsked' /\ FilesAsked'
  <2>1. ~ stray
    BY <1>4, WorkType DEF Quiet
  <2> QED
    BY <1>4, <2>1, UndisturbedAtWork
<1>5. ASSUME Commands, plugins' = plugins
      PROVE  RemovesAlone' /\ InstallsAsked' /\ FilesAsked'
  <2>1. ASSUME NEW p \in Processes, NEW hs \in SUBSET nodes, NEW action \in Actions,
               SetBoot(p, hs, action)
        PROVE  RemovesAlone' /\ InstallsAsked' /\ FilesAsked'
    <3> DEFINE c == Booting(hs, action)
    <3>1. p \in Slots /\ hs \in SUBSET Hosts /\ Moves(p, c) /\ c \in Command
      BY <1>1, <2>1, BeginMoves DEF Slots, Moves
    <3>2. Begin(p, hs, c, FALSE) /\ UNCHANGED <<nodes, ip, files>>
      BY <2>1 DEF SetBoot, Booting
    <3>3. HostsOf(c) = hs /\ c.step = "next" /\ c.action = action
      BY HostAssumption DEF Booting, Idle, HostsOf
    <3>4. asked \subseteq asked' /\ (c.action = "install" => hs \subseteq asked')
      BY <2>1, <3>3 DEF SetBoot
    <3> HIDE DEF c
    <3> QED
      BY <1>1, <1>5, <3>1, <3>2, <3>3, <3>4, UndisturbedAtBegin
  <2>2. ASSUME NEW p \in Processes, NEW h \in nodes, RemoveHost(p, h)
        PROVE  RemovesAlone' /\ InstallsAsked' /\ FilesAsked'
    <3> DEFINE c == Removal(h)
    <3>1. p \in Slots /\ {h} \in SUBSET Hosts /\ Moves(p, c) /\ c \in Command
      BY <1>1, <2>2, BeginMoves DEF Slots, Moves
    <3>2. Begin(p, {h}, c, TRUE) /\ UNCHANGED <<nodes, ip, files, asked>>
      BY <2>2 DEF RemoveHost, Removal
    <3>3. HostsOf(c) = {h} /\ c.step = "plugin" /\ c.k = 1 /\ c.action = "none"
      BY <3>1 DEF Removal, Idle, HostsOf
    <3> HIDE DEF c
    <3> QED
      BY <1>1, <1>5, <3>1, <3>2, <3>3, UndisturbedAtBegin
  <2>3. ASSUME NEW p \in Processes, NEW h \in Hosts, AddHost(p, h)
        PROVE  RemovesAlone' /\ InstallsAsked' /\ FilesAsked'
    <3> DEFINE c == Addition(h)
    <3>1. p \in Slots /\ Moves(p, c) /\ c \in Command
      BY <2>3, BeginMoves DEF Slots, Moves
    <3>2. /\ Begin(p, {h}, c, FALSE) /\ UNCHANGED <<ip, files>>
          /\ nodes' = nodes \cup {h} /\ asked' = asked \cup {h} /\ h \notin nodes
          /\ \A q \in Slots : proc[q].step # "interface"
      BY <2>3 DEF AddHost, Addition
    <3>3. /\ HostsOf(c) = {h} /\ c.step = "interface" /\ c.host = h /\ c.action = "none"
      BY DEF Addition, Idle, HostsOf
    <3> HIDE DEF c
    <3> QED
      BY <1>1, <1>5, <3>1, <3>2, <3>3, UndisturbedAtBegin
  <2>4. ASSUME NEW p \in Processes, NEW h \in nodes, SyncHost(p, h)
        PROVE  RemovesAlone' /\ InstallsAsked' /\ FilesAsked'
    <3> DEFINE c == Syncing(h)
    <3>1. p \in Slots /\ {h} \in SUBSET Hosts /\ Moves(p, c) /\ c \in Command
      BY <1>1, <2>4, BeginMoves DEF Slots, Moves
    <3>2. Begin(p, {h}, c, FALSE) /\ UNCHANGED <<nodes, ip, files>> /\ asked \subseteq asked'
      BY <2>4 DEF SyncHost, Syncing
    <3>3. HostsOf(c) = {h} /\ c.step = "sync" /\ c.action = "none"
      BY <3>1 DEF Syncing, Idle, HostsOf
    <3> HIDE DEF c
    <3> QED
      BY <1>1, <1>5, <3>1, <3>2, <3>3, UndisturbedAtBegin
  <2>5. /\ \A h \in nodes : {h} \in SUBSET nodes
        /\ nodes \in SUBSET nodes /\ {"install", "os", "none"} \subseteq Actions
    BY DEF Actions
  <2> QED
    BY <1>5, <2>1, <2>2, <2>3, <2>4, <2>5 DEF Commands
<1>6. ASSUME NEW h \in Hosts, Call(h), plugins' = plugins
      PROVE  RemovesAlone' /\ InstallsAsked' /\ FilesAsked'
  <2> DEFINE c == Booting({h}, "os")
  <2>1. h \in Slots /\ Moves(h, c) /\ c \in Command
    BY <1>6, BeginMoves DEF Slots, Moves
  <2>2. Begin(h, {h}, c, FALSE) /\ UNCHANGED <<nodes, ip, files>> /\ h \in nodes
    BY <1>6 DEF Call, Booting, Same, HasAddress
  <2>3. HostsOf(c) = {h} /\ c.step = "next" /\ c.action = "os"
    BY HostAssumption DEF Booting, Idle, HostsOf
  <2>4. \A g \in asked : \/ g \in asked'
                         \/ g = h /\ \A q \in Slots : ToInstall(q) => g \notin WorksOn(q)
    BY <1>6 DEF Call
  <2> HIDE DEF c
  <2> QED
    BY <1>1, <1>6, <2>1, <2>2, <2>3, <2>4, UndisturbedAtBegin
<1>7. ASSUME NEW h \in Hosts, Boot(h) \/ Restart(h) \/ Answered(h) \/ CallLost(h),
             plugins' = plugins
      PROVE  RemovesAlone' /\ InstallsAsked' /\ FilesAsked'
  BY <1>2, <1>7 DEF Boot, Restart, Answered, CallLost, Same
<1>8. CASE UNCHANGED bootVars
  BY <1>2, <1>8 DEF bootVars, hostVars
<1> QED
  BY <1>3, <1>4, <1>5, <1>6, <1>7, <1>8 DEF BootNext, Machine

LEMMA UndisturbedCorrect == BootSpec => []Undisturbed
<1>1. BootInit => Undisturbed
  <2> SUFFICES ASSUME BootInit PROVE RemovesAlone /\ InstallsAsked /\ FilesAsked
    BY DEF Undisturbed
  <2>1. PICK a \in Addresses :
        /\ nodes = {First}
        /\ ip = [h \in Hosts |-> IF h = First THEN a ELSE None]
        /\ files = [x \in Addresses |->
                       IF x = a THEN [host |-> First, kind |-> "run"] ELSE None]
        /\ proc = [s \in Slots |-> Idle] /\ asked = {}
    BY DEF BootInit, HostInit
  <2>2. \A p \in Slots : proc[p].step = "idle" /\ WorksOn(p) = {}
    BY <2>1 DEF Idle, WorksOn
  <2>3. RemovesAlone /\ InstallsAsked
    BY <2>2 DEF RemovesAlone, InstallsAsked, Gone, On
  <2>4. \A h \in Hosts : ip[h] = IF h = First THEN a ELSE None
    BY <2>1
  <2>5. files[a].kind = "run" /\ First \in Hosts
    BY <2>1, HostAssumption
  <2>6. FilesAsked
    BY <2>1, <2>2, <2>4, <2>5 DEF FilesAsked, Calm
  <2> QED
    BY <2>3, <2>6
<1>2. StepsOK /\ RemovalOrder /\ CallsOK /\ Undisturbed /\ [BootNext]_bootVars => Undisturbed'
  BY UndisturbedKept
<1> QED
  BY <1>1, <1>2, StepsOKCorrect, RemovalOrderCorrect, CallsCorrect, PTL DEF BootSpec

(* As long as nobody works on a host while it is removed, no machine begins *)
(* an installation that nobody asked for since its last one: its file says  *)
(* install only if it was, or while it is reporting the end of one.         *)
THEOREM NoUnaskedInstallCorrect == BootSpec => NoUnaskedInstall
<1>1. /\ StepsOK /\ RemovalOrder /\ CallsOK /\ Undisturbed /\ [BootNext]_bootVars
      => [~ stray =>
             \A h \in Hosts : mach[h] # "installing" /\ mach'[h] = "installing" =>
                 h \in asked]_bootVars
  <2> SUFFICES ASSUME StepsOK, CallsOK, Undisturbed, BootNext, ~ stray,
                      NEW h \in Hosts, mach[h] # "installing", mach'[h] = "installing"
               PROVE  h \in asked
    OBVIOUS
  <2>1. mach \in [Hosts -> {"down", "up", "installing", "calling"}]
    BY DEF StepsOK, HostTypeOK
  <2>2. mach' # mach
    OBVIOUS
  <2>3. \A p \in Slots : ~ Work(p)
    BY <2>2 DEF Work, NextHost, Insert, Update, Report, Shell, Sync, Interface,
                Plugin, Unlink, Quiet
  <2>4. ~ Commands
    BY <2>2 DEF Commands, SetBoot, RemoveHost, AddHost, SyncHost
  <2>5. PICK g \in Hosts : Machine(g) \/ Restart(g)
    BY <2>2, <2>3, <2>4 DEF BootNext, hostVars
  <2>6. g = h /\ Boot(h)
    BY <2>1, <2>5 DEF Machine, Boot, Restart, Call, Answered, CallLost
  <2>7. /\ mach[h] = "down" /\ HasAddress(h)
        /\ files[ip[h]] # None /\ files[ip[h]].kind = "install"
    BY <2>1, <2>6 DEF Boot
  <2>8. proc[h].step = "idle"
    BY <2>7 DEF CallsOK, CallOK
  <2> QED
    BY <2>7, <2>8 DEF Undisturbed, FilesAsked, HasAddress
<1> QED
  BY <1>1, StepsOKCorrect, RemovalOrderCorrect, CallsCorrect, UndisturbedCorrect, PTL
     DEF BootSpec, NoUnaskedInstall
-----------------------------------------------------------------------------
(* The list that is put together from the lists at the places of a graph. *)

(* Whoever is in a set with 0 and with the follower of each is every number. *)
LEMMA UpTo ==
    ASSUME NEW N \in Nat, NEW P, 1 \in P, \A n \in 2 .. N : n - 1 \in P => n \in P
    PROVE  1 .. N \subseteq P
<1> DEFINE T == (1 .. N) \ P
<1>1. CASE T = {}
  BY <1>1
<1>2. CASE T # {}
  <2>1. T \in SUBSET Nat
    OBVIOUS
  <2>2. PICK n \in T : \A m \in T : n <= m
    <3> HIDE DEF T
    <3> QED
      BY <1>2, <2>1, LeastExists
  <2>3. n \in 2 .. N /\ n - 1 \in 1 .. N
    BY <2>2
  <2> QED
    BY <2>2, <2>3
<1> QED
  BY <1>1, <1>2

(* All members of the sequence s are related as they come. *)
Ascending(s, R) == \A i, j \in DOMAIN s : i < j => <<s[i], s[j]>> \in R

(* Two sequences, the second of which comes after the first. *)
LEMMA Joined ==
    ASSUME NEW A, NEW s \in Seq(A), NEW t \in Seq(A), NEW R,
           Ascending(s, R), Ascending(t, R),
           \A x \in ToSet(s), y \in ToSet(t) : <<x, y>> \in R
    PROVE  /\ s \o t \in Seq(A) /\ ToSet(s \o t) = ToSet(s) \cup ToSet(t)
           /\ Ascending(s \o t, R)
<1> DEFINE u == s \o t
<1>1. /\ u \in Seq(A) /\ Len(u) = Len(s) + Len(t) /\ Len(s) \in Nat /\ Len(t) \in Nat
      /\ \A i \in 1 .. Len(u) : u[i] = IF i <= Len(s) THEN s[i] ELSE t[i - Len(s)]
  BY ConcatProperties
<1> HIDE DEF u
<1>2. /\ DOMAIN u = 1 .. Len(s) + Len(t) /\ DOMAIN s = 1 .. Len(s)
      /\ DOMAIN t = 1 .. Len(t)
  BY <1>1
<1>3. ASSUME NEW i \in DOMAIN u
      PROVE  \/ i \in DOMAIN s /\ u[i] = s[i]
             \/ i > Len(s) /\ i - Len(s) \in DOMAIN t /\ u[i] = t[i - Len(s)]
  BY <1>1, <1>2
<1>4. ToSet(u) \subseteq ToSet(s) \cup ToSet(t)
  BY <1>3 DEF ToSet
<1>5. ASSUME NEW i \in DOMAIN s PROVE i \in DOMAIN u /\ u[i] = s[i]
  BY <1>1, <1>2
<1>6. ASSUME NEW i \in DOMAIN t PROVE i + Len(s) \in DOMAIN u /\ u[i + Len(s)] = t[i]
  BY <1>1, <1>2
<1>7. ToSet(s) \cup ToSet(t) \subseteq ToSet(u)
  BY <1>5, <1>6 DEF ToSet
<1>8. ASSUME NEW i \in DOMAIN u, NEW j \in DOMAIN u, i < j PROVE <<u[i], u[j]>> \in R
  <2>1. CASE j \in DOMAIN s
    BY <1>2, <1>5, <1>8, <2>1 DEF Ascending
  <2>2. CASE j \notin DOMAIN s /\ i \in DOMAIN s
    BY <1>3, <1>5, <2>2 DEF ToSet
  <2>3. CASE j \notin DOMAIN s /\ i \notin DOMAIN s
    <3>1. /\ i - Len(s) \in DOMAIN t /\ u[i] = t[i - Len(s)]
          /\ j - Len(s) \in DOMAIN t /\ u[j] = t[j - Len(s)]
      BY <1>3, <2>3
    <3>2. i - Len(s) < j - Len(s)
      BY <1>1, <1>2, <1>8
    <3> QED
      BY <3>1, <3>2 DEF Ascending
  <2> QED
    BY <2>1, <2>2, <2>3
<1> QED
  BY <1>1, <1>4, <1>7, <1>8 DEF u, Ascending

(* A sequence of sequences each of which comes after those before it. *)
LEMMA Flattened ==
    ASSUME NEW A, NEW N \in Nat, NEW seqs \in [1 .. N -> Seq(A)], NEW R,
           \A i \in 1 .. N : Ascending(seqs[i], R),
           \A i, j \in 1 .. N : i < j =>
               \A x \in ToSet(seqs[i]), y \in ToSet(seqs[j]) : <<x, y>> \in R
    PROVE  /\ FlattenSeq(seqs) \in Seq(A) /\ Ascending(FlattenSeq(seqs), R)
           /\ ToSet(FlattenSeq(seqs)) = UNION {ToSet(seqs[i]) : i \in 1 .. N}
<1>1. Len(seqs) = N /\ seqs \in Seq(Seq(A))
  OBVIOUS
<1>2. CASE N = 0
  <2>1. seqs = <<>>
    BY <1>2
  <2>2. FlattenSeq(seqs) = <<>>
    BY <1>1, <1>2, <2>1 DEF FlattenSeq
  <2> QED
    BY <1>2, <2>2 DEF Ascending, ToSet
<1>3. CASE N > 0
  <2> DEFINE body(g) == [i \in 1 .. N |-> IF i = 1 THEN seqs[i] ELSE g[i - 1] \o seqs[i]]
             flat == CHOOSE g : g = body(g)
             Of(n) == UNION {ToSet(seqs[i]) : i \in 1 .. n}
             Right(n, s) == s \in Seq(A) /\ Ascending(s, R) /\ ToSet(s) = Of(n)
             Upto(n, f) == \A i \in 1 .. n : f[i] = IF i = 1 THEN seqs[i] ELSE f[i - 1] \o seqs[i]
             P == {n \in 1 .. N : \E f : f = [i \in 1 .. n |-> f[i]] /\ Upto(n, f)}
  <2>1. FlattenSeq(seqs) = flat[N]
    BY <1>1, <1>3 DEF FlattenSeq
  <2>2. 1 \in P
    <3> DEFINE f == [i \in 1 .. 1 |-> seqs[1]]
    <3>1. f = [i \in 1 .. 1 |-> f[i]] /\ Upto(1, f)
      OBVIOUS
    <3> HIDE DEF f, Upto
    <3> QED
      BY <1>3, <3>1
  <2>3. ASSUME NEW n \in 2 .. N, n - 1 \in P PROVE n \in P
    <3>1. PICK f : f = [i \in 1 .. n - 1 |-> f[i]] /\ Upto(n - 1, f)
      BY <2>3
    <3> DEFINE h == [i \in 1 .. n |-> IF i = n THEN f[n - 1] \o seqs[n] ELSE f[i]]
    <3>2. h = [i \in 1 .. n |-> h[i]]
      OBVIOUS
    <3>3. h[n - 1] = f[n - 1]
      OBVIOUS
    <3>4. ASSUME NEW i \in 1 .. n
          PROVE  h[i] = IF i = 1 THEN seqs[i] ELSE h[i - 1] \o seqs[i]
      <4>1. CASE i = n
        <5>1. n # 1 /\ n \in 1 .. n
          OBVIOUS
        <5>2. h[n] = f[n - 1] \o seqs[n]
          BY <5>1
        <5> HIDE DEF h
        <5> QED
          BY <3>3, <4>1, <5>1, <5>2
      <4>2. CASE i # n
        <5>1. i \in 1 .. n - 1 /\ (i # 1 => i - 1 \in 1 .. n - 1)
          BY <4>2
        <5>2. f[i] = IF i = 1 THEN seqs[i] ELSE f[i - 1] \o seqs[i]
          BY <3>1, <5>1
        <5>3. h[i] = f[i] /\ (i # 1 => h[i - 1] = f[i - 1])
          BY <4>2, <5>1
        <5> QED
          BY <5>2, <5>3
      <4> QED
        BY <4>1, <4>2
    <3> HIDE DEF h
    <3>5. Upto(n, h)
      BY <3>4
    <3> HIDE DEF Upto
    <3> QED
      BY <3>2, <3>5
  <2>4. PICK f : f = [i \in 1 .. N |-> f[i]] /\ Upto(N, f)
    <3> HIDE DEF P
    <3>1. 1 .. N \subseteq P
      BY <2>2, <2>3, UpTo
    <3>2. N \in 1 .. N
      BY <1>3
    <3> QED
      BY <3>1, <3>2 DEF P
  <2>5. f = body(f)
    BY <2>4
  <2>6. flat = body(flat)
    <3> HIDE DEF body
    <3> QED
      BY <2>5
  <2> HIDE DEF flat
  <2>7. \A i \in 1 .. N : flat[i] = IF i = 1 THEN seqs[i] ELSE flat[i - 1] \o seqs[i]
    BY <2>6
  <2> DEFINE Q == {n \in 1 .. N : Right(n, flat[n])}
  <2>8. 1 \in Q
    BY <1>3, <2>7
  <2>9. ASSUME NEW n \in 2 .. N, n - 1 \in Q PROVE n \in Q
    <3>0. n \in 1 .. N /\ n # 1
      OBVIOUS
    <3>1. flat[n] = flat[n - 1] \o seqs[n]
      BY <2>7, <3>0
    <3>2. Right(n - 1, flat[n - 1])
      BY <2>9
    <3>3. ASSUME NEW x \in ToSet(flat[n - 1]), NEW y \in ToSet(seqs[n])
          PROVE  <<x, y>> \in R
      <4>1. PICK i \in 1 .. n - 1 : x \in ToSet(seqs[i])
        BY <3>2
      <4>2. i \in 1 .. N /\ i < n
        OBVIOUS
      <4> QED
        BY <3>0, <4>1, <4>2
    <3>4. /\ flat[n] \in Seq(A) /\ ToSet(flat[n]) = ToSet(flat[n - 1]) \cup ToSet(seqs[n])
          /\ Ascending(flat[n], R)
      <4>1. seqs[n] \in Seq(A) /\ Ascending(seqs[n], R)
        BY <3>0
      <4>2. flat[n - 1] \in Seq(A) /\ Ascending(flat[n - 1], R)
        BY <3>2
      <4> HIDE DEF Right
      <4> QED
        BY <3>1, <3>3, <4>1, <4>2, Joined
    <3>5. Of(n) = Of(n - 1) \cup ToSet(seqs[n])
      <4>1. \A i \in 1 .. n : i \in 1 .. n - 1 \/ i = n
        OBVIOUS
      <4>2. \A i \in 1 .. n - 1 : i \in 1 .. n
        OBVIOUS
      <4> QED
        BY <4>1, <4>2
    <3> QED
      BY <3>2, <3>4, <3>5
  <2>10. Right(N, flat[N])
    <3> HIDE DEF Q
    <3>1. 1 .. N \subseteq Q
      BY <2>8, <2>9, UpTo
    <3>2. N \in 1 .. N
      BY <1>3
    <3> QED
      BY <3>1, <3>2 DEF Q
  <2> QED
    BY <2>1, <2>10
<1> QED
  BY <1>2, <1>3
-----------------------------------------------------------------------------
(* What the passes of list node xml mark, find and leave. *)

Begun == IF pass = "done" THEN Roots ELSE Starts

In(g, n) == \E e \in g : n \in {e.parent, e.child}

(* The order graph with the edges from HEAD, and with those to TAIL. *)
HeadOf(g) == {n \in Nodes : /\ In(g, n) /\ \A e \in g : e.child # n
                            /\ ~ Leads(g, n, HEAD)}
WithHead(g) == g \cup {OrderEdge(HEAD, n) : n \in HeadOf(g)}

TailOf(g) == {n \in Nodes : /\ In(g, n) /\ \A e \in g : e.parent # n
                            /\ ~ Leads(g, TAIL, n)}
WithTail(g) == g \cup {OrderEdge(n, TAIL) : n \in TailOf(g)}

Shape ==
    /\ pass = "framework" => edges = main
    /\ pass = "head" => edges = Reversed(orders)
    /\ pass = "tail" => edges = WithHead(orders)
    /\ pass \in {"final", "done"} => edges = WithTail(WithHead(orders))

(* Where a pass began leads to what it has seen, and what a seen node is    *)
(* labelled with is on an edge from another one.                            *)
Marked ==
    \A n \in Nodes : seen[n] # 0 =>
        /\ \E r \in Begun : Reaches(r, n)
        /\ \/ n \in Begun /\ label[n] = NoLabel
           \/ \E e \in edges : e.child = n /\ seen[e.parent] # 0 /\ label[n] = e.label

(* What the framework found is what the appliance's node leads to. *)
FoundFrom ==
    pass \notin {"framework", "failed"} => \A n \in Nodes :
        /\ found[n] # Absent <=> Leads(main, Root, n)
        /\ found[n] # Absent /\ n # Root =>
              \E e \in main : /\ e.child = n /\ Leads(main, Root, e.parent)
                              /\ found[n] = e.label

Put == pass = "done" => Done /\ listed = Merged

LEMMA LeadsOn ==
    ASSUME NEW g \in SUBSET Edge, NEW m \in Nodes
    PROVE  /\ Leads(g, m, m)
           /\ \A e \in g : Leads(g, m, e.parent) => Leads(g, m, e.child)
           /\ \A n, k \in Nodes : Leads(g, m, n) /\ Leads(g, n, k) => Leads(g, m, k)
           /\ \A h \in SUBSET g : \A n \in Nodes : Leads(h, m, n) => Leads(g, m, n)
BY DEF Leads, Over, Edge

(* A path of the reversed graph is one of the graph, backwards. *)
LEMMA LeadsBack ==
    ASSUME NEW g \in SUBSET Edge, NEW m \in Nodes, NEW n \in Nodes
    PROVE  Leads(Reversed(g), m, n) <=> Leads(g, n, m)
<1>1. ASSUME NEW S \in SUBSET Nodes
      PROVE  Over(Reversed(g), S) <=> Over(g, Nodes \ S)
  <2> DEFINE back(e) == [e EXCEPT !.parent = e.child, !.child = e.parent]
  <2>1. ASSUME NEW e \in g
        PROVE  /\ back(e) \in Reversed(g) /\ back(e).parent = e.child
               /\ back(e).child = e.parent /\ e.parent \in Nodes /\ e.child \in Nodes
    BY DEF Reversed, Edge
  <2>2. \A f \in Reversed(g) : \E e \in g : f = back(e)
    BY DEF Reversed
  <2> HIDE DEF back
  <2>3. ASSUME Over(Reversed(g), S) PROVE Over(g, Nodes \ S)
    BY <2>1, <2>3 DEF Over
  <2>4. ASSUME Over(g, Nodes \ S) PROVE Over(Reversed(g), S)
    BY <2>1, <2>2, <2>4 DEF Over
  <2> QED
    BY <2>3, <2>4
<1>2. ASSUME Leads(Reversed(g), m, n), NEW S \in SUBSET Nodes, n \in S, Over(g, S)
      PROVE  m \in S
  <2>1. Nodes \ (Nodes \ S) = S
    OBVIOUS
  <2>2. Over(Reversed(g), Nodes \ S)
    BY <1>1, <1>2, <2>1
  <2> QED
    BY <1>2, <2>2 DEF Leads
<1>3. ASSUME Leads(g, n, m), NEW S \in SUBSET Nodes, m \in S, Over(Reversed(g), S)
      PROVE  n \in S
  <2>1. Over(g, Nodes \ S)
    BY <1>1, <1>3
  <2> QED
    BY <1>3, <2>1 DEF Leads
<1> QED
  BY <1>2, <1>3 DEF Leads

(* When a pass has ended it has seen what is led to from where it began. *)
LEMMA SeenLed ==
    ASSUME Inv, Marked, top = Nobody, \A n \in Begun : n \in Nodes /\ seen[n] # 0
    PROVE  \A n \in Nodes : seen[n] # 0 <=> \E r \in Begun : Reaches(r, n)
<1> DEFINE M == {n \in Nodes : seen[n] # 0}
<1>1. Over(edges, M)
  BY SeenClosed DEF Over, Inv, GraphTypeOK, Edge
<1>2. ASSUME NEW n \in Nodes, NEW r \in Begun, Reaches(r, n) PROVE n \in M
  BY <1>1, <1>2 DEF Reaches, Leads
<1> QED
  BY <1>2 DEF Marked

(* A step of a traversal. *)
LEMMA MarkedStep ==
    ASSUME Inv, Marked, Traverse
    PROVE  Marked'
<1>1. /\ edges' = edges /\ pass' = pass /\ main' = main /\ edges \subseteq Edge
      /\ seen \in [Nodes -> Nat] /\ label \in [Nodes -> Labels] /\ time \in Nat
  BY DEF Traverse, Start, Descend, Visit, Finish, Inv, GraphTypeOK
<1>2. Begun' = Begun /\ \A r, n : Reaches(r, n)' <=> Reaches(r, n)
  BY <1>1 DEF Begun, Starts, Roots, InGraph, Reaches, Leads, Over
<1>3. ASSUME NEW r \in Starts, Start(r) PROVE Marked'
  <2>1. r \in Nodes /\ r \in Begun
    <3>1. pass # "done"
      BY <1>3 DEF Starts
    <3> QED
      BY <3>1, <1>3, GraphAssumption, OrderAssumption DEF Starts, Roots, Begun
  <2>2. /\ seen' = [seen EXCEPT ![r] = time + 1] /\ label' = [label EXCEPT ![r] = NoLabel]
        /\ seen[r] = 0
    BY <1>3 DEF Start, Visit
  <2>3. Reaches(r, r)
    BY DEF Reaches, Leads
  <2> SUFFICES ASSUME NEW n \in Nodes, seen'[n] # 0
               PROVE  /\ \E s \in Begun : Reaches(s, n)
                      /\ \/ n \in Begun /\ label'[n] = NoLabel
                         \/ \E e \in edges : /\ e.child = n /\ seen'[e.parent] # 0
                                             /\ label'[n] = e.label
    BY <1>1, <1>2 DEF Marked
  <2>4. CASE n = r
    BY <1>1, <2>1, <2>2, <2>3, <2>4
  <2>5. CASE n # r
    <3>1. seen[n] # 0 /\ label'[n] = label[n]
      BY <1>1, <2>1, <2>2, <2>5
    <3>2. \A m \in Nodes : seen[m] # 0 => seen'[m] # 0
      BY <1>1, <2>1, <2>2
    <3> QED
      BY <1>1, <3>1, <3>2 DEF Marked, Edge
  <2> QED
    BY <2>4, <2>5
<1>4. ASSUME Descend PROVE Marked'
  <2>1. PICK e \in edges : e.parent = top /\ Visit(e.child, top, e.label)
    BY <1>4 DEF Descend
  <2>2. e.child \in Nodes /\ e.parent \in Nodes /\ e.label \in Labels
    BY <1>1 DEF Edge
  <2>3. /\ seen' = [seen EXCEPT ![e.child] = time + 1]
        /\ label' = [label EXCEPT ![e.child] = e.label] /\ seen[e.child] = 0
    BY <2>1 DEF Visit
  <2>4. seen[e.parent] # 0
    BY <2>1, <2>2, GraphAssumption DEF Inv, Stack, Open
  <2>5. PICK r \in Begun : Reaches(r, e.parent)
    BY <2>2, <2>4 DEF Marked
  <2>6. Reaches(r, e.child)
    BY <2>2, <2>5 DEF Reaches, Leads, Over
  <2>7. \A m \in Nodes : seen[m] # 0 => seen'[m] # 0
    BY <1>1, <2>2, <2>3
  <2> SUFFICES ASSUME NEW n \in Nodes, seen'[n] # 0
               PROVE  /\ \E s \in Begun : Reaches(s, n)
                      /\ \/ n \in Begun /\ label'[n] = NoLabel
                         \/ \E f \in edges : /\ f.child = n /\ seen'[f.parent] # 0
                                             /\ label'[n] = f.label
    BY <1>1, <1>2 DEF Marked
  <2>8. CASE n = e.child
    BY <1>1, <2>2, <2>3, <2>4, <2>6, <2>7, <2>8
  <2>9. CASE n # e.child
    <3>1. seen[n] # 0 /\ label'[n] = label[n]
      BY <1>1, <2>2, <2>3, <2>9
    <3> QED
      BY <1>1, <2>7, <3>1 DEF Marked, Edge
  <2> QED
    BY <2>8, <2>9
<1>5. ASSUME Finish PROVE Marked'
  BY <1>1, <1>2, <1>5 DEF Finish, Marked
<1> QED
  BY <1>3, <1>4, <1>5 DEF Traverse

PassInv == OInv /\ Placed /\ FinishOnce /\ Shape /\ Marked /\ FoundFrom /\ Put

(* A pass that begins has seen nothing. *)
LEMMA TurnMarked ==
    ASSUME NEW p, NEW g, Turn(p, g)
    PROVE  Marked' /\ FinishOnce'
BY DEF Turn, Cleared, Marked, FinishOnce

LEMMA ShapeKept ==
    ASSUME PassInv, UNCHANGED <<edges, main, orders, found>>,
           pass' \in {pass, "failed"} \/ (pass = "final" /\ pass' = "done")
    PROVE  Shape' /\ FoundFrom'
<1> DEFINE headed == WithHead(orders)
           tailed == WithTail(headed)
<1>1. headed' = headed
  BY DEF WithHead, HeadOf, In, Leads, Over
<1> HIDE DEF headed
<1>2. tailed' = tailed
  BY <1>1 DEF WithTail, TailOf, In, Leads, Over
<1>3. Shape'
  BY <1>1, <1>2 DEF PassInv, Shape, headed, Reversed
<1>4. \A n : Leads(main, Root, n)' <=> Leads(main, Root, n)
  BY DEF Leads, Over
<1>5. FoundFrom'
  BY <1>4 DEF PassInv, FoundFrom
<1> QED
  BY <1>3, <1>5

LEMMA TraverseKept ==
    ASSUME PassInv, Traverse
    PROVE  FinishOnce' /\ Shape' /\ Marked' /\ FoundFrom' /\ Put'
<1>1. /\ edges' = edges /\ pass' = pass /\ main' = main /\ orders' = orders
      /\ found' = found /\ listed' = listed
  BY DEF Traverse, Start, Descend, Visit, Finish
<1>2. Shape' /\ FoundFrom'
  BY <1>1, ShapeKept
<1>3. Marked'
  BY MarkedStep DEF PassInv, OInv
<1>4. FinishOnce'
  <2>1. CASE Finish
    <3>1. top \in Nodes /\ finish' = [finish EXCEPT ![top] = time + 1] /\ time \in Nat
      BY <2>1 DEF Finish, PassInv, OInv, Inv, GraphTypeOK
    <3>2. \A m \in Nodes : finish[m] \in Nat /\ finish[m] <= time
      BY DEF PassInv, OInv, Inv, GraphTypeOK, Stamps
    <3> QED
      BY <3>1, <3>2 DEF FinishOnce, PassInv, OInv, Inv, GraphTypeOK
  <2>2. CASE ~ Finish
    <3>1. finish' = finish
      BY <2>2 DEF Traverse, Start, Descend, Visit
    <3> QED
      BY <3>1 DEF FinishOnce, PassInv
  <2> QED
    BY <2>1, <2>2
<1>5. pass # "done"
  <2> SUFFICES ASSUME pass = "done" PROVE FALSE
    OBVIOUS
  <2>1. Starts = {} /\ top = Nobody
    BY DEF Starts, PassInv, Put, Done
  <2>2. \A e \in edges : e.parent # Nobody
    BY GraphAssumption DEF PassInv, OInv, Inv, GraphTypeOK, Edge
  <2> QED
    BY <2>1, <2>2 DEF Traverse, Descend, Finish
<1>6. Put'
  BY <1>1, <1>5 DEF Put
<1> QED
  BY <1>2, <1>3, <1>4, <1>6

(* The first pass finds what the appliance's node leads to. *)
LEMMA FoundStep ==
    ASSUME PassInv, FrameworkFound
    PROVE  FinishOnce' /\ Shape' /\ Marked' /\ FoundFrom' /\ Put'
<1>1. /\ pass = "framework" /\ edges = main /\ Starts = {Root} /\ Begun = {Root}
      /\ top = Nobody /\ Root \in Nodes /\ seen[Root] # 0
  BY OrderAssumption DEF FrameworkFound, PassInv, Shape, Starts, Begun, Ended
<1>2. \A n \in Nodes : seen[n] # 0 <=> Leads(main, Root, n)
  <2>1. \A n \in Nodes : seen[n] # 0 <=> \E r \in Begun : Reaches(r, n)
    BY <1>1, SeenLed DEF PassInv, OInv
  <2> QED
    BY <1>1, <2>1 DEF Reaches
<1>3. /\ pass' = "head" /\ main' = main
      /\ edges' = Reversed(orders) /\ orders' = orders
      /\ found' = [n \in Nodes |-> IF seen[n] = 0 THEN Absent ELSE label[n]]
  BY DEF FrameworkFound, Turn
<1>4. \A n \in Nodes : label[n] # Absent
  BY OrderAssumption DEF PassInv, OInv, Inv, GraphTypeOK
<1>5. ASSUME NEW n \in Nodes
      PROVE  /\ found'[n] # Absent <=> Leads(main, Root, n)
             /\ found'[n] # Absent /\ n # Root =>
                   \E e \in main : /\ e.child = n /\ Leads(main, Root, e.parent)
                                   /\ found'[n] = e.label
  <2>1. found'[n] # Absent <=> Leads(main, Root, n)
    BY <1>2, <1>3, <1>4
  <2>2. ASSUME found'[n] # Absent, n # Root
        PROVE  \E e \in main : /\ e.child = n /\ Leads(main, Root, e.parent)
                               /\ found'[n] = e.label
    <3>1. seen[n] # 0 /\ found'[n] = label[n]
      BY <1>3, <2>2
    <3>2. PICK e \in edges : e.child = n /\ seen[e.parent] # 0 /\ label[n] = e.label
      BY <1>1, <2>2, <3>1 DEF PassInv, Marked
    <3>3. e.parent \in Nodes
      BY DEF PassInv, OInv, Inv, GraphTypeOK, Edge
    <3> QED
      BY <1>1, <1>2, <3>1, <3>2, <3>3
  <2> QED
    BY <2>1, <2>2
<1>6. FoundFrom'
  BY <1>3, <1>5 DEF FoundFrom, Leads, Over
<1>7. Marked' /\ FinishOnce'
  BY TurnMarked DEF FrameworkFound
<1> QED
  BY <1>3, <1>6, <1>7 DEF Shape, Put

(* The edges that are added from HEAD are those to all nodes without an     *)
(* edge to them that do not lead to it.                                     *)
LEMMA HeadStep ==
    ASSUME PassInv, HeadPlaced
    PROVE  FinishOnce' /\ Shape' /\ Marked' /\ FoundFrom' /\ Put'
<1>1. /\ pass = "head" /\ edges = Reversed(orders) /\ Begun = {HEAD} /\ HEAD \in Nodes
      /\ top = Nobody /\ seen[HEAD] # 0 /\ orders \in SUBSET Edge
  BY OrderAssumption DEF HeadPlaced, PassInv, Shape, Starts, Begun, Ended, OInv, Graphs
<1>2. \A n \in Nodes : seen[n] # 0 <=> Leads(orders, n, HEAD)
  <2>1. \A n \in Nodes : seen[n] # 0 <=> \E r \in Begun : Reaches(r, n)
    BY <1>1, SeenLed DEF PassInv, OInv
  <2> QED
    BY <1>1, <2>1, LeadsBack DEF Reaches
<1>3. Unmarked(Leaves) = HeadOf(orders)
  <2> DEFINE back(e) == [e EXCEPT !.parent = e.child, !.child = e.parent]
  <2>1. \A e \in orders : /\ back(e) \in edges /\ back(e).parent = e.child
                          /\ back(e).child = e.parent
    BY <1>1 DEF Reversed, Edge
  <2>2. \A f \in edges : \E e \in orders : f = back(e)
    BY <1>1 DEF Reversed
  <2> HIDE DEF back
  <2>3. \A n \in Nodes : InGraph(n) <=> In(orders, n)
    BY <2>1, <2>2 DEF InGraph, In
  <2>4. \A n \in Nodes : (\A f \in edges : f.parent # n) <=> (\A e \in orders : e.child # n)
    BY <2>1, <2>2
  <2> QED
    BY <1>2, <2>3, <2>4 DEF Unmarked, Leaves, HeadOf
<1>4. /\ pass' = "tail" /\ edges' = WithHead(orders) /\ orders' = orders
      /\ found' = found /\ main' = main
  BY <1>3 DEF HeadPlaced, Turn, WithHead
<1>5. Shape'
  BY <1>4 DEF Shape, WithHead, HeadOf, Leads, Over
<1>6. FoundFrom'
  BY <1>1, <1>4 DEF FoundFrom, PassInv, Leads, Over
<1>7. Marked' /\ FinishOnce'
  BY TurnMarked DEF HeadPlaced
<1> QED
  BY <1>4, <1>5, <1>6, <1>7 DEF Put

(* And those to TAIL are from all nodes without an edge from them that TAIL *)
(* does not lead to.                                                        *)
LEMMA TailStep ==
    ASSUME PassInv, TailPlaced
    PROVE  FinishOnce' /\ Shape' /\ Marked' /\ FoundFrom' /\ Put'
<1>1. /\ pass = "tail" /\ edges = WithHead(orders) /\ Begun = {TAIL} /\ TAIL \in Nodes
      /\ top = Nobody /\ seen[TAIL] # 0
  BY GraphAssumption DEF TailPlaced, PassInv, Shape, Starts, Begun, Ended
<1>2. \A n \in Nodes : seen[n] # 0 <=> Leads(edges, TAIL, n)
  <2>1. \A n \in Nodes : seen[n] # 0 <=> \E r \in Begun : Reaches(r, n)
    BY <1>1, SeenLed DEF PassInv, OInv
  <2> QED
    BY <1>1, <2>1 DEF Reaches
<1>3. Unmarked(Leaves) = TailOf(edges)
  BY <1>2 DEF Unmarked, Leaves, TailOf, InGraph, In
<1>4. /\ pass' = "final" /\ edges' = WithTail(edges) /\ orders' = orders
      /\ found' = found /\ main' = main
  BY <1>3 DEF TailPlaced, Turn, WithTail
<1>5. edges' = WithTail(WithHead(orders'))
  BY <1>1, <1>4 DEF WithHead, HeadOf, Leads, Over
<1>6. Shape'
  BY <1>4, <1>5 DEF Shape
<1>7. FoundFrom'
  BY <1>1, <1>4 DEF FoundFrom, PassInv, Leads, Over
<1>8. Marked' /\ FinishOnce'
  BY TurnMarked DEF TailPlaced
<1> QED
  BY <1>4, <1>6, <1>7, <1>8 DEF Put

LEMMA MergedKept ==
    ASSUME UNCHANGED <<finish, label, found>>
    PROVE  Merged' = Merged
<1>1. Deps' = Deps /\ Ordered' = Ordered
  BY DEF Deps, Ordered, Sorted
<1>2. Plain' = Plain
  BY <1>1 DEF Plain, PlainKept, Sorted
<1>3. \A n : AtPlace(n)' = AtPlace(n)
  BY <1>2 DEF AtPlace, OrderedKept
<1> DEFINE places == [i \in DOMAIN Deps |-> AtPlace(Deps[i])]
<1>4. places' = places
  BY <1>1, <1>3
<1> HIDE DEF places
<1>5. FlattenSeq(places)' = FlattenSeq(places)
  BY <1>4
<1>6. Merged = FlattenSeq(places) \o IF TAIL \in Ordered THEN <<>> ELSE Plain
  BY DEF Merged, places
<1>7. Merged' = FlattenSeq(places)' \o IF TAIL \in Ordered' THEN <<>> ELSE Plain'
  BY DEF Merged, places
<1> HIDE DEF Deps, Ordered, Plain, Merged
<1> QED
  BY <1>1, <1>2, <1>5, <1>6, <1>7

LEMMA MergeStep ==
    ASSUME PassInv, Merge
    PROVE  FinishOnce' /\ Shape' /\ Marked' /\ FoundFrom' /\ Put'
<1>1. /\ pass = "final" /\ pass' = "done" /\ listed' = Merged /\ Ended
      /\ UNCHANGED <<edges, time, seen, finish, top, caller, label, main, orders, found>>
  BY DEF Merge, position
<1>2. Starts = Roots /\ Begun' = Roots /\ Begun = Roots
  BY <1>1 DEF Starts, Begun, Roots, InGraph
<1>3. Shape' /\ FoundFrom'
  BY <1>1, ShapeKept
<1>4. Marked'
  BY <1>1, <1>2 DEF PassInv, Marked, Reaches, Leads, Over
<1>5. FinishOnce'
  BY <1>1 DEF PassInv, FinishOnce
<1>6. Done'
  BY <1>1, <1>2 DEF Ended, Done, Roots, InGraph
<1>7. Merged' = Merged
  BY <1>1, MergedKept
<1> QED
  BY <1>1, <1>3, <1>4, <1>5, <1>6, <1>7 DEF Put

LEMMA StillStep ==
    ASSUME PassInv, NoRoot \/ UNCHANGED vars
    PROVE  FinishOnce' /\ Shape' /\ Marked' /\ FoundFrom' /\ Put'
<1>1. /\ UNCHANGED <<edges, time, seen, finish, top, caller, label, main, orders, found, listed>>
      /\ pass' = pass \/ (pass = "framework" /\ pass' = "failed" /\ Starts = {})
  BY DEF NoRoot, vars, position
<1>2. Shape' /\ FoundFrom'
  BY <1>1, ShapeKept
<1>3. Marked'
  <2>1. Begun' = Begun
    BY <1>1 DEF Begun, Starts, Roots, InGraph
  <2> QED
    BY <1>1, <2>1 DEF PassInv, Marked, Reaches, Leads, Over
<1>4. FinishOnce'
  BY <1>1 DEF PassInv, FinishOnce
<1>5. Merged' = Merged
  BY <1>1, MergedKept
<1>6. Done' <=> Done
  BY <1>1 DEF Done, Roots, InGraph
<1> QED
  BY <1>1, <1>2, <1>3, <1>4, <1>5, <1>6 DEF PassInv, Put

LEMMA PassInvCorrect == Spec => []PassInv
<1> DEFINE More == FinishOnce /\ Shape /\ Marked /\ FoundFrom /\ Put
<1>1. Init => More
  BY DEF Init, Cleared, FinishOnce, Shape, Marked, FoundFrom, Put
<1>2. OInv /\ Placed /\ More /\ [Next]_vars => More'
  BY TraverseKept, FoundStep, HeadStep, TailStep, MergeStep, StillStep
     DEF PassInv, Next
<1>3. OInv /\ Placed /\ More => PassInv
  BY DEF PassInv
<1> HIDE DEF More
<1> QED
  BY <1>1, <1>2, <1>3, OInvCorrect, PlacedCorrect, PTL DEF Spec
-----------------------------------------------------------------------------
(* Where the files of a profile stand. *)

Place(n) == IF n \in Ordered THEN finish[n] ELSE finish[TAIL]

(* The pairs of nodes of which the first one comes first. *)
InOrder ==
    {p \in Nodes \X Nodes :
        \/ Place(p[1]) > Place(p[2])
        \/ /\ p[1] \notin Ordered /\ p[2] \notin Ordered
           /\ Names[p[1]] < Names[p[2]]}

Stays(n) == IF n \in Ordered THEN n # TAIL /\ OrderedKept(n) ELSE found[n] = NoLabel

LEMMA PlainListed ==
    /\ Plain \in Seq(Nodes) /\ ToSet(Plain) = {n \in Nodes : PlainKept(n)}
    /\ Ascending(Plain, InOrder)
<1> DEFINE S == {n \in Nodes : PlainKept(n)}
           N == Cardinality(S)
<1>1. S \in SUBSET Nodes /\ IsFiniteSet(S)
  BY OrderAssumption, FS_Subset
<1>2. /\ \A n \in S : Names[n] \in Nat
      /\ \A m, n \in S : Names[m] = Names[n] => m = n
  BY <1>1, OrderAssumption DEF IsInjective
<1> HIDE DEF S
<1>3. /\ N \in Nat /\ Plain \in [1 .. N -> S]
      /\ \A n \in S : \E i \in 1 .. N : Plain[i] = n
      /\ \A i, j \in 1 .. N : i < j => Names[Plain[i]] < Names[Plain[j]]
  BY <1>1, <1>2, SortedCorrect DEF Plain, S
<1> HIDE DEF N
<1>4. Plain \in Seq(Nodes) /\ DOMAIN Plain = 1 .. N
  BY <1>1, <1>3
<1>5. ToSet(Plain) = S
  BY <1>3, <1>4 DEF ToSet
<1>6. ASSUME NEW i \in 1 .. N, NEW j \in 1 .. N, i < j
      PROVE  <<Plain[i], Plain[j]>> \in InOrder
  <2>1. Plain[i] \in S /\ Plain[j] \in S /\ Names[Plain[i]] < Names[Plain[j]]
    BY <1>3, <1>6
  <2> HIDE DEF Plain
  <2> QED
    BY <1>1, <2>1 DEF S, PlainKept, InOrder
<1> QED
  BY <1>4, <1>5, <1>6 DEF Ascending, S

LEMMA MergedListed ==
    ASSUME finish \in [Nodes -> Nat], FinishOnce
    PROVE  /\ Merged \in Seq(Nodes) /\ ToSet(Merged) = {n \in Nodes : Stays(n)}
           /\ Ascending(Merged, InOrder)
<1> DEFINE N == Len(Deps)
           places == [i \in DOMAIN Deps |-> AtPlace(Deps[i])]
           front == FlattenSeq(places)
           rest == IF TAIL \in Ordered THEN <<>> ELSE Plain
<1>1. Ordered \in SUBSET Nodes /\ IsFiniteSet(Ordered)
  BY OrderAssumption, FS_Subset DEF Ordered
<1>2. /\ \A n \in Ordered : finish[n] \in Nat
      /\ \A m, n \in Ordered : finish[m] = finish[n] => m = n
  BY <1>1 DEF Ordered, FinishOnce
<1>3. /\ Deps \in Seq(Ordered) /\ ToSet(Deps) = Ordered
      /\ \A i, j \in DOMAIN Deps : i < j => finish[Deps[i]] > finish[Deps[j]]
  <2> HIDE DEF Ordered
  <2> QED
    BY <1>1, <1>2, ReverseSorted DEF Deps
<1> HIDE DEF Deps
<1>4. N \in Nat /\ DOMAIN Deps = 1 .. N /\ \A i \in 1 .. N : Deps[i] \in Ordered
  BY <1>3
<1>5. /\ Plain \in Seq(Nodes) /\ ToSet(Plain) = {n \in Nodes : PlainKept(n)}
      /\ Ascending(Plain, InOrder)
  BY PlainListed
<1> HIDE DEF Plain
<1>6. ASSUME NEW n \in Ordered
      PROVE  /\ AtPlace(n) \in Seq(Nodes) /\ Ascending(AtPlace(n), InOrder)
             /\ ToSet(AtPlace(n)) = {m \in Nodes : /\ Stays(m)
                                                   /\ \/ m = n
                                                      \/ n = TAIL /\ m \notin Ordered}
  <2>1. CASE n = TAIL
    <3>1. AtPlace(n) = Plain
      BY <2>1 DEF AtPlace
    <3>2. \A m \in Nodes : PlainKept(m) <=> Stays(m) /\ m \notin Ordered
      BY DEF PlainKept, Stays
    <3>3. ~ Stays(n)
      BY <2>1 DEF Stays
    <3> QED
      BY <1>5, <2>1, <3>1, <3>2, <3>3
  <2>2. CASE n # TAIL /\ OrderedKept(n)
    <3>1. AtPlace(n) = <<n>> /\ Stays(n) /\ n \in Nodes
      BY <1>1, <2>2 DEF AtPlace, Stays
    <3> QED
      BY <2>2, <3>1 DEF Ascending, ToSet
  <2>3. CASE n # TAIL /\ ~ OrderedKept(n)
    <3>1. AtPlace(n) = <<>> /\ ~ Stays(n)
      BY <2>3 DEF AtPlace, Stays
    <3> QED
      BY <2>3, <3>1 DEF Ascending, ToSet
  <2> QED
    BY <2>1, <2>2, <2>3
<1>7. ASSUME NEW n \in Ordered, NEW x \in ToSet(AtPlace(n))
      PROVE  x \in Nodes /\ Place(x) = finish[n]
  BY <1>6 DEF Place
<1>8. /\ places \in [1 .. N -> Seq(Nodes)]
      /\ \A i \in 1 .. N : places[i] = AtPlace(Deps[i])
  BY <1>4, <1>6
<1> HIDE DEF places
<1>9. \A i \in 1 .. N : Ascending(places[i], InOrder)
  BY <1>4, <1>6, <1>8
<1>10. ASSUME NEW i \in 1 .. N, NEW j \in 1 .. N, i < j,
              NEW x \in ToSet(places[i]), NEW y \in ToSet(places[j])
       PROVE  <<x, y>> \in InOrder
  <2>1. finish[Deps[i]] > finish[Deps[j]]
    BY <1>3, <1>4, <1>10
  <2>2. /\ x \in Nodes /\ Place(x) = finish[Deps[i]]
        /\ y \in Nodes /\ Place(y) = finish[Deps[j]]
    BY <1>4, <1>7, <1>8
  <2> QED
    BY <2>1, <2>2 DEF InOrder
<1> HIDE DEF N
<1>11. /\ front \in Seq(Nodes) /\ Ascending(front, InOrder)
       /\ ToSet(front) = UNION {ToSet(places[i]) : i \in 1 .. N}
  BY <1>4, <1>8, <1>9, <1>10, Flattened
<1>12. ToSet(front) = {m \in Nodes : /\ Stays(m)
                                     /\ m \in Ordered \/ TAIL \in Ordered}
  <2>1. \A n \in Ordered : \E i \in 1 .. N : Deps[i] = n
    BY <1>3, <1>4 DEF ToSet
  <2>2. ASSUME NEW x \in ToSet(front)
        PROVE  x \in Nodes /\ Stays(x) /\ (x \in Ordered \/ TAIL \in Ordered)
    <3>1. PICK i \in 1 .. N : x \in ToSet(places[i])
      BY <1>11
    <3> QED
      BY <1>4, <1>6, <1>8, <3>1
  <2>3. ASSUME NEW x \in Nodes, Stays(x), x \in Ordered \/ TAIL \in Ordered
        PROVE  x \in ToSet(front)
    <3>1. PICK n \in Ordered : x \in ToSet(AtPlace(n))
      BY <1>6, <2>3
    <3>2. PICK i \in 1 .. N : Deps[i] = n
      BY <2>1
    <3> QED
      BY <1>8, <1>11, <3>1, <3>2
  <2> QED
    BY <2>2, <2>3
<1>13. /\ rest \in Seq(Nodes) /\ Ascending(rest, InOrder)
       /\ ToSet(rest) = {m \in Nodes : Stays(m) /\ m \notin Ordered /\ TAIL \notin Ordered}
  <2>1. \A m \in Nodes : PlainKept(m) <=> Stays(m) /\ m \notin Ordered
    BY DEF PlainKept, Stays
  <2>2. CASE TAIL \in Ordered
    BY <2>2 DEF Ascending, ToSet
  <2>3. CASE TAIL \notin Ordered
    BY <1>5, <2>1, <2>3
  <2> QED
    BY <2>2, <2>3
<1>14. ASSUME NEW x \in ToSet(front), NEW y \in ToSet(rest)
       PROVE  <<x, y>> \in InOrder
  <2>1. x \in Ordered /\ x \in Nodes /\ y \in Nodes /\ y \notin Ordered /\ TAIL \notin Ordered
    BY <1>12, <1>13
  <2>2. finish[x] \in Nat /\ finish[x] # 0 /\ finish[TAIL] = 0
    BY <2>1, GraphAssumption DEF Ordered
  <2> QED
    BY <2>1, <2>2 DEF InOrder, Place
<1>15. Merged = front \o rest
  BY DEF Merged, places
<1> HIDE DEF front, rest
<1>16. /\ Merged \in Seq(Nodes) /\ Ascending(Merged, InOrder)
       /\ ToSet(Merged) = ToSet(front) \cup ToSet(rest)
  <2>1. front \in Seq(Nodes) /\ rest \in Seq(Nodes)
    BY <1>11, <1>13
  <2>2. Ascending(front, InOrder) /\ Ascending(rest, InOrder)
    BY <1>11, <1>13
  <2>3. \A x \in ToSet(front), y \in ToSet(rest) : <<x, y>> \in InOrder
    BY <1>14
  <2>4. /\ front \o rest \in Seq(Nodes) /\ Ascending(front \o rest, InOrder)
        /\ ToSet(front \o rest) = ToSet(front) \cup ToSet(rest)
    BY <2>1, <2>2, <2>3, Joined
  <2> QED
    BY <1>15, <2>4
<1> QED
  BY <1>12, <1>13, <1>16

(* Who finishes later stands first, and nobody stands twice. *)
LEMMA ListedInOrder ==
    ASSUME PassInv, pass = "done"
    PROVE  /\ \A i, j \in DOMAIN listed :
                  /\ Place(listed[i]) > Place(listed[j]) => i < j
                  /\ listed[i] = listed[j] => i = j
           /\ ToSet(listed) = {n \in Nodes : Stays(n)}
<1>1. finish \in [Nodes -> Nat] /\ FinishOnce /\ listed = Merged
  BY DEF PassInv, OInv, Inv, GraphTypeOK, Put
<1>2. /\ listed \in Seq(Nodes) /\ ToSet(listed) = {n \in Nodes : Stays(n)}
      /\ Ascending(listed, InOrder)
  BY <1>1, MergedListed
<1>3. ASSUME NEW i \in DOMAIN listed, NEW j \in DOMAIN listed, i < j
      PROVE  Place(listed[i]) >= Place(listed[j]) /\ listed[i] # listed[j]
  <2>1. listed[i] \in Nodes /\ listed[j] \in Nodes
    BY <1>2
  <2>2. <<listed[i], listed[j]>> \in InOrder
    BY <1>2, <1>3 DEF Ascending
  <2>3. \A n \in Nodes : Place(n) \in Nat /\ Names[n] \in Nat
    BY <1>1, GraphAssumption, OrderAssumption DEF Place
  <2> QED
    BY <2>1, <2>2, <2>3 DEF InOrder, Place
<1>4. \A i \in DOMAIN listed : i \in Nat /\ Place(listed[i]) \in Nat
  BY <1>1, <1>2, GraphAssumption DEF Place
<1> QED
  BY <1>2, <1>3, <1>4

(* A node file is in the profile once if every edge to it applies, and not  *)
(* at all if no framework edge does or the framework does not reach it      *)
(* (xml/__init__.py:333-374).                                               *)
THEOREM SelectedCorrect == Spec => []Selected
<1>1. PassInv => Selected
  <2> SUFFICES ASSUME PassInv, pass = "done" PROVE Selected
    BY DEF Selected
  <2>1. /\ \A i, j \in DOMAIN listed : listed[i] = listed[j] => i = j
        /\ ToSet(listed) = {n \in Nodes : Stays(n)}
    BY ListedInOrder
  <2>2. NoLabel # Absent
    BY OrderAssumption
  <2>3. ASSUME NEW n \in Nodes \ {Root, TAIL}
        PROVE  /\ found[n] # Absent <=> Leads(main, Root, n)
               /\ found[n] # Absent =>
                     \E e \in InEdges(Framework, n) : found[n] = e.label
    BY DEF PassInv, FoundFrom, InEdges, Framework
  <2>4. ASSUME NEW n \in Nodes \ {Root, TAIL}, Leads(main, Root, n),
               AllApply(Framework, n), AllApply(orders, n)
        PROVE  n \in ToSet(listed)
    <3>1. found[n] = NoLabel
      BY <2>3, <2>4 DEF AllApply
    <3>2. ASSUME n \in Ordered PROVE label[n] = NoLabel
      <4>1. seen[n] # 0
        BY <3>2 DEF Ordered, PassInv, OInv, Inv, GraphTypeOK, Stamps
      <4>2. edges = WithTail(WithHead(orders))
        BY DEF PassInv, Shape
      <4>3. ASSUME NEW e \in edges, e.child = n PROVE e.label = NoLabel
        <5>1. CASE e \in orders
          BY <2>4, <4>3, <5>1 DEF AllApply, InEdges
        <5>2. CASE e \notin orders
          <6>1. \E m, k \in Nodes \cup {HEAD, TAIL} : e = OrderEdge(m, k)
            <7>1. /\ HeadOf(orders) \subseteq Nodes
                  /\ TailOf(WithHead(orders)) \subseteq Nodes
              BY DEF HeadOf, TailOf
            <7> QED
              BY <4>2, <5>2, <7>1 DEF WithTail, WithHead
          <6> QED
            BY <6>1 DEF OrderEdge
        <5> QED
          BY <5>1, <5>2
      <4> QED
        BY <4>1, <4>3 DEF PassInv, Marked
    <3>3. Stays(n)
      BY <3>1, <3>2 DEF Stays, OrderedKept
    <3> QED
      BY <2>1, <3>3
  <2>5. ASSUME NEW n \in Nodes \ {Root, TAIL},
               ~ Leads(main, Root, n) \/ NoneApplies(Framework, n)
        PROVE  n \notin ToSet(listed)
    <3>1. found[n] # NoLabel
      BY <2>2, <2>3, <2>5 DEF NoneApplies
    <3> QED
      BY <2>1, <3>1 DEF Stays, OrderedKept
  <2> QED
    BY <2>1, <2>4, <2>5 DEF Selected
<1> QED
  BY <1>1, PassInvCorrect, PTL
-----------------------------------------------------------------------------
(* Graphs without cycles. *)

Acyclic(g) == \A e \in g : ~ OnCycle(g, e)

(* Some member of a set is led to by no edge from within the set. *)
LEMMA FirstOne ==
    ASSUME NEW g \in SUBSET Edge, Acyclic(g), NEW S \in SUBSET Nodes, S # {}
    PROVE  \E n \in S : \A e \in g : e.child = n => e.parent \notin S
<1> DEFINE back(n) == {m \in S : Leads(g, m, n)}
           sizes == {Cardinality(back(n)) : n \in S}
<1>1. \A n \in S : back(n) \in SUBSET S /\ IsFiniteSet(back(n)) /\ IsFiniteSet(S)
  BY OrderAssumption, FS_Subset
<1>2. \A n \in S : Cardinality(back(n)) \in Nat
  BY <1>1, FS_CardinalityType
<1>3. PICK k \in sizes : \A j \in sizes : k <= j
  <2>1. sizes \in SUBSET Nat /\ sizes # {}
    BY <1>2
  <2> HIDE DEF sizes
  <2> QED
    BY <2>1, LeastExists
<1>4. PICK n \in S : k = Cardinality(back(n))
  BY <1>3
<1>5. ASSUME NEW e \in g, e.child = n, e.parent \in S PROVE FALSE
  <2>1. back(e.parent) \in SUBSET back(n)
    BY <1>5, LeadsOn DEF Edge
  <2>2. n \in back(n) /\ n \notin back(e.parent)
    BY <1>5, LeadsOn DEF Acyclic, OnCycle
  <2>3. /\ Cardinality(back(e.parent)) <= Cardinality(back(n))
        /\ Cardinality(back(e.parent)) # Cardinality(back(n))
    <3> HIDE DEF back
    <3> QED
      BY <1>1, <2>1, <2>2, FS_Subset
  <2>4. Cardinality(back(n)) <= Cardinality(back(e.parent))
    BY <1>3, <1>4, <1>5
  <2> HIDE DEF back
  <2> QED
    BY <1>2, <1>5, <2>3, <2>4
<1> QED
  BY <1>5

(* And some member has no edge to another one. *)
LEMMA LastOne ==
    ASSUME NEW g \in SUBSET Edge, Acyclic(g), NEW S \in SUBSET Nodes, S # {}
    PROVE  \E n \in S : \A e \in g : e.parent = n => e.child \notin S
<1> DEFINE back(e) == [e EXCEPT !.parent = e.child, !.child = e.parent]
<1>1. \A e \in g : /\ back(e) \in Reversed(g) /\ back(e).parent = e.child
                   /\ back(e).child = e.parent
  BY DEF Reversed, Edge
<1>2. Reversed(g) \in SUBSET Edge
  BY DEF Reversed, Edge
<1>3. \A f \in Reversed(g) : \E e \in g : f = back(e)
  BY DEF Reversed
<1> HIDE DEF back
<1>4. Acyclic(Reversed(g))
  <2> SUFFICES ASSUME NEW f \in Reversed(g) PROVE ~ Leads(Reversed(g), f.child, f.parent)
    BY DEF Acyclic, OnCycle
  <2>1. PICK e \in g : f.parent = e.child /\ f.child = e.parent
    BY <1>1, <1>3
  <2>2. e.child \in Nodes /\ e.parent \in Nodes /\ ~ Leads(g, e.child, e.parent)
    BY DEF Edge, Acyclic, OnCycle
  <2> QED
    BY <2>1, <2>2, LeadsBack
<1>5. PICK n \in S : \A f \in Reversed(g) : f.child = n => f.parent \notin S
  BY <1>2, <1>4, FirstOne
<1> QED
  BY <1>1, <1>5

(* The nodes of a graph all edges of which lead to what finishes earlier. *)
Falling(g) ==
    \A e \in g : finish[e.parent] # 0 =>
        finish[e.child] # 0 /\ finish[e.parent] > finish[e.child]

LEMMA FallsAlong ==
    ASSUME finish \in [Nodes -> Nat], NEW g \in SUBSET Edge, Falling(g),
           NEW m \in Ordered, NEW n \in Nodes, Leads(g, m, n)
    PROVE  n \in Ordered /\ (n = m \/ finish[m] > finish[n])
<1> DEFINE S == {k \in Nodes : finish[k] # 0 /\ (k = m \/ finish[m] > finish[k])}
<1>1. m \in S
  BY DEF Ordered
<1>2. Over(g, S)
  <2> SUFFICES ASSUME NEW e \in g, e.parent \in S PROVE e.child \in S
    BY DEF Over
  <2>1. e.child \in Nodes /\ e.parent \in Nodes /\ m \in Nodes
    BY DEF Edge, Ordered
  <2>2. finish[e.child] # 0 /\ finish[e.parent] > finish[e.child]
    BY DEF Falling
  <2> QED
    BY <2>1, <2>2
<1> QED
  BY <1>1, <1>2 DEF Leads, Ordered

(* Whoever finishes later has its files first. *)
LEMMA PrecedesBy ==
    ASSUME PassInv, pass = "done", NEW m \in Ordered, NEW n \in Ordered,
           finish[m] > finish[n]
    PROVE  Precede(At(m), At(n))
<1>1. ASSUME NEW k \in Ordered, NEW x \in At(k) PROVE Place(x) = finish[k]
  BY <1>1 DEF At, Place
<1> QED
  BY <1>1, ListedInOrder DEF Precede
-----------------------------------------------------------------------------
(* The order graph with the edges for HEAD and TAIL. *)

(* These edges are on no cycle, whatever the order tags are. *)
LEMMA AddedStraight ==
    ASSUME orders \in SUBSET Edge, NEW h, h = WithHead(orders),
           NEW e \in WithTail(h) \ orders
    PROVE  ~ OnCycle(WithTail(h), e)
<1> DEFINE U == {n \in Nodes : ~ Leads(orders, n, HEAD)}
           M == {n \in Nodes : Leads(h, TAIL, n)}
<1>1. /\ HEAD \in Nodes /\ TAIL \in Nodes
      /\ \A m, n : OrderEdge(m, n).parent = m /\ OrderEdge(m, n).child = n
  BY GraphAssumption, OrderAssumption DEF OrderEdge
<1>2. /\ \A f \in h : f \in orders \/ \E n \in HeadOf(orders) : f = OrderEdge(HEAD, n)
      /\ orders \subseteq h /\ \A n \in HeadOf(orders) : OrderEdge(HEAD, n) \in h
  BY DEF WithHead
<1>3. /\ \A f \in WithTail(h) : f \in h \/ \E n \in TailOf(h) : f = OrderEdge(n, TAIL)
      /\ h \subseteq WithTail(h)
  BY DEF WithTail
<1>4. h \in SUBSET Edge
  BY <1>1, <1>2, GraphAssumption DEF HeadOf, OrderEdge, Edge
<1>5. TAIL \in M /\ Over(h, M) /\ M \in SUBSET Nodes
  BY <1>1, <1>4, LeadsOn DEF Over, Edge
<1>6. HEAD \notin U /\ U \in SUBSET Nodes
  BY <1>1, LeadsOn
<1>7. Over(orders, U)
  <2> SUFFICES ASSUME NEW f \in orders, f.parent \in Nodes, f.child \in Nodes,
                      Leads(orders, f.child, HEAD)
               PROVE  Leads(orders, f.parent, HEAD)
    BY DEF Over, Edge
  <2>1. Leads(orders, f.parent, f.child)
    BY LeadsOn
  <2> QED
    BY <1>1, <2>1, LeadsOn
<1>8. Over(h, U)
  BY <1>1, <1>2, <1>6, <1>7 DEF Over
<1>9. \A n \in TailOf(h) : n \notin M
  BY DEF TailOf
<1>10. CASE e \in h
  <2>1. PICK r \in HeadOf(orders) : e = OrderEdge(HEAD, r)
    BY <1>2, <1>10
  <2>2. r \in U /\ e.child = r /\ e.parent = HEAD
    BY <1>1, <2>1 DEF HeadOf
  <2> DEFINE S == IF TAIL \in U THEN U ELSE U \cap M
  <2>3. r \in S
    <3>1. ASSUME TAIL \notin U PROVE r \in M
      <4>1. Leads(orders, TAIL, HEAD)
        BY <1>1, <3>1
      <4>2. Leads(h, TAIL, HEAD)
        BY <1>1, <1>2, <1>4, <4>1, LeadsOn
      <4>3. HEAD \in M
        BY <1>1, <4>2
      <4> QED
        BY <1>5, <1>10, <2>2, <4>3 DEF Over
    <3> QED
      BY <2>2, <3>1
  <2>4. Over(WithTail(h), S)
    BY <1>1, <1>3, <1>5, <1>8, <1>9 DEF Over
  <2>5. S \in SUBSET Nodes /\ HEAD \notin S
    BY <1>5, <1>6
  <2> QED
    BY <2>2, <2>3, <2>4, <2>5 DEF OnCycle, Leads
<1>11. CASE e \notin h
  <2>1. PICK n \in TailOf(h) : e.parent = n /\ e.child = TAIL
    BY <1>1, <1>3, <1>11
  <2>2. Over(WithTail(h), M)
    BY <1>1, <1>3, <1>5, <1>9 DEF Over
  <2> QED
    BY <1>5, <1>9, <2>1, <2>2 DEF OnCycle, Leads
<1> QED
  BY <1>10, <1>11

(* The tags of core.xml are in every order graph. *)
CoreIn == CoreTags \subseteq orders

LEMMA CoreInCorrect == Spec => []CoreIn
<1>1. Init => CoreIn
  BY DEF Init, CoreIn
<1>2. CoreIn /\ [Next]_vars => CoreIn'
  BY DEF CoreIn, Next, vars, Traverse, NoRoot, FrameworkFound, HeadPlaced, TailPlaced, Merge
<1> QED
  BY <1>1, <1>2, PTL DEF Spec

(* What the last traversal leaves of an order graph. *)
LEMMA LastOrder ==
    ASSUME PassInv, CoreIn, pass = "done"
    PROVE  /\ finish \in [Nodes -> Nat] /\ orders \in SUBSET Edge
           /\ edges \in SUBSET Edge /\ orders \subseteq edges
           /\ Falling(Straight(orders))
           /\ \A n \in Ordered : InGraph(n)
           /\ \A n \in {HEAD, TAIL} : n \in Nodes /\ In(orders, n) /\ InGraph(n)
<1>1. /\ finish \in [Nodes -> Nat] /\ orders \in SUBSET Edge /\ edges \in SUBSET Edge
      /\ orders \subseteq edges
  BY DEF PassInv, OInv, Inv, Graphs, GraphTypeOK, Placed
<1>2. Falling(Straight(orders))
  <2> SUFFICES ASSUME NEW e \in orders, ~ OnCycle(orders, e), finish[e.parent] # 0
               PROVE  finish[e.child] # 0 /\ finish[e.parent] > finish[e.child]
    BY DEF Falling, Straight
  <2>1. e \in edges /\ ~ OnCycle(edges, e)
    BY DEF PassInv, Placed
  <2>2. ~ Reaches(e.child, e.parent)
    BY <2>1 DEF OnCycle, Reaches
  <2> QED
    BY <2>1, <2>2 DEF PassInv, OInv, Inv, EdgesRespected, Before
<1>3. ASSUME NEW n \in Ordered PROVE InGraph(n)
  <2>1. n \in Nodes /\ seen[n] # 0
    BY <1>3 DEF Ordered, PassInv, OInv, Inv, GraphTypeOK, Stamps
  <2>2. n \in Roots \/ \E e \in edges : e.child = n
    BY <2>1 DEF PassInv, Marked, Begun
  <2> QED
    BY <2>2 DEF Roots, InGraph
<1>4. ASSUME NEW n \in {HEAD, TAIL} PROVE n \in Nodes /\ In(orders, n) /\ InGraph(n)
  <2>1. n \in Nodes
    BY GraphAssumption, OrderAssumption
  <2>2. PICK e \in CoreTags : n \in {e.parent, e.child}
    BY OrderAssumption
  <2> QED
    BY <1>1, <2>1, <2>2 DEF CoreIn, In, InGraph
<1> QED
  BY <1>1, <1>2, <1>3, <1>4

(* Without a cycle of order tags it orders all nodes of the graph, along    *)
(* all edges, those that were added for HEAD and TAIL among them.           *)
LEMMA AllOrdered ==
    ASSUME PassInv, CoreIn, pass = "done", Straight(orders) = orders
    PROVE  /\ Acyclic(orders) /\ Falling(edges)
           /\ \A e \in edges : e.parent \in Ordered /\ e.child \in Ordered
<1>1. Acyclic(orders)
  BY DEF Acyclic, Straight
<1>2. Acyclic(edges)
  <2>1. edges = WithTail(WithHead(orders))
    BY DEF PassInv, Shape
  <2>2. \A e \in edges \ orders : ~ OnCycle(edges, e)
    BY <2>1, LastOrder, AddedStraight
  <2>3. \A e \in orders : ~ OnCycle(edges, e)
    BY <1>1 DEF Acyclic, PassInv, Placed
  <2> QED
    BY <2>2, <2>3 DEF Acyclic
<1>3. Falling(edges)
  BY <1>2 DEF Falling, Acyclic, OnCycle, PassInv, OInv, Inv, EdgesRespected, Reaches, Before
<1>4. \A n \in Nodes : InGraph(n) => n \in Ordered
  <2> DEFINE S == {n \in Nodes : InGraph(n) /\ n \notin Ordered}
  <2> SUFFICES ASSUME S # {} PROVE FALSE
    OBVIOUS
  <2>1. PICK n \in S : \A e \in edges : e.child = n => e.parent \notin S
    <3> HIDE DEF S
    <3>1. S \in SUBSET Nodes
      BY DEF S
    <3> QED
      BY <1>2, <3>1, FirstOne, LastOrder
  <2>2. CASE n \in Roots
    <3>1. n \in Nodes /\ seen[n] # 0 /\ top = Nobody
      BY <2>2 DEF PassInv, Put, Done, Roots
    <3>2. finish[n] # 0
      BY <3>1 DEF PassInv, OInv, Inv, Stack, Open
    <3> QED
      BY <3>1, <3>2 DEF Ordered
  <2>3. CASE n \notin Roots
    <3>1. PICK e \in edges : e.child = n
      BY <2>3 DEF Roots
    <3>2. e.parent \in Nodes /\ InGraph(e.parent)
      BY LastOrder DEF Edge, InGraph
    <3>3. finish[e.parent] # 0
      BY <2>1, <3>1, <3>2 DEF Ordered
    <3> QED
      BY <1>3, <3>1, <3>3 DEF Falling, Ordered
  <2> QED
    BY <2>2, <2>3
<1>5. \A e \in edges : e.parent \in Nodes /\ e.child \in Nodes /\ InGraph(e.parent) /\ InGraph(e.child)
  BY LastOrder DEF Edge, InGraph
<1> QED
  BY <1>1, <1>3, <1>4, <1>5

(* What leads to HEAD is before a node that nothing before HEAD leads to: a *)
(* first one among the nodes that lead to it has an edge from HEAD.         *)
LEMMA BeforeHead ==
    ASSUME PassInv, CoreIn, pass = "done", Straight(orders) = orders,
           NEW n \in Ordered,
           \A k \in Ordered : Leads(orders, k, n) => ~ Leads(orders, k, HEAD),
           NEW m \in Ordered, Leads(orders, m, HEAD)
    PROVE  finish[m] > finish[n]
<1> DEFINE S == {k \in Ordered : Leads(orders, k, n)}
<1>1. /\ finish \in [Nodes -> Nat] /\ orders \in SUBSET Edge /\ orders \subseteq edges
      /\ HEAD \in Nodes /\ Acyclic(orders) /\ Falling(orders) /\ Falling(edges)
      /\ Ordered \in SUBSET Nodes
      /\ \A e \in edges : e.parent \in Ordered /\ e.child \in Ordered
      /\ edges = WithTail(WithHead(orders))
  BY LastOrder, AllOrdered DEF Ordered, PassInv, Shape
<1>2. S \in SUBSET Nodes /\ n \in S
  BY <1>1, LeadsOn
<1>3. PICK x \in S : \A e \in orders : e.child = x => e.parent \notin S
  <2> HIDE DEF S
  <2> QED
    BY <1>1, <1>2, FirstOne
<1>4. x \in Nodes /\ ~ Leads(orders, x, HEAD) /\ x # HEAD
  BY <1>1, <1>2, LeadsOn
<1>5. ASSUME NEW e \in orders, e.child = x PROVE FALSE
  <2>1. e.parent \in Ordered /\ e.parent \in Nodes
    BY <1>1
  <2>2. Leads(orders, e.parent, x)
    BY <1>1, <1>5, <2>1, LeadsOn
  <2>3. Leads(orders, e.parent, n)
    BY <1>1, <1>2, <1>4, <2>1, <2>2, LeadsOn
  <2> QED
    BY <1>3, <1>5, <2>1, <2>3
<1>6. x \in HeadOf(orders)
  <2>1. PICK e \in edges : x \in {e.parent, e.child}
    BY LastOrder DEF InGraph
  <2>2. CASE e \in orders
    BY <1>4, <1>5, <2>1, <2>2 DEF HeadOf, In
  <2>3. CASE e \in WithHead(orders) \ orders
    <3>1. PICK k \in HeadOf(orders) : e = OrderEdge(HEAD, k)
      BY <2>3 DEF WithHead
    <3> QED
      BY <1>4, <2>1, <3>1 DEF OrderEdge
  <2>4. CASE e \notin WithHead(orders)
    <3>1. PICK k \in TailOf(WithHead(orders)) : e = OrderEdge(k, TAIL)
      BY <1>1, <2>4 DEF WithTail
    <3>2. CASE x = TAIL
      BY <1>4, <1>5, <3>2, LastOrder DEF HeadOf
    <3>3. CASE x # TAIL
      <4>1. x = k
        BY <2>1, <3>1, <3>3 DEF OrderEdge
      <4>2. PICK f \in WithHead(orders) : x \in {f.parent, f.child}
        BY <3>1, <4>1 DEF TailOf, In
      <4>3. CASE f \in orders
        BY <1>4, <1>5, <4>2, <4>3 DEF HeadOf, In
      <4>4. CASE f \notin orders
        <5>1. PICK j \in HeadOf(orders) : f = OrderEdge(HEAD, j)
          BY <4>4 DEF WithHead
        <5> QED
          BY <1>4, <4>2, <5>1 DEF OrderEdge
      <4> QED
        BY <4>3, <4>4
    <3> QED
      BY <3>2, <3>3
  <2> QED
    BY <2>2, <2>3, <2>4
<1>7. finish[HEAD] > finish[x] /\ HEAD \in Ordered
  <2>1. OrderEdge(HEAD, x) \in edges
    BY <1>1, <1>6 DEF WithHead, WithTail
  <2>2. OrderEdge(HEAD, x).parent = HEAD /\ OrderEdge(HEAD, x).child = x
    BY DEF OrderEdge
  <2>3. HEAD \in Ordered
    BY <1>1, <2>1, <2>2
  <2> HIDE DEF S
  <2> QED
    BY <1>1, <2>1, <2>2, <2>3 DEF Falling, Ordered
<1>8. n = x \/ finish[x] > finish[n]
  BY <1>1, FallsAlong
<1>9. HEAD = m \/ finish[m] > finish[HEAD]
  BY <1>1, FallsAlong
<1>10. finish[m] \in Nat /\ finish[n] \in Nat /\ finish[x] \in Nat /\ finish[HEAD] \in Nat
  BY <1>1, <1>4
<1> QED
  BY <1>7, <1>8, <1>9, <1>10

(* What TAIL leads to is after a node that leads to nothing after TAIL: a   *)
(* last one among the nodes it leads to has an edge to TAIL.                *)
LEMMA AfterTail ==
    ASSUME PassInv, CoreIn, pass = "done", Straight(orders) = orders,
           ~ Leads(orders, TAIL, HEAD), NEW n \in Ordered,
           \A k \in Ordered : Leads(orders, n, k) =>
               k # HEAD /\ ~ Leads(orders, TAIL, k),
           NEW m \in Ordered, Leads(orders, TAIL, m)
    PROVE  finish[n] > finish[m]
<1> DEFINE S == {k \in Ordered : Leads(orders, n, k)}
           h == WithHead(orders)
<1>1. /\ finish \in [Nodes -> Nat] /\ orders \in SUBSET Edge /\ orders \subseteq edges
      /\ TAIL \in Nodes /\ Acyclic(orders) /\ Falling(orders) /\ Falling(edges)
      /\ Ordered \in SUBSET Nodes
      /\ \A e \in edges : e.parent \in Ordered /\ e.child \in Ordered
      /\ edges = WithTail(h)
  BY LastOrder, AllOrdered DEF Ordered, PassInv, Shape
<1>2. S \in SUBSET Nodes /\ n \in S /\ n \in Nodes
  BY <1>1, LeadsOn
<1>3. PICK x \in S : \A e \in orders : e.parent = x => e.child \notin S
  <2> HIDE DEF S
  <2> QED
    BY <1>1, <1>2, LastOne
<1>4. x \in Nodes /\ x # HEAD /\ ~ Leads(orders, TAIL, x) /\ x # TAIL
  BY <1>1, <1>2, LeadsOn
<1>5. ASSUME NEW e \in h, e.parent = x PROVE FALSE
  <2>1. e \in orders
    BY <1>4, <1>5 DEF WithHead, OrderEdge
  <2>2. e.child \in Ordered
    BY <1>1, <2>1
  <2>3. Leads(orders, n, e.child)
    BY <1>1, <1>2, <1>5, <2>1, LeadsOn
  <2> QED
    BY <1>3, <1>5, <2>1, <2>2, <2>3
<1>6. x \in TailOf(h)
  <2>1. ~ Leads(h, TAIL, x)
    <3> DEFINE T == {k \in Nodes : Leads(orders, TAIL, k)}
    <3>1. Over(h, T)
      <4> SUFFICES ASSUME NEW e \in h, e.parent \in T PROVE e.child \in T
        BY DEF Over
      <4>1. e \in orders
        BY DEF WithHead, OrderEdge
      <4> QED
        BY <1>1, <4>1, LeadsOn DEF Edge
    <3>2. TAIL \in T /\ x \notin T /\ T \in SUBSET Nodes
      BY <1>1, <1>4, LeadsOn
    <3> HIDE DEF h, S, T
    <3> QED
      BY <3>1, <3>2 DEF Leads
  <2>2. PICK e \in edges : x \in {e.parent, e.child}
    BY LastOrder DEF InGraph
  <2>3. In(h, x)
    <3>1. CASE e \in h
      BY <2>2, <3>1 DEF In
    <3>2. CASE e \notin h
      <4>1. PICK k \in TailOf(h) : e = OrderEdge(k, TAIL)
        BY <1>1, <3>2 DEF WithTail
      <4>2. x = k
        BY <1>4, <2>2, <4>1 DEF OrderEdge
      <4> QED
        BY <4>1, <4>2 DEF TailOf
    <3> QED
      BY <3>1, <3>2
  <2> QED
    BY <1>4, <1>5, <2>1, <2>3 DEF TailOf
<1>7. finish[x] > finish[TAIL] /\ TAIL \in Ordered
  <2>1. OrderEdge(x, TAIL) \in edges
    BY <1>1, <1>6 DEF WithTail
  <2>2. OrderEdge(x, TAIL).parent = x /\ OrderEdge(x, TAIL).child = TAIL
    BY DEF OrderEdge
  <2>3. x \in Ordered /\ TAIL \in Ordered
    BY <1>1, <2>1, <2>2
  <2> HIDE DEF S
  <2> QED
    BY <1>1, <2>1, <2>2, <2>3 DEF Falling, Ordered
<1>8. x = n \/ finish[n] > finish[x]
  BY <1>1, <1>4, FallsAlong
<1>9. m = TAIL \/ finish[TAIL] > finish[m]
  BY <1>1, <1>7, FallsAlong
<1>10. finish[m] \in Nat /\ finish[n] \in Nat /\ finish[x] \in Nat /\ finish[TAIL] \in Nat
  BY <1>1, <1>4
<1> QED
  BY <1>7, <1>8, <1>9, <1>10

(* A profile has its nodes in the order of all order tags that are on no    *)
(* cycle; and without a cycle what leads to HEAD comes before what is not   *)
(* tied to it, and what TAIL leads to after (profile.py:1195-1246).         *)
THEOREM OrderHonouredCorrect == Spec => []OrderHonoured
<1>1. PassInv /\ CoreIn => OrderHonoured
  <2> SUFFICES ASSUME PassInv, CoreIn, pass = "done"
               PROVE  /\ \A m, n \in Ordered :
                             m # n /\ Leads(Straight(orders), m, n) =>
                                 Precede(At(m), At(n))
                      /\ EndsPlaced
    BY DEF OrderHonoured
  <2>1. ASSUME NEW m \in Ordered, NEW n \in Ordered, m # n,
               Leads(Straight(orders), m, n)
        PROVE  Precede(At(m), At(n))
    <3>1. /\ finish \in [Nodes -> Nat] /\ Falling(Straight(orders))
          /\ Straight(orders) \in SUBSET Edge /\ n \in Nodes
      BY LastOrder DEF Straight, Ordered
    <3> QED
      BY <2>1, <3>1, FallsAlong, PrecedesBy
  <2>2. EndsPlaced
    <3> SUFFICES ASSUME Straight(orders) = orders
                 PROVE  EndsPlaced
      BY DEF EndsPlaced
    <3> QED
      BY BeforeHead, AfterTail, PrecedesBy DEF EndsPlaced
  <2> QED
    BY <2>1, <2>2
<1> QED
  BY <1>1, PassInvCorrect, CoreInCorrect, PTL
=============================================================================
