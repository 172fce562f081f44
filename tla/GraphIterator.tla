---------------------------- MODULE GraphIterator ---------------------------
(***************************************************************************)
(* The depth-first traversal of src/src/stack/pylib/stack/graph.py, which  *)
(* orders the plugins of every command (PluginOrder) and the node files of *)
(* every profile (NodeOrder).  The nodes come out of a dictionary and the  *)
(* edges in the order in which files were found in a directory, so that    *)
(* roots and children are taken in any order.                              *)
(***************************************************************************)
EXTENDS Naturals, FiniteSets

CONSTANTS
    Nodes,
    Nobody,    \* the parent of a root
    TAIL,      \* the name of the place at the end, in the graphs of plugins
               \* and of node files
    Labels,    \* what an edge carries: a conditional, or a generator
    NoLabel    \* an edge that carries nothing, and the root's missing edge

ASSUME GraphAssumption ==
    Nobody \notin Nodes /\ TAIL \in Nodes /\ NoLabel \in Labels

VARIABLES
    edges,     \* the graph
    time,      \* the counter that numbers visits and finishes
    seen,      \* when a node was visited; 0 is not yet
    finish,    \* when all its children were finished
    top,       \* the node that visit() is at
    caller,    \* from where visit() went to a node ...
    label      \* ... and over which kind of edge

position == <<time, seen, finish, top, caller, label>>

Edge == [parent : Nodes, child : Nodes, label : Labels]

GraphTypeOK ==
    /\ edges \subseteq Edge
    /\ time \in Nat
    /\ seen \in [Nodes -> Nat]
    /\ finish \in [Nodes -> Nat]
    /\ top \in Nodes \cup {Nobody}
    /\ caller \in [Nodes -> Nodes \cup {Nobody}]
    /\ label \in [Nodes -> Labels]

(* Edges enter a graph with their two nodes. *)
InGraph(n) == \E e \in edges : n \in {e.parent, e.child}
Roots == {n \in Nodes : InGraph(n) /\ \A e \in edges : e.child # n}
Leaves == {n \in Nodes : InGraph(n) /\ \A e \in edges : e.parent # n}

(* What can be reached along the edges of a graph is in every set that they *)
(* do not lead out of.                                                      *)
Over(g, S) == \A e \in g : e.parent \in S => e.child \in S

Leads(g, m, n) == \A S \in SUBSET Nodes : m \in S /\ Over(g, S) => n \in S

OnCycle(g, e) == Leads(g, e.child, e.parent)

(* GraphIterator.run() clears the marks before it visits anybody. *)
Cleared ==
    [time |-> 0, seen |-> [n \in Nodes |-> 0], finish |-> [n \in Nodes |-> 0],
     top |-> Nobody, caller |-> [n \in Nodes |-> Nobody],
     label |-> [n \in Nodes |-> NoLabel]]

Visit(n, from, l) ==
    /\ seen[n] = 0
    /\ time' = time + 1
    /\ seen' = [seen EXCEPT ![n] = time + 1]
    /\ top' = n
    /\ caller' = [caller EXCEPT ![n] = from]
    /\ label' = [label EXCEPT ![n] = l]
    /\ UNCHANGED <<edges, finish>>

(* The loop of run() over all nodes without an edge to them, or the root it *)
(* is given.                                                                *)
Start(n) == top = Nobody /\ Visit(n, Nobody, NoLabel)

Descend == \E e \in edges : e.parent = top /\ Visit(e.child, top, e.label)

(* A slip: a node is finished before its children are visited. *)
FinishAtOnce ==
    /\ top # Nobody
    /\ time' = time + 1
    /\ finish' = [finish EXCEPT ![top] = time + 1]
    /\ top' = caller[top]
    /\ UNCHANGED <<edges, seen, caller, label>>

Finish ==
    /\ top # Nobody
    /\ \A e \in edges : e.parent = top => seen[e.child] # 0
    /\ time' = time + 1
    /\ finish' = [finish EXCEPT ![top] = time + 1]
    /\ top' = caller[top]
    /\ UNCHANGED <<edges, seen, caller, label>>

(* The iterators sort by finishing time and reverse the list. *)
Before(m, n) == finish[m] > finish[n]

(* The members of S from the one with the least key on, as sort() puts them. *)
Sorted(S, key) ==
    [i \in 1 .. Cardinality(S) |->
        CHOOSE n \in S : Cardinality({m \in S : key[m] < key[n]}) = i - 1]

Done == top = Nobody /\ \A n \in Roots : seen[n] # 0
-----------------------------------------------------------------------------
(* The traversal of one graph. *)
GraphInit ==
    /\ edges \subseteq Edge
    /\ time = Cleared.time /\ seen = Cleared.seen /\ finish = Cleared.finish
    /\ top = Cleared.top /\ caller = Cleared.caller /\ label = Cleared.label

GraphNext == (\E n \in Roots : Start(n)) \/ Descend \/ Finish

GraphSpec == GraphInit /\ [][GraphNext]_<<edges, position>>
-----------------------------------------------------------------------------
Closed(S) == Over(edges, S)

Reaches(m, n) == Leads(edges, m, n)

(* In the order the iterators return, a node comes before the child of     *)
(* each of its edges that is on no cycle, whatever other cycles the graph  *)
(* has (profile.py:1245, commands/__init__.py:2196).                       *)
EdgesRespected ==
    \A e \in edges :
        finish[e.parent] # 0 /\ ~ Reaches(e.child, e.parent) =>
            finish[e.child] # 0 /\ Before(e.parent, e.child)

(* What the traversal has seen when it ends is what can be reached from a   *)
(* node without an edge to it: nodes of a cycle nobody leads to are left    *)
(* out, and no others (graph.py:284-296).                                   *)
ReachableOnly ==
    Done => \A n \in Nodes :
        finish[n] # 0 <=>
            \A S \in SUBSET Nodes : Roots \subseteq S /\ Closed(S) => n \in S
=============================================================================
