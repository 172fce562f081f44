------------------------------ MODULE NodeOrder -----------------------------
(***************************************************************************)
(* Which node files a profile is made of, and in which order: the command  *)
(* list node xml.  It reads the graph files into a framework graph and an  *)
(* order graph (GraphHandler), traverses the first one from the appliance's*)
(* node (FrameworkIterator), the second one three times (OrderIterator:    *)
(* backwards from HEAD, from TAIL, and from every root), and merges what   *)
(* they return.  Every traversal is one of GraphIterator.                  *)
(***************************************************************************)
EXTENDS GraphIterator, SequencesExt

CONSTANTS
    Root,       \* the node of the host's appliance
    HEAD,       \* the place of the front of a profile, as TAIL is of its end
    Dropped,    \* the label of a conditional that is false for the host,
                \* and of a generator other than the one that is asked for
    Absent,     \* a node the framework does not reach
    Names,      \* the place of a node's name among all names
    EdgeTags,   \* the <edge> and <to> tags that graph files may hold
    OrderTags,  \* the edges that their <order> tags may hold
    CoreTags    \* those of core.xml, which every graph has

ASSUME OrderAssumption ==
    /\ {Root, HEAD} \subseteq Nodes /\ IsFiniteSet(Nodes)
    /\ Labels = {NoLabel, Dropped} /\ Absent \notin Labels
    /\ EdgeTags \subseteq [parent : Nodes, child : Nodes, label : Labels,
                           nested : BOOLEAN, cond : Labels]
    /\ Names \in [Nodes -> Nat] /\ IsInjective(Names)
    /\ CoreTags \subseteq OrderTags /\ OrderTags \subseteq Edge
    /\ \A n \in {HEAD, TAIL} : \E e \in CoreTags : n \in {e.parent, e.child}

VARIABLES
    pass,    \* the traversal under way, "done" or "failed"
    main,    \* the framework graph, which is never changed
    orders,  \* the order graph as it was read
    found,   \* how the framework reached each node
    listed   \* the node files of the profile

vars == <<edges, position, pass, main, orders, found, listed>>

(* A tag's own conditional, <to cond="">, is joined with its <edge>'s and   *)
(* prunes the edge at once; an edge tag with both ends is always added, and *)
(* what is added carries the <edge>'s conditional.                          *)
MainEdge(tag) == [parent |-> tag.parent, child |-> tag.child, label |-> tag.label]
Added(tag) == tag.nested => tag.label = NoLabel /\ tag.cond = NoLabel

Reversed(g) == {[e EXCEPT !.parent = e.child, !.child = e.parent] : e \in g}

OrderEdge(m, n) == [parent |-> m, child |-> n, label |-> NoLabel]

OrderTypeOK ==
    /\ GraphTypeOK
    /\ pass \in {"framework", "head", "tail", "final", "done", "failed"}
    /\ main \subseteq Edge /\ orders \subseteq Edge
    /\ found \in [Nodes -> Labels \cup {Absent}]
    /\ listed \in Seq(Nodes)

Init ==
    /\ \E tags \in SUBSET EdgeTags :
           main = {MainEdge(t) : t \in {u \in tags : Added(u)}}
    /\ edges = main
    /\ \E more \in SUBSET OrderTags : orders = CoreTags \cup more
    /\ time = Cleared.time /\ seen = Cleared.seen /\ finish = Cleared.finish
    /\ top = Cleared.top /\ caller = Cleared.caller /\ label = Cleared.label
    /\ pass = "framework"
    /\ found = [n \in Nodes |-> Absent]
    /\ listed = <<>>

(* From where each traversal starts. *)
Starts ==
    CASE pass = "framework" -> {Root} \cap {n \in Nodes : InGraph(n)}
      [] pass = "head" -> {HEAD}
      [] pass = "tail" -> {TAIL}
      [] pass = "final" -> Roots
      [] OTHER -> {}

Traverse ==
    /\ (\E n \in Starts : Start(n)) \/ Descend \/ Finish
    /\ UNCHANGED <<pass, main, orders, found, listed>>

Ended == top = Nobody /\ \A n \in Starts : seen[n] # 0

(* A traversal of another graph, with new marks. *)
Turn(next, graph) ==
    /\ pass' = next
    /\ edges' = graph
    /\ time' = Cleared.time /\ seen' = Cleared.seen /\ finish' = Cleared.finish
    /\ top' = Cleared.top /\ caller' = Cleared.caller /\ label' = Cleared.label

NoRoot ==
    /\ pass = "framework" /\ Starts = {}
    /\ pass' = "failed"
    /\ UNCHANGED <<edges, position, main, orders, found, listed>>

(* A node reached over several edges keeps the conditional of the one that  *)
(* was taken first.                                                         *)
FrameworkFound ==
    /\ pass = "framework" /\ Starts # {} /\ Ended
    /\ found' = [n \in Nodes |-> IF seen[n] = 0 THEN Absent ELSE label[n]]
    /\ Turn("head", Reversed(orders))
    /\ UNCHANGED <<main, orders, listed>>

Unmarked(ns) == {n \in ns : seen[n] = 0}

(* The edges are the reversed ones, of which a leaf is a root. *)
HeadPlaced ==
    /\ pass = "head" /\ Ended
    /\ Turn("tail", orders \cup {OrderEdge(HEAD, n) : n \in Unmarked(Leaves)})
    /\ UNCHANGED <<main, orders, found, listed>>

(* A slip: TAIL is led to by the nodes it leads to, too. *)
TailPlacedAfterAll ==
    /\ pass = "tail" /\ Ended
    /\ Turn("final", edges \cup {OrderEdge(n, TAIL) : n \in Leaves})
    /\ UNCHANGED <<main, orders, found, listed>>

TailPlaced ==
    /\ pass = "tail" /\ Ended
    /\ Turn("final", edges \cup {OrderEdge(n, TAIL) : n \in Unmarked(Leaves)})
    /\ UNCHANGED <<main, orders, found, listed>>

Ordered == {n \in Nodes : finish[n] # 0}

(* The name of an ordered node is looked up among the framework's nodes, *)
(* and a filtered one is neither an ordered nor a plain node then.       *)
OrderedKept(n) == label[n] = NoLabel /\ found[n] = NoLabel

(* A slip: the nodes of the order graph are not taken out. *)
PlainKeptTwice(n) == found[n] = NoLabel

PlainKept(n) == found[n] = NoLabel /\ n \notin Ordered

(* The framework's nodes come by name. *)
Plain == Sorted({n \in Nodes : PlainKept(n)}, Names)

(* A slip: the list is not reversed. *)
DepsBackwards == Sorted(Ordered, finish)

Deps == Reverse(Sorted(Ordered, finish))

(* The plain nodes take the place of TAIL. *)
AtPlace(n) == IF n = TAIL THEN Plain
              ELSE IF OrderedKept(n) THEN <<n>> ELSE <<>>

Merged ==
    FlattenSeq([i \in DOMAIN Deps |-> AtPlace(Deps[i])])
        \o IF TAIL \in Ordered THEN <<>> ELSE Plain

Merge ==
    /\ pass = "final" /\ Ended
    /\ pass' = "done"
    /\ listed' = Merged
    /\ UNCHANGED <<edges, position, main, orders, found>>

Next == Traverse \/ NoRoot \/ FrameworkFound \/ HeadPlaced \/ TailPlaced \/ Merge

(* One process runs the command; nothing in it waits. *)
Spec == Init /\ [][Next]_vars /\ WF_vars(Next)
-----------------------------------------------------------------------------
Straight(g) == {e \in g : ~ OnCycle(g, e)}

(* The order the last traversal finds satisfies every order tag on no cycle *)
(* of order tags: the edges added for HEAD and TAIL, which are chosen by    *)
(* what the first two traversals marked, put no tag on a cycle it was not   *)
(* on (profile.py:1195-1246).                                               *)
TagsHeld ==
    pass = "done" =>
        \A e \in orders :
            finish[e.parent] # 0 /\ ~ OnCycle(orders, e) =>
                finish[e.child] # 0 /\ Before(e.parent, e.child)

(* The files that stand at an ordered node's place. *)
At(n) == IF n = TAIL THEN {m \in ToSet(listed) : m \notin Ordered}
         ELSE {n} \cap ToSet(listed)

Precede(A, B) ==
    \A i, j \in DOMAIN listed : listed[i] \in A /\ listed[j] \in B => i < j

(* In a graph without cycles what leads to HEAD is before every node of     *)
(* which no predecessor leads to HEAD; and if TAIL does not lead to HEAD, a *)
(* node whose successors are neither HEAD nor successors of TAIL is before  *)
(* TAIL and all that TAIL leads to.                                         *)
EndsPlaced ==
    Straight(orders) = orders =>
        /\ \A n \in Ordered :
               (\A m \in Ordered : Leads(orders, m, n) => ~ Leads(orders, m, HEAD)) =>
                   \A m \in Ordered : Leads(orders, m, HEAD) => Precede(At(m), At(n))
        /\ ~ Leads(orders, TAIL, HEAD) =>
               \A n \in Ordered :
                   (\A m \in Ordered : Leads(orders, n, m) =>
                         m # HEAD /\ ~ Leads(orders, TAIL, m)) =>
                       \A m \in Ordered : Leads(orders, TAIL, m) => Precede(At(n), At(m))

(* The profile has its nodes in the order of all order tags that are on no  *)
(* cycle, through nodes that are left out as well, and the nodes without    *)
(* an order tag at the place of TAIL; what no tag ties to HEAD or TAIL is   *)
(* between them, unless tags put TAIL before HEAD. The edges that are added *)
(* for the two put nothing else out of order (profile.py:1195-1246).        *)
OrderHonoured ==
    pass = "done" =>
        /\ LET straight == Straight(orders)
           IN  \A m, n \in Ordered :
                   m # n /\ Leads(straight, m, n) => Precede(At(m), At(n))
        /\ EndsPlaced

(* What is said of TAIL: it is forced as close as possible to the end, so   *)
(* that a node TAIL does not lead to is before it (profile.py:1219-1224).   *)
TailLast ==
    pass = "done" /\ Straight(orders) = orders =>
        \A n \in Ordered : ~ Leads(orders, TAIL, n) => Precede(At(n), At(TAIL))

InEdges(g, n) == {e \in g : e.child = n}
AllApply(g, n) == \A e \in InEdges(g, n) : e.label = NoLabel
NoneApplies(g, n) == InEdges(g, n) # {} /\ \A e \in InEdges(g, n) : e.label # NoLabel

Framework == {e \in main : Leads(main, Root, e.parent)}

(* A node file is in the profile once if every edge to it applies to the    *)
(* host, and not at all if no framework edge does, or the framework does    *)
(* not reach it: the order graph adds none. A node the framework and an     *)
(* order tag both name is not listed twice (xml/__init__.py:333-374).       *)
Selected ==
    pass = "done" =>
        /\ \A i, j \in DOMAIN listed : listed[i] = listed[j] => i = j
        /\ \A n \in Nodes \ {Root, TAIL} :
               /\ Leads(main, Root, n) /\ AllApply(Framework, n) /\ AllApply(orders, n)
                      => n \in ToSet(listed)
               /\ ~ Leads(main, Root, n) \/ NoneApplies(Framework, n)
                      => n \notin ToSet(listed)

(* Whatever cycles the graph files make, the command comes to an end. *)
CommandEnds == <>(pass \in {"done", "failed"})
=============================================================================
