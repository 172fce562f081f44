----------------------------- MODULE MCNodeOrder ----------------------------
(* A root that is before HEAD and a node that is after TAIL in every graph, *)
(* two nodes that may be anywhere, tags that put TAIL before HEAD, and a    *)
(* node that no order tag names.                                            *)
EXTENDS NodeOrder

CONSTANTS root, a, b, c, d

Tag(m, n, l, nested, own) ==
    [parent |-> m, child |-> n, label |-> l, nested |-> nested, cond |-> own]

MCNames ==
    [n \in Nodes |-> CHOOSE i \in 1 .. 7 : <<HEAD, TAIL, a, b, c, d, root>>[i] = n]

MCEdgeTags ==
    {Tag(root, a, NoLabel, FALSE, NoLabel), Tag(root, a, Dropped, FALSE, NoLabel),
     Tag(root, b, NoLabel, TRUE, NoLabel), Tag(root, d, NoLabel, TRUE, NoLabel),
     Tag(a, b, Dropped, FALSE, NoLabel), Tag(b, a, NoLabel, TRUE, NoLabel),
     Tag(b, c, NoLabel, FALSE, NoLabel), Tag(root, c, NoLabel, TRUE, Dropped)}

MCCoreTags ==
    {[parent |-> root, child |-> HEAD, label |-> NoLabel],
     [parent |-> TAIL, child |-> c, label |-> NoLabel]}

MCOrderTags == MCCoreTags \cup
    {[parent |-> a, child |-> b, label |-> NoLabel],
     [parent |-> b, child |-> a, label |-> NoLabel],
     [parent |-> b, child |-> c, label |-> Dropped],
     [parent |-> TAIL, child |-> b, label |-> NoLabel],
     [parent |-> a, child |-> TAIL, label |-> NoLabel],
     [parent |-> TAIL, child |-> HEAD, label |-> NoLabel]}
=============================================================================
