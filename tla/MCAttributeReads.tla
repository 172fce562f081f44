--------------------------- MODULE MCAttributeReads -------------------------
(* Values for TLC: two hosts of different appliances, and commands of every  *)
(* kind for the processes.                                                   *)
EXTENDS AttributeReads

CONSTANTS h1, h2, redhat, backend, storage, test1, a, ab, v1, v2, p, q, r1

G == <<"G", None>>

MCMember == [h \in {h1, h2} |->
    [O |-> redhat, A |-> IF h = h1 THEN backend ELSE storage, E |-> test1]]

Of(t, k, v, s) == [target |-> t, key |-> k, value |-> v, shadow |-> s]

(* The environment's attribute was set before its commands failed. *)
MCInitially ==
    {{Of(G, a, v1, None), Of(<<"H", h1>>, a, v1, None)},
     {Of(G, a, v1, None), Of(<<"H", h1>>, a, v1, None), Of(<<"A", backend>>, a, None, v2),
      Of(<<"E", test1>>, a, v2, None), Of(G, ab, v1, None)}}

SetTo(op, ts, v, s) == [op |-> op, targets |-> ts, key |-> a, value |-> v, shadow |-> s]
Line(t, cell) == [target |-> t, cells |-> [k \in {a} |-> cell]]

MCExtends == {<<a, ab>>}

MCCommands ==
    {SetTo("set", {<<"H", h1>>, <<"H", h2>>}, v2, FALSE),
     SetTo("add", {<<"A", backend>>}, v1, FALSE),
     SetTo("set", {<<"E", test1>>}, v1, FALSE),
     SetTo("set", {<<"H", h1>>}, v1, TRUE),
     SetTo("add", {G}, v2, FALSE),
     [op |-> "remove", targets |-> {<<"A", backend>>}, key |-> a],
     [op |-> "load", sheet |-> <<Line(<<"A", backend>>, None), Line(None, v2),
                                  Line(<<"H", h1>>, None), Line(None, v1)>>]}
=============================================================================
