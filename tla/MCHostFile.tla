----------------------------- MODULE MCHostFile -----------------------------
(* Values for TLC: a frontend and three hosts, and spreadsheets that add,    *)
(* move and swap them, or that are wrong in one of the ways there are.       *)
EXTENDS HostFile

CONSTANTS l1, l2, fe, h1, h2, h3, backend, r0, r1, e0, e1, m1, m2, a1, a2, rack, racks

At1(h, device, mac, ip) ==
    [host |-> h, appliance |-> backend, place |-> r1, device |-> device, mac |-> mac,
     ip |-> ip, default |-> FALSE, boss |-> None, groups |-> {}]

MCNamed == [h \in {fe, h1, h2, h3} |-> IF h = h2 THEN r0 ELSE None]
MCWithin == {<<rack, rack>>, <<racks, racks>>, <<rack, racks>>}

Node(i, h) == [id |-> i, name |-> h, appliance |-> backend, place |-> r0]
Card(i, device, mac, ip) ==
    [node |-> i, device |-> device, mac |-> mac, ip |-> ip, main |-> device = e0,
     named |-> TRUE]

MCInitially ==
    {[nodes |-> {Node(1, fe)}, networks |-> {Card(1, e0, None, None)},
      groups |-> {}, members |-> {}, serial |-> 2],
     \* a host that had the id 4 was removed
     [nodes |-> {Node(1, fe), Node(2, h1), Node(3, h2)},
      networks |-> {Card(1, e0, None, None), Card(2, e0, m1, a1), Card(2, e1, None, None),
                   Card(3, e0, m2, a2)},
      groups |-> {racks}, members |-> {<<2, racks>>}, serial |-> 5]}

MCSheets ==
    LET one == At1(h1, e0, m1, a1)
        two == At1(h2, e0, None, a2)
    IN  {<<one, two>>,
         \* the addresses swapped, and the rack of the second in its name
         <<[one EXCEPT !.ip = a2], [two EXCEPT !.ip = a1, !.place = None]>>,
         \* two interfaces, and groups that have to be made
         <<[two EXCEPT !.default = TRUE, !.groups = {rack}],
           [two EXCEPT !.device = e1, !.ip = None, !.place = None]>>,
         <<[one EXCEPT !.groups = {racks}]>>,
         \* nothing below the header
         <<>>,
         \* a host of another frontend
         <<[one EXCEPT !.boss = "other"], [two EXCEPT !.boss = Boss]>>,
         <<[one EXCEPT !.boss = Boss], two>>,
         \* no rack; and what the checks reject
         <<[At1(h3, e0, m2, a2) EXCEPT !.place = None]>>,
         <<one, [one EXCEPT !.device = e1]>>,
         <<one, [two EXCEPT !.ip = a1]>>,
         <<one, [one EXCEPT !.place = r0]>>,
         <<[one EXCEPT !.device = None]>>}
=============================================================================
