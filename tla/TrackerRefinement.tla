-------------------------- MODULE TrackerRefinement -------------------------
(***************************************************************************)
(* The refinement mapping from the circular table of TrackerServer to the  *)
(* queue of TrackerList, and the properties of the table on its own.       *)
(***************************************************************************)
EXTENDS TrackerServer

(* The slots strictly between tail and head. *)
Window(t) == {Below(t, d) : d \in 1..Span(t)}

(* The entries of the window, oldest first. *)
Entries(t) ==
    LET walked == [d \in 1..Span(t) |-> t.entry[Below(t, Span(t) + 1 - d)]] IN
    Filtered(walked, {d \in DOMAIN walked : walked[d].hash # NoHash})

Queue(t) == LET e == Entries(t) IN [k \in DOMAIN e |-> e[k].hash]

PeersOf(t, h) ==
    LET at == {i \in Window(t) : t.entry[i].hash = h} IN
    IF at = {} THEN <<>> ELSE t.entry[CHOOSE i \in at : TRUE].peers

List == INSTANCE TrackerList WITH
    queue <- Queue(table), peers <- [h \in Hashes |-> PeersOf(table, h)]

(* The tracker is a queue of hashes: whatever the head and the tail do,
   growing, wrapping, compacting and reclaiming included, every request has
   the effect and the answer it has on the queue. *)
ImplementsList == List!Spec

-----------------------------------------------------------------------------
(* The slots in use are the ones between the tail and the head, with no
   free slot among them, which is what verify_hash_table() walks the table
   for; and a hash has one of them, so that all its peers are found
   together. *)
WindowExact ==
    /\ table.head # table.tail
    /\ \A i \in Slots(table) : InUse(table, i) <=> i \in Window(table)
    /\ \A i, j \in Window(table) : table.entry[i].hash = table.entry[j].hash => i = j

(* getpeers: "if we made it here, then the hash is not in the table". *)
MissMeansAbsent ==
    \A h \in Hashes :
        getpeers(table, h) = {} => \A i \in Slots(table) : table.entry[i].hash # h

=============================================================================
