--------------------------- MODULE MCTrackerServer --------------------------
(* Values for TLC: the cfg files MCTrackerServer*.cfg choose among them. *)
EXTENDS TrackerServer

CONSTANTS p1, p2, p3, h1, h2, rackA, rackB

(* p1 and p2 in one rack, p3 in another. *)
TwoRacks == [p \in Peers |-> IF p = p3 THEN rackB ELSE rackA]

NoCoops == [p \in Peers |-> NoCoop]

=============================================================================
