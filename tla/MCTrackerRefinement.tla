------------------------ MODULE MCTrackerRefinement -------------------------
(* Values for TLC: see MCTrackerRefinement*.cfg. *)
EXTENDS TrackerRefinement

CONSTANTS p1, p2, h1, h2, h3

NoCoops == [p \in Peers |-> NoCoop]

=============================================================================
