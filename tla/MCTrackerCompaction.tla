------------------------ MODULE MCTrackerCompaction -------------------------
(* Values for TLC: see MCTrackerCompaction.cfg. *)
EXTENDS TrackerCompaction

AnyCoop == [p \in Peers |-> NoCoop]

=============================================================================
