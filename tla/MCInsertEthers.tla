---------------------------- MODULE MCInsertEthers ---------------------------
(* Values for TLC: see MCInsertEthers*.cfg. *)
EXTENDS InsertEthers, TLC

CONSTANTS m1, m2, m3

(* The machines are alike, and no property tells them apart. *)
Alike == Permutations(Macs)

==============================================================================
