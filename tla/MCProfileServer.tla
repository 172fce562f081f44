--------------------------- MODULE MCProfileServer --------------------------
(* Three installers and two permits: two may generate while the third is   *)
(* told to wait.                                                           *)
EXTENDS ProfileServer
=============================================================================
