------------------------------ MODULE MCRunHost -----------------------------
EXTENDS RunHost

MCLimits == 0 .. 2
MCTimeouts == {0, 1}
=============================================================================
