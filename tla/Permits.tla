------------------------------- MODULE Permits ------------------------------
(***************************************************************************)
(* What the semaphore of src/src/stack/kickstart/profile.py promises to    *)
(* the machine it runs on: a stock of permits, one per profile generator.  *)
(* A permit is taken, and given back or lost; nothing ever finds a lost    *)
(* one again.  The count may be forgotten, and then the stock starts       *)
(* afresh although permits are out.                                        *)
(***************************************************************************)
EXTENDS Naturals, FiniteSets

CONSTANTS
    Clients,
    CPUs       \* the permits of a fresh stock

VARIABLES
    free,      \* the permits in stock
    holders,   \* who holds one
    lost,      \* how many were never given back
    resets     \* how often the count was forgotten

vars == <<free, holders, lost, resets>>

Init == free = CPUs /\ holders = {} /\ lost = 0 /\ resets = 0

Take(c) ==
    /\ free > 0 /\ c \notin holders
    /\ free' = free - 1 /\ holders' = holders \cup {c}
    /\ UNCHANGED <<lost, resets>>

Give(c) ==
    /\ c \in holders
    /\ free' = free + 1 /\ holders' = holders \ {c}
    /\ UNCHANGED <<lost, resets>>

Lose(c) ==
    /\ c \in holders
    /\ holders' = holders \ {c} /\ lost' = lost + 1
    /\ UNCHANGED <<free, resets>>

(* The process that is about to store the count dies, with its permit if   *)
(* it has one.                                                             *)
Forget(c) ==
    /\ free' = CPUs /\ resets' = resets + 1
    /\ holders' = holders \ {c}
    /\ lost' = IF c \in holders THEN lost + 1 ELSE lost

Next == \E c \in Clients : Take(c) \/ Give(c) \/ Lose(c) \/ Forget(c)

Spec == Init /\ [][Next]_vars
=============================================================================
