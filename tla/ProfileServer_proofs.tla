------------------------ MODULE ProfileServer_proofs ------------------------
(***************************************************************************)
(* Theorems about ProfileServer, for any number of installers, processors  *)
(* and retries; and about run host, for every finite set of hosts and      *)
(* every value of its parameters.                                          *)
(***************************************************************************)
EXTENDS ProfileServer, RunHost, FiniteSetTheorems, TLAPS

(* The lock is with the one process that is between acquire and release. *)
MutexInv == \A c \in Clients : mutex = c <=> pc[c] \in Critical

(* What a process read under the lock is still what the file says, until   *)
(* it opened the file to write: then the number is only in the process.    *)
CountInv ==
    \A c \in Clients :
        /\ pc[c] = "busy" => Stock = 0
        /\ pc[c] = "pushopen" => count[c] + 1 = Stock
        /\ pc[c] = "popopen" => file # None /\ count[c] = file + 1
        /\ pc[c] \in {"pushwrite", "popwrite"} => file = None
        /\ pc[c] = "popwrite" => count[c] > 0

(* An installer that has not given up has a transfer left. *)
RetryInv == \A c \in Clients : pc[c] # "failed" => retry[c] < RETRIES

Safe == TypeOK /\ MutexInv /\ CountInv /\ RetryInv

(* The permits there ever were: those in stock, those out and those lost. *)
Total == Free + Cardinality(Holders) + lost

Balance ==
    /\ Total <= CPUs * (1 + resets)
    /\ resets = 0 => Total = CPUs

Inv == Safe /\ Balance

-----------------------------------------------------------------------------
(* One more reset allows one more stock. *)
LEMMA OneStockMore ==
    ASSUME NEW n \in Nat, NEW r \in Nat
    PROVE  n * (1 + (r + 1)) = n * (1 + r) + n
    BY Z3

(* Products of naturals are naturals. *)
LEMMA ProductType ==
    ASSUME NEW n \in Nat, NEW r \in Nat
    PROVE  n * (1 + r) \in Nat
    BY Z3

(* A stock that is filled up again was not negative before. *)
LEMMA ResetAdds ==
    ASSUME NEW f \in Nat, NEW h \in Nat, NEW l \in Nat, NEW b \in Nat, NEW n \in Nat,
           NEW h1 \in Nat, NEW l1 \in Nat,
           f + h + l <= b, h1 + l1 = h + l
    PROVE  n + h1 + l1 <= b + n
    BY Z3

(* There are finitely many holders, and a natural number of permits. *)
LEMMA Counted ==
    ASSUME TypeOK, CountInv
    PROVE  /\ IsFiniteSet(Holders) /\ Holders \subseteq Clients
           /\ Cardinality(Holders) \in Nat
           /\ Stock \in Nat /\ Free \in Nat
<1>1. Holders \subseteq Clients
  BY DEF Holders
<1>2. IsFiniteSet(Holders) /\ Cardinality(Holders) \in Nat
  BY <1>1, ProfileAssumption, FS_Subset, FS_CardinalityType
<1>3. Stock \in Nat
  BY ProfileAssumption DEF Stock, TypeOK, None
<1>4. Free \in Nat
  BY <1>3, ProfileAssumption DEF Free, TypeOK, CountInv
<1> QED
  BY <1>1, <1>2, <1>3, <1>4

(* The program starts in a state that satisfies the invariant. *)
LEMMA InitInv == Init => Inv
<1> SUFFICES ASSUME Init PROVE Inv
  OBVIOUS
<1>1. TypeOK
  BY ProfileAssumption DEF Init, TypeOK, None, Running, Critical, Holding, Ended
<1>2. MutexInv /\ CountInv /\ RetryInv
  BY ProfileAssumption DEF Init, MutexInv, CountInv, RetryInv, Critical
<1>3. Holders = {}
  BY DEF Init, Holders, Holding
<1>4. Free = CPUs /\ lost = 0 /\ resets = 0
  BY DEF Init, Free, Stock
<1>5. Balance
  BY <1>3, <1>4, FS_EmptySet, ProfileAssumption DEF Balance, Total
<1> QED
  BY <1>1, <1>2, <1>5 DEF Inv, Safe

-----------------------------------------------------------------------------
(* A failed transfer moves its installer on, and no other. *)
LEMMA TransferFailsType ==
    ASSUME TypeOK, RetryInv, NEW c \in Clients, TransferFails(c), pc[c] \in Running
    PROVE  /\ tries' \in [Clients -> 0..TRIES] /\ retry' \in [Clients -> 0..RETRIES]
           /\ pc' \in [Clients -> Running \cup Ended \cup {"sleeping"}]
           /\ pc'[c] \in {"sleeping", "failed"}
           /\ \A d \in Clients \ {c} : pc'[d] = pc[d]
           /\ RetryInv'
<1>1. retry[c] < RETRIES /\ retry[c] \in Nat
  BY DEF TypeOK, RetryInv, Running, Critical, Holding
<1>2. retry' \in [Clients -> 0..RETRIES] /\ tries' \in [Clients -> 0..TRIES]
  BY <1>1, ProfileAssumption DEF TypeOK, TransferFails
<1>3. pc'[c] \in {"sleeping", "failed"} /\ \A d \in Clients \ {c} : pc'[d] = pc[d]
  BY DEF TypeOK, TransferFails, GoTo
<1>4. pc' \in [Clients -> Running \cup Ended \cup {"sleeping"}]
  BY DEF TypeOK, TransferFails, GoTo, Ended
<1>5. RetryInv'
  BY <1>1, <1>3, ProfileAssumption DEF TypeOK, RetryInv, TransferFails, GoTo
<1> QED
  BY <1>2, <1>3, <1>4, <1>5

(* The same for the whole loop around a 503 answer. *)
LEMMA ServerBusyType ==
    ASSUME TypeOK, RetryInv, NEW c \in Clients, ServerBusy(c), pc[c] \in Running
    PROVE  /\ tries' \in [Clients -> 0..TRIES] /\ retry' \in [Clients -> 0..RETRIES]
           /\ pc' \in [Clients -> Running \cup Ended \cup {"sleeping"}]
           /\ pc'[c] \in {"sleeping", "failed"}
           /\ \A d \in Clients \ {c} : pc'[d] = pc[d]
           /\ RetryInv'
<1>1. CASE tries[c] < TRIES
  <2>1. /\ tries' = [tries EXCEPT ![c] = @ + 1] /\ retry' = retry
        /\ pc' = [pc EXCEPT ![c] = "sleeping"]
    BY <1>1 DEF ServerBusy, GoTo
  <2>2. tries' \in [Clients -> 0..TRIES]
    BY <1>1, <2>1, ProfileAssumption DEF TypeOK
  <2> QED
    BY <2>1, <2>2 DEF TypeOK, RetryInv, Running, Critical, Holding
<1>2. CASE ~(tries[c] < TRIES)
  BY <1>2, TransferFailsType DEF ServerBusy
<1> QED
  BY <1>1, <1>2

(* ... and for the end of a process that may have printed a profile. *)
LEMMA AnswerType ==
    ASSUME TypeOK, RetryInv, NEW c \in Clients, Answer(c), pc[c] \in Running
    PROVE  /\ tries' \in [Clients -> 0..TRIES] /\ retry' \in [Clients -> 0..RETRIES]
           /\ pc' \in [Clients -> Running \cup Ended \cup {"sleeping"}]
           /\ pc'[c] \in {"sleeping"} \cup Ended
           /\ \A d \in Clients \ {c} : pc'[d] = pc[d]
           /\ RetryInv'
<1>1. CASE GoTo(c, "served") /\ UNCHANGED loaders
  BY <1>1 DEF TypeOK, RetryInv, GoTo, loaders, Ended, Running, Critical, Holding
<1>2. CASE TransferFails(c)
  BY <1>2, TransferFailsType DEF Ended
<1> QED
  BY <1>1, <1>2 DEF Answer

-----------------------------------------------------------------------------
(* Every step keeps types, lock, counts and retries as they should be. *)
LEMMA SafeKept == Safe /\ [Next]_vars => Safe'
<1> SUFFICES ASSUME Safe, [Next]_vars PROVE Safe'
  OBVIOUS
<1> USE DEF Safe
<1>1. CASE UNCHANGED vars
  BY <1>1 DEF vars, loaders, TypeOK, MutexInv, CountInv, RetryInv, Stock
<1>2. ASSUME NEW c \in Clients, Request(c) PROVE Safe'
  BY <1>2 DEF Request, GoTo, loaders, TypeOK, MutexInv, CountInv, RetryInv, Stock,
              Running, Critical, Holding, Ended
<1>3. ASSUME NEW c \in Clients, Deny(c) PROVE Safe'
  <2>1. pc[c] \in Running /\ pc[c] \notin Critical
    BY <1>3 DEF Deny, Running, Critical
  <2> QED
    BY <1>3, <2>1, TransferFailsType
       DEF Deny, TypeOK, MutexInv, CountInv, Stock, Critical
<1>4. ASSUME NEW c \in Clients, Push(c) PROVE Safe'
  <2>1. Stock \in Nat
    BY ProfileAssumption DEF TypeOK, Stock, None
  <2> QED
    BY <1>4, <2>1, ProfileAssumption
       DEF Push, GoTo, loaders, TypeOK, MutexInv, CountInv, RetryInv, Stock,
           Running, Critical, Holding, Ended, None
<1>5. ASSUME NEW c \in Clients, Busy(c) PROVE Safe'
  <2>1. pc[c] \in Running /\ mutex = c
    BY <1>5 DEF Busy, Running, Critical, MutexInv
  <2> QED
    BY <1>5, <2>1, ServerBusyType, ProfileAssumption
       DEF Busy, Unlock, TypeOK, MutexInv, CountInv, Stock, Critical
<1>6. ASSUME NEW c \in Clients, Open(c) PROVE Safe'
  <2>1. mutex = c
    BY <1>6 DEF Open, MutexInv, Critical
  <2> QED
    BY <1>6, <2>1 DEF Open, GoTo, loaders, TypeOK, MutexInv, CountInv, RetryInv,
                      Stock, Running, Critical, Holding, Ended, None
<1>7. ASSUME NEW c \in Clients, WritePush(c) PROVE Safe'
  <2>1. mutex = c
    BY <1>7 DEF WritePush, MutexInv, Critical
  <2> QED
    BY <1>7, <2>1, ProfileAssumption
       DEF WritePush, Unlock, GoTo, loaders, TypeOK, MutexInv, CountInv, RetryInv,
           Stock, Running, Critical, Holding, Ended
<1>8. ASSUME NEW c \in Clients, Generate(c) PROVE Safe'
  BY <1>8 DEF Generate, GoTo, loaders, TypeOK, MutexInv, CountInv, RetryInv, Stock,
              Running, Critical, Holding, Ended
<1>9. ASSUME NEW c \in Clients, Pop(c) PROVE Safe'
  <2>1. pc[c] \in Running /\ pc[c] \notin Critical
    BY <1>9 DEF Pop, Running, Holding, Critical
  <2>2. CASE file = None
    BY <1>9, <2>1, <2>2, AnswerType, ProfileAssumption
       DEF Pop, TypeOK, MutexInv, CountInv, Stock, Critical, Ended
  <2>3. CASE file # None
    BY <1>9, <2>3, ProfileAssumption
       DEF Pop, GoTo, loaders, TypeOK, MutexInv, CountInv, RetryInv, Stock,
           Running, Critical, Holding, Ended, None
  <2> QED
    BY <2>2, <2>3
<1>10. ASSUME NEW c \in Clients, WritePop(c) PROVE Safe'
  <2>1. pc[c] \in Running /\ mutex = c
    BY <1>10 DEF WritePop, Running, Critical, MutexInv
  <2> QED
    BY <1>10, <2>1, AnswerType, ProfileAssumption
       DEF WritePop, Unlock, TypeOK, MutexInv, CountInv, Stock, Critical, Ended
<1>11. ASSUME NEW c \in Clients, Die(c) PROVE Safe'
  BY <1>11, TransferFailsType, ProfileAssumption
     DEF Die, Unlock, TypeOK, MutexInv, CountInv, Stock, Critical
<1> QED
  BY <1>1, <1>2, <1>3, <1>4, <1>5, <1>6, <1>7, <1>8, <1>9, <1>10, <1>11
     DEF Next, Step
-----------------------------------------------------------------------------
(* Every step of the processes is one of the stock of permits, or none: a  *)
(* permit is taken where the push is written, and given back where the pop *)
(* is written.                                                             *)
LEMMA StepSimulates == Safe /\ [Next]_vars => [Abstract!Next]_(Abstract!vars)
<1> SUFFICES ASSUME Safe, [Next]_vars PROVE [Abstract!Next]_(Abstract!vars)
  OBVIOUS
<1> USE DEF Safe
<1>s. Safe'
  BY SafeKept
<1>f. Stock \in Nat /\ Stock' \in Nat
  BY <1>s, Counted, ProfileAssumption DEF TypeOK, Stock, None
<1>o. ASSUME NEW c \in Clients, mutex' = NoOne PROVE Free' = Stock'
  BY <1>o DEF Free
<1>m. ASSUME NEW c \in Clients, mutex = c
      PROVE  Free = IF pc[c] = "pushwrite" THEN count[c] + 1
                    ELSE IF pc[c] = "popwrite" THEN count[c] - 1 ELSE Stock
  BY <1>m, ProfileAssumption DEF Free
<1>n. ASSUME NEW c \in Clients, mutex' = c
      PROVE  Free' = IF pc'[c] = "pushwrite" THEN count'[c] + 1
                     ELSE IF pc'[c] = "popwrite" THEN count'[c] - 1 ELSE Stock'
  BY <1>n, ProfileAssumption DEF Free
<1>u. ASSUME UNCHANGED <<Free, Holders, lost, resets>>
      PROVE  [Abstract!Next]_(Abstract!vars)
  BY <1>u DEF Abstract!vars
<1>1. CASE UNCHANGED vars
  BY <1>1, <1>u DEF vars, loaders, Free, Stock, Holders
<1>2. ASSUME NEW c \in Clients, Request(c) PROVE UNCHANGED <<Free, Holders, lost, resets>>
  <2>1. Holders' = Holders
    BY <1>2 DEF Request, GoTo, Holders, Holding, TypeOK
  <2>2. Free' = Free
    BY <1>2, ProfileAssumption DEF Request, GoTo, Free, Stock, TypeOK
  <2> QED
    BY <1>2, <2>1, <2>2 DEF Request
<1>3. ASSUME NEW c \in Clients, Deny(c) PROVE UNCHANGED <<Free, Holders, lost, resets>>
  <2>1. /\ pc'[c] \in {"sleeping", "failed"}
        /\ \A d \in Clients \ {c} : pc'[d] = pc[d]
    BY <1>3, TransferFailsType DEF Deny, Running
  <2>2. Holders' = Holders
    BY <1>3, <2>1 DEF Deny, Holders, Holding
  <2>3. Free' = Free
    BY <1>3, <2>1, ProfileAssumption DEF Deny, Free, Stock, TypeOK
  <2> QED
    BY <1>3, <2>2, <2>3 DEF Deny
<1>4. ASSUME NEW c \in Clients, Push(c) PROVE UNCHANGED <<Free, Holders, lost, resets>>
  <2>1. Holders' = Holders
    BY <1>4 DEF Push, GoTo, Holders, Holding, TypeOK
  <2>2. Free = Stock
    BY <1>4 DEF Push, Free
  <2>3. mutex' = c /\ Stock' = Stock /\ pc'[c] \in {"busy", "pushopen"}
    BY <1>4 DEF Push, GoTo, Stock, TypeOK
  <2> QED
    BY <1>4, <1>n, <2>1, <2>2, <2>3 DEF Push
<1>5. ASSUME NEW c \in Clients, Busy(c) PROVE UNCHANGED <<Free, Holders, lost, resets>>
  <2>1. mutex = c /\ mutex' = NoOne /\ pc[c] = "busy" /\ Stock' = Stock
    BY <1>5 DEF Busy, Unlock, MutexInv, Critical, Stock
  <2>2. /\ pc'[c] \in {"sleeping", "failed"}
        /\ \A d \in Clients \ {c} : pc'[d] = pc[d]
    BY <1>5, <2>1, ServerBusyType DEF Busy, Running, Critical
  <2>3. Holders' = Holders
    BY <2>1, <2>2 DEF Holders, Holding
  <2> QED
    BY <1>5, <1>o, <1>m, <2>1, <2>3 DEF Busy
<1>6. ASSUME NEW c \in Clients, Open(c) PROVE UNCHANGED <<Free, Holders, lost, resets>>
  <2>1. mutex = c /\ mutex' = c
    BY <1>6 DEF Open, MutexInv, Critical
  <2>2. Holders' = Holders
    BY <1>6 DEF Open, GoTo, Holders, Holding, TypeOK
  <2>3. Free' = Free
    <3>1. CASE pc[c] = "pushopen"
      BY <1>6, <1>m, <1>n, <2>1, <3>1 DEF Open, GoTo, TypeOK, CountInv
    <3>2. CASE pc[c] = "popopen"
      <4>1. Free = file /\ count[c] = file + 1
        BY <1>m, <2>1, <3>2 DEF CountInv, Stock
      <4>2. Free' = count[c] - 1
        BY <1>6, <1>n, <2>1, <3>2 DEF Open, GoTo, TypeOK
      <4>3. file \in Nat
        BY <3>2 DEF CountInv, TypeOK
      <4> QED
        BY <4>1, <4>2, <4>3
    <3> QED
      BY <1>6, <3>1, <3>2 DEF Open
  <2> QED
    BY <1>6, <2>2, <2>3 DEF Open
<1>7. ASSUME NEW c \in Clients, WritePush(c) PROVE Abstract!Take(c)
  <2>1. mutex = c /\ mutex' = NoOne
    BY <1>7 DEF WritePush, Unlock, MutexInv, Critical
  <2>2. Free = count[c] + 1 /\ Free' = count[c] /\ count[c] \in Nat
    BY <1>7, <1>m, <1>o, <2>1 DEF WritePush, Stock, TypeOK, None
  <2>3. c \notin Holders /\ Holders' = Holders \cup {c}
    BY <1>7 DEF WritePush, GoTo, Holders, Holding, TypeOK
  <2> QED
    BY <1>7, <2>2, <2>3 DEF WritePush, Abstract!Take
<1>8. ASSUME NEW c \in Clients, Generate(c) PROVE UNCHANGED <<Free, Holders, lost, resets>>
  <2>1. Holders' = Holders
    BY <1>8 DEF Generate, GoTo, Holders, Holding, TypeOK
  <2>2. Free' = Free
    BY <1>8, ProfileAssumption DEF Generate, GoTo, Free, Stock, TypeOK
  <2> QED
    BY <1>8, <2>1, <2>2 DEF Generate
<1>9. ASSUME NEW c \in Clients, Pop(c)
      PROVE  UNCHANGED <<Free, Holders, lost, resets>> \/ Abstract!Lose(c)
  <2>1. Free = Stock /\ Stock' = Stock
    BY <1>9 DEF Pop, Free, Stock
  <2>2. CASE file = None
    <3>1. /\ pc'[c] \in {"sleeping"} \cup Ended
          /\ \A d \in Clients \ {c} : pc'[d] = pc[d]
      BY <1>9, <2>2, AnswerType DEF Pop, Running, Holding
    <3>2. c \in Holders /\ Holders' = Holders \ {c}
      BY <1>9, <3>1 DEF Pop, Holders, Holding, Ended
    <3>3. Free' = Free
      BY <1>9, <1>o, <2>1, <2>2 DEF Pop
    <3> QED
      BY <1>9, <2>2, <3>2, <3>3 DEF Pop, Abstract!Lose
  <2>3. CASE file # None
    <3>1. mutex' = c /\ pc'[c] = "popopen"
      BY <1>9, <2>3 DEF Pop, GoTo, TypeOK
    <3>2. Holders' = Holders
      BY <1>9, <2>3 DEF Pop, GoTo, Holders, Holding, TypeOK
    <3> QED
      BY <1>9, <1>n, <2>1, <2>3, <3>1, <3>2 DEF Pop
  <2> QED
    BY <2>2, <2>3
<1>10. ASSUME NEW c \in Clients, WritePop(c) PROVE Abstract!Give(c)
  <2>1. mutex = c /\ mutex' = NoOne /\ pc[c] = "popwrite"
    BY <1>10 DEF WritePop, Unlock, MutexInv, Critical
  <2>2. Free = count[c] - 1 /\ Free' = count[c] /\ count[c] \in Nat
    BY <1>10, <1>m, <1>o, <2>1 DEF WritePop, Stock, TypeOK, None
  <2>3. /\ pc'[c] \in {"sleeping"} \cup Ended
        /\ \A d \in Clients \ {c} : pc'[d] = pc[d]
    BY <1>10, <2>1, AnswerType DEF WritePop, Running, Critical
  <2>4. c \in Holders /\ Holders' = Holders \ {c}
    BY <2>1, <2>3 DEF Holders, Holding, Ended
  <2> QED
    BY <1>10, <2>2, <2>4 DEF WritePop, Abstract!Give
<1>11. ASSUME NEW c \in Clients, Die(c)
       PROVE  \/ UNCHANGED <<Free, Holders, lost, resets>>
              \/ Abstract!Lose(c) \/ Abstract!Forget(c)
  <2>1. /\ pc'[c] \in {"sleeping", "failed"}
        /\ \A d \in Clients \ {c} : pc'[d] = pc[d]
    BY <1>11, TransferFailsType DEF Die
  <2>2. Holders' = Holders \ {c} /\ (c \in Holders <=> pc[c] \in Holding)
    BY <2>1 DEF Holders, Holding
  <2>3. lost' = IF c \in Holders THEN lost + 1 ELSE lost
    BY <1>11, <2>2 DEF Die
  <2>4. Stock' = Stock
    BY <1>11 DEF Die, Stock
  <2>5. CASE pc[c] \in {"pushwrite", "popwrite"}
    <3>1. mutex = c /\ file = None
      BY <2>5 DEF MutexInv, CountInv, Critical
    <3>2. mutex' = NoOne /\ resets' = resets + 1
      BY <1>11, <2>5, <3>1 DEF Die, Unlock
    <3>3. Free' = CPUs
      BY <1>o, <2>4, <3>1, <3>2 DEF Stock
    <3> QED
      BY <2>2, <2>3, <3>2, <3>3 DEF Abstract!Forget
  <2>6. CASE pc[c] \notin {"pushwrite", "popwrite"}
    <3>1. resets' = resets
      BY <1>11, <2>6 DEF Die
    <3>2. Free' = Free
      <4>1. CASE mutex = c
        BY <1>11, <1>m, <1>o, <2>4, <2>6, <4>1 DEF Die, Unlock
      <4>2. CASE mutex # c
        <5>1. mutex' = mutex /\ count' = [count EXCEPT ![c] = 0]
          BY <1>11, <4>2 DEF Die, Unlock
        <5>2. mutex = NoOne \/ mutex \in Clients \ {c}
          BY <4>2 DEF TypeOK
        <5> QED
          BY <2>1, <2>4, <4>2, <5>1, <5>2 DEF Free, TypeOK
      <4> QED
        BY <4>1, <4>2
    <3> QED
      BY <2>2, <2>3, <3>1, <3>2 DEF Abstract!Lose
  <2> QED
    BY <2>5, <2>6
<1> QED
  BY <1>1, <1>2, <1>3, <1>4, <1>5, <1>6, <1>7, <1>8, <1>9, <1>10, <1>11, <1>u
     DEF Next, Step, Abstract!Next
-----------------------------------------------------------------------------
(* No step of the stock makes a permit out of nothing, save a reset. *)
LEMMA BalanceKept == Inv /\ [Next]_vars => Inv'
<1> SUFFICES ASSUME Inv, [Next]_vars PROVE Inv'
  OBVIOUS
<1>1. Safe /\ Safe'
  BY SafeKept DEF Inv
<1>2. [Abstract!Next]_(Abstract!vars)
  BY <1>1, StepSimulates
<1>3. /\ IsFiniteSet(Holders) /\ Cardinality(Holders) \in Nat /\ Free \in Nat
      /\ IsFiniteSet(Holders') /\ Cardinality(Holders') \in Nat /\ Free' \in Nat
  <2>1. IsFiniteSet(Holders) /\ Cardinality(Holders) \in Nat /\ Free \in Nat
    BY <1>1, Counted DEF Safe
  <2>2. (IsFiniteSet(Holders) /\ Cardinality(Holders) \in Nat /\ Free \in Nat)'
    BY <1>1, Counted, ProfileAssumption, PTL DEF Safe
  <2> QED
    BY <2>1, <2>2
<1>4. /\ lost \in Nat /\ resets \in Nat /\ lost' \in Nat /\ resets' \in Nat
      /\ CPUs \in Nat
  BY <1>1, ProfileAssumption DEF Safe, TypeOK
<1> DEFINE held == Cardinality(Holders)
           bound == CPUs * (1 + resets)
<1>5. Free + held + lost <= bound /\ (resets = 0 => Free + held + lost = CPUs)
  BY DEF Inv, Balance, Total
<1>6. bound \in Nat /\ held \in Nat /\ held' \in Nat
  BY <1>3, <1>4, ProductType
<1>7. SUFFICES /\ Free' + held' + lost' <= CPUs * (1 + resets')
               /\ resets' = 0 => Free' + held' + lost' = CPUs
  BY <1>1 DEF Inv, Balance, Total
<1>8. CASE UNCHANGED Abstract!vars
  <2>1. Free' = Free /\ held' = held /\ lost' = lost /\ resets' = resets
    BY <1>8 DEF Abstract!vars
  <2> QED
    BY <1>5, <2>1
<1>9. ASSUME NEW c \in Clients, Abstract!Take(c)
      PROVE  /\ Free' + held' + lost' = Free + held + lost
             /\ resets' = resets
  <2>1. held' = held + 1
    BY <1>3, <1>9, FS_AddElement DEF Abstract!Take
  <2> QED
    BY <1>3, <1>4, <1>9, <2>1 DEF Abstract!Take
<1>10. ASSUME NEW c \in Clients, Abstract!Give(c)
       PROVE  /\ Free' + held' + lost' = Free + held + lost
              /\ resets' = resets
  <2>1. held' = held - 1
    BY <1>3, <1>10, FS_RemoveElement DEF Abstract!Give
  <2> QED
    BY <1>3, <1>4, <1>10, <2>1 DEF Abstract!Give
<1>11. ASSUME NEW c \in Clients, Abstract!Lose(c)
       PROVE  /\ Free' + held' + lost' = Free + held + lost
              /\ resets' = resets
  <2>1. held' = held - 1
    BY <1>3, <1>11, FS_RemoveElement DEF Abstract!Lose
  <2>2. Free' = Free /\ lost' = lost + 1 /\ resets' = resets
    BY <1>11 DEF Abstract!Lose
  <2> HIDE DEF held
  <2> QED
    BY <1>3, <1>4, <1>6, <2>1, <2>2
<1>12. ASSUME NEW c \in Clients, Abstract!Forget(c)
       PROVE  /\ Free' + held' + lost' <= CPUs * (1 + resets')
              /\ resets' # 0
  <2>1. held' = IF c \in Holders THEN held - 1 ELSE held
    BY <1>3, <1>12, FS_RemoveElement DEF Abstract!Forget
  <2>2. held' + lost' = held + lost
    BY <1>3, <1>4, <1>12, <2>1 DEF Abstract!Forget
  <2>3. CPUs * (1 + resets') = bound + CPUs
    BY <1>4, <1>12, OneStockMore DEF Abstract!Forget
  <2>4. Free' = CPUs /\ resets' = resets + 1
    BY <1>12 DEF Abstract!Forget
  <2>5. Free' + held' + lost' <= bound + CPUs
    BY <1>3, <1>4, <1>5, <1>6, <2>2, <2>4, ResetAdds
  <2> QED
    BY <1>4, <2>3, <2>4, <2>5
<1> HIDE DEF held, bound
<1> QED
  BY <1>2, <1>5, <1>8, <1>9, <1>10, <1>11, <1>12 DEF Abstract!Next, bound

(* The invariant holds in every state. *)
LEMMA InvCorrect == Spec => []Inv
<1>1. Init => Inv
  BY InitInv
<1>2. Inv /\ [Next]_vars => Inv'
  BY BalanceKept
<1> QED
  BY <1>1, <1>2, PTL DEF Spec

(* Type correctness, for any number of installers. *)
THEOREM TypeCorrect == Spec => []TypeOK
<1>1. Inv => TypeOK
  BY DEF Inv, Safe
<1> QED
  BY <1>1, InvCorrect, PTL

(* However many processes run, die or retry, at most as many generate as   *)
(* there are processors, and as many again for each reset.                 *)
THEOREM AtMostCPUsCorrect == Spec => []AtMostCPUs
<1>1. Inv => AtMostCPUs
  <2> SUFFICES ASSUME Inv PROVE AtMostCPUs
    OBVIOUS
  <2>1. /\ Cardinality(Holders) \in Nat /\ Free \in Nat /\ lost \in Nat
        /\ Total <= CPUs * (1 + resets)
        /\ CPUs * (1 + resets) \in Nat
    BY Counted, ProductType, ProfileAssumption DEF Inv, Safe, Balance, TypeOK
  <2> QED
    BY <2>1 DEF Total, AtMostCPUs
<1> QED
  BY <1>1, InvCorrect, PTL

(* Until a reset every permit is in stock, with a generator, or lost. *)
THEOREM PermitsAccountedCorrect == Spec => []PermitsAccounted
<1>1. Inv => PermitsAccounted
  BY DEF Inv, Balance, Total, PermitsAccounted
<1> QED
  BY <1>1, InvCorrect, PTL

(* Until a reset no client is told to wait while a permit is in stock. *)
THEOREM BusyIsTrueCorrect == Spec => []BusyIsTrue
<1>1. Inv => BusyIsTrue
  <2> SUFFICES ASSUME Inv, NEW c \in Clients, pc[c] = "busy", resets = 0
               PROVE  Cardinality(Holders) + lost = CPUs
    BY DEF BusyIsTrue
  <2>1. Stock = 0 /\ mutex = c
    BY DEF Inv, Safe, CountInv, MutexInv, Critical
  <2>2. Free = 0
    BY <2>1 DEF Free
  <2>3. Free + Cardinality(Holders) + lost = CPUs
    BY DEF Inv, Balance, Total
  <2>4. Cardinality(Holders) \in Nat /\ lost \in Nat
    BY Counted DEF Inv, Safe, TypeOK
  <2> QED
    BY <2>2, <2>3, <2>4
<1> QED
  BY <1>1, InvCorrect, PTL

(* The processes and the file implement the stock of permits. *)
THEOREM PermitsCorrect == Spec => PermitsImplemented
<1>1. Init => Abstract!Init
  <2> SUFFICES ASSUME Init PROVE Abstract!Init
    OBVIOUS
  <2>1. Holders = {}
    BY DEF Init, Holders, Holding
  <2>2. Free = CPUs
    BY DEF Init, Free, Stock
  <2> QED
    BY <2>1, <2>2 DEF Init, Abstract!Init
<1>2. Inv /\ [Next]_vars => [Abstract!Next]_(Abstract!vars)
  BY StepSimulates DEF Inv
<1> QED
  BY <1>1, <1>2, InvCorrect, PTL DEF Spec, PermitsImplemented, Abstract!Spec

-----------------------------------------------------------------------------
(* run host: the counters of the main thread are what they count, although   *)
(* it collects only some of the threads that have ended.                     *)

(* A thread is a host's that is out of left; one that is no longer in the *)
(* list has ended.                                                        *)
ThreadsListed ==
    /\ threads \cap left = {}
    /\ \A h \in Hosts : thread[h] = "none" <=> h \in left
    /\ \A h \in Hosts : h \notin left \cup threads => thread[h] = "ended"

RunCounted ==
    /\ numthreads > 0 => running = Cardinality(threads) /\ running <= numthreads
    /\ ~ interrupted => work = Cardinality(left) + Cardinality(threads)

RunStopped ==
    /\ interrupted => place \in {"gather", "done", "raised"}
    /\ place \in {"gather", "done"} => work = 0

RunInv == RunTypeOK /\ ThreadsListed /\ RunCounted /\ RunStopped

(* The number of hosts, and of any of them, is a natural number. *)
LEMMA HostsFinite ==
    ASSUME NEW S, S \subseteq Hosts
    PROVE  IsFiniteSet(S) /\ Cardinality(S) \in Nat
BY RunHostAssumption, FS_Subset, FS_CardinalityType

(* The sum of two sizes is 0 when nothing is left of either. *)
LEMMA BothEmpty ==
    ASSUME NEW S, S \subseteq Hosts, NEW T, T \subseteq Hosts,
           Cardinality(S) + Cardinality(T) = 0
    PROVE  S = {} /\ T = {}
<1>1. Cardinality(S) \in Nat /\ Cardinality(T) \in Nat BY HostsFinite
<1>2. Cardinality(S) = 0 /\ Cardinality(T) = 0 BY <1>1
<1>3. QED BY <1>2, HostsFinite, FS_EmptySet

(* What remains of a list when some of it are taken. *)
LEMMA TakenAway ==
    ASSUME NEW S, S \subseteq Hosts, NEW c, c \subseteq S
    PROVE  Cardinality(S \ c) = Cardinality(S) - Cardinality(c)
<1>1. IsFiniteSet(S) /\ IsFiniteSet(c) BY HostsFinite
<1>2. S \cap c = c OBVIOUS
<1>3. QED BY <1>1, <1>2, FS_Difference

(* A host that is started moves from one set to the other. *)
LEMMA HostMoved ==
    ASSUME NEW S, S \subseteq Hosts, NEW T, T \subseteq Hosts, NEW h \in S, h \notin T
    PROVE  /\ Cardinality(S \ {h}) = Cardinality(S) - 1
           /\ Cardinality(T \cup {h}) = Cardinality(T) + 1
BY HostsFinite, FS_RemoveElement, FS_AddElement

(* Before the first thread everything is left to do. *)
LEMMA RunBegins == RunInit => RunInv
<1> SUFFICES ASSUME RunInit PROVE RunInv OBVIOUS
<1>1. Cardinality(Hosts) \in Nat /\ Cardinality({}) = 0 BY HostsFinite, FS_EmptySet
<1>2. RunTypeOK
  <2>1. /\ place \in {"fill", "collect", "sleep", "gather", "done", "raised"}
        /\ running \in Int /\ work \in Nat
    BY <1>1 DEF RunInit
  <2>2. /\ thread \in [Hosts -> {"none", "connecting", "waiting", "ended"}]
        /\ output \in [Hosts -> {"none", "down", "answer"}]
    BY DEF RunInit
  <2>3. /\ left \subseteq Hosts /\ threads \subseteq Hosts /\ interrupted \in BOOLEAN
        /\ numthreads \in Limits /\ timeout \in Timeouts /\ collate \in BOOLEAN
        /\ fate \in [Hosts -> Fates]
    BY DEF RunInit
  <2>4. QED BY <2>1, <2>2, <2>3 DEF RunTypeOK
<1>3. ThreadsListed BY DEF RunInit, ThreadsListed
<1>4. RunCounted BY <1>1, RunHostAssumption DEF RunInit, RunCounted
<1>5. RunStopped
  <2>1. CASE Hosts = {} BY <1>1, <2>1 DEF RunInit, RunStopped
  <2>2. CASE Hosts # {} BY <2>2 DEF RunInit, RunStopped
  <2>3. QED BY <2>1, <2>2
<1>6. QED BY <1>2, <1>3, <1>4, <1>5 DEF RunInv

(* A thread is started for a host that had none, if there is room. *)
LEMMA StartThreadStep ==
    ASSUME RunInv, NEW h \in Hosts, StartThread(h)
    PROVE  RunInv'
<1> USE DEF RunInv
<1>1. RunTypeOK' BY DEF RunTypeOK, StartThread, params
<1>2. left \subseteq Hosts /\ threads \subseteq Hosts /\ h \in left /\ h \notin threads
  BY DEF RunTypeOK, ThreadsListed, StartThread
<1>3. /\ Cardinality(left') = Cardinality(left) - 1
      /\ Cardinality(threads') = Cardinality(threads) + 1
  BY <1>2, HostMoved DEF StartThread
<1>4. Cardinality(left) \in Nat /\ Cardinality(threads) \in Nat BY <1>2, HostsFinite
<1>5. ThreadsListed' BY <1>2 DEF RunTypeOK, ThreadsListed, StartThread
<1>6. RunCounted'
  BY <1>3, <1>4, RunHostAssumption DEF RunTypeOK, RunCounted, StartThread, Room, params
<1>7. RunStopped' BY DEF RunStopped, StartThread
<1>8. QED BY <1>1, <1>5, <1>6, <1>7

(* Whatever part of the ended threads is taken, it is counted. *)
LEMMA CollectStep ==
    ASSUME RunInv, Collect
    PROVE  RunInv'
<1> USE DEF RunInv
<1>1. PICK c \in SUBSET EndedThreads :
          /\ threads' = threads \ c
          /\ running' = running - Cardinality(c)
          /\ work' = work - Cardinality(c)
  BY DEF Collect
<1>2. c \subseteq threads /\ threads \subseteq Hosts /\ left \subseteq Hosts
  BY DEF EndedThreads, RunTypeOK
<1>3. Cardinality(threads') = Cardinality(threads) - Cardinality(c)
  BY <1>1, <1>2, TakenAway
<1>4. /\ Cardinality(c) \in Nat /\ Cardinality(threads) \in Nat
      /\ Cardinality(left) \in Nat /\ Cardinality(threads') \in Nat
  BY <1>1, <1>2, HostsFinite
<1>5. ~ interrupted /\ UNCHANGED <<numthreads, left, interrupted, thread>>
  BY DEF Collect, RunStopped, params
<1>6. work' = Cardinality(left') + Cardinality(threads')
  BY <1>1, <1>3, <1>4, <1>5 DEF RunCounted, RunTypeOK
<1>7. RunTypeOK'
  BY <1>1, <1>2, <1>4, <1>5, <1>6 DEF RunTypeOK, Collect, params
<1>8. ThreadsListed' BY <1>1, <1>2, <1>5 DEF ThreadsListed, EndedThreads, RunTypeOK
<1>9. RunCounted'
  BY <1>1, <1>3, <1>4, <1>5, <1>6, RunHostAssumption DEF RunCounted, RunTypeOK
<1>10. RunStopped' BY <1>5 DEF RunStopped, Collect
<1>11. QED BY <1>7, <1>8, <1>9, <1>10

(* The other steps of the main thread change where it is, or give up. *)
LEMMA MainStep ==
    ASSUME RunInv, FillEnds \/ Wake \/ Gather \/ Interrupt
    PROVE  RunInv'
<1> USE DEF RunInv
<1>1. CASE FillEnds
  BY <1>1 DEF FillEnds, RunTypeOK, ThreadsListed, RunCounted, RunStopped, params
<1>2. CASE Wake
  BY <1>2 DEF Wake, RunTypeOK, ThreadsListed, RunCounted, RunStopped, params
<1>3. CASE Gather
  BY <1>3 DEF Gather, RunTypeOK, ThreadsListed, RunCounted, RunStopped, params
<1>4. CASE Interrupt
  BY <1>4 DEF Interrupt, RunTypeOK, ThreadsListed, RunCounted, RunStopped, params
<1>5. QED BY <1>1, <1>2, <1>3, <1>4

(* A thread changes nothing but what it is doing and its output. *)
LEMMA ParallelStep ==
    ASSUME RunInv, NEW h \in Hosts, Parallel(h)
    PROVE  RunInv'
<1> USE DEF RunInv
<1>1. /\ thread[h] \in {"connecting", "waiting"}
      /\ \E s \in {"waiting", "ended"} : thread' = [thread EXCEPT ![h] = s]
      /\ output' \in [Hosts -> {"none", "down", "answer"}]
      /\ UNCHANGED <<params, main>>
  BY DEF Parallel, Down, Popen, Exits, TimeIsUp, Leave, RunTypeOK
<1>2. PICK s \in {"waiting", "ended"} : thread' = [thread EXCEPT ![h] = s]
  BY <1>1
<1>3. RunTypeOK' BY <1>1, <1>2 DEF RunTypeOK, params, main
<1>4. h \notin left /\ h \in threads BY <1>1 DEF ThreadsListed, RunTypeOK
<1>5. ThreadsListed' BY <1>1, <1>2, <1>4 DEF ThreadsListed, RunTypeOK, main
<1>6. RunCounted' /\ RunStopped' BY <1>1 DEF RunCounted, RunStopped, params, main
<1>7. QED BY <1>3, <1>5, <1>6

(* The counters count, whatever the threads and the user do. *)
LEMMA RunInvariant == RunSpec => []RunInv
<1>1. ASSUME RunInv, [RunNext]_runVars PROVE RunInv'
  <2>1. CASE Main BY <1>1, <2>1, StartThreadStep, CollectStep, MainStep DEF Main
  <2>2. CASE Interrupt BY <1>1, <2>2, MainStep
  <2>3. CASE \E h \in Hosts : Parallel(h) BY <1>1, <2>3, ParallelStep
  <2>4. CASE UNCHANGED runVars
    BY <1>1, <2>4 DEF RunInv, RunTypeOK, ThreadsListed, RunCounted, RunStopped, runVars, params, main
  <2>5. QED BY <1>1, <2>1, <2>2, <2>3, <2>4 DEF RunNext
<1>2. QED BY <1>1, RunBegins, PTL DEF RunSpec
-----------------------------------------------------------------------------
(* The state has its types: work never falls below zero. *)
THEOREM RunTypeCorrect == RunSpec => []RunTypeOK
BY RunInvariant, PTL DEF RunInv

(* Never more connections than the parameter threads says. *)
THEOREM ThreadsBoundedCorrect == RunSpec => []ThreadsBounded
<1>1. ASSUME RunInv PROVE ThreadsBounded
  <2>1. Alive \subseteq threads /\ threads \subseteq Hosts
    BY <1>1 DEF RunInv, RunTypeOK, ThreadsListed, Alive
  <2>2. IsFiniteSet(threads) /\ Cardinality(threads) \in Nat /\ Cardinality(Alive) \in Nat
    BY <2>1, HostsFinite
  <2>3. Cardinality(Alive) <= Cardinality(threads) BY <2>1, <2>2, FS_Subset
  <2>4. QED BY <1>1, <2>2, <2>3, RunHostAssumption DEF RunInv, RunTypeOK, RunCounted, ThreadsBounded
<1>2. QED BY <1>1, RunInvariant, PTL

(* The command that is not interrupted prints when all threads have ended. *)
THEOREM EveryHostEndedCorrect == RunSpec => []EveryHostEnded
<1>1. ASSUME RunInv PROVE EveryHostEnded
  <2> SUFFICES ASSUME place \in {"gather", "done"}, ~ interrupted
               PROVE  \A h \in Hosts : thread[h] = "ended"
    BY DEF EveryHostEnded
  <2>1. Cardinality(left) + Cardinality(threads) = 0
    BY <1>1 DEF RunInv, RunCounted, RunStopped
  <2>2. left = {} /\ threads = {} BY <1>1, <2>1, BothEmpty DEF RunInv, RunTypeOK
  <2>3. QED BY <1>1, <2>2 DEF RunInv, ThreadsListed
<1>2. QED BY <1>1, RunInvariant, PTL
=============================================================================
