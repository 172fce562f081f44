------------------------- MODULE InsertEthers_proofs ------------------------
(***************************************************************************)
(* Theorems about InsertEthers, for any machines, addresses and bounds.    *)
(***************************************************************************)
EXTENDS InsertEthers, NaturalsInduction, WellFoundedInduction, SequenceTheorems, TLAPS

(* What TypeOK needs beside itself: ranks stay below the bound, so that a
   highest one exists, and discover() has found a machine and an address. *)
Adding == pc \in {"adding", "linking"}

Bounded ==
    /\ nodes \subseteq 0 .. MaxRank
    /\ pc \in {"adding", "linking", "checking"} => rank <= MaxRank
    /\ Adding => mac \in Macs /\ ip \in Addresses

(* Between discover() and `add host interface' neither the machine nor its
   address gets into the tables in another way, and an interface that lost
   its host is nobody's. *)
Pending ==
    /\ \A row \in networks : row.rank \in nodes \cup {Orphan}
    /\ Adding => ~ Known(mac) /\ (ipaddr = {} => Free(ip))

Tables == Pending /\ MacOnce /\ AddressOnce

Inv == TypeOK /\ Bounded /\ Tables

-----------------------------------------------------------------------------
(* A set of naturals that is not empty has a least member. *)
LEMMA LeastExists ==
    ASSUME NEW T \in SUBSET Nat, T # {}
    PROVE  \E x \in T : \A y \in T : x <= y
<1> DEFINE less == OpToRel(<, Nat)
<1>1. \A x, y \in Nat : y < x => <<y, x>> \in less
  BY DEF OpToRel
<1> HIDE DEF less
<1>2. \E x \in T : \A y \in T : ~ (<<y, x>> \in less)
  BY NatLessThanWellFounded, WFMin DEF less
<1>3. PICK x \in T : \A y \in T : ~ (<<y, x>> \in less)
  BY <1>2
<1>4. \A y \in T : x <= y
  <2> TAKE y \in T
  <2>1. x \in Nat /\ y \in Nat
    BY <1>3
  <2>2. ~ (y < x)
    BY <1>1, <1>3, <2>1
  <2> QED
    BY <2>1, <2>2
<1> QED
  BY <1>3, <1>4

(* A set of naturals with an upper bound, not empty, has a greatest one. *)
LEMMA GreatestExists ==
    ASSUME NEW n \in Nat, NEW T \in SUBSET (0..n), T # {}
    PROVE  \E x \in T : \A y \in T : y <= x
<1> DEFINE U == {n - y : y \in T}
<1>1. U \in SUBSET Nat /\ U # {}
  <2>1. \A y \in T : n - y \in Nat
    OBVIOUS
  <2> QED
    BY <2>1
<1>2. PICK u \in U : \A v \in U : u <= v
  BY <1>1, LeastExists
<1>3. PICK x \in T : u = n - x
  OBVIOUS
<1>4. \A y \in T : y <= x
  <2> TAKE y \in T
  <2>1. n - y \in U
    OBVIOUS
  <2>2. x \in 0..n /\ y \in 0..n
    OBVIOUS
  <2> HIDE DEF U
  <2> QED
    BY <1>2, <1>3, <2>1, <2>2
<1> QED
  BY <1>4

(* The rank insert-ethers starts with is a number. *)
LEMMA InitialRankType ==
    ASSUME nodes \subseteq 0 .. MaxRank
    PROVE  InitialRank \in Nat
<1>1. BaseRank \in Nat /\ MaxRank \in Nat
  BY InsertEthersAssumption
<1>2. CASE nodes = {}
  BY <1>1, <1>2 DEF InitialRank
<1>3. CASE nodes # {}
  <2>1. \E r \in nodes : \A q \in nodes : q <= r
    BY <1>1, <1>3, GreatestExists
  <2> DEFINE top == CHOOSE r \in nodes : \A q \in nodes : q <= r
  <2>2. top \in nodes
    BY <2>1
  <2>3. InitialRank = 1 + top
    BY <1>3 DEF InitialRank
  <2> HIDE DEF top
  <2> QED
    BY <1>1, <2>2, <2>3
<1> QED
  BY <1>2, <1>3

(* No status is known of no hosts. *)
LEMMA NoneKickstarted == <<>> \in [{} -> Status \cup {0}]
<1>1. <<>> \in Seq(Status \cup {0}) /\ Len(<<>>) = 0
  BY EmptySeq
<1>2. <<>> \in [1 .. Len(<<>>) -> Status \cup {0}]
  BY <1>1, LenProperties
<1> QED
  BY <1>1, <1>2

(* insert-ethers starts in a state that satisfies the invariant. *)
LEMMA InitInv == Init => Inv
<1> SUFFICES ASSUME Init PROVE Inv
  OBVIOUS
<1>1. TypeOK
  BY NoneKickstarted, EmptySeq, InsertEthersAssumption DEF Init, TypeOK, Given
<1>2. Bounded /\ Tables
  BY DEF Init, Bounded, Tables, Pending, Adding, MacOnce, AddressOnce
<1> QED
  BY <1>1, <1>2 DEF Inv

-----------------------------------------------------------------------------
(* Types, action by action. *)
LEMMA LogTypes ==
    ASSUME TypeOK, Bounded,
           \/ \E m \in Macs : Discovering(m)
           \/ \E row \in networks, status \in Status : Requesting(row, status)
           \/ \E status \in Status : StrangerRequesting(status)
           \/ SkipLine
    PROVE  TypeOK' /\ Bounded'
<1> USE DEF TypeOK, Bounded, Adding, database, held, logs, Interface
<1>1. ASSUME NEW m \in Macs, Discovering(m) PROVE TypeOK' /\ Bounded'
  BY <1>1, AppendProperties DEF Discovering
<1>2. ASSUME NEW row \in networks, NEW status \in Status, Requesting(row, status)
      PROVE  TypeOK' /\ Bounded'
  <2>1. [from |-> row.ip, mac |-> row.mac, status |-> status] \in
          [from : Addresses \cup {Stranger}, mac : Macs \cup {None}, status : Status]
    OBVIOUS
  <2> QED
    BY <1>2, <2>1, AppendProperties DEF Requesting
<1>3. ASSUME NEW status \in Status, StrangerRequesting(status)
      PROVE  TypeOK' /\ Bounded'
  BY <1>3, AppendProperties DEF StrangerRequesting
<1>4. ASSUME SkipLine PROVE TypeOK' /\ Bounded'
  BY <1>4, HeadTailProperties DEF SkipLine
<1> QED
  BY <1>1, <1>2, <1>3, <1>4

(* `remove host' keeps types and bounds. *)
LEMMA RemovalTypes ==
    ASSUME TypeOK, Bounded, NEW r \in nodes, RemoveInterfaces(r) \/ RemoveHost(r)
    PROVE  TypeOK' /\ Bounded'
<1> USE DEF TypeOK, Bounded, Adding, database, held, logs, Interface
<1>1. CASE RemoveInterfaces(r)
  BY <1>1 DEF RemoveInterfaces
<1>2. CASE RemoveHost(r)
  <2>1. \A row \in networks :
          [row EXCEPT !.rank = Orphan] \in Interface
    OBVIOUS
  <2> QED
    BY <1>2, <2>1 DEF RemoveHost
<1> QED
  BY <1>1, <1>2

(* So do the steps of the loop outside addit(). *)
LEMMA LoopTypes ==
    ASSUME TypeOK, Bounded,
           Start \/ Discover \/ Kickstart \/ \E key \in {"F8", "F9", "TIMER"} : Quit(key)
    PROVE  TypeOK' /\ Bounded'
<1> USE DEF TypeOK, Bounded, Adding, database, held, logs, Interface
<1>1. ASSUME Start PROVE TypeOK' /\ Bounded'
  <2>1. rank' \in Nat
    <3>1. rank' \in {InitialRank} \cup Ranks
      BY <1>1 DEF Start
    <3>2. Ranks \subseteq Nat
      BY InsertEthersAssumption
    <3>3. InitialRank \in Nat
      BY InitialRankType
    <3> QED
      BY <3>1, <3>2, <3>3
  <2>2. kickstarted' \in [inserted' -> Status \cup {0}] /\ syslog' \in Seq(Macs)
        /\ access' \in Seq([from : Addresses \cup {Stranger}, mac : Macs \cup {None},
                            status : Status])
    BY <1>1, NoneKickstarted, EmptySeq DEF Start
  <2>3. /\ ipaddr' \in Given /\ maxNew' \in {-1, 0, 1} /\ pc' = "loop"
        /\ inserted' = {} /\ suggest_done' = FALSE
        /\ UNCHANGED <<nodes, networks, ended>>
    BY <1>1 DEF Start
  <2> QED
    BY <2>1, <2>2, <2>3
<1>2. ASSUME Discover PROVE TypeOK' /\ Bounded'
  <2>1. Head(syslog) \in Macs /\ syslog' \in Seq(Macs)
    BY <1>2, HeadTailProperties DEF Discover
  <2>2. ip' \in NextAddress => ip' \in Addresses
    <3>1. \A a \in ipaddr : a \in Addresses
      BY DEF Given, Addresses
    <3>2. \A a \in NextAddress : a \in ipaddr \/ a \in Pool
      BY DEF NextAddress
    <3> QED
      BY <3>1, <3>2 DEF Addresses
  <2>3. /\ UNCHANGED <<nodes, networks, access, rank, ipaddr, maxNew, inserted, kickstarted,
                      suggest_done>>
        /\ ended' \in {None, "keys", "exception"}
    BY <1>2 DEF Discover, Raise
  <2>4. \/ pc' \in {"off", "loop"}
        \/ pc' = "adding" /\ rank <= MaxRank /\ mac' = Head(syslog) /\ ip' \in NextAddress
    BY <1>2 DEF Discover, Raise
  <2> QED
    BY <2>1, <2>2, <2>3, <2>4
<1>3. ASSUME Kickstart PROVE TypeOK' /\ Bounded'
  <2>1. Head(access).status \in Status
        /\ access' \in Seq([from : Addresses \cup {Stranger}, mac : Macs \cup {None},
                            status : Status])
    <3> DEFINE Line == [from : Addresses \cup {Stranger}, mac : Macs \cup {None},
                        status : Status]
    <3>1. access \in Seq(Line) /\ access # <<>> /\ access' = Tail(access)
      BY <1>3 DEF Kickstart
    <3>2. \A l \in Line : l.status \in Status
      OBVIOUS
    <3> HIDE DEF Line
    <3>3. Head(access) \in Line /\ access' \in Seq(Line)
      BY <3>1, HeadTailProperties
    <3> QED
      BY <3>2, <3>3 DEF Line
  <2>2. kickstarted' \in [inserted -> Status \cup {0}]
    BY <1>3, <2>1 DEF Kickstart, Raise
  <2>3. pc' = "loop" \/ pc' = "off"
    BY <1>3 DEF Kickstart, Raise
  <2>4. ended' \in {None, "keys", "exception"}
    BY <1>3 DEF Kickstart, Raise
  <2>5. UNCHANGED <<nodes, networks, syslog, rank, mac, ip, ipaddr, maxNew, inserted,
                    suggest_done>>
    BY <1>3 DEF Kickstart, Raise
  <2> QED
    BY <2>1, <2>2, <2>3, <2>4, <2>5
<1>4. ASSUME NEW key \in {"F8", "F9", "TIMER"}, Quit(key) PROVE TypeOK' /\ Bounded'
  BY <1>4 DEF Quit
<1> QED
  BY <1>1, <1>2, <1>3, <1>4

(* And those of addit(). *)
LEMMA AdditTypes ==
    ASSUME TypeOK, Bounded, AddHost \/ AddInterface \/ Inserted
    PROVE  TypeOK' /\ Bounded'
<1> USE DEF TypeOK, Bounded, Adding, database, held, logs, Interface
<1>1. CASE AddHost
  <2>1. rank \in 0 .. MaxRank
    BY <1>1, InsertEthersAssumption DEF AddHost
  <2>2. nodes' \subseteq 0 .. MaxRank /\ nodes' \subseteq Nat
    BY <1>1, <2>1 DEF AddHost
  <2>3. pc = "adding" /\ pc' \in {"loop", "linking"}
    BY <1>1 DEF AddHost
  <2>4. UNCHANGED <<networks, syslog, access, rank, mac, ip, inserted, kickstarted,
                    suggest_done, ended, ipaddr, maxNew>>
    BY <1>1 DEF AddHost
  <2> QED
    BY <2>2, <2>3, <2>4
<1>2. CASE AddInterface
  <2>1. pc = "linking" /\ mac \in Macs /\ ip \in Addresses
    BY <1>2 DEF AddInterface
  <2>2. NewRow \in Interface
    BY <2>1 DEF NewRow
  <2>3. /\ networks' \subseteq networks \cup {NewRow} /\ pc' \in {"loop", "checking"}
        /\ UNCHANGED <<nodes, syslog, access, rank, mac, ip, ipaddr, maxNew, inserted,
                      kickstarted, suggest_done, ended>>
    BY <1>2 DEF AddInterface
  <2> QED
    BY <2>1, <2>2, <2>3
<1>3. CASE Inserted
  <2>1. kickstarted' \in [inserted' -> Status \cup {0}]
    BY <1>3 DEF Inserted
  <2>2. inserted' \subseteq Nat /\ rank' \in Nat
    <3>1. /\ inserted' = inserted \cup {rank} \/ inserted' = inserted
          /\ rank' = rank + 1 \/ rank' = rank
      BY <1>3, Zenon DEF Inserted
    <3>2. inserted \in SUBSET Nat /\ rank \in Nat
      OBVIOUS
    <3>3. inserted' \subseteq Nat
      BY <3>1, <3>2
    <3>4. rank' \in Nat
      BY <3>1, <3>2
    <3> QED
      BY <3>3, <3>4
  <2>5. suggest_done' \in BOOLEAN
    BY <1>3, Zenon DEF Inserted
  <2>3. pc' = "loop"
    BY <1>3 DEF Inserted
  <2>4. UNCHANGED <<nodes, networks, syslog, access, mac, ip, ipaddr, ended>>
    BY <1>3 DEF Inserted
  <2>6. maxNew' \in {-1, 0, 1}
    BY <1>3, Zenon DEF Inserted
  <2> QED
    BY <2>1, <2>2, <2>3, <2>4, <2>5, <2>6
<1> QED
  BY <1>1, <1>2, <1>3

-----------------------------------------------------------------------------
(* The tables, action by action. *)
LEMMA TablesUntouched ==
    ASSUME Tables, UNCHANGED <<nodes, networks>>,
           Adding' => Adding /\ UNCHANGED <<mac, ip, ipaddr>>
    PROVE  Tables'
BY DEF Tables, Pending, MacOnce, AddressOnce, Known, Free

(* discover() picks a machine no row has, and an address no host has unless
   --ipaddr named it. *)
LEMMA TablesDiscover ==
    ASSUME Tables, Discover
    PROVE  Tables'
<1>1. UNCHANGED <<nodes, networks>>
  BY DEF Discover, Raise, database
<1>2. CASE pc' # "adding"
  <2>1. ~ Adding'
    BY <1>2 DEF Discover, Raise, Adding
  <2> QED
    BY <1>1, <2>1, TablesUntouched
<1>3. CASE pc' = "adding"
  <2>1. ~ Known(mac)' /\ (ipaddr' = {} => Free(ip)')
    BY <1>1, <1>3 DEF Discover, Raise, Known, Free, NextAddress, database
  <2> QED
    BY <1>1, <2>1 DEF Tables, Pending, MacOnce, AddressOnce
<1> QED
  BY <1>2, <1>3

(* Removing the interfaces of a host adds no row, and orphans none of another. *)
LEMMA TablesRemoveInterfaces ==
    ASSUME TypeOK, Tables, NEW r \in nodes, RemoveInterfaces(r)
    PROVE  Tables'
BY DEF Tables, Pending, MacOnce, AddressOnce, Known, Free, RemoveInterfaces, Adding, held,
       TypeOK

(* A row that loses its host keeps its machine and its address, which is
   nobody's from then on. *)
LEMMA TablesRemoveHost ==
    ASSUME TypeOK, Tables, NEW r \in nodes, RemoveHost(r)
    PROVE  Tables'
<1> DEFINE left(row) == IF row.rank = r THEN [row EXCEPT !.rank = Orphan] ELSE row
<1>1. /\ nodes' = nodes \ {r}
      /\ networks' = {left(row) : row \in networks}
      /\ UNCHANGED <<pc, mac, ip, ipaddr>>
  BY DEF RemoveHost, held
<1>2. nodes \subseteq Nat /\ Orphan \notin nodes
  BY DEF TypeOK, Orphan
<1>3. \A row \in networks :
        /\ left(row).mac = row.mac
        /\ left(row).ip = row.ip
        /\ left(row).doubles = row.doubles
        /\ left(row).rank = IF row.rank = r THEN Orphan ELSE row.rank
  BY DEF TypeOK
<1> HIDE DEF left
<1>4. Pending'
  <2>1. \A row \in networks : left(row).rank \in nodes' \cup {Orphan}
    BY <1>1, <1>3 DEF Tables, Pending
  <2>2. ASSUME Adding PROVE ~ Known(mac)' /\ (ipaddr' = {} => Free(ip)')
    BY <1>1, <1>2, <1>3, <2>2 DEF Tables, Pending, Known, Free
  <2> QED
    BY <1>1, <2>1, <2>2 DEF Pending, Adding
<1>5. MacOnce'
  BY <1>1, <1>3 DEF Tables, MacOnce
<1>6. AddressOnce'
  <2>1. ASSUME NEW a \in networks, NEW b \in networks,
               left(a).ip = left(b).ip, {left(a).rank, left(b).rank} \subseteq nodes',
               ~ left(a).doubles, ~ left(b).doubles
        PROVE  left(a) = left(b)
    <3>1. /\ a.ip = b.ip /\ {a.rank, b.rank} \subseteq nodes
          /\ ~ a.doubles /\ ~ b.doubles
      BY <1>1, <1>2, <1>3, <2>1
    <3> QED
      BY <3>1 DEF Tables, AddressOnce
  <2> QED
    BY <1>1, <2>1 DEF AddressOnce
<1> QED
  BY <1>4, <1>5, <1>6 DEF Tables

(* A new host has no interface yet. *)
LEMMA TablesAddHost ==
    ASSUME TypeOK, Tables, AddHost
    PROVE  Tables'
<1>1. rank \in Nat /\ rank # Orphan
  BY DEF TypeOK, Orphan
<1>2. UNCHANGED <<networks, mac, ip, ipaddr>> /\ pc = "adding"
  BY DEF AddHost, held
<1>3. CASE nodes' = nodes
  BY <1>2, <1>3, TablesUntouched DEF Adding
<1>4. CASE rank \notin nodes /\ nodes' = nodes \cup {rank}
  <2>1. \A row \in networks : row.rank \in nodes \cup {Orphan}
    BY DEF Tables, Pending
  <2>2. \A row \in networks : row.rank \in nodes' <=> row.rank \in nodes
    BY <1>1, <1>4, <2>1
  <2> QED
    BY <1>2, <1>4, <2>1, <2>2
    DEF Tables, Pending, MacOnce, AddressOnce, Known, Free, Adding
<1> QED
  BY <1>3, <1>4 DEF AddHost

(* The row `add host interface' writes is of a new machine, and of a new
   address unless --ipaddr named it. *)
LEMMA TablesAddInterface ==
    ASSUME TypeOK, Tables, AddInterface
    PROVE  Tables'
<1>1. ~ Known(mac) /\ (ipaddr = {} => Free(ip)) /\ ~ Adding' /\ nodes' = nodes
  BY DEF AddInterface, Adding, Tables, Pending
<1>2. CASE networks' = networks
  BY <1>1, <1>2, TablesUntouched
<1>3. CASE /\ rank \in nodes
           /\ networks' = networks \cup {NewRow}
  <2>1. /\ NewRow.rank = rank /\ NewRow.mac = mac /\ NewRow.ip = ip
        /\ ~ NewRow.doubles => Free(ip)
    BY <1>1 DEF NewRow
  <2>2. \A row \in networks' : row \in networks \/ row = NewRow
    BY <1>3
  <2> HIDE DEF NewRow
  <2>3. Pending'
    BY <1>1, <1>3, <2>1, <2>2 DEF Tables, Pending
  <2>4. MacOnce'
    BY <1>1, <2>1, <2>2 DEF Tables, MacOnce, Known
  <2>5. AddressOnce'
    BY <1>1, <2>1, <2>2 DEF Tables, AddressOnce, Free
  <2> QED
    BY <2>3, <2>4, <2>5 DEF Tables
<1> QED
  BY <1>2, <1>3 DEF AddInterface

-----------------------------------------------------------------------------
(* The invariant is inductive. *)
LEMMA NextInv == Inv /\ [Next]_vars => Inv'
<1> SUFFICES ASSUME Inv, [Next]_vars PROVE Inv'
  OBVIOUS
<1> USE DEF Inv
<1>1. ASSUME \/ \E m \in Macs : Discovering(m)
             \/ \E row \in networks, status \in Status : Requesting(row, status)
             \/ \E status \in Status : StrangerRequesting(status)
             \/ SkipLine
      PROVE  Inv'
  <2>1. UNCHANGED <<nodes, networks, pc, mac, ip, ipaddr>>
    BY <1>1 DEF Discovering, Requesting, StrangerRequesting, SkipLine, database, held
  <2> QED
    BY <1>1, <2>1, LogTypes, TablesUntouched DEF Adding
<1>2. ASSUME NEW r \in nodes, RemoveInterfaces(r) \/ RemoveHost(r) PROVE Inv'
  BY <1>2, RemovalTypes, TablesRemoveInterfaces, TablesRemoveHost
<1>3. ASSUME Start \/ Kickstart \/ \E key \in {"F8", "F9", "TIMER"} : Quit(key)
      PROVE  Inv'
  <2>1. UNCHANGED <<nodes, networks>> /\ ~ Adding'
    BY <1>3 DEF Start, Kickstart, Raise, Quit, database, Adding
  <2> QED
    BY <1>3, <2>1, LoopTypes, TablesUntouched
<1>4. ASSUME Discover PROVE Inv'
  BY <1>4, LoopTypes, TablesDiscover
<1>5. ASSUME AddHost PROVE Inv'
  BY <1>5, AdditTypes, TablesAddHost
<1>6. ASSUME AddInterface PROVE Inv'
  BY <1>6, AdditTypes, TablesAddInterface
<1>7. ASSUME Inserted PROVE Inv'
  <2>1. UNCHANGED <<nodes, networks>> /\ ~ Adding'
    BY <1>7 DEF Inserted, database, Adding
  <2> QED
    BY <1>7, <2>1, AdditTypes, TablesUntouched
<1>8. ASSUME UNCHANGED vars PROVE Inv'
  BY <1>8 DEF vars, TypeOK, Bounded, Tables, Pending, Adding, MacOnce, AddressOnce, Known, Free
<1> QED
  BY <1>1, <1>2, <1>3, <1>4, <1>5, <1>6, <1>7, <1>8 DEF Next

(* The invariant holds in every reachable state. *)
LEMMA Invariance == Spec => []Inv
<1> QED
  BY InitInv, NextInv, PTL DEF Spec

(* The state keeps its types; ranks are numbers although the first one of a
   run is computed from the table. *)
THEOREM TypeCorrect == Spec => []TypeOK
<1>1. Inv => TypeOK
  BY DEF Inv
<1> QED
  BY <1>1, Invariance, PTL

(* However often machines ask, commands fail and hosts are removed, a machine
   has one interface. *)
THEOREM MacOnceCorrect == Spec => []MacOnce
<1>1. Inv => MacOnce
  BY DEF Inv, Tables
<1> QED
  BY <1>1, Invariance, PTL

(* No address belongs to interfaces of two hosts, but for the hosts that got an
   address in use by --ipaddr, which getnextIP does not look up. *)
THEOREM AddressOnceCorrect == Spec => []AddressOnce
<1>1. Inv => AddressOnce
  BY DEF Inv, Tables
<1> QED
  BY <1>1, Invariance, PTL

-----------------------------------------------------------------------------
(* Why an insert-ethers that is done has its hosts kickstarted.              *)

(* Whatever is removed, a host has one interface, and a host that is being
   added has none yet. *)
OneInterface ==
    /\ \A a, b \in networks : a.rank = b.rank /\ a.rank # Orphan => a = b
    /\ pc = "linking" => \A row \in networks : row.rank # rank

(* While nothing is removed, every line of the log of a host is from the
   machine that has the address, and what the line says was so. *)
LogIsTrue ==
    \A k \in 1 .. Len(access) : access[k].from # Stranger =>
        /\ \E row \in networks : row.ip = access[k].from /\ row.mac = access[k].mac
        /\ access[k].status = 200 => access[k].mac \in served

(* And what was read from the log was so. *)
TickedOff ==
    \A row \in networks :
        row.rank \in inserted /\ Alone(row) /\ kickstarted[row.rank] = 200
            => row.mac \in served

Kept ==
    /\ removing = {} /\ \A row \in networks : row.rank # Orphan
    /\ inserted \subseteq nodes
    /\ pc = "linking" => rank \notin inserted
    /\ LogIsTrue
    /\ TickedOff

Done ==
    /\ OneInterface
    /\ pc = "off" /\ ended = "keys" => AllReady
    /\ removed \in BOOLEAN
    /\ removed = FALSE => Kept

(* The rows keep their hosts, and a host that is being added its rank, but
   for the steps below. *)
LEMMA OneInterfaceStep ==
    ASSUME Inv, [Next]_vars, OneInterface
    PROVE  OneInterface'
<1>1. /\ \A row \in networks : row.rank \in nodes \cup {Orphan}
      /\ nodes \subseteq Nat /\ Orphan \notin Nat /\ rank \in Nat
      /\ networks \subseteq Interface
  BY DEF Inv, Tables, Pending, TypeOK, Orphan
<1>2. ASSUME networks' = networks, pc' = "linking" => pc = "linking" /\ rank' = rank
      PROVE  OneInterface'
  BY <1>2 DEF OneInterface
<1>3. ASSUME NEW r \in nodes, RemoveInterfaces(r) PROVE OneInterface'
  BY <1>3 DEF RemoveInterfaces, held, OneInterface
<1>4. ASSUME NEW r \in nodes, RemoveHost(r) PROVE OneInterface'
  <2> DEFINE left(row) == IF row.rank = r THEN [row EXCEPT !.rank = Orphan] ELSE row
  <2>1. networks' = {left(row) : row \in networks} /\ UNCHANGED <<pc, rank>>
    BY <1>4 DEF RemoveHost, held
  <2>2. \A row \in networks :
           /\ left(row).rank = IF row.rank = r THEN Orphan ELSE row.rank
           /\ row.rank # r => left(row) = row
    BY <1>1
  <2> HIDE DEF left
  <2>3. \A a, b \in networks' : a.rank = b.rank /\ a.rank # Orphan => a = b
    BY <2>1, <2>2 DEF OneInterface
  <2>4. pc' = "linking" => \A row \in networks' : row.rank # rank'
    BY <1>1, <2>1, <2>2 DEF OneInterface
  <2> QED
    BY <2>3, <2>4 DEF OneInterface
<1>5. ASSUME AddHost PROVE OneInterface'
  <2>1. networks' = networks /\ rank' = rank
        /\ (pc' = "linking" => rank \notin nodes)
    BY <1>5 DEF AddHost, held
  <2> QED
    BY <1>1, <2>1 DEF OneInterface
<1>6. ASSUME AddInterface PROVE OneInterface'
  <2>1. /\ pc = "linking" /\ pc' # "linking"
        /\ \/ networks' = networks
           \/ networks' = networks \cup {NewRow}
    BY <1>6 DEF AddInterface
  <2> QED
    BY <2>1 DEF OneInterface, NewRow
<1>7. ASSUME Start \/ Discover \/ Inserted PROVE networks' = networks /\ pc' # "linking"
  BY <1>7 DEF Start, Discover, Raise, Inserted, database
<1>8. ASSUME \/ \E m \in Macs : Discovering(m)
             \/ \E row \in networks, status \in Status : Requesting(row, status)
             \/ \E status \in Status : StrangerRequesting(status)
             \/ SkipLine \/ UNCHANGED vars
      PROVE  UNCHANGED <<networks, pc, rank>>
  BY <1>8 DEF Discovering, Requesting, StrangerRequesting, SkipLine, database, held, vars
<1>9. ASSUME Kickstart \/ \E key \in {"F8", "F9", "TIMER"} : Quit(key)
      PROVE  networks' = networks /\ pc' # "linking"
  BY <1>9 DEF Kickstart, Raise, Quit, database
<1> QED
  BY <1>2, <1>3, <1>4, <1>5, <1>6, <1>7, <1>8, <1>9 DEF Next

(* A new line of a host is from the machine its row is of. *)
LEMMA RequestKept ==
    ASSUME Inv, Kept, NEW row \in networks, NEW status \in Status, Requesting(row, status)
    PROVE  Kept'
<1> DEFINE line == [from |-> row.ip, mac |-> row.mac, status |-> status]
           Line == [from : Addresses \cup {Stranger}, mac : Macs \cup {None}, status : Status]
<1>1. /\ access' = Append(access, line)
      /\ served' = IF status = 200 THEN served \cup {row.mac} ELSE served
      /\ UNCHANGED <<nodes, networks, removing, pc, rank, inserted, kickstarted>>
  BY DEF Requesting, database, held
<1>2. access \in Seq(Line) /\ line \in Line
  BY DEF Inv, TypeOK, Interface
<1>3. line.from = row.ip /\ line.mac = row.mac /\ line.status = status
  OBVIOUS
<1> HIDE DEF line, Line
<1>4. /\ Len(access') = Len(access) + 1 /\ Len(access) \in Nat
      /\ \A k \in 1 .. Len(access) : access'[k] = access[k]
      /\ access'[Len(access) + 1] = line
  BY <1>1, <1>2, AppendProperties, LenProperties
<1>5. served \subseteq served' /\ (status = 200 => row.mac \in served')
  BY <1>1
<1>6. LogIsTrue'
  <2> SUFFICES ASSUME NEW k \in 1 .. Len(access'), access'[k].from # Stranger
               PROVE  /\ \E r \in networks : r.ip = access'[k].from /\ r.mac = access'[k].mac
                      /\ access'[k].status = 200 => access'[k].mac \in served'
    BY <1>1 DEF LogIsTrue
  <2>1. CASE k \in 1 .. Len(access)
    BY <1>4, <1>5, <2>1 DEF Kept, LogIsTrue
  <2>2. CASE k = Len(access) + 1
    BY <1>3, <1>4, <1>5, <2>2
  <2> QED
    BY <1>4, <2>1, <2>2
<1>7. TickedOff'
  BY <1>1, <1>5 DEF Kept, TickedOff, Alone
<1> QED
  BY <1>1, <1>6, <1>7 DEF Kept

LEMMA StrangerKept ==
    ASSUME Inv, Kept, NEW status \in Status, StrangerRequesting(status)
    PROVE  Kept'
<1> DEFINE line == [from |-> Stranger, mac |-> None, status |-> status]
           Line == [from : Addresses \cup {Stranger}, mac : Macs \cup {None}, status : Status]
<1>1. /\ access' = Append(access, line)
      /\ UNCHANGED <<nodes, networks, removing, pc, rank, inserted, kickstarted, served>>
  BY DEF StrangerRequesting, database, held
<1>2. access \in Seq(Line) /\ line \in Line
  BY DEF Inv, TypeOK, Interface
<1>3. line.from = Stranger
  OBVIOUS
<1> HIDE DEF line, Line
<1>4. /\ Len(access') = Len(access) + 1 /\ Len(access) \in Nat
      /\ \A k \in 1 .. Len(access) : access'[k] = access[k]
      /\ access'[Len(access) + 1] = line
  BY <1>1, <1>2, AppendProperties, LenProperties
<1>5. \A k \in 1 .. Len(access') : k \in 1 .. Len(access) \/ k = Len(access) + 1
  BY <1>4
<1>6. LogIsTrue'
  BY <1>1, <1>3, <1>4, <1>5 DEF Kept, LogIsTrue
<1> QED
  BY <1>1, <1>6 DEF Kept, TickedOff, Alone

(* The row a line is looked up to is the row of the machine that asked. *)
LEMMA KickstartKept ==
    ASSUME Inv, OneInterface, Kept, Kickstart
    PROVE  Kept'
<1> DEFINE Line == [from : Addresses \cup {Stranger}, mac : Macs \cup {None}, status : Status]
<1>1. access \in Seq(Line) /\ access # <<>> /\ access' = Tail(access)
  BY DEF Kickstart, Inv, TypeOK
<1>2. UNCHANGED <<nodes, networks, removing, rank, inserted, served>> /\ pc' # "linking"
  BY DEF Kickstart, Raise, database, held
<1> HIDE DEF Line
<1>3. /\ Len(access) \in Nat /\ 1 \in 1 .. Len(access) /\ access[1] = Head(access)
      /\ \A k \in 1 .. Len(access') : k + 1 \in 1 .. Len(access) /\ access'[k] = access[k + 1]
  <2>1. /\ Len(access) \in Nat /\ Head(access) = access[1] /\ Len(access) # 0
        /\ Tail(access) \in Seq(Line) /\ Len(Tail(access)) = Len(access) - 1
        /\ \A k \in 1 .. Len(Tail(access)) : Tail(access)[k] = access[k + 1]
    BY <1>1, HeadTailProperties, LenProperties, EmptySeq
  <2> QED
    BY <1>1, <2>1
<1>4. LogIsTrue'
  BY <1>2, <1>3 DEF Kept, LogIsTrue
<1>5. TickedOff'
  <2>1. CASE kickstarted' = kickstarted
    BY <1>2, <2>1 DEF Kept, TickedOff, Alone
  <2>2. CASE kickstarted' # kickstarted
    <3>1. PICK r \in Owner(Head(access).from) :
              /\ r \in inserted
              /\ kickstarted' = [kickstarted EXCEPT ![r] = Head(access).status]
      BY <2>2 DEF Kickstart, Raise
    <3>2. PICK own \in networks : own.ip = Head(access).from /\ own.rank \in nodes /\ own.rank = r
      BY <3>1 DEF Owner
    <3>3. Head(access).from # Stranger
      BY <3>2, InsertEthersAssumption DEF Inv, TypeOK, Interface, Addresses
    <3>4. PICK row \in networks : row.ip = access[1].from /\ row.mac = access[1].mac
      BY <1>3, <3>3 DEF Kept, LogIsTrue
    <3>5. Alone(own) /\ Head(access).status = 200 => own.mac \in served
      <4>1. row.ip = own.ip
        BY <1>3, <3>2, <3>4
      <4> QED
        BY <1>3, <3>3, <3>4, <4>1 DEF Kept, LogIsTrue, Alone
    <3>6. \A a \in networks : a.rank = r => a = own
      BY <3>2 DEF OneInterface, Kept
    <3>7. kickstarted \in [inserted -> Status \cup {0}]
      BY DEF Inv, TypeOK
    <3>8. \A row1 \in networks : Alone(row1)' => Alone(row1)
      BY <1>2 DEF Alone
    <3> QED
      BY <1>2, <3>1, <3>5, <3>6, <3>7, <3>8 DEF Kept, TickedOff, Alone
  <2> QED
    BY <2>1, <2>2
<1> QED
  BY <1>2, <1>4, <1>5 DEF Kept

(* A new interface is of a machine no line is from, and of a host that is not
   waited for yet. *)
LEMMA AddInterfaceKept ==
    ASSUME Inv, Kept, AddInterface
    PROVE  Kept'
<1>1. /\ pc = "linking" /\ pc' # "linking"
      /\ UNCHANGED <<nodes, removing, access, rank, mac, inserted, kickstarted>>
  BY DEF AddInterface, logs, held
<1>2. CASE UNCHANGED <<networks, served>>
  BY <1>1, <1>2 DEF Kept, LogIsTrue, TickedOff, Alone
<1>3. CASE /\ networks' = networks \cup {NewRow}
           /\ served' = served \ {mac}
  <2>1. /\ ~ Known(mac) /\ rank # Orphan /\ rank \notin inserted
    BY <1>1 DEF Inv, Tables, Pending, Adding, TypeOK, Orphan, Kept
  <2>2. LogIsTrue'
    BY <1>1, <1>3, <2>1 DEF Kept, LogIsTrue, NewRow, Known
  <2>3. TickedOff'
    BY <1>1, <1>3, <2>1 DEF Kept, TickedOff, Alone, NewRow, Known
  <2> QED
    <3>1. removing' = {} /\ inserted' \subseteq nodes' /\ pc' # "linking"
      BY <1>1 DEF Kept
    <3>2. \A row \in networks' : row.rank # Orphan
      BY <1>3, <2>1 DEF Kept, NewRow
    <3> QED
      BY <2>2, <2>3, <3>1, <3>2 DEF Kept
<1> QED
  BY <1>2, <1>3 DEF AddInterface

(* A host is waited for from its insertion on. *)
LEMMA InsertedKept ==
    ASSUME Inv, Kept, Inserted
    PROVE  Kept'
<1>1. /\ pc' = "loop"
      /\ UNCHANGED <<nodes, networks, removing, removed, syslog, access, served>>
  BY DEF Inserted, database, logs
<1>2. CASE UNCHANGED <<inserted, kickstarted>>
  BY <1>1, <1>2 DEF Kept, LogIsTrue, TickedOff, Alone
<1>3. CASE /\ rank \in nodes /\ inserted' = inserted \cup {rank}
           /\ kickstarted' = [r \in inserted' |-> IF r = rank THEN 0 ELSE kickstarted[r]]
  <2>1. TickedOff'
    BY <1>1, <1>3 DEF Kept, TickedOff, Alone
  <2> QED
    BY <1>1, <1>3, <2>1 DEF Kept, LogIsTrue
<1> QED
  BY <1>2, <1>3 DEF Inserted

(* Nothing that is lost, added or removed spoils it. *)
LEMMA KeptStep ==
    ASSUME Inv, Done, [Next]_vars, removed' = FALSE
    PROVE  Kept'
<1>1. ASSUME Start PROVE Kept'
  <2>1. /\ inserted' = {} /\ access' = <<>> /\ pc' = "loop"
        /\ UNCHANGED <<nodes, networks, removing>>
        /\ ~ (removing # {} \/ \E row \in networks : row.rank = Orphan)
    BY <1>1 DEF Start
  <2>2. Len(access') = 0
    BY <2>1, EmptySeq
  <2> QED
    BY <2>1, <2>2 DEF Kept, LogIsTrue, TickedOff, Alone
<1>2. ASSUME ~ Start, removed = FALSE PROVE Kept'
  <2>1. Kept /\ OneInterface
    BY <1>2 DEF Done
  <2>2. ASSUME UNCHANGED <<networks, removing, access, rank, inserted, kickstarted, served>>,
               nodes \subseteq nodes', pc' = "linking" => pc = "linking"
        PROVE  Kept'
    BY <2>1, <2>2 DEF Kept, LogIsTrue, TickedOff, Alone
  <2>3. ASSUME NEW m \in Macs, Discovering(m) PROVE Kept'
    BY <2>2, <2>3 DEF Discovering, database, held
  <2>4. ASSUME NEW row \in networks, NEW status \in Status, Requesting(row, status)
        PROVE  Kept'
    BY <2>1, <2>4, RequestKept
  <2>5. ASSUME NEW status \in Status, StrangerRequesting(status) PROVE Kept'
    BY <2>1, <2>5, StrangerKept
  <2>6. ASSUME NEW r \in nodes, RemoveInterfaces(r) \/ RemoveHost(r) PROVE FALSE
    BY <2>1, <2>6 DEF RemoveInterfaces, RemoveHost, Kept
  <2>7. ASSUME Discover PROVE Kept'
    <3>1. UNCHANGED <<networks, removing, access, rank, inserted, kickstarted, served, nodes>>
      BY <2>7 DEF Discover, Raise, database, held
    <3>2. pc' = "linking" => pc = "linking"
      BY <2>7 DEF Discover, Raise
    <3> QED
      BY <2>2, <3>1, <3>2
  <2>8. ASSUME AddHost PROVE Kept'
    <3>1. /\ nodes \subseteq nodes'
          /\ UNCHANGED <<networks, removing, access, rank, inserted, kickstarted, served>>
          /\ pc' = "linking" => rank \notin nodes
      BY <2>8 DEF AddHost, logs, held
    <3> QED
      BY <2>1, <3>1 DEF Kept, LogIsTrue, TickedOff, Alone
  <2>9. ASSUME AddInterface PROVE Kept'
    BY <2>1, <2>9, AddInterfaceKept
  <2>10. ASSUME Inserted PROVE Kept'
    BY <2>1, <2>10, InsertedKept
  <2>11. ASSUME SkipLine PROVE Kept'
    BY <2>2, <2>11 DEF SkipLine, database, held
  <2>12. ASSUME Kickstart PROVE Kept'
    BY <2>1, <2>12, KickstartKept
  <2>13. ASSUME NEW key \in {"F8", "F9", "TIMER"}, Quit(key) PROVE Kept'
    BY <2>2, <2>13 DEF Quit, database, logs, held
  <2>14. ASSUME UNCHANGED vars PROVE Kept'
    BY <2>2, <2>14 DEF vars
  <2> QED
    BY <1>2, <2>3, <2>4, <2>5, <2>6, <2>7, <2>8, <2>9, <2>10, <2>11, <2>12, <2>13, <2>14
    DEF Next
<1>3. ASSUME ~ Start, removed # FALSE PROVE removed' # FALSE
  <2>1. removed' = removed \/ removed' = TRUE
    BY <1>3
    DEF Next, Discovering, Requesting, StrangerRequesting, RemoveInterfaces, RemoveHost,
        Discover, Raise, AddHost, AddInterface, Inserted, SkipLine, Kickstart, Quit,
        database, vars
  <2> QED
    BY <1>3, <2>1
<1> QED
  BY <1>1, <1>2, <1>3

LEMMA DoneStep == Inv /\ Done /\ [Next]_vars => Done'
<1> SUFFICES ASSUME Inv, Done, [Next]_vars PROVE Done'
  OBVIOUS
<1>1. OneInterface'
  BY OneInterfaceStep DEF Done
<1>2. removed' = FALSE => Kept'
  BY KeptStep
<1>3. removed' \in BOOLEAN
  <2>1. CASE Start
    BY <2>1, Zenon DEF Start
  <2>2. CASE ~ Start
    <3>1. removed' = removed \/ removed' = TRUE
      BY <2>2
      DEF Next, Discovering, Requesting, StrangerRequesting, RemoveInterfaces, RemoveHost,
          Discover, Raise, AddHost, AddInterface, Inserted, SkipLine, Kickstart, Quit,
          database, vars
    <3> QED
      BY <3>1 DEF Done
  <2> QED
    BY <2>1, <2>2
<1>4. pc' = "off" /\ ended' = "keys" => AllReady'
  <2>1. ASSUME NEW key \in {"F8", "F9", "TIMER"}, Quit(key), ended' = "keys"
        PROVE  AllReady'
    BY <2>1 DEF Quit, held, AllReady, None
  <2>2. CASE UNCHANGED <<pc, ended, inserted, kickstarted>>
    BY <2>2 DEF Done, AllReady
  <2>3. ASSUME \/ \E m \in Macs : Discovering(m)
               \/ \E row \in networks, status \in Status : Requesting(row, status)
               \/ \E status \in Status : StrangerRequesting(status)
               \/ \E r \in nodes : RemoveInterfaces(r) \/ RemoveHost(r)
               \/ SkipLine \/ UNCHANGED vars
        PROVE  UNCHANGED <<pc, ended, inserted, kickstarted>>
    BY <2>3 DEF Discovering, Requesting, StrangerRequesting, RemoveInterfaces, RemoveHost,
                SkipLine, held, vars
  <2>4. ASSUME Start \/ Discover \/ AddHost \/ AddInterface \/ Inserted \/ Kickstart,
               pc' = "off"
        PROVE  ended' = "exception"
    BY <2>4 DEF Start, Discover, Raise, AddHost, AddInterface, Inserted, Kickstart
  <2> QED
    BY <2>1, <2>2, <2>3, <2>4 DEF Next
<1> QED
  BY <1>1, <1>2, <1>3, <1>4 DEF Done

(* checkDone: an insert-ethers that ends on its own or by F8 leaves no host
   behind whose machine did not get its kickstart file, unless a host was
   removed meanwhile: a line of the log is looked up by its address, and the
   row that has the address is the row of the machine that asked. *)
THEOREM DoneIsKickstarted == Spec => []DoneMeansKickstarted
<1>1. Init => Done
  <2> SUFFICES ASSUME Init PROVE Done
    OBVIOUS
  <2>1. /\ nodes = {} /\ networks = {} /\ removing = {} /\ access = <<>> /\ pc = "off"
        /\ inserted = {} /\ removed = FALSE /\ ended = None
    BY DEF Init
  <2>2. Len(access) = 0
    BY <2>1, EmptySeq
  <2> QED
    <3>1. OneInterface
      BY <2>1 DEF OneInterface
    <3>2. Kept
      BY <2>1, <2>2 DEF Kept, LogIsTrue, TickedOff, Alone
    <3>3. ended # "keys"
      BY <2>1 DEF None
    <3>4. removed \in BOOLEAN
      BY <2>1
    <3> QED
      BY <3>1, <3>2, <3>3, <3>4 DEF Done
<1>2. Done => DoneMeansKickstarted
  BY DEF Done, Kept, TickedOff, AllReady, DoneMeansKickstarted
<1> QED
  BY <1>1, <1>2, DoneStep, Invariance, PTL DEF Spec

=============================================================================
