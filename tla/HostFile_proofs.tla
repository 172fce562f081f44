--------------------------- MODULE HostFile_proofs ---------------------------
(***************************************************************************)
(* Proofs about HostFile, for every spreadsheet, number of loads at a time *)
(* and initial tables.                                                     *)
(*                                                                         *)
(* BInv types the tables and what a load has read, says that ids are never *)
(* used again, and of each place in the code what the checks before it     *)
(* left. WorkInv says of a load that nobody disturbed what it has done of  *)
(* its spreadsheet: which hosts have their row and groups, which           *)
(* interfaces there are, and why it failed.                                *)
(***************************************************************************)
EXTENDS HostFile, FiniteSetTheorems, NaturalsInduction, WellFoundedInduction, TLAPS

-----------------------------------------------------------------------------
(* Types, and what the places of a load in the code say. *)

Steps == Running \cup {"idle", "rejected", "raised", "dead", "done"}
Things == Groups \cup {"appliance", "place"} \cup Nat

Loading ==
    [step : Steps, sheet : Seq(Lists), hosts : SUBSET Hosts, listed : [Hosts -> Nat],
     existing : SUBSET Hosts, known : SUBSET Groups, old : SUBSET (Hosts \X Groups),
     left : SUBSET Hosts, host : Hosts \cup {None},
     todo : SUBSET Things, item : Things \cup {None}]

(* Ids are never used again, and every host has its own. *)
TablesOK ==
    /\ nodes \in SUBSET NodeRow /\ IsFiniteSet(nodes)
    /\ networks \in SUBSET NetworkRow /\ IsFiniteSet(networks)
    /\ groups \in SUBSET Groups /\ members \in SUBSET (Nat \X Groups)
    /\ serial \in Nat
    /\ \A n \in nodes : n.id < serial
    /\ \A n \in networks : n.node # None => n.node < serial
    /\ \A m \in members : m[1] < serial
    /\ \A m, n \in nodes : m.id = n.id => m = n

HostSteps == {"add", "insert", "group", "join", "member", "set"}
GroupSteps == HostSteps \ {"set"}
LineSteps == {"put", "ip", "name", "main", "only"}
Checked == (Running \ {"boss", "remove", "unnode"}) \cup {"done"}

(* What the place of a load in the code says of the rest of it. *)
JobOK(r) ==
    /\ r.hosts \subseteq Names(r.sheet) /\ r.left \subseteq Names(r.sheet)
    /\ \A h \in Names(r.sheet) \ r.hosts : Bossed(r.sheet) /\ BossOf(r.sheet, h) # Boss
    /\ r.step = "boss" /\ r.left # {} => Bossed(r.sheet)
    /\ r.step \in {"remove", "unnode"} =>
          /\ Bossed(r.sheet) /\ r.host \in Names(r.sheet)
          /\ BossOf(r.sheet, r.host) \notin {None, Boss}
    /\ r.step \in Running \cup {"done"} => ~ Malformed(r.sheet)
    /\ r.step \in Checked => ~ Inconsistent(r.sheet, r.hosts)
    /\ r.step \in HostSteps \cup {"host"} => r.left \subseteq r.hosts
    /\ r.step \in HostSteps => r.host \in r.hosts \ r.left
    /\ r.step \in GroupSteps => r.todo \subseteq GroupsOf(r.sheet, r.host)
    /\ r.step \in {"join", "member"} => r.item \in GroupsOf(r.sheet, r.host) \ r.todo
    /\ r.step = "set" => /\ r.todo \subseteq {"appliance", "place"}
                         /\ \A f \in r.todo : Given(r.sheet, r.host, f) # {}
    /\ r.step \in {"boss", "read", "groups", "prune", "host"} => r.host = None
    /\ r.step \in {"clear", "wipe"} \cup Connecting => r.left \subseteq Cabled(r.sheet)
    /\ r.step = "clear" => r.left = Cabled(r.sheet)
    /\ r.step \in LineSteps =>
          /\ r.host \in Cabled(r.sheet) \ r.left
          /\ r.todo \subseteq Lines(r.sheet, r.host)
          /\ r.item \in Lines(r.sheet, r.host) \ r.todo
    /\ r.step \in LineSteps \ {"put"} => r.sheet[r.item].mac = None
    /\ r.step = "ip" => r.sheet[r.item].ip # None
    /\ r.step = "name" => IsDefault(r.sheet, r.item)
    /\ r.step = "devices" /\ r.todo # {} =>
          r.host \in Cabled(r.sheet) \ r.left /\ r.todo \subseteq Lines(r.sheet, r.host)
    /\ r.step \notin HostSteps \cup LineSteps \cup {"devices"} => r.todo = {}
    /\ r.step \in {"boot", "done"} => r.left = {}

BInv ==
    /\ TablesOK
    /\ load \in [Loaders -> Loading]
    /\ undisturbed \in [Loaders -> BOOLEAN]
    /\ \A l \in Loaders : JobOK(load[l])

-----------------------------------------------------------------------------
(* The spreadsheet. *)

(* A set of naturals that is not empty has a least member, and a greatest   *)
(* one if it is bounded.                                                    *)
LEMMA LeastExists ==
    ASSUME NEW T \in SUBSET Nat, T # {}
    PROVE  \E x \in T : \A y \in T : x <= y
<1> DEFINE less == OpToRel(<, Nat)
<1>1. \A x, y \in Nat : y < x => <<y, x>> \in less
  BY DEF OpToRel
<1> HIDE DEF less
<1>2. \E x \in T : \A y \in T : ~ (<<y, x>> \in less)
  BY NatLessThanWellFounded, WFMin DEF less
<1>3. PICK x \in T : \A y \in T : ~ (<<y, x>> \in less)
  BY <1>2
<1>4. ASSUME NEW y \in T PROVE x <= y
  <2>1. x \in Nat /\ y \in Nat /\ ~ (y < x)
    BY <1>1, <1>3
  <2> QED
    BY <2>1
<1> QED
  BY <1>4

(* And the greatest. *)
LEMMA GreatestExists ==
    ASSUME NEW b \in Nat, NEW T \in SUBSET (0 .. b), T # {}
    PROVE  \E x \in T : \A y \in T : y <= x
<1> DEFINE U == {b - y : y \in T}
<1>1. U \in SUBSET Nat /\ U # {}
  <2>1. \A y \in T : b - y \in Nat
    OBVIOUS
  <2> QED
    BY <2>1
<1>2. PICK u \in U : \A v \in U : u <= v
  BY <1>1, LeastExists
<1>3. PICK x \in T : u = b - x
  OBVIOUS
<1>4. ASSUME NEW y \in T PROVE y <= x
  <2>1. b - y \in U /\ x \in 0 .. b /\ y \in 0 .. b
    OBVIOUS
  <2> HIDE DEF U
  <2> QED
    BY <1>2, <1>3, <2>1
<1> QED
  BY <1>4

(* What the operators on spreadsheets give. *)
LEMMA SheetType ==
    ASSUME NEW s \in Seq(Lists)
    PROVE  /\ Names(s) \in SUBSET Hosts /\ Cabled(s) \in SUBSET Names(s)
           /\ \A h : /\ Lines(s, h) \in SUBSET Nat /\ Lines(s, h) \subseteq DOMAIN s
                     /\ GroupsOf(s, h) \in SUBSET Groups
                     /\ \A i \in Lines(s, h) : h \in Names(s) /\ s[i].host = h /\ s[i] \in Lists
           /\ \A h : Given(s, h, "appliance") \in SUBSET (Appliances \cup {"unknown"})
           /\ \A h : Given(s, h, "place") \in SUBSET Places
<1>1. DOMAIN s = 1 .. Len(s) /\ Len(s) \in Nat /\ \A i \in DOMAIN s : s[i] \in Lists
  OBVIOUS
<1>2. \A i \in DOMAIN s : i \in Nat /\ s[i].host \in Hosts /\ s[i].groups \in SUBSET Groups
                          /\ s[i].appliance \in Appliances \cup {None, "unknown"}
                          /\ s[i].place \in Places \cup {None}
  BY <1>1 DEF Lists
<1>3. Names(s) \in SUBSET Hosts /\ Cabled(s) \in SUBSET Names(s)
  BY <1>2 DEF Names, Cabled
<1>4. ASSUME NEW h
      PROVE  /\ Lines(s, h) \in SUBSET Nat /\ Lines(s, h) \subseteq DOMAIN s
             /\ \A i \in Lines(s, h) : h \in Names(s) /\ s[i].host = h /\ s[i] \in Lists
  BY <1>1, <1>2 DEF Names, Lines
<1>5. ASSUME NEW h PROVE GroupsOf(s, h) \in SUBSET Groups
  <2> DEFINE set == {i \in Lines(s, h) : s[i]["groups"] # {}}
             last == CHOOSE i \in set : \A j \in set : j <= i
  <2>1. GroupsOf(s, h) = IF set = {} THEN {} ELSE s[last]["groups"]
    BY DEF GroupsOf, LastOf
  <2>2. CASE set = {}
    BY <2>1, <2>2
  <2>3. CASE set # {}
    <3>1. set \in SUBSET (0 .. Len(s)) /\ set \subseteq DOMAIN s
      BY <1>1, <1>4
    <3>2. \E i \in set : \A j \in set : j <= i
      <4> HIDE DEF set
      <4> QED
        BY <1>1, <2>3, <3>1, GreatestExists
    <3>3. last \in set
      BY <3>2
    <3> QED
      BY <1>2, <2>1, <3>1, <3>3
  <2> QED
    BY <2>2, <2>3
<1>6. ASSUME NEW h
      PROVE  /\ Given(s, h, "appliance") \in SUBSET (Appliances \cup {"unknown"})
             /\ Given(s, h, "place") \in SUBSET Places
  BY <1>1, <1>2 DEF Given
<1> QED
  BY <1>3, <1>4, <1>5, <1>6

(* Rows may go. *)
LEMMA TablesShrink ==
    ASSUME TablesOK, nodes' \subseteq nodes, networks' \subseteq networks,
           members' \subseteq members, groups' = groups, serial' = serial
    PROVE  TablesOK'
<1>1. IsFiniteSet(nodes') /\ IsFiniteSet(networks')
  BY FS_Subset DEF TablesOK
<1> QED
  BY <1>1 DEF TablesOK

(* A finite set has a finite image. *)
LEMMA ImageFinite ==
    ASSUME NEW S, IsFiniteSet(S), NEW f
    PROVE  IsFiniteSet({f[n] : n \in S})
<1> DEFINE T == {f[n] : n \in S}
           g == [n \in S |-> f[n]]
<1>1. g \in Surjection(S, T)
  BY DEF Surjection
<1> QED
  BY <1>1, FS_Surjection

(* One of the columns that load hostfile updates. *)
Fits(f, v) == \/ f = "ip" /\ v \in IPs \cup {None}
              \/ f \in {"main", "named"} /\ v \in BOOLEAN

(* An update of interfaces keeps the types of the tables. *)
LEMMA UpdateOK ==
    ASSUME TablesOK, NEW l \in Loaders, NEW f, NEW v, Fits(f, v),
           NEW S \in SUBSET networks, Update(l, f, S, v)
    PROVE  /\ TablesOK'
           /\ \A n \in S : /\ [n EXCEPT ![f] = v] \in NetworkRow
                           /\ [n EXCEPT ![f] = v].node = n.node
                           /\ [n EXCEPT ![f] = v].device = n.device
<1> DEFINE g == [n \in S |-> [n EXCEPT ![f] = v]]
           T == {g[n] : n \in S}
<1>1. \A n \in S : /\ [n EXCEPT ![f] = v] \in NetworkRow
                   /\ [n EXCEPT ![f] = v].node = n.node
                   /\ [n EXCEPT ![f] = v].device = n.device
  <2>1. S \in SUBSET NetworkRow
    BY DEF TablesOK
  <2> QED
    BY <2>1 DEF Fits, NetworkRow
<1>2. \A n \in S : g[n] = [n EXCEPT ![f] = v]
  OBVIOUS
<1>3. networks' = (networks \ S) \cup T
  BY <1>2 DEF Update
<1>4. IsFiniteSet(T)
  <2>1. IsFiniteSet(S)
    BY FS_Subset DEF TablesOK
  <2> HIDE DEF g
  <2> QED
    BY <2>1, ImageFinite
<1>5. IsFiniteSet(networks')
  BY <1>3, <1>4, FS_Union, FS_Subset DEF TablesOK
<1>6. \A n \in T : n \in NetworkRow /\ (n.node # None => n.node < serial)
  <2>1. \A n \in S : g[n] \in NetworkRow /\ g[n].node = n.node /\ (n.node # None => n.node < serial)
    BY <1>1, <1>2 DEF TablesOK
  <2> HIDE DEF g
  <2> QED
    BY <2>1
<1>7. /\ networks' \in SUBSET NetworkRow /\ \A n \in networks' : n.node # None => n.node < serial
  BY <1>3, <1>6 DEF TablesOK
<1>8. nodes' = nodes /\ members' = members /\ groups' = groups /\ serial' = serial
  BY DEF Update
<1> HIDE DEF T, g
<1> QED
  BY <1>1, <1>5, <1>7, <1>8 DEF TablesOK

(* One of the columns of a host that load hostfile sets. *)
FitsHost(f, v) == \/ f = "appliance" /\ v \in Appliances \cup {None, "unknown"}
                  \/ f = "place" /\ v \in Places \cup {None}

SetTo(n, h, f, v) == IF n.name = h THEN [n EXCEPT ![f] = v] ELSE n

(* What is set for a host keeps its name and its id. *)
LEMMA SetOK ==
    ASSUME TablesOK, NEW h, NEW f, NEW v,
           FitsHost(f, v), nodes' = {SetTo(n, h, f, v) : n \in nodes},
           UNCHANGED <<networks, groups, members, serial>>
    PROVE  /\ TablesOK'
           /\ \A n \in nodes : /\ [n EXCEPT ![f] = v] \in NodeRow
                               /\ [n EXCEPT ![f] = v].id = n.id
                               /\ [n EXCEPT ![f] = v].name = n.name
<1> DEFINE g == [n \in nodes |-> IF n.name = h THEN [n EXCEPT ![f] = v] ELSE n]
<1>1. \A n \in nodes : /\ [n EXCEPT ![f] = v] \in NodeRow
                       /\ [n EXCEPT ![f] = v].id = n.id
                       /\ [n EXCEPT ![f] = v].name = n.name
  <2>1. nodes \in SUBSET NodeRow
    BY DEF TablesOK
  <2> QED
    BY <2>1 DEF NodeRow, FitsHost
<1>2. \A n \in nodes : g[n] = IF n.name = h THEN [n EXCEPT ![f] = v] ELSE n
  OBVIOUS
<1>3. nodes' = {g[n] : n \in nodes}
  BY <1>2 DEF SetTo
<1>4. \A n \in nodes : g[n] \in NodeRow /\ g[n].id = n.id
  BY <1>1, <1>2 DEF TablesOK
<1> HIDE DEF g
<1>5. IsFiniteSet(nodes')
  <2>1. IsFiniteSet(nodes)
    BY DEF TablesOK
  <2>2. IsFiniteSet({g[n] : n \in nodes})
    BY <2>1, ImageFinite
  <2> QED
    BY <1>3, <2>2
<1>6. /\ nodes' \in SUBSET NodeRow /\ \A n \in nodes' : n.id < serial
      /\ \A m, n \in nodes' : m.id = n.id => m = n
  <2>1. \A n \in nodes : n.id < serial /\ \A m \in nodes : m.id = n.id => m = n
    BY DEF TablesOK
  <2>2. \A n \in nodes' : \E m \in nodes : n = g[m]
    BY <1>3
  <2> QED
    BY <1>4, <2>1, <2>2
<1> QED
  BY <1>1, <1>5, <1>6 DEF TablesOK

(* What a load does is written in its own record. *)
LEMMA OwnRecord ==
    ASSUME BInv, NEW l \in Loaders, NEW t, Do(l, t)
    PROVE  /\ load'[l] = t /\ \A k \in Loaders \ {l} : load'[k] = load[k]
           /\ (t \in Loading => load' \in [Loaders -> Loading])
           /\ load[l] \in Loading /\ JobOK(load[l])
BY DEF BInv, Do

(* A load that fails is at a place of its own. *)
LEMMA RaiseOK ==
    ASSUME BInv, NEW l \in Loaders, NEW s \in {"raised", "dead", "rejected", "done"},
           load[l].step \in Running, load[l].left \subseteq Names(load[l].sheet),
           s = "done" => load[l].step \in Checked
    PROVE  End(l, s) \in Loading /\ JobOK(End(l, s)) /\ End(l, s).step = s
           /\ End(l, s).sheet = load[l].sheet /\ End(l, s).hosts = load[l].hosts
<1>1. load[l] \in Loading /\ JobOK(load[l])
  BY DEF BInv
<1> DEFINE r == load[l]
           t == End(l, s)
<1>2. /\ t \in Loading /\ t.step = s /\ t.sheet = r.sheet /\ t.hosts = r.hosts
      /\ t.left = {} /\ t.todo = {}
  BY <1>1 DEF End, Loading, Steps
<1> HIDE DEF t
<1>3. JobOK(t)
  BY <1>1, <1>2 DEF JobOK, Running, Applying, Connecting, HostSteps, GroupSteps, LineSteps, Checked
<1> QED
  BY <1>2, <1>3 DEF t

(* A run of load hostfile goes on to a place where JobOK holds again. *)
Moved(l) == load' \in [Loaders -> Loading] /\ JobOK(load'[l])
            /\ \A k \in Loaders \ {l} : load'[k] = load[k]

(* To move is to write one record for which JobOK holds. *)
LEMMA MovedBy ==
    ASSUME BInv, NEW l \in Loaders, NEW t, t \in Loading, JobOK(t), Do(l, t)
    PROVE  Moved(l)
BY OwnRecord DEF Moved

(* A load that fails is left with what it has read. *)
LEMMA RaiseMoves ==
    ASSUME BInv, NEW l \in Loaders, load[l].step \in Running, Raise(l)
    PROVE  Moved(l)
<1>1. load[l].left \subseteq Names(load[l].sheet)
  BY DEF BInv, JobOK
<1>2. Do(l, End(l, "raised"))
  BY DEF Raise
<1> QED
  BY <1>1, <1>2, RaiseOK, MovedBy

(* What a load has read has its types. *)
LEMMA JobType ==
    ASSUME BInv, NEW l \in Loaders
    PROVE  LET r == load[l]
               s == r.sheet
           IN  /\ r \in Loading /\ JobOK(r) /\ s \in Seq(Lists)
               /\ r.hosts \in SUBSET Hosts /\ r.listed \in [Hosts -> Nat]
               /\ r.left \in SUBSET Hosts /\ r.todo \in SUBSET Things
               /\ r.existing \in SUBSET Hosts /\ r.known \in SUBSET Groups
               /\ r.old \in SUBSET (Hosts \X Groups)
               /\ r.host \in Hosts \cup {None} /\ r.item \in Things \cup {None}
               /\ Names(s) \in SUBSET Hosts /\ Cabled(s) \in SUBSET Names(s)
               /\ \A h : /\ Lines(s, h) \in SUBSET Things /\ Lines(s, h) \in SUBSET Nat
                         /\ GroupsOf(s, h) \in SUBSET Things /\ GroupsOf(s, h) \in SUBSET Groups
               /\ r.hosts \subseteq Names(s) /\ r.left \subseteq Names(s)
<1>1. load[l] \in Loading /\ JobOK(load[l])
  BY DEF BInv
<1>2. load[l].sheet \in Seq(Lists)
  BY <1>1 DEF Loading
<1> QED
  BY <1>1, <1>2, SheetType DEF Loading, JobOK, Things

(* What each step keeps of what a load has read, and that JobOK holds at *)
(* the place it goes to.                                                 *)
LEMMA ReadMoves ==
    ASSUME BInv, NEW l \in Loaders, Read(l)
    PROVE  Moved(l)
<1> DEFINE r == load[l]
           s == r.sheet
<1>1. r.step = "read"
  BY DEF Read, At
<1>2. NodeNames \in SUBSET Hosts
  BY DEF BInv, TablesOK, NodeNames, NodeRow
<1>10. Do(l, [To(l, "groups") EXCEPT !.existing = NodeNames])
  BY <1>1 DEF Read
<1> DEFINE t == [To(l, "groups") EXCEPT !.existing = NodeNames]
<1>11. /\ "groups" \in Steps
       /\ NodeNames \in SUBSET Hosts
  BY <1>1, <1>10, JobType, <1>2 DEF Steps, Running, Applying, Connecting
<1>12. r \in Loading /\ JobOK(r) /\ Cabled(s) \subseteq Names(s) /\ r.left \subseteq Names(s) /\ r.hosts \subseteq Names(s)
  BY JobType
<1>13. t \in Loading
  BY <1>11, <1>12 DEF Loading, To
<1>14. /\ t.step = "groups" /\ t.sheet = r.sheet /\ t.hosts = r.hosts
       /\ t.listed = r.listed /\ t.existing = NodeNames /\ t.known = r.known
       /\ t.old = r.old /\ t.left = r.left /\ t.host = r.host
       /\ t.todo = r.todo /\ t.item = r.item
  BY <1>12 DEF Loading, To
<1> HIDE DEF t
<1>15. JobOK(t)
  BY <1>1, <1>10, <1>12, <1>14 DEF JobOK, Running, Applying, Connecting, HostSteps, GroupSteps, LineSteps, Checked
<1> QED
  BY <1>10, <1>13, <1>15, MovedBy DEF t

(* Reading their groups. *)
LEMMA ReadGroupsMoves ==
    ASSUME BInv, NEW l \in Loaders, ReadGroups(l)
    PROVE  Moved(l)
<1> DEFINE r == load[l]
           s == r.sheet
<1>1. r.step = "groups"
  BY DEF ReadGroups, At
<1>4. /\ groups \in SUBSET Groups
      /\ UNION {{h} \X MembersOf(h) : h \in r.hosts \cap r.existing} \in SUBSET (Hosts \X Groups)
  <2>1. \A h : MembersOf(h) \in SUBSET Groups
    BY DEF BInv, TablesOK, MembersOf
  <2> QED
    BY <2>1, JobType DEF BInv, TablesOK
<1>2. CASE Raise(l)
  BY <1>1, <1>2, RaiseMoves DEF Running, Applying, Connecting
<1>3. CASE ~ Raise(l)
  <2>10. Do(l, [To(l, "prune") EXCEPT !.known = groups, !.old = UNION {{h} \X MembersOf(h) : h \in r.hosts \cap r.existing}])
    BY <1>1, <1>3 DEF ReadGroups
  <2> DEFINE t == [To(l, "prune") EXCEPT !.known = groups, !.old = UNION {{h} \X MembersOf(h) : h \in r.hosts \cap r.existing}]
  <2>11. /\ "prune" \in Steps
         /\ groups \in SUBSET Groups
         /\ UNION {{h} \X MembersOf(h) : h \in r.hosts \cap r.existing} \in SUBSET (Hosts \X Groups)
    BY <1>1, <2>10, JobType, <1>4 DEF Steps, Running, Applying, Connecting
  <2>12. r \in Loading /\ JobOK(r) /\ Cabled(s) \subseteq Names(s) /\ r.left \subseteq Names(s) /\ r.hosts \subseteq Names(s)
    BY JobType
  <2>13. t \in Loading
    BY <2>11, <2>12 DEF Loading, To
  <2>14. /\ t.step = "prune" /\ t.sheet = r.sheet /\ t.hosts = r.hosts
         /\ t.listed = r.listed /\ t.existing = r.existing /\ t.known = groups
         /\ t.old = UNION {{h} \X MembersOf(h) : h \in r.hosts \cap r.existing} /\ t.left = r.left /\ t.host = r.host
         /\ t.todo = r.todo /\ t.item = r.item
    BY <2>12 DEF Loading, To
  <2> HIDE DEF t
  <2>15. JobOK(t)
    BY <1>1, <2>10, <2>12, <2>14 DEF JobOK, Running, Applying, Connecting, HostSteps, GroupSteps, LineSteps, Checked
  <2> QED
    BY <2>10, <2>13, <2>15, MovedBy DEF t
<1> QED
  BY <1>2, <1>3

(* Removing the letters of group names. *)
LEMMA PruneMoves ==
    ASSUME BInv, NEW l \in Loaders, Prune(l)
    PROVE  Moved(l)
<1> DEFINE r == load[l]
           s == r.sheet
<1>1. r.step = "prune"
  BY DEF Prune, At
<1>2. CASE Raise(l)
  BY <1>1, <1>2, RaiseMoves DEF Running, Applying, Connecting
<1>3. CASE ~ Raise(l)
  <2>10. Do(l, [To(l, "host") EXCEPT !.left = r.hosts])
    BY <1>1, <1>3 DEF Prune
  <2> DEFINE t == [To(l, "host") EXCEPT !.left = r.hosts]
  <2>11. /\ "host" \in Steps
         /\ r.hosts \in SUBSET Hosts
    BY <1>1, <2>10, JobType DEF Steps, Running, Applying, Connecting
  <2>12. r \in Loading /\ JobOK(r) /\ Cabled(s) \subseteq Names(s) /\ r.left \subseteq Names(s) /\ r.hosts \subseteq Names(s)
    BY JobType
  <2>13. t \in Loading
    BY <2>11, <2>12 DEF Loading, To
  <2>14. /\ t.step = "host" /\ t.sheet = r.sheet /\ t.hosts = r.hosts
         /\ t.listed = r.listed /\ t.existing = r.existing /\ t.known = r.known
         /\ t.old = r.old /\ t.left = r.hosts /\ t.host = r.host
         /\ t.todo = r.todo /\ t.item = r.item
    BY <2>12 DEF Loading, To
  <2> HIDE DEF t
  <2>15. JobOK(t)
    BY <1>1, <2>10, <2>12, <2>14 DEF JobOK, Running, Applying, Connecting, HostSteps, GroupSteps, LineSteps, Checked
  <2> QED
    BY <2>10, <2>13, <2>15, MovedBy DEF t
<1> QED
  BY <1>2, <1>3

(* Taking the next host. *)
LEMMA NextHostMoves ==
    ASSUME BInv, NEW l \in Loaders, NextHost(l)
    PROVE  Moved(l)
<1> DEFINE r == load[l]
           s == r.sheet
<1>1. r.step = "host"
  BY DEF NextHost, At
<1>10. PICK h \in r.left : Do(l, [To(l, IF h \in r.existing THEN "group" ELSE "add") EXCEPT !.left = @ \ {h}, !.host = h, !.todo = GroupsOf(s, h)])
  BY <1>1 DEF NextHost
<1> DEFINE t == [To(l, IF h \in r.existing THEN "group" ELSE "add") EXCEPT !.left = @ \ {h}, !.host = h, !.todo = GroupsOf(s, h)]
<1>11. /\ (IF h \in r.existing THEN "group" ELSE "add") \in Steps
       /\ r.left \ {h} \in SUBSET Hosts
       /\ h \in Hosts \cup {None}
       /\ GroupsOf(s, h) \in SUBSET Things
  BY <1>1, <1>10, JobType DEF Steps, Running, Applying, Connecting, Things
<1>12. r \in Loading /\ JobOK(r) /\ Cabled(s) \subseteq Names(s) /\ r.left \subseteq Names(s) /\ r.hosts \subseteq Names(s)
  BY JobType
<1>13. t \in Loading
  BY <1>11, <1>12 DEF Loading, To
<1>14. /\ t.step = (IF h \in r.existing THEN "group" ELSE "add") /\ t.sheet = r.sheet /\ t.hosts = r.hosts
       /\ t.listed = r.listed /\ t.existing = r.existing /\ t.known = r.known
       /\ t.old = r.old /\ t.left = r.left \ {h} /\ t.host = h
       /\ t.todo = GroupsOf(s, h) /\ t.item = r.item
  BY <1>12 DEF Loading, To
<1> HIDE DEF t
<1>15. JobOK(t)
  BY <1>1, <1>10, <1>12, <1>14 DEF JobOK, Running, Applying, Connecting, HostSteps, GroupSteps, LineSteps, Checked
<1> QED
  BY <1>10, <1>13, <1>15, MovedBy DEF t

(* The checks of add host. *)
LEMMA AddHostMoves ==
    ASSUME BInv, NEW l \in Loaders, AddHost(l)
    PROVE  Moved(l)
<1> DEFINE r == load[l]
           s == r.sheet
<1>1. r.step = "add"
  BY DEF AddHost, At
<1>2. CASE Raise(l)
  BY <1>1, <1>2, RaiseMoves DEF Running, Applying, Connecting
<1>3. CASE ~ Raise(l)
  <2>10. Do(l, To(l, "insert"))
    BY <1>1, <1>3 DEF AddHost
  <2> DEFINE t == To(l, "insert")
  <2>11. /\ "insert" \in Steps
    BY <1>1, <2>10, JobType DEF Steps, Running, Applying, Connecting
  <2>12. r \in Loading /\ JobOK(r) /\ Cabled(s) \subseteq Names(s) /\ r.left \subseteq Names(s) /\ r.hosts \subseteq Names(s)
    BY JobType
  <2>13. t \in Loading
    BY <2>11, <2>12 DEF Loading, To
  <2>14. /\ t.step = "insert" /\ t.sheet = r.sheet /\ t.hosts = r.hosts
         /\ t.listed = r.listed /\ t.existing = r.existing /\ t.known = r.known
         /\ t.old = r.old /\ t.left = r.left /\ t.host = r.host
         /\ t.todo = r.todo /\ t.item = r.item
    BY <2>12 DEF Loading, To
  <2> HIDE DEF t
  <2>15. JobOK(t)
    BY <1>1, <2>10, <2>12, <2>14 DEF JobOK, Running, Applying, Connecting, HostSteps, GroupSteps, LineSteps, Checked
  <2> QED
    BY <2>10, <2>13, <2>15, MovedBy DEF t
<1> QED
  BY <1>2, <1>3

(* The insert of add host. *)
LEMMA InsertHostMoves ==
    ASSUME BInv, NEW l \in Loaders, InsertHost(l)
    PROVE  Moved(l)
<1> DEFINE r == load[l]
           s == r.sheet
<1>1. r.step = "insert"
  BY DEF InsertHost, At
<1>10. Do(l, To(l, "group"))
  BY <1>1 DEF InsertHost
<1> DEFINE t == To(l, "group")
<1>11. /\ "group" \in Steps
  BY <1>1, <1>10, JobType DEF Steps, Running, Applying, Connecting
<1>12. r \in Loading /\ JobOK(r) /\ Cabled(s) \subseteq Names(s) /\ r.left \subseteq Names(s) /\ r.hosts \subseteq Names(s)
  BY JobType
<1>13. t \in Loading
  BY <1>11, <1>12 DEF Loading, To
<1>14. /\ t.step = "group" /\ t.sheet = r.sheet /\ t.hosts = r.hosts
       /\ t.listed = r.listed /\ t.existing = r.existing /\ t.known = r.known
       /\ t.old = r.old /\ t.left = r.left /\ t.host = r.host
       /\ t.todo = r.todo /\ t.item = r.item
  BY <1>12 DEF Loading, To
<1> HIDE DEF t
<1>15. JobOK(t)
  BY <1>1, <1>10, <1>12, <1>14 DEF JobOK, Running, Applying, Connecting, HostSteps, GroupSteps, LineSteps, Checked
<1> QED
  BY <1>10, <1>13, <1>15, MovedBy DEF t

(* Add group. *)
LEMMA AddGroupMoves ==
    ASSUME BInv, NEW l \in Loaders, AddGroup(l)
    PROVE  Moved(l)
<1> DEFINE r == load[l]
           s == r.sheet
<1>1. r.step = "group"
  BY DEF AddGroup, At
<1>4. r.todo \subseteq GroupsOf(s, r.host) /\ r.todo \in SUBSET Groups
  BY <1>1, JobType DEF JobOK, GroupSteps, HostSteps
<1>2. CASE Raise(l)
  BY <1>1, <1>2, RaiseMoves DEF Running, Applying, Connecting
<1>3. CASE ~ Raise(l)
  <2>10. PICK g \in r.todo : Do(l, [To(l, "join") EXCEPT !.known = @ \cup {g}, !.todo = @ \ {g}, !.item = g])
    BY <1>1, <1>3 DEF AddGroup
  <2> DEFINE t == [To(l, "join") EXCEPT !.known = @ \cup {g}, !.todo = @ \ {g}, !.item = g]
  <2>11. /\ "join" \in Steps
         /\ r.known \cup {g} \in SUBSET Groups
         /\ r.todo \ {g} \in SUBSET Things
         /\ g \in Things \cup {None}
    BY <1>1, <2>10, JobType, <1>4 DEF Steps, Running, Applying, Connecting, Things
  <2>12. r \in Loading /\ JobOK(r) /\ Cabled(s) \subseteq Names(s) /\ r.left \subseteq Names(s) /\ r.hosts \subseteq Names(s)
    BY JobType
  <2>13. t \in Loading
    BY <2>11, <2>12 DEF Loading, To
  <2>14. /\ t.step = "join" /\ t.sheet = r.sheet /\ t.hosts = r.hosts
         /\ t.listed = r.listed /\ t.existing = r.existing /\ t.known = r.known \cup {g}
         /\ t.old = r.old /\ t.left = r.left /\ t.host = r.host
         /\ t.todo = r.todo \ {g} /\ t.item = g
    BY <2>12 DEF Loading, To
  <2> HIDE DEF t
  <2>15. JobOK(t)
    BY <1>1, <2>10, <2>12, <2>14 DEF JobOK, Running, Applying, Connecting, HostSteps, GroupSteps, LineSteps, Checked
  <2> QED
    BY <2>10, <2>13, <2>15, MovedBy DEF t
<1> QED
  BY <1>2, <1>3

(* The checks of add host group. *)
LEMMA JoinMoves ==
    ASSUME BInv, NEW l \in Loaders, Join(l)
    PROVE  Moved(l)
<1> DEFINE r == load[l]
           s == r.sheet
<1>1. r.step = "join"
  BY DEF Join, At
<1>2. CASE Raise(l)
  BY <1>1, <1>2, RaiseMoves DEF Running, Applying, Connecting
<1>3. CASE ~ Raise(l)
  <2>10. Do(l, To(l, "member"))
    BY <1>1, <1>3 DEF Join
  <2> DEFINE t == To(l, "member")
  <2>11. /\ "member" \in Steps
    BY <1>1, <2>10, JobType DEF Steps, Running, Applying, Connecting
  <2>12. r \in Loading /\ JobOK(r) /\ Cabled(s) \subseteq Names(s) /\ r.left \subseteq Names(s) /\ r.hosts \subseteq Names(s)
    BY JobType
  <2>13. t \in Loading
    BY <2>11, <2>12 DEF Loading, To
  <2>14. /\ t.step = "member" /\ t.sheet = r.sheet /\ t.hosts = r.hosts
         /\ t.listed = r.listed /\ t.existing = r.existing /\ t.known = r.known
         /\ t.old = r.old /\ t.left = r.left /\ t.host = r.host
         /\ t.todo = r.todo /\ t.item = r.item
    BY <2>12 DEF Loading, To
  <2> HIDE DEF t
  <2>15. JobOK(t)
    BY <1>1, <2>10, <2>12, <2>14 DEF JobOK, Running, Applying, Connecting, HostSteps, GroupSteps, LineSteps, Checked
  <2> QED
    BY <2>10, <2>13, <2>15, MovedBy DEF t
<1> QED
  BY <1>2, <1>3

(* The insert of add host group. *)
LEMMA MemberMoves ==
    ASSUME BInv, NEW l \in Loaders, Member(l)
    PROVE  Moved(l)
<1> DEFINE r == load[l]
           s == r.sheet
<1>1. r.step = "member"
  BY DEF Member, At
<1>2. CASE Raise(l)
  BY <1>1, <1>2, RaiseMoves DEF Running, Applying, Connecting
<1>3. CASE ~ Raise(l)
  <2>10. Do(l, [To(l, "group") EXCEPT !.item = None])
    BY <1>1, <1>3 DEF Member
  <2> DEFINE t == [To(l, "group") EXCEPT !.item = None]
  <2>11. /\ "group" \in Steps
         /\ None \in Things \cup {None}
    BY <1>1, <2>10, JobType DEF Steps, Running, Applying, Connecting, Things
  <2>12. r \in Loading /\ JobOK(r) /\ Cabled(s) \subseteq Names(s) /\ r.left \subseteq Names(s) /\ r.hosts \subseteq Names(s)
    BY JobType
  <2>13. t \in Loading
    BY <2>11, <2>12 DEF Loading, To
  <2>14. /\ t.step = "group" /\ t.sheet = r.sheet /\ t.hosts = r.hosts
         /\ t.listed = r.listed /\ t.existing = r.existing /\ t.known = r.known
         /\ t.old = r.old /\ t.left = r.left /\ t.host = r.host
         /\ t.todo = r.todo /\ t.item = None
    BY <2>12 DEF Loading, To
  <2> HIDE DEF t
  <2>15. JobOK(t)
    BY <1>1, <2>10, <2>12, <2>14 DEF JobOK, Running, Applying, Connecting, HostSteps, GroupSteps, LineSteps, Checked
  <2> QED
    BY <2>10, <2>13, <2>15, MovedBy DEF t
<1> QED
  BY <1>2, <1>3

(* The last group of a host. *)
LEMMA GroupsEndMoves ==
    ASSUME BInv, NEW l \in Loaders, GroupsEnd(l)
    PROVE  Moved(l)
<1> DEFINE r == load[l]
           s == r.sheet
<1>1. r.step = "group" /\ r.todo = {}
  BY DEF GroupsEnd, At
<1>10. Do(l, [To(l, "set") EXCEPT !.todo = IF r.host \notin r.existing THEN {} ELSE {f \in {"appliance", "place"} : Given(s, r.host, f) # {}}])
  BY <1>1 DEF GroupsEnd
<1> DEFINE t == [To(l, "set") EXCEPT !.todo = IF r.host \notin r.existing THEN {} ELSE {f \in {"appliance", "place"} : Given(s, r.host, f) # {}}]
<1>11. /\ "set" \in Steps
       /\ (IF r.host \notin r.existing THEN {} ELSE {f \in {"appliance", "place"} : Given(s, r.host, f) # {}}) \in SUBSET Things
  BY <1>1, <1>10, JobType DEF Steps, Running, Applying, Connecting, Things
<1>12. r \in Loading /\ JobOK(r) /\ Cabled(s) \subseteq Names(s) /\ r.left \subseteq Names(s) /\ r.hosts \subseteq Names(s)
  BY JobType
<1>13. t \in Loading
  BY <1>11, <1>12 DEF Loading, To
<1>14. /\ t.step = "set" /\ t.sheet = r.sheet /\ t.hosts = r.hosts
       /\ t.listed = r.listed /\ t.existing = r.existing /\ t.known = r.known
       /\ t.old = r.old /\ t.left = r.left /\ t.host = r.host
       /\ t.todo = (IF r.host \notin r.existing THEN {} ELSE {f \in {"appliance", "place"} : Given(s, r.host, f) # {}}) /\ t.item = r.item
  BY <1>12 DEF Loading, To
<1> HIDE DEF t
<1>15. JobOK(t)
  BY <1>1, <1>10, <1>12, <1>14 DEF JobOK, Running, Applying, Connecting, HostSteps, GroupSteps, LineSteps, Checked
<1> QED
  BY <1>10, <1>13, <1>15, MovedBy DEF t

(* A set host. *)
LEMMA SetHostMoves ==
    ASSUME BInv, NEW l \in Loaders, SetHost(l)
    PROVE  Moved(l)
<1> DEFINE r == load[l]
           s == r.sheet
<1>1. r.step = "set"
  BY DEF SetHost, At
<1>2. CASE Raise(l)
  BY <1>1, <1>2, RaiseMoves DEF Running, Applying, Connecting
<1>3. CASE ~ Raise(l)
  <2>10. PICK f \in r.todo : Do(l, [load[l] EXCEPT !.todo = @ \ {f}])
    BY <1>1, <1>3 DEF SetHost
  <2> DEFINE t == [load[l] EXCEPT !.todo = @ \ {f}]
  <2>11. /\ r.todo \ {f} \in SUBSET Things
    BY <1>1, <2>10, JobType DEF Steps, Running, Applying, Connecting, Things
  <2>12. r \in Loading /\ JobOK(r) /\ Cabled(s) \subseteq Names(s) /\ r.left \subseteq Names(s) /\ r.hosts \subseteq Names(s)
    BY JobType
  <2>13. t \in Loading
    BY <2>11, <2>12 DEF Loading, To
  <2>14. /\ t.step = r.step /\ t.sheet = r.sheet /\ t.hosts = r.hosts
         /\ t.listed = r.listed /\ t.existing = r.existing /\ t.known = r.known
         /\ t.old = r.old /\ t.left = r.left /\ t.host = r.host
         /\ t.todo = r.todo \ {f} /\ t.item = r.item
    BY <2>12 DEF Loading, To
  <2> HIDE DEF t
  <2>15. JobOK(t)
    BY <1>1, <2>10, <2>12, <2>14 DEF JobOK, Running, Applying, Connecting, HostSteps, GroupSteps, LineSteps, Checked
  <2> QED
    BY <2>10, <2>13, <2>15, MovedBy DEF t
<1> QED
  BY <1>2, <1>3

(* The last column of a host. *)
LEMMA HostEndsMoves ==
    ASSUME BInv, NEW l \in Loaders, HostEnds(l)
    PROVE  Moved(l)
<1> DEFINE r == load[l]
           s == r.sheet
<1>1. r.step = "set" /\ r.todo = {}
  BY DEF HostEnds, At
<1>10. Do(l, [To(l, "host") EXCEPT !.host = None])
  BY <1>1 DEF HostEnds
<1> DEFINE t == [To(l, "host") EXCEPT !.host = None]
<1>11. /\ "host" \in Steps
       /\ None \in Hosts \cup {None}
  BY <1>1, <1>10, JobType DEF Steps, Running, Applying, Connecting
<1>12. r \in Loading /\ JobOK(r) /\ Cabled(s) \subseteq Names(s) /\ r.left \subseteq Names(s) /\ r.hosts \subseteq Names(s)
  BY JobType
<1>13. t \in Loading
  BY <1>11, <1>12 DEF Loading, To
<1>14. /\ t.step = "host" /\ t.sheet = r.sheet /\ t.hosts = r.hosts
       /\ t.listed = r.listed /\ t.existing = r.existing /\ t.known = r.known
       /\ t.old = r.old /\ t.left = r.left /\ t.host = None
       /\ t.todo = r.todo /\ t.item = r.item
  BY <1>12 DEF Loading, To
<1> HIDE DEF t
<1>15. JobOK(t)
  BY <1>1, <1>10, <1>12, <1>14 DEF JobOK, Running, Applying, Connecting, HostSteps, GroupSteps, LineSteps, Checked
<1> QED
  BY <1>10, <1>13, <1>15, MovedBy DEF t

(* The last host. *)
LEMMA HostsEndMoves ==
    ASSUME BInv, NEW l \in Loaders, HostsEnd(l)
    PROVE  Moved(l)
<1> DEFINE r == load[l]
           s == r.sheet
<1>1. r.step = "host" /\ r.left = {}
  BY DEF HostsEnd, At
<1>10. Do(l, [To(l, "clear") EXCEPT !.left = Cabled(s)])
  BY <1>1 DEF HostsEnd
<1> DEFINE t == [To(l, "clear") EXCEPT !.left = Cabled(s)]
<1>11. /\ "clear" \in Steps
       /\ Cabled(s) \in SUBSET Hosts
  BY <1>1, <1>10, JobType DEF Steps, Running, Applying, Connecting
<1>12. r \in Loading /\ JobOK(r) /\ Cabled(s) \subseteq Names(s) /\ r.left \subseteq Names(s) /\ r.hosts \subseteq Names(s)
  BY JobType
<1>13. t \in Loading
  BY <1>11, <1>12 DEF Loading, To
<1>14. /\ t.step = "clear" /\ t.sheet = r.sheet /\ t.hosts = r.hosts
       /\ t.listed = r.listed /\ t.existing = r.existing /\ t.known = r.known
       /\ t.old = r.old /\ t.left = Cabled(s) /\ t.host = r.host
       /\ t.todo = r.todo /\ t.item = r.item
  BY <1>12 DEF Loading, To
<1> HIDE DEF t
<1>15. JobOK(t)
  BY <1>1, <1>10, <1>12, <1>14 DEF JobOK, Running, Applying, Connecting, HostSteps, GroupSteps, LineSteps, Checked
<1> QED
  BY <1>10, <1>13, <1>15, MovedBy DEF t

(* Looking up the hosts with interfaces. *)
LEMMA ClearMoves ==
    ASSUME BInv, NEW l \in Loaders, Clear(l)
    PROVE  Moved(l)
<1> DEFINE r == load[l]
           s == r.sheet
<1>1. r.step = "clear"
  BY DEF Clear, At
<1>2. CASE Raise(l)
  BY <1>1, <1>2, RaiseMoves DEF Running, Applying, Connecting
<1>3. CASE ~ Raise(l)
  <2>10. Do(l, To(l, "wipe"))
    BY <1>1, <1>3 DEF Clear
  <2> DEFINE t == To(l, "wipe")
  <2>11. /\ "wipe" \in Steps
    BY <1>1, <2>10, JobType DEF Steps, Running, Applying, Connecting
  <2>12. r \in Loading /\ JobOK(r) /\ Cabled(s) \subseteq Names(s) /\ r.left \subseteq Names(s) /\ r.hosts \subseteq Names(s)
    BY JobType
  <2>13. t \in Loading
    BY <2>11, <2>12 DEF Loading, To
  <2>14. /\ t.step = "wipe" /\ t.sheet = r.sheet /\ t.hosts = r.hosts
         /\ t.listed = r.listed /\ t.existing = r.existing /\ t.known = r.known
         /\ t.old = r.old /\ t.left = r.left /\ t.host = r.host
         /\ t.todo = r.todo /\ t.item = r.item
    BY <2>12 DEF Loading, To
  <2> HIDE DEF t
  <2>15. JobOK(t)
    BY <1>1, <2>10, <2>12, <2>14 DEF JobOK, Running, Applying, Connecting, HostSteps, GroupSteps, LineSteps, Checked
  <2> QED
    BY <2>10, <2>13, <2>15, MovedBy DEF t
<1> QED
  BY <1>2, <1>3

(* Removing the interfaces of a host. *)
LEMMA WipeMoves ==
    ASSUME BInv, NEW l \in Loaders, Wipe(l)
    PROVE  Moved(l)
<1> DEFINE r == load[l]
           s == r.sheet
<1>1. r.step = "wipe"
  BY DEF Wipe, At
<1>2. CASE Raise(l)
  BY <1>1, <1>2, RaiseMoves DEF Running, Applying, Connecting
<1>3. CASE ~ Raise(l)
  <2>10. PICK h \in r.left : Do(l, [load[l] EXCEPT !.left = @ \ {h}])
    BY <1>1, <1>3 DEF Wipe
  <2> DEFINE t == [load[l] EXCEPT !.left = @ \ {h}]
  <2>11. /\ r.left \ {h} \in SUBSET Hosts
    BY <1>1, <2>10, JobType DEF Steps, Running, Applying, Connecting
  <2>12. r \in Loading /\ JobOK(r) /\ Cabled(s) \subseteq Names(s) /\ r.left \subseteq Names(s) /\ r.hosts \subseteq Names(s)
    BY JobType
  <2>13. t \in Loading
    BY <2>11, <2>12 DEF Loading, To
  <2>14. /\ t.step = r.step /\ t.sheet = r.sheet /\ t.hosts = r.hosts
         /\ t.listed = r.listed /\ t.existing = r.existing /\ t.known = r.known
         /\ t.old = r.old /\ t.left = r.left \ {h} /\ t.host = r.host
         /\ t.todo = r.todo /\ t.item = r.item
    BY <2>12 DEF Loading, To
  <2> HIDE DEF t
  <2>15. JobOK(t)
    BY <1>1, <2>10, <2>12, <2>14 DEF JobOK, Running, Applying, Connecting, HostSteps, GroupSteps, LineSteps, Checked
  <2> QED
    BY <2>10, <2>13, <2>15, MovedBy DEF t
<1> QED
  BY <1>2, <1>3

(* Removing the last interfaces. *)
LEMMA WipeEndsMoves ==
    ASSUME BInv, NEW l \in Loaders, WipeEnds(l)
    PROVE  Moved(l)
<1> DEFINE r == load[l]
           s == r.sheet
<1>1. r.step = "wipe" /\ r.left = {}
  BY DEF WipeEnds, At
<1>10. Do(l, [To(l, "devices") EXCEPT !.left = Cabled(s)])
  BY <1>1 DEF WipeEnds
<1> DEFINE t == [To(l, "devices") EXCEPT !.left = Cabled(s)]
<1>11. /\ "devices" \in Steps
       /\ Cabled(s) \in SUBSET Hosts
  BY <1>1, <1>10, JobType DEF Steps, Running, Applying, Connecting
<1>12. r \in Loading /\ JobOK(r) /\ Cabled(s) \subseteq Names(s) /\ r.left \subseteq Names(s) /\ r.hosts \subseteq Names(s)
  BY JobType
<1>13. t \in Loading
  BY <1>11, <1>12 DEF Loading, To
<1>14. /\ t.step = "devices" /\ t.sheet = r.sheet /\ t.hosts = r.hosts
       /\ t.listed = r.listed /\ t.existing = r.existing /\ t.known = r.known
       /\ t.old = r.old /\ t.left = Cabled(s) /\ t.host = r.host
       /\ t.todo = r.todo /\ t.item = r.item
  BY <1>12 DEF Loading, To
<1> HIDE DEF t
<1>15. JobOK(t)
  BY <1>1, <1>10, <1>12, <1>14 DEF JobOK, Running, Applying, Connecting, HostSteps, GroupSteps, LineSteps, Checked
<1> QED
  BY <1>10, <1>13, <1>15, MovedBy DEF t

(* Taking the next host with interfaces. *)
LEMMA NextInterfacesMoves ==
    ASSUME BInv, NEW l \in Loaders, NextInterfaces(l)
    PROVE  Moved(l)
<1> DEFINE r == load[l]
           s == r.sheet
<1>1. r.step = "devices" /\ r.todo = {}
  BY DEF NextInterfaces, At
<1>10. PICK h \in r.left : Do(l, [load[l] EXCEPT !.left = @ \ {h}, !.host = h, !.todo = Lines(s, h)])
  BY <1>1 DEF NextInterfaces
<1> DEFINE t == [load[l] EXCEPT !.left = @ \ {h}, !.host = h, !.todo = Lines(s, h)]
<1>11. /\ r.left \ {h} \in SUBSET Hosts
       /\ h \in Hosts \cup {None}
       /\ Lines(s, h) \in SUBSET Things
  BY <1>1, <1>10, JobType DEF Steps, Running, Applying, Connecting, Things
<1>12. r \in Loading /\ JobOK(r) /\ Cabled(s) \subseteq Names(s) /\ r.left \subseteq Names(s) /\ r.hosts \subseteq Names(s)
  BY JobType
<1>13. t \in Loading
  BY <1>11, <1>12 DEF Loading, To
<1>14. /\ t.step = r.step /\ t.sheet = r.sheet /\ t.hosts = r.hosts
       /\ t.listed = r.listed /\ t.existing = r.existing /\ t.known = r.known
       /\ t.old = r.old /\ t.left = r.left \ {h} /\ t.host = h
       /\ t.todo = Lines(s, h) /\ t.item = r.item
  BY <1>12 DEF Loading, To
<1> HIDE DEF t
<1>15. JobOK(t)
  BY <1>1, <1>10, <1>12, <1>14 DEF JobOK, Running, Applying, Connecting, HostSteps, GroupSteps, LineSteps, Checked
<1> QED
  BY <1>10, <1>13, <1>15, MovedBy DEF t

(* The checks of add host interface. *)
LEMMA AddInterfaceMoves ==
    ASSUME BInv, NEW l \in Loaders, AddInterface(l)
    PROVE  Moved(l)
<1> DEFINE r == load[l]
           s == r.sheet
<1>1. r.step = "devices"
  BY DEF AddInterface, At
<1>2. CASE Raise(l)
  BY <1>1, <1>2, RaiseMoves DEF Running, Applying, Connecting
<1>3. CASE ~ Raise(l)
  <2>10. PICK i \in r.todo : Do(l, [To(l, "put") EXCEPT !.todo = @ \ {i}, !.item = i])
    BY <1>1, <1>3 DEF AddInterface
  <2> DEFINE t == [To(l, "put") EXCEPT !.todo = @ \ {i}, !.item = i]
  <2>11. /\ "put" \in Steps
         /\ r.todo \ {i} \in SUBSET Things
         /\ i \in Things \cup {None}
    BY <1>1, <2>10, JobType DEF Steps, Running, Applying, Connecting, Things
  <2>12. r \in Loading /\ JobOK(r) /\ Cabled(s) \subseteq Names(s) /\ r.left \subseteq Names(s) /\ r.hosts \subseteq Names(s)
    BY JobType
  <2>13. t \in Loading
    BY <2>11, <2>12 DEF Loading, To
  <2>14. /\ t.step = "put" /\ t.sheet = r.sheet /\ t.hosts = r.hosts
         /\ t.listed = r.listed /\ t.existing = r.existing /\ t.known = r.known
         /\ t.old = r.old /\ t.left = r.left /\ t.host = r.host
         /\ t.todo = r.todo \ {i} /\ t.item = i
    BY <2>12 DEF Loading, To
  <2> HIDE DEF t
  <2>15. JobOK(t)
    BY <1>1, <2>10, <2>12, <2>14 DEF JobOK, Running, Applying, Connecting, HostSteps, GroupSteps, LineSteps, Checked
  <2> QED
    BY <2>10, <2>13, <2>15, MovedBy DEF t
<1> QED
  BY <1>2, <1>3

(* The insert of an interface. *)
LEMMA PutMoves ==
    ASSUME BInv, NEW l \in Loaders, Put(l)
    PROVE  Moved(l)
<1> DEFINE r == load[l]
           s == r.sheet
<1>1. r.step = "put"
  BY DEF Put, At
<1>4. Unnamed(l) \in {"name", "main"} /\ (Unnamed(l) = "name" => IsDefault(s, r.item))
  BY DEF Unnamed, Default
<1>2. CASE Raise(l)
  BY <1>1, <1>2, RaiseMoves DEF Running, Applying, Connecting
<1>3. CASE ~ Raise(l)
  <2>10. Do(l, To(l, CASE Line(l).mac # None -> "devices" [] ~ (Line(l).mac # None) /\ Line(l).ip # None -> "ip" [] OTHER -> Unnamed(l)))
    BY <1>1, <1>3 DEF Put
  <2> DEFINE t == To(l, CASE Line(l).mac # None -> "devices" [] ~ (Line(l).mac # None) /\ Line(l).ip # None -> "ip" [] OTHER -> Unnamed(l))
  <2>11. /\ (CASE Line(l).mac # None -> "devices" [] ~ (Line(l).mac # None) /\ Line(l).ip # None -> "ip" [] OTHER -> Unnamed(l)) \in Steps
    BY <1>1, <2>10, JobType, <1>4 DEF Steps, Running, Applying, Connecting
  <2>12. r \in Loading /\ JobOK(r) /\ Cabled(s) \subseteq Names(s) /\ r.left \subseteq Names(s) /\ r.hosts \subseteq Names(s)
    BY JobType
  <2>13. t \in Loading
    BY <2>11, <2>12 DEF Loading, To
  <2>14. /\ t.step = (CASE Line(l).mac # None -> "devices" [] ~ (Line(l).mac # None) /\ Line(l).ip # None -> "ip" [] OTHER -> Unnamed(l)) /\ t.sheet = r.sheet /\ t.hosts = r.hosts
         /\ t.listed = r.listed /\ t.existing = r.existing /\ t.known = r.known
         /\ t.old = r.old /\ t.left = r.left /\ t.host = r.host
         /\ t.todo = r.todo /\ t.item = r.item
    BY <2>12 DEF Loading, To
  <2> HIDE DEF t
  <2>15. JobOK(t)
    BY <1>1, <2>10, <2>12, <2>14, <1>4 DEF JobOK, Running, Applying, Connecting, HostSteps, GroupSteps, LineSteps, Checked, Line
  <2> QED
    BY <2>10, <2>13, <2>15, MovedBy DEF t
<1> QED
  BY <1>2, <1>3

(* The update of an address. *)
LEMMA SetIPMoves ==
    ASSUME BInv, NEW l \in Loaders, SetIP(l)
    PROVE  Moved(l)
<1> DEFINE r == load[l]
           s == r.sheet
<1>1. r.step = "ip"
  BY DEF SetIP, At
<1>4. Unnamed(l) \in {"name", "main"} /\ (Unnamed(l) = "name" => IsDefault(s, r.item))
  BY DEF Unnamed, Default
<1>2. CASE Raise(l)
  BY <1>1, <1>2, RaiseMoves DEF Running, Applying, Connecting
<1>3. CASE ~ Raise(l)
  <2>10. Do(l, To(l, Unnamed(l)))
    BY <1>1, <1>3 DEF SetIP
  <2> DEFINE t == To(l, Unnamed(l))
  <2>11. /\ Unnamed(l) \in Steps
    BY <1>1, <2>10, JobType, <1>4 DEF Steps, Running, Applying, Connecting
  <2>12. r \in Loading /\ JobOK(r) /\ Cabled(s) \subseteq Names(s) /\ r.left \subseteq Names(s) /\ r.hosts \subseteq Names(s)
    BY JobType
  <2>13. t \in Loading
    BY <2>11, <2>12 DEF Loading, To
  <2>14. /\ t.step = Unnamed(l) /\ t.sheet = r.sheet /\ t.hosts = r.hosts
         /\ t.listed = r.listed /\ t.existing = r.existing /\ t.known = r.known
         /\ t.old = r.old /\ t.left = r.left /\ t.host = r.host
         /\ t.todo = r.todo /\ t.item = r.item
    BY <2>12 DEF Loading, To
  <2> HIDE DEF t
  <2>15. JobOK(t)
    BY <1>1, <2>10, <2>12, <2>14, <1>4 DEF JobOK, Running, Applying, Connecting, HostSteps, GroupSteps, LineSteps, Checked
  <2> QED
    BY <2>10, <2>13, <2>15, MovedBy DEF t
<1> QED
  BY <1>2, <1>3

(* The update of a name. *)
LEMMA SetNameMoves ==
    ASSUME BInv, NEW l \in Loaders, SetName(l)
    PROVE  Moved(l)
<1> DEFINE r == load[l]
           s == r.sheet
<1>1. r.step = "name"
  BY DEF SetName, At
<1>2. CASE Raise(l)
  BY <1>1, <1>2, RaiseMoves DEF Running, Applying, Connecting
<1>3. CASE ~ Raise(l)
  <2>10. Do(l, To(l, "main"))
    BY <1>1, <1>3 DEF SetName
  <2> DEFINE t == To(l, "main")
  <2>11. /\ "main" \in Steps
    BY <1>1, <2>10, JobType DEF Steps, Running, Applying, Connecting
  <2>12. r \in Loading /\ JobOK(r) /\ Cabled(s) \subseteq Names(s) /\ r.left \subseteq Names(s) /\ r.hosts \subseteq Names(s)
    BY JobType
  <2>13. t \in Loading
    BY <2>11, <2>12 DEF Loading, To
  <2>14. /\ t.step = "main" /\ t.sheet = r.sheet /\ t.hosts = r.hosts
         /\ t.listed = r.listed /\ t.existing = r.existing /\ t.known = r.known
         /\ t.old = r.old /\ t.left = r.left /\ t.host = r.host
         /\ t.todo = r.todo /\ t.item = r.item
    BY <2>12 DEF Loading, To
  <2> HIDE DEF t
  <2>15. JobOK(t)
    BY <1>1, <2>10, <2>12, <2>14 DEF JobOK, Running, Applying, Connecting, HostSteps, GroupSteps, LineSteps, Checked
  <2> QED
    BY <2>10, <2>13, <2>15, MovedBy DEF t
<1> QED
  BY <1>2, <1>3

(* Clearing the default interface. *)
LEMMA SetDefaultMoves ==
    ASSUME BInv, NEW l \in Loaders, SetDefault(l)
    PROVE  Moved(l)
<1> DEFINE r == load[l]
           s == r.sheet
<1>1. r.step = "main"
  BY DEF SetDefault, At
<1>2. CASE Raise(l)
  BY <1>1, <1>2, RaiseMoves DEF Running, Applying, Connecting
<1>3. CASE ~ Raise(l)
  <2>10. Do(l, To(l, "only"))
    BY <1>1, <1>3 DEF SetDefault
  <2> DEFINE t == To(l, "only")
  <2>11. /\ "only" \in Steps
    BY <1>1, <2>10, JobType DEF Steps, Running, Applying, Connecting
  <2>12. r \in Loading /\ JobOK(r) /\ Cabled(s) \subseteq Names(s) /\ r.left \subseteq Names(s) /\ r.hosts \subseteq Names(s)
    BY JobType
  <2>13. t \in Loading
    BY <2>11, <2>12 DEF Loading, To
  <2>14. /\ t.step = "only" /\ t.sheet = r.sheet /\ t.hosts = r.hosts
         /\ t.listed = r.listed /\ t.existing = r.existing /\ t.known = r.known
         /\ t.old = r.old /\ t.left = r.left /\ t.host = r.host
         /\ t.todo = r.todo /\ t.item = r.item
    BY <2>12 DEF Loading, To
  <2> HIDE DEF t
  <2>15. JobOK(t)
    BY <1>1, <2>10, <2>12, <2>14 DEF JobOK, Running, Applying, Connecting, HostSteps, GroupSteps, LineSteps, Checked
  <2> QED
    BY <2>10, <2>13, <2>15, MovedBy DEF t
<1> QED
  BY <1>2, <1>3

(* Setting whether an interface is the default. *)
LEMMA SetMainMoves ==
    ASSUME BInv, NEW l \in Loaders, SetMain(l)
    PROVE  Moved(l)
<1> DEFINE r == load[l]
           s == r.sheet
<1>1. r.step = "only"
  BY DEF SetMain, At
<1>10. Do(l, To(l, "devices"))
  BY <1>1 DEF SetMain
<1> DEFINE t == To(l, "devices")
<1>11. /\ "devices" \in Steps
  BY <1>1, <1>10, JobType DEF Steps, Running, Applying, Connecting
<1>12. r \in Loading /\ JobOK(r) /\ Cabled(s) \subseteq Names(s) /\ r.left \subseteq Names(s) /\ r.hosts \subseteq Names(s)
  BY JobType
<1>13. t \in Loading
  BY <1>11, <1>12 DEF Loading, To
<1>14. /\ t.step = "devices" /\ t.sheet = r.sheet /\ t.hosts = r.hosts
       /\ t.listed = r.listed /\ t.existing = r.existing /\ t.known = r.known
       /\ t.old = r.old /\ t.left = r.left /\ t.host = r.host
       /\ t.todo = r.todo /\ t.item = r.item
  BY <1>12 DEF Loading, To
<1> HIDE DEF t
<1>15. JobOK(t)
  BY <1>1, <1>10, <1>12, <1>14 DEF JobOK, Running, Applying, Connecting, HostSteps, GroupSteps, LineSteps, Checked
<1> QED
  BY <1>10, <1>13, <1>15, MovedBy DEF t

(* The last interface. *)
LEMMA InterfacesEndMoves ==
    ASSUME BInv, NEW l \in Loaders, InterfacesEnd(l)
    PROVE  Moved(l)
<1> DEFINE r == load[l]
           s == r.sheet
<1>1. r.step = "devices" /\ r.left = {} /\ r.todo = {}
  BY DEF InterfacesEnd, At
<1>10. Do(l, To(l, "boot"))
  BY <1>1 DEF InterfacesEnd
<1> DEFINE t == To(l, "boot")
<1>11. /\ "boot" \in Steps
  BY <1>1, <1>10, JobType DEF Steps, Running, Applying, Connecting
<1>12. r \in Loading /\ JobOK(r) /\ Cabled(s) \subseteq Names(s) /\ r.left \subseteq Names(s) /\ r.hosts \subseteq Names(s)
  BY JobType
<1>13. t \in Loading
  BY <1>11, <1>12 DEF Loading, To
<1>14. /\ t.step = "boot" /\ t.sheet = r.sheet /\ t.hosts = r.hosts
       /\ t.listed = r.listed /\ t.existing = r.existing /\ t.known = r.known
       /\ t.old = r.old /\ t.left = r.left /\ t.host = r.host
       /\ t.todo = r.todo /\ t.item = r.item
  BY <1>12 DEF Loading, To
<1> HIDE DEF t
<1>15. JobOK(t)
  BY <1>1, <1>10, <1>12, <1>14 DEF JobOK, Running, Applying, Connecting, HostSteps, GroupSteps, LineSteps, Checked
<1> QED
  BY <1>10, <1>13, <1>15, MovedBy DEF t

(* The delete of its row. *)
LEMMA UnnodeMoves ==
    ASSUME BInv, NEW l \in Loaders, Unnode(l)
    PROVE  Moved(l)
<1> DEFINE r == load[l]
           s == r.sheet
<1>1. r.step = "unnode"
  BY DEF Unnode, At
<1>10. Do(l, To(l, "remove"))
  BY <1>1 DEF Unnode
<1> DEFINE t == To(l, "remove")
<1>11. /\ "remove" \in Steps
  BY <1>1, <1>10, JobType DEF Steps, Running, Applying, Connecting
<1>12. r \in Loading /\ JobOK(r) /\ Cabled(s) \subseteq Names(s) /\ r.left \subseteq Names(s) /\ r.hosts \subseteq Names(s)
  BY JobType
<1>13. t \in Loading
  BY <1>11, <1>12 DEF Loading, To
<1>14. /\ t.step = "remove" /\ t.sheet = r.sheet /\ t.hosts = r.hosts
       /\ t.listed = r.listed /\ t.existing = r.existing /\ t.known = r.known
       /\ t.old = r.old /\ t.left = r.left /\ t.host = r.host
       /\ t.todo = r.todo /\ t.item = r.item
  BY <1>12 DEF Loading, To
<1> HIDE DEF t
<1>15. JobOK(t)
  BY <1>1, <1>10, <1>12, <1>14 DEF JobOK, Running, Applying, Connecting, HostSteps, GroupSteps, LineSteps, Checked
<1> QED
  BY <1>10, <1>13, <1>15, MovedBy DEF t

(* Reading the spreadsheet. *)
LEMMA BeginMoves ==
    ASSUME BInv, NEW l \in Loaders, NEW s \in Sheets, Begin(l, s)
    PROVE  Moved(l)
<1> DEFINE listed == [h \in Hosts |-> IF Bossed(s) THEN Cardinality({n \in RowsOf(h) : n.named})
                                     ELSE 0]
           left == IF Bossed(s) /\ ~ Malformed(s) THEN Names(s) ELSE {}
           step == IF Malformed(s) THEN "rejected" ELSE "boss"
           t == [Idle EXCEPT !.step = step, !.sheet = s, !.hosts = Names(s),
                             !.listed = listed, !.left = left]
<1>1. s \in Seq(Lists) /\ Names(s) \in SUBSET Hosts
  BY HostFileAssumption, SheetType
<1>2. listed \in [Hosts -> Nat]
  <2>1. \A h \in Hosts : Cardinality({n \in RowsOf(h) : n.named}) \in Nat
    <3>1. \A h \in Hosts : IsFiniteSet({n \in RowsOf(h) : n.named})
      BY FS_Subset DEF BInv, TablesOK, RowsOf
    <3> QED
      BY <3>1, FS_CardinalityType
  <2> QED
    BY <2>1
<1>3. left \in SUBSET Names(s) /\ step \in Steps
      /\ (step = "rejected" \/ (step = "boss" /\ ~ Malformed(s)))
      /\ (left # {} => Bossed(s))
  BY DEF Steps, Running
<1>4. Do(l, t)
  BY DEF Begin
<1> HIDE DEF listed, left, step
<1>5. t \in Loading
  BY <1>1, <1>2, <1>3 DEF Idle, Loading
<1>6. /\ t.step = step /\ t.sheet = s /\ t.hosts = Names(s) /\ t.left = left /\ t.todo = {}
      /\ t.host = None
  BY DEF Idle
<1> HIDE DEF t
<1>7. JobOK(t)
  BY <1>3, <1>6 DEF JobOK, Running, Applying, Connecting, HostSteps, GroupSteps, LineSteps, Checked
<1> QED
  BY <1>4, <1>5, <1>7, MovedBy

(* Looking for hosts of other frontends. *)
LEMMA NotOursMoves ==
    ASSUME BInv, NEW l \in Loaders, NotOurs(l)
    PROVE  Moved(l) /\ UNCHANGED tables
<1> DEFINE r == load[l]
           s == r.sheet
<1>1. r.step = "boss" /\ Bossed(s)
  BY JobType DEF NotOurs, At, JobOK
<1>2. r \in Loading /\ JobOK(r) /\ Cabled(s) \subseteq Names(s) /\ r.left \subseteq Names(s)
      /\ r.hosts \subseteq Names(s)
  BY JobType
<1>3. PICK h \in r.left :
           CASE BossOf(s, h) = None -> Raise(l)
             [] BossOf(s, h) = Boss ->
                   Do(l, [load[l] EXCEPT !.left = @ \ {h}]) /\ UNCHANGED tables
             [] OTHER -> /\ Do(l, [To(l, "remove") EXCEPT
                                     !.left = @ \ {h}, !.hosts = @ \ {h}, !.host = h])
                         /\ UNCHANGED tables
  BY DEF NotOurs
<1>4. CASE BossOf(s, h) = None
  <2>1. Raise(l)
    BY <1>3, <1>4, HostFileAssumption
  <2>2. r.step \in Running
    BY <1>1 DEF Running
  <2>3. UNCHANGED tables
    BY <2>1 DEF Raise
  <2> QED
    BY <2>1, <2>2, <2>3, RaiseMoves
<1>5. CASE BossOf(s, h) # None /\ BossOf(s, h) = Boss
  <2> DEFINE t == [load[l] EXCEPT !.left = @ \ {h}]
  <2>1. Do(l, t) /\ UNCHANGED tables
    BY <1>3, <1>5
  <2>2. t \in Loading /\ t = [r EXCEPT !.left = r.left \ {h}]
    BY <1>2 DEF Loading
  <2>3. /\ t.step = "boss" /\ t.sheet = s /\ t.hosts = r.hosts /\ t.left = r.left \ {h}
        /\ t.todo = r.todo /\ t.host = r.host
    BY <1>1, <1>2 DEF Loading
  <2> HIDE DEF t
  <2>4. JobOK(t)
    BY <1>1, <1>2, <2>3 DEF JobOK, Running, Applying, Connecting, HostSteps, GroupSteps, LineSteps, Checked
  <2> QED
    BY <2>1, <2>2, <2>4, MovedBy
<1>6. CASE BossOf(s, h) \notin {None, Boss}
  <2> DEFINE t == [To(l, "remove") EXCEPT !.left = @ \ {h}, !.hosts = @ \ {h}, !.host = h]
  <2>1. Do(l, t) /\ UNCHANGED tables
    BY <1>3, <1>6
  <2>2. "remove" \in Steps
    BY DEF Steps, Running
  <2>3. t \in Loading
    BY <1>2, <2>2 DEF Loading, To
  <2>4. /\ t.step = "remove" /\ t.sheet = s /\ t.hosts = r.hosts \ {h} /\ t.left = r.left \ {h}
        /\ t.todo = r.todo /\ t.host = h
    BY <1>1, <1>2 DEF Loading, To
  <2> HIDE DEF t
  <2>5. JobOK(t)
    BY <1>1, <1>2, <1>6, <2>4 DEF JobOK, Running, Applying, Connecting, HostSteps, GroupSteps, LineSteps, Checked
  <2> QED
    BY <2>1, <2>3, <2>5, MovedBy
<1> QED
  BY <1>4, <1>5, <1>6

(* A remove host but for its row. *)
LEMMA RemoveMoves ==
    ASSUME BInv, NEW l \in Loaders, Remove(l)
    PROVE  Moved(l)
<1> DEFINE r == load[l]
           h == r.host
<1>1. r.step = "remove" /\ r \in Loading /\ JobOK(r) /\ h \in Hosts
  BY JobType DEF Remove, At, JobOK
<1>2. CASE r.listed[h] = 0
  <2> DEFINE t == [To(l, "boss") EXCEPT !.host = None]
  <2>1. Do(l, t)
    BY <1>2 DEF Remove
  <2>2. "boss" \in Steps
    BY DEF Steps, Running
  <2>3. t \in Loading
    BY <1>1, <2>2 DEF Loading, To
  <2>4. /\ t.step = "boss" /\ t.sheet = r.sheet /\ t.hosts = r.hosts /\ t.left = r.left
        /\ t.todo = r.todo /\ t.host = None
    BY <1>1 DEF Loading, To
  <2> HIDE DEF t
  <2>5. JobOK(t)
    BY <1>1, <2>4 DEF JobOK, Running, Applying, Connecting, HostSteps, GroupSteps, LineSteps, Checked
  <2> QED
    BY <2>1, <2>3, <2>5, MovedBy
<1>3. CASE r.listed[h] # 0 /\ Cardinality(Ids(h)) # 1
  <2>1. r.listed[h] > 0
    BY <1>1, <1>3 DEF Loading
  <2>2. Raise(l)
    BY <1>3, <2>1 DEF Remove
  <2> QED
    BY <1>1, <2>2, RaiseMoves DEF Running
<1>4. CASE r.listed[h] # 0 /\ Cardinality(Ids(h)) = 1
  <2> DEFINE t == [To(l, "unnode") EXCEPT !.listed[h] = @ - 1]
  <2>1. Do(l, t)
    BY <1>4 DEF Remove
  <2>2. "unnode" \in Steps /\ r.listed[h] - 1 \in Nat
    BY <1>1, <1>4 DEF Steps, Running, Loading
  <2>3. t \in Loading
    BY <1>1, <2>2 DEF Loading, To
  <2>4. /\ t.step = "unnode" /\ t.sheet = r.sheet /\ t.hosts = r.hosts /\ t.left = r.left
        /\ t.todo = r.todo /\ t.host = h
    BY <1>1 DEF Loading, To
  <2> HIDE DEF t
  <2>5. JobOK(t)
    BY <1>1, <2>4 DEF JobOK, Running, Applying, Connecting, HostSteps, GroupSteps, LineSteps, Checked
  <2> QED
    BY <2>1, <2>3, <2>5, MovedBy
<1> QED
  BY <1>2, <1>3, <1>4

(* The sanity checks. *)
LEMMA CheckMoves ==
    ASSUME BInv, NEW l \in Loaders, Check(l)
    PROVE  Moved(l)
<1> DEFINE r == load[l]
<1>1. r.step = "boss" /\ r.left = {} /\ r \in Loading /\ JobOK(r)
  BY JobType DEF Check, At
<1>2. CASE Inconsistent(r.sheet, r.hosts)
  <2>1. Do(l, End(l, "rejected"))
    BY <1>2 DEF Check
  <2> QED
    BY <1>1, <2>1, RaiseOK, MovedBy DEF Running
<1>3. CASE ~ Inconsistent(r.sheet, r.hosts)
  <2> DEFINE t == To(l, "read")
  <2>1. Do(l, t)
    BY <1>3 DEF Check
  <2>2. "read" \in Steps
    BY DEF Steps, Running
  <2>3. t \in Loading
    BY <1>1, <2>2 DEF Loading, To
  <2>4. /\ t.step = "read" /\ t.sheet = r.sheet /\ t.hosts = r.hosts /\ t.left = r.left
        /\ t.todo = r.todo /\ t.host = r.host
    BY <1>1 DEF Loading, To
  <2> HIDE DEF t
  <2>5. JobOK(t)
    BY <1>1, <1>3, <2>4 DEF JobOK, Running, Applying, Connecting, HostSteps, GroupSteps, LineSteps, Checked
  <2> QED
    BY <2>1, <2>3, <2>5, MovedBy
<1> QED
  BY <1>2, <1>3

(* Set host boot. *)
LEMMA FinishMoves ==
    ASSUME BInv, NEW l \in Loaders, Finish(l)
    PROVE  Moved(l)
<1>1. load[l].step = "boot" /\ load[l].step \in Running /\ load[l].step \in Checked
      /\ load[l].left \subseteq Names(load[l].sheet)
  BY JobType DEF Finish, At, Running, Connecting, Checked
<1>2. Raise(l) \/ Do(l, End(l, "done"))
  BY DEF Finish
<1> QED
  BY <1>1, <1>2, RaiseOK, RaiseMoves, MovedBy

(* A kill. *)
LEMMA DieMoves ==
    ASSUME BInv, NEW l \in Loaders, Die(l)
    PROVE  Moved(l)
<1>1. load[l].left \subseteq Names(load[l].sheet)
  BY JobType
<1> QED
  BY <1>1, RaiseOK, MovedBy DEF Die

NodesOf(h) == {n \in nodes : n.name = h}

(* What other hosts than h have stays. *)
Only(h) == \A g \in Hosts \ {h} :
    /\ NodesOf(g)' = NodesOf(g) /\ Ids(g)' = Ids(g)
    /\ RowsOf(g)' = RowsOf(g) /\ MembersOf(g)' = MembersOf(g)

(* A host has ids when it has rows, and they are finitely many. *)
LEMMA IdsType ==
    ASSUME TablesOK
    PROVE  /\ \A h : /\ Ids(h) = {n.id : n \in NodesOf(h)} /\ Ids(h) \in SUBSET Nat
                     /\ None \notin Ids(h) /\ serial \notin Ids(h) /\ IsFiniteSet(Ids(h))
                     /\ (Ids(h) # {} <=> h \in NodeNames)
                     /\ RowsOf(h) \in SUBSET networks /\ MembersOf(h) \in SUBSET Groups
           /\ \A g, h : g # h => Ids(g) \cap Ids(h) = {}
<1>1. \A n \in nodes : n.id \in Nat /\ n.id # serial /\ n.id # None
  BY HostFileAssumption DEF TablesOK, NodeRow
<1>2. ASSUME NEW h PROVE IsFiniteSet(Ids(h))
  <2> DEFINE S == {m \in nodes : m.name = h}
             f == [n \in S |-> n.id]
  <2>1. IsFiniteSet(S)
    BY FS_Subset DEF TablesOK
  <2>2. \A n \in S : f[n] = n.id
    OBVIOUS
  <2>3. Ids(h) = {f[n] : n \in S}
    BY <2>2 DEF Ids
  <2> HIDE DEF S, f
  <2> QED
    BY <2>1, <2>3, ImageFinite
<1>3. \A h : /\ Ids(h) = {n.id : n \in NodesOf(h)} /\ Ids(h) \in SUBSET Nat
             /\ None \notin Ids(h) /\ serial \notin Ids(h)
             /\ (Ids(h) # {} <=> h \in NodeNames)
  BY <1>1 DEF Ids, NodesOf, NodeNames
<1>4. \A h : RowsOf(h) \in SUBSET networks /\ MembersOf(h) \in SUBSET Groups
  BY DEF RowsOf, MembersOf, TablesOK
<1>5. \A g, h : g # h => Ids(g) \cap Ids(h) = {}
  BY DEF TablesOK, Ids
<1> QED
  BY <1>2, <1>3, <1>4, <1>5

(* Cardinalities of sets of ids. *)
LEMMA OneId ==
    ASSUME TablesOK, NEW h
    PROVE  /\ Cardinality(Ids(h)) = 1 <=> Ids(h) # {} /\ ~ Ambiguous(h)
           /\ Ids(h) # {} /\ ~ Ambiguous(h) <=> Ids(h) = {Id(h)}
           /\ Ids(h) # {} => Id(h) \in Ids(h)
<1>1. IsFiniteSet(Ids(h)) /\ Cardinality(Ids(h)) \in Nat
  BY IdsType, FS_CardinalityType
<1>2. Cardinality(Ids(h)) = 0 <=> Ids(h) = {}
  BY <1>1, FS_EmptySet
<1>3. Cardinality(Ids(h)) = 1 <=> \E x : Ids(h) = {x}
  BY <1>1, FS_Singleton
<1>4. Ids(h) # {} => Id(h) \in Ids(h)
  BY DEF Id
<1>5. Cardinality(Ids(h)) = 1 <=> Ids(h) # {} /\ ~ Ambiguous(h)
  BY <1>1, <1>2 DEF Ambiguous
<1>6. Cardinality(Ids(h)) = 1 <=> Ids(h) = {Id(h)}
  BY <1>2, <1>3, <1>4
<1> QED
  BY <1>4, <1>5, <1>6

-----------------------------------------------------------------------------
(* What each command does to the tables. *)

(* What depends on the rows of hosts stays with them. *)
LEMMA NodesStay ==
    ASSUME nodes' = nodes
    PROVE  /\ \A h : NodesOf(h)' = NodesOf(h) /\ Ids(h)' = Ids(h)
           /\ NodeNames' = NodeNames
BY DEF NodesOf, Ids, NodeNames

(* Interfaces stay with theirs. *)
LEMMA RowsStay ==
    ASSUME nodes' = nodes, networks' = networks
    PROVE  \A h : RowsOf(h)' = RowsOf(h)
BY NodesStay DEF RowsOf

(* And groups. *)
LEMMA MembersStay ==
    ASSUME nodes' = nodes, members' = members
    PROVE  \A h : MembersOf(h)' = MembersOf(h)
BY NodesStay DEF MembersOf

(* When no table changes nothing does. *)
LEMMA TablesStay ==
    ASSUME BInv, UNCHANGED tables
    PROVE  /\ TablesOK'
           /\ \A h : /\ NodesOf(h)' = NodesOf(h) /\ Ids(h)' = Ids(h)
                     /\ RowsOf(h)' = RowsOf(h) /\ MembersOf(h)' = MembersOf(h)
           /\ groups' = groups
BY NodesStay, RowsStay, MembersStay DEF BInv, TablesOK, tables

(* An interface belongs to one host: to remove those of a host leaves the *)
(* others theirs.                                                         *)
LEMMA RowsGo ==
    ASSUME TablesOK, NEW h, networks' = networks \ RowsOf(h), UNCHANGED <<nodes, groups, serial>>,
           members' \subseteq members
    PROVE  /\ TablesOK' /\ RowsOf(h)' = {}
           /\ \A g : /\ NodesOf(g)' = NodesOf(g) /\ Ids(g)' = Ids(g)
                     /\ g # h => RowsOf(g)' = RowsOf(g)
<1>1. TablesOK'
  BY TablesShrink
<1>2. \A g : NodesOf(g)' = NodesOf(g) /\ Ids(g)' = Ids(g)
  BY NodesStay
<1>3. \A g : g # h => RowsOf(g)' = RowsOf(g)
  BY <1>2, IdsType DEF RowsOf
<1>4. RowsOf(h)' = {}
  BY <1>2 DEF RowsOf
<1> QED
  BY <1>1, <1>2, <1>3, <1>4

(* The commands on the tables keep their types, and change what one host *)
(* has.                                                                  *)
LEMMA WipeTables ==
    ASSUME TablesOK, NEW h, networks' = networks \ RowsOf(h),
           UNCHANGED <<nodes, groups, members, serial>>
    PROVE  /\ TablesOK' /\ RowsOf(h)' = {} /\ Only(h)
           /\ NodesOf(h)' = NodesOf(h) /\ Ids(h)' = Ids(h) /\ MembersOf(h)' = MembersOf(h)
BY RowsGo, MembersStay DEF Only

(* A remove host but for its row, on the tables. *)
LEMMA RemoveTables ==
    ASSUME TablesOK, NEW h, networks' = networks \ RowsOf(h),
           members' = {m \in members : m[1] \notin Ids(h)}, UNCHANGED <<nodes, groups, serial>>
    PROVE  TablesOK' /\ Only(h) /\ Ids(h)' = Ids(h)
<1>1. /\ TablesOK'
      /\ \A g : NodesOf(g)' = NodesOf(g) /\ Ids(g)' = Ids(g) /\ (g # h => RowsOf(g)' = RowsOf(g))
  BY RowsGo
<1>2. \A g : g # h => MembersOf(g)' = MembersOf(g)
  BY <1>1, IdsType DEF MembersOf
<1> QED
  BY <1>1, <1>2 DEF Only

(* The delete of its row, on the tables. *)
LEMMA UnnodeTables ==
    ASSUME TablesOK, NEW h, nodes' = {n \in nodes : n.name # h},
           UNCHANGED <<networks, groups, members, serial>>
    PROVE  TablesOK' /\ Only(h)
<1>1. TablesOK'
  BY TablesShrink
<1>2. \A g : g # h => NodesOf(g)' = NodesOf(g) /\ Ids(g)' = Ids(g)
  BY DEF NodesOf, Ids
<1> QED
  BY <1>1, <1>2 DEF Only, RowsOf, MembersOf

(* The row of a new host has an id that nothing refers to. *)
LEMMA InsertTables ==
    ASSUME TablesOK, NEW n, n \in NodeRow, n.id = serial, nodes' = nodes \cup {n},
           serial' = serial + 1, UNCHANGED <<networks, groups, members>>
    PROVE  /\ TablesOK' /\ Only(n.name)
           /\ NodesOf(n.name)' = NodesOf(n.name) \cup {n}
           /\ Ids(n.name)' = Ids(n.name) \cup {serial}
           /\ RowsOf(n.name)' = RowsOf(n.name) /\ MembersOf(n.name)' = MembersOf(n.name)
<1> DEFINE h == n.name
<1>1. IsFiniteSet(nodes')
  BY FS_AddElement DEF TablesOK
<1>2. \A m \in nodes : m.id \in Nat /\ m.id < serial
  BY DEF TablesOK, NodeRow
<1>3. \A m \in networks : m.node # None => m.node \in Nat /\ m.node < serial
  BY DEF TablesOK, NetworkRow
<1>4. \A m \in members : m[1] \in Nat /\ m[1] < serial
  BY DEF TablesOK
<1>5. TablesOK'
  <2>1. /\ nodes' \in SUBSET NodeRow /\ \A m \in nodes' : m.id < serial'
        /\ \A m, k \in nodes' : m.id = k.id => m = k
    BY <1>2 DEF TablesOK
  <2>2. (\A m \in networks' : m.node # None => m.node < serial') /\ \A m \in members' : m[1] < serial'
    BY <1>3, <1>4 DEF TablesOK
  <2> QED
    BY <1>1, <2>1, <2>2 DEF TablesOK
<1>6. /\ \A g : g # h => NodesOf(g)' = NodesOf(g) /\ Ids(g)' = Ids(g)
      /\ NodesOf(h)' = NodesOf(h) \cup {n} /\ Ids(h)' = Ids(h) \cup {serial}
  BY DEF NodesOf, Ids
<1>7. serial # None /\ serial \in Nat
  BY HostFileAssumption DEF TablesOK
<1>8. (\A m \in networks : m.node # serial) /\ \A m \in members : m[1] # serial
  BY <1>3, <1>4, <1>7
<1>9. RowsOf(h)' = RowsOf(h) /\ MembersOf(h)' = MembersOf(h)
  BY <1>6, <1>8 DEF RowsOf, MembersOf
<1>10. \A g : g # h => RowsOf(g)' = RowsOf(g) /\ MembersOf(g)' = MembersOf(g)
  BY <1>6 DEF RowsOf, MembersOf
<1> QED
  BY <1>5, <1>6, <1>9, <1>10 DEF Only

(* The insert of add host group, on the tables. *)
LEMMA MemberTables ==
    ASSUME TablesOK, NEW h, NEW g \in Groups, Ids(h) = {Id(h)},
           members' = members \cup {<<Id(h), g>>}, UNCHANGED <<nodes, networks, groups, serial>>
    PROVE  /\ TablesOK' /\ Only(h) /\ MembersOf(h)' = MembersOf(h) \cup {g}
           /\ NodesOf(h)' = NodesOf(h) /\ Ids(h)' = Ids(h) /\ RowsOf(h)' = RowsOf(h)
<1>1. Id(h) \in Nat /\ Id(h) < serial
  BY DEF TablesOK, Ids, NodeRow
<1>2. TablesOK'
  BY <1>1 DEF TablesOK
<1>3. \A k : NodesOf(k)' = NodesOf(k) /\ Ids(k)' = Ids(k) /\ RowsOf(k)' = RowsOf(k)
  BY NodesStay, RowsStay
<1>4. \A k : k # h => Id(h) \notin Ids(k)
  BY IdsType
<1>5. \A k : k # h => MembersOf(k)' = MembersOf(k)
  BY <1>3, <1>4 DEF MembersOf
<1>6. MembersOf(h)' = MembersOf(h) \cup {g}
  <2> DEFINE now == {k \in members : k[1] \in Ids(h)}
             new == {k \in members' : k[1] \in Ids(h)}
  <2>1. new = now \cup {<<Id(h), g>>}
    <3>1. <<Id(h), g>>[1] \in Ids(h)
      OBVIOUS
    <3> QED
      BY <3>1
  <2>2. MembersOf(h)' = {m[2] : m \in new} /\ MembersOf(h) = {m[2] : m \in now}
    BY <1>3 DEF MembersOf
  <2>3. <<Id(h), g>>[2] = g
    OBVIOUS
  <2> HIDE DEF now, new
  <2> QED
    BY <2>1, <2>2, <2>3
<1> QED
  BY <1>2, <1>3, <1>5, <1>6 DEF Only

(* An update of the row of a host. *)
LEMMA SetTables ==
    ASSUME TablesOK, NEW h, NEW f, NEW v,
           FitsHost(f, v), nodes' = {SetTo(n, h, f, v) : n \in nodes},
           UNCHANGED <<networks, groups, members, serial>>
    PROVE  /\ TablesOK' /\ Only(h)
           /\ NodesOf(h)' = {[n EXCEPT ![f] = v] : n \in NodesOf(h)}
           /\ Ids(h)' = Ids(h) /\ RowsOf(h)' = RowsOf(h) /\ MembersOf(h)' = MembersOf(h)
<1>1. /\ TablesOK'
      /\ \A n \in nodes : /\ [n EXCEPT ![f] = v] \in NodeRow
                          /\ [n EXCEPT ![f] = v].id = n.id
                          /\ [n EXCEPT ![f] = v].name = n.name
  <2>1. TablesOK'
    BY SetOK
  <2>2. nodes \in SUBSET NodeRow
    BY DEF TablesOK
  <2>3. \A n \in nodes : /\ [n EXCEPT ![f] = v] \in NodeRow
                         /\ [n EXCEPT ![f] = v].id = n.id
                         /\ [n EXCEPT ![f] = v].name = n.name
    BY <2>2 DEF NodeRow, FitsHost
  <2> QED
    BY <2>1, <2>3
<1>2. \A g : g # h => NodesOf(g)' = NodesOf(g)
  BY <1>1 DEF NodesOf, SetTo
<1>3. NodesOf(h)' = {[n EXCEPT ![f] = v] : n \in NodesOf(h)}
  BY <1>1 DEF NodesOf, SetTo
<1>4. \A g : Ids(g)' = {n.id : n \in NodesOf(g)'} /\ Ids(g) = {n.id : n \in NodesOf(g)}
  BY DEF Ids, NodesOf
<1>5. \A n \in NodesOf(h) : [n EXCEPT ![f] = v].id = n.id
  BY <1>1 DEF NodesOf
<1>6. \A g : Ids(g)' = Ids(g)
  <2>1. \A g : g # h => Ids(g)' = Ids(g)
    BY <1>2, <1>4
  <2>2. Ids(h)' = Ids(h)
    <3> DEFINE e == [n \in NodesOf(h) |-> [n EXCEPT ![f] = v]]
    <3>1. \A n \in NodesOf(h) : e[n] = [n EXCEPT ![f] = v]
      OBVIOUS
    <3>2. NodesOf(h)' = {e[n] : n \in NodesOf(h)} /\ \A n \in NodesOf(h) : e[n].id = n.id
      BY <1>3, <1>5, <3>1
    <3> DEFINE now == NodesOf(h)
               new == NodesOf(h)'
    <3> HIDE DEF e
    <3>3. Ids(h)' = {n.id : n \in new} /\ Ids(h) = {n.id : n \in now}
      BY <1>4
    <3>4. new = {e[n] : n \in now} /\ \A n \in now : e[n].id = n.id
      BY <3>2
    <3> HIDE DEF now, new
    <3> QED
      BY <3>3, <3>4
  <2> QED
    BY <2>1, <2>2
<1>7. \A g : RowsOf(g)' = RowsOf(g) /\ MembersOf(g)' = MembersOf(g)
  BY <1>6 DEF RowsOf, MembersOf
<1> QED
  BY <1>1, <1>2, <1>3, <1>6, <1>7 DEF Only

(* The insert of an interface, on the tables. *)
LEMMA PutTables ==
    ASSUME TablesOK, NEW h, NEW n, n \in NetworkRow, n.node = Id(h), ~ Ambiguous(h),
           networks' = networks \cup {n}, UNCHANGED <<nodes, groups, members, serial>>
    PROVE  /\ TablesOK' /\ Only(h) /\ (Ids(h) # {} => RowsOf(h)' = RowsOf(h) \cup {n})
           /\ NodesOf(h)' = NodesOf(h) /\ Ids(h)' = Ids(h) /\ MembersOf(h)' = MembersOf(h)
<1>1. IsFiniteSet(networks')
  BY FS_AddElement DEF TablesOK
<1>2. Id(h) # None => Id(h) \in Ids(h)
  BY DEF Id
<1>3. n.node # None => n.node < serial
  BY <1>2 DEF TablesOK, Ids
<1>4. TablesOK'
  BY <1>1, <1>3 DEF TablesOK
<1>5. \A g : NodesOf(g)' = NodesOf(g) /\ Ids(g)' = Ids(g) /\ MembersOf(g)' = MembersOf(g)
  BY NodesStay, MembersStay
<1>6. \A g : g # h => n.node \notin Ids(g)
  BY <1>2, IdsType
<1>7. \A g : g # h => RowsOf(g)' = RowsOf(g)
  BY <1>5, <1>6 DEF RowsOf
<1>8. Ids(h) # {} => RowsOf(h)' = RowsOf(h) \cup {n}
  BY <1>5, OneId DEF RowsOf
<1> QED
  BY <1>4, <1>5, <1>7, <1>8 DEF Only

(* An update of interfaces of one host. *)
LEMMA UpdateTables ==
    ASSUME TablesOK, NEW l \in Loaders, NEW f, NEW v, Fits(f, v), NEW h,
           NEW S \in SUBSET RowsOf(h), Update(l, f, S, v)
    PROVE  /\ TablesOK' /\ Only(h)
           /\ RowsOf(h)' = (RowsOf(h) \ S) \cup {[n EXCEPT ![f] = v] : n \in S}
           /\ NodesOf(h)' = NodesOf(h) /\ Ids(h)' = Ids(h) /\ MembersOf(h)' = MembersOf(h)
<1>1. S \in SUBSET networks /\ \A n \in S : n.node \in Ids(h)
  BY DEF RowsOf
<1>2. /\ TablesOK'
      /\ \A n \in S : [n EXCEPT ![f] = v].node = n.node
  <2>1. S \in SUBSET networks /\ S \in SUBSET NetworkRow
    BY <1>1 DEF TablesOK
  <2>2. TablesOK'
    BY <2>1, UpdateOK
  <2>3. \A n \in S : [n EXCEPT ![f] = v].node = n.node
    BY <2>1 DEF Fits, NetworkRow
  <2> QED
    BY <2>2, <2>3
<1>3. networks' = (networks \ S) \cup {[n EXCEPT ![f] = v] : n \in S}
  BY DEF Update
<1>4. \A g : NodesOf(g)' = NodesOf(g) /\ Ids(g)' = Ids(g) /\ MembersOf(g)' = MembersOf(g)
  BY NodesStay, MembersStay DEF Update
<1>5. \A g : RowsOf(g)' = {n \in networks' : n.node \in Ids(g)}
  BY <1>4 DEF RowsOf
<1>6. \A g : g # h => \A n \in S : n.node \notin Ids(g)
  BY <1>1, IdsType
<1>7. \A g : g # h => RowsOf(g)' = RowsOf(g)
  BY <1>2, <1>3, <1>5, <1>6 DEF RowsOf
<1>8. RowsOf(h)' = (RowsOf(h) \ S) \cup {[n EXCEPT ![f] = v] : n \in S}
  BY <1>1, <1>2, <1>3, <1>5 DEF RowsOf
<1> QED
  BY <1>2, <1>4, <1>7, <1>8 DEF Only

-----------------------------------------------------------------------------
(* What a load has done of its spreadsheet, as long as nobody disturbs it.   *)

OldOf(r, h) == {x[2] : x \in {y \in r.old : y[1] = h}}
AllGroups(s) == UNION {GroupsOf(s, h) : h \in Names(s)}
Fields == {"appliance", "place"}

(* The row of a host has what the spreadsheet gives of these columns. *)
GivenTo(s, h, F) == \A n \in NodesOf(h) : \A f \in F : Given(s, h, f) \subseteq {n[f]}

(* A host as it was listed, and one that has its row and its groups. *)
NotYet(r, h) == (h \in r.existing <=> Ids(h) # {}) /\ MembersOf(h) = OldOf(r, h)
Applied(s, h) == Ids(h) # {} /\ GivenTo(s, h, Fields) /\ GroupsOf(s, h) \subseteq MembersOf(h)

(* The groups of the host in work that it is not yet in. *)
Waiting(r) == IF r.step = "group" THEN r.todo ELSE r.todo \cup {r.item}

(* An interface as the line says, and the one in work, which gets its        *)
(* columns one after the other.                                              *)
Row(s, h, i) == [node |-> Id(h), device |-> s[i].device, mac |-> s[i].mac, ip |-> s[i].ip,
                 main |-> IsDefault(s, i), named |-> IsDefault(s, i)]
Partial(r) ==
    LET x == r.sheet[r.item]
    IN  [node |-> Id(r.host), device |-> x.device, mac |-> x.mac,
         ip |-> IF r.step = "ip" THEN None ELSE x.ip, main |-> FALSE,
         named |-> IsDefault(r.sheet, r.item) /\ r.step \in {"main", "only"}]

(* The lines of a host whose interfaces are not there, or not as they say. *)
Awaited(r, h) ==
    CASE h \in r.left -> Lines(r.sheet, h)
      [] h \notin r.left /\ h = r.host /\ r.step = "devices" -> r.todo
      [] h \notin r.left /\ h = r.host /\ r.step \in LineSteps -> r.todo \cup {r.item}
      [] OTHER -> {}
Begun(r, h) == IF h = r.host /\ r.step \in LineSteps \ {"put"} THEN {Partial(r)} ELSE {}
RowsGiven(r, h) ==
    RowsOf(h) = {Row(r.sheet, h, i) : i \in Lines(r.sheet, h) \ Awaited(r, h)} \cup Begun(r, h)

(* Why a load may fail. *)
Reason(r) ==
    LET s == r.sheet IN
    \/ s = <<>>
    \/ Bossed(s) /\ \E h \in Names(s) : BossOf(s, h) # Boss
    \/ \E h \in Names(s) : h \notin r.existing /\ PlaceOf(s, h) = None
    \/ \E h \in Names(s) : \E g \in GroupsOf(s, h) :
          \E k \in (GroupsOf(s, h) \ {g}) \cup OldOf(r, h) : <<g, k>> \in Within
    \/ \E h \in Names(s) : Ambiguous(h)

HostOK(r) ==
    LET h == r.host
        s == r.sheet
    IN  /\ r.step \in {"add", "insert"} =>
              h \notin r.existing /\ NotYet(r, h) /\ r.todo = GroupsOf(s, h)
        /\ r.step \in {"group", "join", "member"} =>
              /\ Ids(h) # {} /\ (h \notin r.existing => GivenTo(s, h, Fields))
              /\ MembersOf(h) = OldOf(r, h) \cup (GroupsOf(s, h) \ Waiting(r))
        /\ r.step \in {"join", "member"} => r.item \in groups
        /\ r.step = "set" =>
              /\ Ids(h) # {} /\ GroupsOf(s, h) \subseteq MembersOf(h)
              /\ GivenTo(s, h, Fields \ r.todo)

Listed(r) ==
    /\ r.step = "groups" => \A h \in Names(r.sheet) : h \in r.existing <=> Ids(h) # {}
    /\ r.step = "prune" => /\ \A h \in r.hosts : NotYet(r, h)
                           /\ \A x \in r.old : x[1] \in r.hosts
    /\ r.step \in {"prune", "host"} \cup HostSteps =>
          groups \cap AllGroups(r.sheet) = r.known \cap AllGroups(r.sheet)

HostsOK(r) ==
    /\ r.step \in {"host"} \cup HostSteps => \A h \in r.left : NotYet(r, h)
    /\ r.step = "host" => \A h \in r.hosts \ r.left : Applied(r.sheet, h)
    /\ r.step \in HostSteps => \A h \in r.hosts \ (r.left \cup {r.host}) : Applied(r.sheet, h)
    /\ r.step \in {"clear", "wipe", "done"} \cup Connecting =>
          \A h \in r.hosts : Applied(r.sheet, h)

InterfacesOK(r) ==
    /\ r.step = "wipe" =>
          \A h \in Cabled(r.sheet) \ r.left : RowsOf(h) = {} /\ ~ Ambiguous(h)
    /\ r.step \in {"done"} \cup Connecting =>
          \A h \in r.hosts : ~ Ambiguous(h) /\ RowsGiven(r, h)

WorkOK(r) ==
    /\ Listed(r) /\ HostOK(r) /\ HostsOK(r) /\ InterfacesOK(r)
    /\ r.step = "raised" => Reason(r)

WorkInv == \A l \in Loaders : undisturbed[l] => WorkOK(load[l])

-----------------------------------------------------------------------------
(* What each step does to the tables. *)

Quiet == \A g \in Hosts :
    /\ NodesOf(g)' = NodesOf(g) /\ Ids(g)' = Ids(g)
    /\ RowsOf(g)' = RowsOf(g) /\ MembersOf(g)' = MembersOf(g)

Kept(h) == NodesOf(h)' = NodesOf(h) /\ Ids(h)' = Ids(h)

(* Where no table changes every host keeps all it has. *)
LEMMA QuietIfUnchanged ==
    ASSUME BInv, UNCHANGED tables
    PROVE  TablesOK' /\ Quiet /\ groups' = groups
BY TablesStay DEF Quiet

(* A load that fails changes no table. *)
LEMMA QuietIfRaised ==
    ASSUME BInv, NEW l \in Loaders, Raise(l)
    PROVE  TablesOK' /\ Quiet /\ groups' = groups
BY QuietIfUnchanged DEF Raise

(* What each command does to the host in work, and that it does nothing to *)
(* others.                                                                 *)
LEMMA RemoveEffect ==
    ASSUME BInv, NEW l \in Loaders, NEW h, h = load[l].host, Remove(l)
    PROVE  \/ UNCHANGED tables
           \/ TablesOK' /\ Only(h) /\ Ids(h)' = Ids(h) /\ groups' = groups
<1>1. CASE UNCHANGED tables
  BY <1>1
<1>2. CASE ~ UNCHANGED tables
  <2>1. /\ networks' = networks \ RowsOf(h)
        /\ members' = {m \in members : m[1] \notin Ids(h)}
        /\ UNCHANGED <<nodes, groups, serial>>
    BY <1>2 DEF Remove, Raise
  <2> QED
    BY <2>1, RemoveTables DEF BInv
<1> QED
  BY <1>1, <1>2

(* The delete of its row, on the tables. *)
LEMMA UnnodeEffect ==
    ASSUME BInv, NEW l \in Loaders, NEW h, h = load[l].host, Unnode(l)
    PROVE  TablesOK' /\ Only(h) /\ groups' = groups
BY UnnodeTables DEF Unnode, BInv

(* A new host has a row, and no interface and no group of another host. *)
LEMMA InsertEffect ==
    ASSUME BInv, NEW l \in Loaders, NEW h, h = load[l].host, InsertHost(l)
    PROVE  LET s == load[l].sheet IN
           /\ TablesOK' /\ Only(h) /\ groups' = groups
           /\ NodesOf(h)' = NodesOf(h) \cup
                  {[id |-> serial, name |-> h, appliance |-> Value(Given(s, h, "appliance")),
                    place |-> PlaceOf(s, h)]}
           /\ Ids(h)' = Ids(h) \cup {serial}
           /\ RowsOf(h)' = RowsOf(h) /\ MembersOf(h)' = MembersOf(h)
<1> DEFINE s == load[l].sheet
<1>1. s \in Seq(Lists) /\ h \in Hosts
  BY JobType DEF InsertHost, At, JobOK, HostSteps
<1>2. /\ Value(Given(s, h, "appliance")) \in Appliances \cup {None, "unknown"}
      /\ PlaceOf(s, h) \in Places \cup {None}
  BY <1>1, SheetType, HostFileAssumption DEF Value, PlaceOf
<1>3. PICK n : n = [id |-> serial, name |-> h, appliance |-> Value(Given(s, h, "appliance")),
                    place |-> PlaceOf(s, h)]
  OBVIOUS
<1>4. n \in NodeRow /\ n.id = serial /\ n.name = h
  BY <1>1, <1>2, <1>3 DEF NodeRow, BInv, TablesOK
<1>5. nodes' = nodes \cup {n} /\ serial' = serial + 1 /\ UNCHANGED <<networks, groups, members>>
  BY <1>3 DEF InsertHost
<1>6. /\ TablesOK' /\ Only(h) /\ NodesOf(h)' = NodesOf(h) \cup {n}
      /\ Ids(h)' = Ids(h) \cup {serial}
      /\ RowsOf(h)' = RowsOf(h) /\ MembersOf(h)' = MembersOf(h)
  BY <1>4, <1>5, InsertTables DEF BInv
<1> QED
  BY <1>3, <1>5, <1>6

(* Add group, on the tables. *)
LEMMA AddGroupEffect ==
    ASSUME BInv, NEW l \in Loaders, AddGroup(l)
    PROVE  \/ Raise(l) /\ \E g \in load[l].todo : g \notin load[l].known /\ g \in groups
           \/ /\ TablesOK' /\ Quiet
              /\ \E g \in load[l].todo :
                    /\ groups' = groups \cup ({g} \ load[l].known)
                    /\ Do(l, [To(l, "join") EXCEPT !.known = @ \cup {g},
                                                   !.todo = @ \ {g}, !.item = g])
<1>1. CASE Raise(l) /\ \E g \in load[l].todo : g \notin load[l].known /\ g \in groups
  BY <1>1
<1>2. CASE ~ (Raise(l) /\ \E g \in load[l].todo : g \notin load[l].known /\ g \in groups)
  <2>1. PICK g \in load[l].todo :
            /\ groups' = groups \cup ({g} \ load[l].known)
            /\ Do(l, [To(l, "join") EXCEPT !.known = @ \cup {g},
                                           !.todo = @ \ {g}, !.item = g])
            /\ UNCHANGED <<nodes, networks, members, serial>>
    BY <1>2 DEF AddGroup
  <2>2. g \in Groups
    BY JobType DEF AddGroup, At, JobOK, GroupSteps, HostSteps
  <2>3. TablesOK'
    BY <2>1, <2>2 DEF BInv, TablesOK
  <2>4. Quiet
    BY <2>1, NodesStay, RowsStay, MembersStay DEF Quiet
  <2> QED
    BY <2>1, <2>3, <2>4
<1> QED
  BY <1>1, <1>2

(* The insert of add host group, on the tables. *)
LEMMA MemberEffect ==
    ASSUME BInv, NEW l \in Loaders, NEW h, h = load[l].host, Member(l)
    PROVE  \/ Raise(l) /\ Cardinality(Ids(h)) # 1
           \/ /\ TablesOK' /\ Only(h) /\ Kept(h) /\ groups' = groups
              /\ MembersOf(h)' = MembersOf(h) \cup {load[l].item} /\ RowsOf(h)' = RowsOf(h)
              /\ Do(l, [To(l, "group") EXCEPT !.item = None])
<1>1. CASE Cardinality(Ids(h)) # 1
  BY <1>1 DEF Member
<1>2. CASE Cardinality(Ids(h)) = 1
  <2>1. Ids(h) = {Id(h)}
    BY <1>2, OneId DEF BInv
  <2>2. PICK g \in Groups : g = load[l].item
    BY JobType DEF Member, At, JobOK
  <2>3. /\ members' = members \cup {<<Id(h), g>>}
        /\ Do(l, [To(l, "group") EXCEPT !.item = None])
        /\ UNCHANGED <<nodes, networks, groups, serial>>
    BY <1>2, <2>2 DEF Member
  <2>4. /\ TablesOK' /\ Only(h) /\ MembersOf(h)' = MembersOf(h) \cup {g}
        /\ NodesOf(h)' = NodesOf(h) /\ Ids(h)' = Ids(h) /\ RowsOf(h)' = RowsOf(h)
    BY <2>1, <2>2, <2>3, MemberTables DEF BInv
  <2> QED
    BY <2>2, <2>3, <2>4 DEF Kept
<1> QED
  BY <1>1, <1>2

(* A set host, on the tables. *)
LEMMA SetHostEffect ==
    ASSUME BInv, NEW l \in Loaders, NEW h, h = load[l].host, SetHost(l)
    PROVE  \/ Raise(l) /\ h \notin NodeNames
           \/ LET s == load[l].sheet IN
              \E f \in load[l].todo :
                  /\ f \in Fields /\ TablesOK' /\ Only(h) /\ groups' = groups
                  /\ NodesOf(h)' = {[n EXCEPT ![f] = Value(Given(s, h, f))] : n \in NodesOf(h)}
                  /\ Ids(h)' = Ids(h) /\ RowsOf(h)' = RowsOf(h) /\ MembersOf(h)' = MembersOf(h)
                  /\ Do(l, [load[l] EXCEPT !.todo = @ \ {f}])
<1> DEFINE s == load[l].sheet
<1>1. CASE h \notin NodeNames
  BY <1>1 DEF SetHost
<1>2. CASE h \in NodeNames
  <2>1. PICK f \in load[l].todo :
            /\ nodes' = {IF n.name = h THEN [n EXCEPT ![f] = Value(Given(s, h, f))]
                         ELSE n : n \in nodes}
            /\ Do(l, [load[l] EXCEPT !.todo = @ \ {f}])
            /\ UNCHANGED <<networks, groups, members, serial>>
    BY <1>2 DEF SetHost
  <2>2. f \in Fields /\ s \in Seq(Lists)
    BY JobType DEF SetHost, At, JobOK, Fields
  <2>3. PICK v : v = Value(Given(s, h, f))
    OBVIOUS
  <2>4. FitsHost(f, v) /\ nodes' = {SetTo(n, h, f, v) : n \in nodes}
    <3>1. FitsHost(f, v)
      BY <2>2, <2>3, SheetType DEF FitsHost, Fields, Value
    <3>2. nodes' = {IF n.name = h THEN [n EXCEPT ![f] = v] ELSE n : n \in nodes}
      BY <2>1, <2>3
    <3> QED
      BY <3>1, <3>2 DEF SetTo
  <2>5. /\ TablesOK' /\ Only(h)
        /\ NodesOf(h)' = {[n EXCEPT ![f] = v] : n \in NodesOf(h)}
        /\ Ids(h)' = Ids(h) /\ RowsOf(h)' = RowsOf(h) /\ MembersOf(h)' = MembersOf(h)
    <3>1. UNCHANGED <<networks, groups, members, serial>> /\ TablesOK
      BY <2>1 DEF BInv
    <3> QED
      BY <2>4, <3>1, SetTables
  <2> QED
    BY <2>1, <2>2, <2>3, <2>5
<1> QED
  BY <1>1, <1>2

(* Removing the interfaces of a host, on the tables. *)
LEMMA WipeEffect ==
    ASSUME BInv, NEW l \in Loaders, Wipe(l)
    PROVE  \E h \in load[l].left :
              \/ Raise(l) /\ Ambiguous(h)
              \/ /\ TablesOK' /\ Only(h) /\ Kept(h) /\ groups' = groups /\ ~ Ambiguous(h)
                 /\ RowsOf(h)' = {} /\ MembersOf(h)' = MembersOf(h)
                 /\ Do(l, [load[l] EXCEPT !.left = @ \ {h}])
<1>1. PICK h \in load[l].left :
          IF Ambiguous(h) THEN Raise(l)
          ELSE /\ networks' = networks \ RowsOf(h)
               /\ Do(l, [load[l] EXCEPT !.left = @ \ {h}])
               /\ UNCHANGED <<nodes, groups, members, serial>>
  BY DEF Wipe
<1>2. CASE Ambiguous(h)
  BY <1>1, <1>2
<1>3. CASE ~ Ambiguous(h)
  <2>1. /\ TablesOK' /\ RowsOf(h)' = {} /\ Only(h)
        /\ NodesOf(h)' = NodesOf(h) /\ Ids(h)' = Ids(h) /\ MembersOf(h)' = MembersOf(h)
    BY <1>1, <1>3, WipeTables DEF BInv
  <2> QED
    BY <1>1, <1>3, <2>1 DEF Kept
<1> QED
  BY <1>2, <1>3

(* The line in work is a line of the spreadsheet. *)
LEMMA LineType ==
    ASSUME BInv, NEW l \in Loaders, load[l].step \in LineSteps
    PROVE  /\ load[l].item \in Lines(load[l].sheet, load[l].host) /\ Line(l) \in Lists
           /\ load[l].host \in Cabled(load[l].sheet) /\ load[l].host \in Hosts
           /\ Default(l) \in BOOLEAN
BY JobType, SheetType DEF JobOK, Line, Default, IsDefault, Lists

(* Of the interfaces of the host in work, those of its line. *)
LEMMA PutEffect ==
    ASSUME BInv, NEW l \in Loaders, NEW h, h = load[l].host, Put(l)
    PROVE  LET x == Line(l)
               known == x.mac # None
               n == [node |-> Id(h), device |-> x.device, mac |-> x.mac,
                     ip |-> IF known THEN x.ip ELSE None,
                     main |-> known /\ Default(l), named |-> known /\ Default(l)]
           IN  \/ Raise(l) /\ Ambiguous(h)
               \/ /\ TablesOK' /\ Only(h) /\ Kept(h) /\ groups' = groups /\ ~ Ambiguous(h)
                  /\ MembersOf(h)' = MembersOf(h)
                  /\ (Ids(h) # {} => RowsOf(h)' = RowsOf(h) \cup {n})
                  /\ Do(l, To(l, CASE known -> "devices"
                                 [] ~ known /\ x.ip # None -> "ip"
                                 [] OTHER -> Unnamed(l)))
<1> DEFINE x == Line(l)
           known == x.mac # None
<1>1. CASE Ambiguous(h)
  BY <1>1 DEF Put
<1>2. CASE ~ Ambiguous(h)
  <2>1. PICK n : n = [node |-> Id(h), device |-> x.device, mac |-> x.mac,
                      ip |-> IF known THEN x.ip ELSE None,
                      main |-> known /\ Default(l), named |-> known /\ Default(l)]
    OBVIOUS
  <2>2. /\ networks' = networks \cup {n} /\ UNCHANGED <<nodes, groups, members, serial>>
        /\ Do(l, To(l, CASE known -> "devices"
                         [] ~ known /\ x.ip # None -> "ip"
                         [] OTHER -> Unnamed(l)))
    BY <1>2, <2>1 DEF Put
  <2>3. x \in Lists /\ Default(l) \in BOOLEAN
    BY LineType DEF Put, At, LineSteps
  <2>4. Id(h) \in Nat \cup {None}
    BY IdsType, OneId DEF Id, BInv
  <2>5. n \in NetworkRow /\ n.node = Id(h)
    BY <2>1, <2>3, <2>4 DEF NetworkRow, Lists
  <2>6. /\ TablesOK' /\ Only(h) /\ (Ids(h) # {} => RowsOf(h)' = RowsOf(h) \cup {n})
        /\ NodesOf(h)' = NodesOf(h) /\ Ids(h)' = Ids(h) /\ MembersOf(h)' = MembersOf(h)
    BY <1>2, <2>2, <2>5, PutTables DEF BInv
  <2> QED
    BY <1>2, <2>1, <2>2, <2>6 DEF Kept
<1> QED
  BY <1>1, <1>2

(* An update is of interfaces of the host in work. *)
LEMMA UpdateEffect ==
    ASSUME BInv, NEW l \in Loaders, NEW h, NEW f, NEW v, Fits(f, v),
           NEW S \in SUBSET RowsOf(h), Update(l, f, S, v)
    PROVE  /\ TablesOK' /\ Only(h) /\ Kept(h) /\ groups' = groups /\ MembersOf(h)' = MembersOf(h)
           /\ RowsOf(h)' = (RowsOf(h) \ S) \cup {[n EXCEPT ![f] = v] : n \in S}
<1>1. TablesOK /\ groups' = groups
  BY DEF BInv, Update
<1>2. /\ TablesOK' /\ Only(h)
      /\ RowsOf(h)' = (RowsOf(h) \ S) \cup {[n EXCEPT ![f] = v] : n \in S}
      /\ NodesOf(h)' = NodesOf(h) /\ Ids(h)' = Ids(h) /\ MembersOf(h)' = MembersOf(h)
  BY <1>1, UpdateTables
<1> QED
  BY <1>1, <1>2 DEF Kept

(* The update of an address, on the tables. *)
LEMMA SetIPEffect ==
    ASSUME BInv, NEW l \in Loaders, NEW h, h = load[l].host, SetIP(l)
    PROVE  \/ Raise(l) /\ Cardinality(Ids(h)) # 1
           \/ /\ TablesOK' /\ Only(h) /\ Kept(h) /\ groups' = groups /\ MembersOf(h)' = MembersOf(h)
              /\ RowsOf(h)' = (RowsOf(h) \ Same(l)) \cup {[n EXCEPT !["ip"] = Line(l).ip] : n \in Same(l)}
              /\ Do(l, To(l, Unnamed(l)))
<1>1. CASE Cardinality(Ids(h)) # 1
  BY <1>1 DEF SetIP
<1>2. CASE Cardinality(Ids(h)) = 1
  <2>1. Update(l, "ip", Same(l), Line(l).ip) /\ Do(l, To(l, Unnamed(l)))
    BY <1>2 DEF SetIP
  <2>2. Line(l) \in Lists
    BY LineType DEF SetIP, At, LineSteps
  <2>3. PICK v, S : v = Line(l).ip /\ S = Same(l)
    OBVIOUS
  <2>4. Fits("ip", v) /\ S \in SUBSET RowsOf(h)
    BY <2>2, <2>3 DEF Fits, Lists, Same
  <2>5. Update(l, "ip", S, v)
    BY <2>1, <2>3
  <2>6. /\ TablesOK' /\ Only(h) /\ Kept(h) /\ groups' = groups /\ MembersOf(h)' = MembersOf(h)
        /\ RowsOf(h)' = (RowsOf(h) \ S) \cup {[n EXCEPT !["ip"] = v] : n \in S}
    BY <2>4, <2>5, UpdateEffect
  <2> QED
    BY <2>1, <2>3, <2>6
<1> QED
  BY <1>1, <1>2

(* The update of a name, on the tables. *)
LEMMA SetNameEffect ==
    ASSUME BInv, NEW l \in Loaders, NEW h, h = load[l].host, SetName(l)
    PROVE  \/ Raise(l) /\ Cardinality(Ids(h)) # 1
           \/ /\ TablesOK' /\ Only(h) /\ Kept(h) /\ groups' = groups /\ MembersOf(h)' = MembersOf(h)
              /\ RowsOf(h)' = (RowsOf(h) \ Same(l)) \cup {[n EXCEPT !["named"] = TRUE] : n \in Same(l)}
              /\ Do(l, To(l, "main"))
<1>1. CASE Cardinality(Ids(h)) # 1
  BY <1>1 DEF SetName
<1>2. CASE Cardinality(Ids(h)) = 1
  <2>1. Update(l, "named", Same(l), TRUE) /\ Do(l, To(l, "main"))
    BY <1>2 DEF SetName
  <2>2. PICK v, S : v = TRUE /\ S = Same(l)
    OBVIOUS
  <2>3. Fits("named", v) /\ S \in SUBSET RowsOf(h)
    BY <2>2 DEF Fits, Same
  <2>4. Update(l, "named", S, v)
    BY <2>1, <2>2
  <2>5. /\ TablesOK' /\ Only(h) /\ Kept(h) /\ groups' = groups /\ MembersOf(h)' = MembersOf(h)
        /\ RowsOf(h)' = (RowsOf(h) \ S) \cup {[n EXCEPT !["named"] = v] : n \in S}
    BY <2>3, <2>4, UpdateEffect
  <2> QED
    BY <2>1, <2>2, <2>5
<1> QED
  BY <1>1, <1>2

(* Clearing the default interface, on the tables. *)
LEMMA SetDefaultEffect ==
    ASSUME BInv, NEW l \in Loaders, NEW h, h = load[l].host, SetDefault(l)
    PROVE  \/ Raise(l) /\ Same(l) = {}
           \/ LET S == IF Default(l) THEN RowsOf(h) ELSE {} IN
              /\ TablesOK' /\ Only(h) /\ Kept(h) /\ groups' = groups /\ MembersOf(h)' = MembersOf(h)
              /\ RowsOf(h)' = (RowsOf(h) \ S) \cup {[n EXCEPT !["main"] = FALSE] : n \in S}
              /\ Do(l, To(l, "only"))
<1>1. CASE Same(l) = {}
  BY <1>1 DEF SetDefault
<1>2. CASE Same(l) # {}
  <2>1. PICK v, S : v = FALSE /\ S = IF Default(l) THEN RowsOf(h) ELSE {}
    OBVIOUS
  <2>2. Update(l, "main", S, v) /\ Do(l, To(l, "only"))
    BY <1>2, <2>1 DEF SetDefault
  <2>3. Fits("main", v) /\ S \in SUBSET RowsOf(h)
    BY <2>1 DEF Fits
  <2>4. /\ TablesOK' /\ Only(h) /\ Kept(h) /\ groups' = groups /\ MembersOf(h)' = MembersOf(h)
        /\ RowsOf(h)' = (RowsOf(h) \ S) \cup {[n EXCEPT !["main"] = v] : n \in S}
    BY <2>2, <2>3, UpdateEffect
  <2> QED
    BY <2>1, <2>2, <2>4
<1> QED
  BY <1>1, <1>2

(* Setting whether an interface is the default, on the tables. *)
LEMMA SetMainEffect ==
    ASSUME BInv, NEW l \in Loaders, NEW h, h = load[l].host, SetMain(l)
    PROVE  /\ TablesOK' /\ Only(h) /\ Kept(h) /\ groups' = groups /\ MembersOf(h)' = MembersOf(h)
           /\ RowsOf(h)' = (RowsOf(h) \ Same(l)) \cup {[n EXCEPT !["main"] = Default(l)] : n \in Same(l)}
           /\ Do(l, To(l, "devices"))
<1>1. Update(l, "main", Same(l), Default(l)) /\ Do(l, To(l, "devices"))
  BY DEF SetMain
<1>2. Default(l) \in BOOLEAN
  BY LineType DEF SetMain, At, LineSteps
<1>3. PICK v, S : v = Default(l) /\ S = Same(l)
  OBVIOUS
<1>4. Fits("main", v) /\ S \in SUBSET RowsOf(h)
  BY <1>2, <1>3 DEF Fits, Same
<1>5. Update(l, "main", S, v)
  BY <1>1, <1>3
<1>6. /\ TablesOK' /\ Only(h) /\ Kept(h) /\ groups' = groups /\ MembersOf(h)' = MembersOf(h)
      /\ RowsOf(h)' = (RowsOf(h) \ S) \cup {[n EXCEPT !["main"] = v] : n \in S}
  BY <1>4, <1>5, UpdateEffect
<1> QED
  BY <1>1, <1>3, <1>6

(* A step works on one host of its spreadsheet, and takes it away only if    *)
(* it is of another frontend.                                                *)
Works(l) ==
    \/ Quiet
    \/ /\ load[l].step \in Running
       /\ \E h \in Names(load[l].sheet) :
             /\ Only(h)
             /\ \/ Ids(h) \subseteq Ids(h)'
                \/ /\ Bossed(load[l].sheet)
                   /\ BossOf(load[l].sheet, h) \notin {None, Boss}

(* A step that changes no table works on nothing. *)
LEMMA UntouchedWorks ==
    ASSUME BInv, NEW l \in Loaders, UNCHANGED tables
    PROVE  TablesOK' /\ Works(l)
BY QuietIfUnchanged DEF Works

(* The host in work is of the spreadsheet of a load that runs. *)
LEMMA HostInWork ==
    ASSUME BInv, NEW l \in Loaders, load[l].step \in HostSteps \cup LineSteps \cup {"remove", "unnode"}
    PROVE  /\ load[l].step \in Running /\ load[l].host \in Names(load[l].sheet)
           /\ load[l].host \in Hosts
BY JobType DEF JobOK, Running, Applying, Connecting, HostSteps, LineSteps

(* A step that changes the host in work only, and keeps its ids. *)
LEMMA WorksOn ==
    ASSUME BInv, NEW l \in Loaders, NEW h, h = load[l].host,
           load[l].step \in HostSteps \cup LineSteps \cup {"remove", "unnode"},
           TablesOK', Only(h), Ids(h) \subseteq Ids(h)'
    PROVE  TablesOK' /\ Works(l)
BY HostInWork DEF Works

(* Every step keeps the types, moves its own load and works on one host of *)
(* its spreadsheet.                                                        *)
LEMMA StepWorks ==
    ASSUME BInv, NEW l \in Loaders, Step(l)
    PROVE  Moved(l) /\ TablesOK' /\ Works(l)
<1>1. CASE \E s \in Sheets : Begin(l, s)
  <2>1. UNCHANGED tables
    BY <1>1 DEF Begin
  <2> QED
    BY <1>1, <2>1, BeginMoves, UntouchedWorks
<1>2. CASE NotOurs(l)
  BY <1>2, NotOursMoves, UntouchedWorks
<1>3. CASE Check(l)
  <2>1. UNCHANGED tables
    BY <1>3 DEF Check, Raise, tables
  <2> QED
    BY <1>3, <2>1, CheckMoves, UntouchedWorks
<1>4. CASE Read(l)
  <2>1. UNCHANGED tables
    BY <1>4 DEF Read, Raise, tables
  <2> QED
    BY <1>4, <2>1, ReadMoves, UntouchedWorks
<1>5. CASE ReadGroups(l)
  <2>1. UNCHANGED tables
    BY <1>5 DEF ReadGroups, Raise, tables
  <2> QED
    BY <1>5, <2>1, ReadGroupsMoves, UntouchedWorks
<1>6. CASE Prune(l)
  <2>1. UNCHANGED tables
    BY <1>6 DEF Prune, Raise, tables
  <2> QED
    BY <1>6, <2>1, PruneMoves, UntouchedWorks
<1>7. CASE NextHost(l)
  <2>1. UNCHANGED tables
    BY <1>7 DEF NextHost, Raise, tables
  <2> QED
    BY <1>7, <2>1, NextHostMoves, UntouchedWorks
<1>8. CASE AddHost(l)
  <2>1. UNCHANGED tables
    BY <1>8 DEF AddHost, Raise, tables
  <2> QED
    BY <1>8, <2>1, AddHostMoves, UntouchedWorks
<1>9. CASE Join(l)
  <2>1. UNCHANGED tables
    BY <1>9 DEF Join, Raise, tables
  <2> QED
    BY <1>9, <2>1, JoinMoves, UntouchedWorks
<1>10. CASE GroupsEnd(l)
  <2>1. UNCHANGED tables
    BY <1>10 DEF GroupsEnd, Raise, tables
  <2> QED
    BY <1>10, <2>1, GroupsEndMoves, UntouchedWorks
<1>11. CASE HostEnds(l)
  <2>1. UNCHANGED tables
    BY <1>11 DEF HostEnds, Raise, tables
  <2> QED
    BY <1>11, <2>1, HostEndsMoves, UntouchedWorks
<1>12. CASE HostsEnd(l)
  <2>1. UNCHANGED tables
    BY <1>12 DEF HostsEnd, Raise, tables
  <2> QED
    BY <1>12, <2>1, HostsEndMoves, UntouchedWorks
<1>13. CASE Clear(l)
  <2>1. UNCHANGED tables
    BY <1>13 DEF Clear, Raise, tables
  <2> QED
    BY <1>13, <2>1, ClearMoves, UntouchedWorks
<1>14. CASE WipeEnds(l)
  <2>1. UNCHANGED tables
    BY <1>14 DEF WipeEnds, Raise, tables
  <2> QED
    BY <1>14, <2>1, WipeEndsMoves, UntouchedWorks
<1>15. CASE NextInterfaces(l)
  <2>1. UNCHANGED tables
    BY <1>15 DEF NextInterfaces, Raise, tables
  <2> QED
    BY <1>15, <2>1, NextInterfacesMoves, UntouchedWorks
<1>16. CASE AddInterface(l)
  <2>1. UNCHANGED tables
    BY <1>16 DEF AddInterface, Raise, tables
  <2> QED
    BY <1>16, <2>1, AddInterfaceMoves, UntouchedWorks
<1>17. CASE InterfacesEnd(l)
  <2>1. UNCHANGED tables
    BY <1>17 DEF InterfacesEnd, Raise, tables
  <2> QED
    BY <1>17, <2>1, InterfacesEndMoves, UntouchedWorks
<1>18. CASE Finish(l)
  <2>1. UNCHANGED tables
    BY <1>18 DEF Finish, Raise, tables
  <2> QED
    BY <1>18, <2>1, FinishMoves, UntouchedWorks
<1>19. CASE Die(l)
  <2>1. UNCHANGED tables
    BY <1>19 DEF Die, Raise, tables
  <2> QED
    BY <1>19, <2>1, DieMoves, UntouchedWorks
<1>20. CASE Remove(l)
  <2>1. load[l].step = "remove"
    BY <1>20 DEF Remove, At
  <2>2. PICK h : h = load[l].host
    OBVIOUS
  <2>3. (UNCHANGED tables) \/ (TablesOK' /\ Only(h) /\ Ids(h) \subseteq Ids(h)')
    BY <1>20, <2>2, RemoveEffect DEF Raise, Kept
  <2> QED
    BY <1>20, <2>1, <2>2, <2>3, RemoveMoves, UntouchedWorks, WorksOn DEF HostSteps, LineSteps
<1>21. CASE Unnode(l)
  <2>1. load[l].step = "unnode"
    BY <1>21 DEF Unnode, At
  <2>2. PICK h : h = load[l].host
    OBVIOUS
  <2>3. TablesOK' /\ Only(h)
    BY <1>21, <2>2, UnnodeEffect
  <2>4. h \in Names(load[l].sheet) /\ Bossed(load[l].sheet)
        /\ BossOf(load[l].sheet, h) \notin {None, Boss}
    BY <2>1, <2>2, JobType DEF JobOK
  <2>5. load[l].step \in Running
    BY <2>1 DEF Running
  <2> QED
    BY <1>21, <2>3, <2>4, <2>5, UnnodeMoves DEF Works
<1>22. CASE InsertHost(l)
  <2>1. load[l].step = "insert"
    BY <1>22 DEF InsertHost, At
  <2>2. PICK h : h = load[l].host
    OBVIOUS
  <2>3. TablesOK' /\ Only(h) /\ Ids(h) \subseteq Ids(h)'
    BY <1>22, <2>2, InsertEffect
  <2> QED
    BY <1>22, <2>1, <2>2, <2>3, InsertHostMoves, WorksOn DEF HostSteps
<1>23. CASE AddGroup(l)
  <2>1. TablesOK' /\ Quiet
    BY <1>23, AddGroupEffect, QuietIfRaised
  <2> QED
    BY <1>23, <2>1, AddGroupMoves DEF Works
<1>24. CASE Member(l)
  <2>1. load[l].step = "member"
    BY <1>24 DEF Member, At
  <2>2. PICK h : h = load[l].host
    OBVIOUS
  <2>3. (UNCHANGED tables) \/ (TablesOK' /\ Only(h) /\ Ids(h) \subseteq Ids(h)')
    BY <1>24, <2>2, MemberEffect DEF Raise, Kept
  <2> QED
    BY <1>24, <2>1, <2>2, <2>3, MemberMoves, UntouchedWorks, WorksOn DEF HostSteps, LineSteps
<1>25. CASE SetHost(l)
  <2>1. load[l].step = "set"
    BY <1>25 DEF SetHost, At
  <2>2. PICK h : h = load[l].host
    OBVIOUS
  <2>3. (UNCHANGED tables) \/ (TablesOK' /\ Only(h) /\ Ids(h) \subseteq Ids(h)')
    BY <1>25, <2>2, SetHostEffect DEF Raise, Kept
  <2> QED
    BY <1>25, <2>1, <2>2, <2>3, SetHostMoves, UntouchedWorks, WorksOn DEF HostSteps, LineSteps
<1>26. CASE Wipe(l)
  <2>1. load[l].step \in Running /\ load[l].left \subseteq Names(load[l].sheet)
    BY <1>26, JobType DEF Wipe, At, Running, Applying
  <2>2. PICK h \in load[l].left : (UNCHANGED tables) \/ (TablesOK' /\ Only(h) /\ Ids(h) \subseteq Ids(h)')
    BY <1>26, WipeEffect DEF Raise, Kept
  <2>3. TablesOK' /\ Works(l)
    BY <2>1, <2>2, UntouchedWorks DEF Works
  <2> QED
    BY <1>26, <2>3, WipeMoves
<1>27. CASE Put(l)
  <2>1. load[l].step = "put"
    BY <1>27 DEF Put, At
  <2>2. PICK h : h = load[l].host
    OBVIOUS
  <2>3. (UNCHANGED tables) \/ (TablesOK' /\ Only(h) /\ Ids(h) \subseteq Ids(h)')
    BY <1>27, <2>2, PutEffect DEF Raise, Kept
  <2> QED
    BY <1>27, <2>1, <2>2, <2>3, PutMoves, UntouchedWorks, WorksOn DEF HostSteps, LineSteps
<1>28. CASE SetIP(l)
  <2>1. load[l].step = "ip"
    BY <1>28 DEF SetIP, At
  <2>2. PICK h : h = load[l].host
    OBVIOUS
  <2>3. (UNCHANGED tables) \/ (TablesOK' /\ Only(h) /\ Ids(h) \subseteq Ids(h)')
    BY <1>28, <2>2, SetIPEffect DEF Raise, Kept
  <2> QED
    BY <1>28, <2>1, <2>2, <2>3, SetIPMoves, UntouchedWorks, WorksOn DEF HostSteps, LineSteps
<1>29. CASE SetName(l)
  <2>1. load[l].step = "name"
    BY <1>29 DEF SetName, At
  <2>2. PICK h : h = load[l].host
    OBVIOUS
  <2>3. (UNCHANGED tables) \/ (TablesOK' /\ Only(h) /\ Ids(h) \subseteq Ids(h)')
    BY <1>29, <2>2, SetNameEffect DEF Raise, Kept
  <2> QED
    BY <1>29, <2>1, <2>2, <2>3, SetNameMoves, UntouchedWorks, WorksOn DEF HostSteps, LineSteps
<1>30. CASE SetDefault(l)
  <2>1. load[l].step = "main"
    BY <1>30 DEF SetDefault, At
  <2>2. PICK h : h = load[l].host
    OBVIOUS
  <2>3. (UNCHANGED tables) \/ (TablesOK' /\ Only(h) /\ Ids(h) \subseteq Ids(h)')
    BY <1>30, <2>2, SetDefaultEffect DEF Raise, Kept
  <2> QED
    BY <1>30, <2>1, <2>2, <2>3, SetDefaultMoves, UntouchedWorks, WorksOn DEF HostSteps, LineSteps
<1>31. CASE SetMain(l)
  <2>1. load[l].step = "only"
    BY <1>31 DEF SetMain, At
  <2>2. PICK h : h = load[l].host
    OBVIOUS
  <2>3. (UNCHANGED tables) \/ (TablesOK' /\ Only(h) /\ Ids(h) \subseteq Ids(h)')
    BY <1>31, <2>2, SetMainEffect DEF Raise, Kept
  <2> QED
    BY <1>31, <2>1, <2>2, <2>3, SetMainMoves, UntouchedWorks, WorksOn DEF HostSteps, LineSteps
<1> QED
  BY <1>1, <1>2, <1>3, <1>4, <1>5, <1>6, <1>7, <1>8, <1>9, <1>10, <1>11, <1>12, <1>13, <1>14, <1>15, <1>16, <1>17, <1>18, <1>19, <1>20, <1>21, <1>22, <1>23, <1>24, <1>25, <1>26, <1>27, <1>28, <1>29, <1>30, <1>31 DEF Step

(* Tables and loads keep their types, ids are never given out again, and *)
(* every load is at a place where what the checks before it left holds   *)
(* (JobOK): the invariant the others rest on.                            *)
THEOREM HostFileInv == Spec => []BInv
<1>1. Init => BInv
  <2> SUFFICES ASSUME Init PROVE BInv
    OBVIOUS
  <2>1. TablesOK
    <3>1. PICK t \in Initially : /\ nodes = t.nodes /\ networks = t.networks
                                 /\ groups = t.groups /\ members = t.members
                                 /\ serial = t.serial
      BY DEF Init
    <3>2. /\ IsFiniteSet(nodes) /\ nodes \subseteq NodeRow
          /\ IsFiniteSet(networks) /\ networks \subseteq NetworkRow
          /\ groups \subseteq Groups /\ members \subseteq Nat \X Groups
          /\ serial \in Nat
          /\ \A m, n \in nodes : m.id = n.id => m = n
      BY <3>1, InitialAssumption
    <3>3. /\ \A n \in nodes : n.id < serial
          /\ \A n \in networks : n.node # None => n.node < serial
          /\ \A m \in members : m[1] < serial
      BY <3>1, InitialAssumption
    <3> QED
      BY <3>2, <3>3 DEF TablesOK
  <2>2. Idle \in Loading /\ JobOK(Idle)
    <3>1. "idle" \in Steps /\ <<>> \in Seq(Lists) /\ Names(<<>>) = {}
      BY DEF Steps, Names
    <3>2. Idle \in Loading
      BY <3>1 DEF Idle, Loading
    <3>3. /\ Idle.step = "idle" /\ Idle.sheet = <<>> /\ Idle.hosts = {} /\ Idle.left = {}
          /\ Idle.todo = {}
      BY DEF Idle
    <3> QED
      BY <3>1, <3>2, <3>3 DEF JobOK, Running, Applying, Connecting, HostSteps, GroupSteps, LineSteps, Checked
  <2> QED
    BY <2>1, <2>2 DEF Init, BInv
<1>2. BInv /\ [Next]_vars => BInv'
  <2> SUFFICES ASSUME BInv, [Next]_vars PROVE BInv'
    OBVIOUS
  <2>1. CASE Next
    <3>1. PICK l \in Loaders :
              /\ Step(l)
              /\ undisturbed' = [k \in Loaders |-> undisturbed[k] /\ (k = l \/ View(k)' = View(k))]
      BY <2>1 DEF Next
    <3>2. Moved(l) /\ TablesOK'
      BY <3>1, StepWorks
    <3>3. undisturbed' \in [Loaders -> BOOLEAN]
      BY <3>1 DEF BInv
    <3>4. load' \in [Loaders -> Loading] /\ \A k \in Loaders : JobOK(load'[k])
      BY <3>2 DEF Moved, BInv
    <3> QED
      BY <3>2, <3>3, <3>4 DEF BInv
  <2>2. CASE UNCHANGED vars
    BY <2>2, TablesStay DEF BInv, vars
  <2> QED
    BY <2>1, <2>2
<1> QED
  BY <1>1, <1>2, PTL DEF Spec

(* OthersKept for every spreadsheet, initial tables and number of loads. *)
THEOREM OthersKeptCorrect == Spec => OthersKept
<1> DEFINE Kind(h) ==
          /\ RowsOf(h)' # RowsOf(h) \/ MembersOf(h)' # MembersOf(h) =>
                \E l \in Loaders : h \in Names(load[l].sheet) /\ load[l].step \in Running
          /\ ~ (Ids(h) \subseteq Ids(h)') =>
                \E l \in Loaders : Bossed(load[l].sheet) /\
                    BossOf(load[l].sheet, h) \notin {None, Boss}
<1>1. BInv /\ [Next]_vars => [\A h \in Hosts : Kind(h)]_vars
  <2> SUFFICES ASSUME BInv, Next, NEW h \in Hosts PROVE Kind(h)
    OBVIOUS
  <2>1. PICK l \in Loaders : Step(l)
    BY DEF Next
  <2>2. Works(l)
    BY <2>1, StepWorks
  <2>3. CASE Quiet
    BY <2>3 DEF Quiet
  <2>4. CASE ~ Quiet
    <3>1. load[l].step \in Running
      BY <2>2, <2>4 DEF Works
    <3>2. PICK g \in Names(load[l].sheet) :
              /\ Only(g)
              /\ \/ Ids(g) \subseteq Ids(g)'
                 \/ /\ Bossed(load[l].sheet)
                    /\ BossOf(load[l].sheet, g) \notin {None, Boss}
      BY <2>2, <2>4 DEF Works
    <3>3. CASE h = g
      BY <3>1, <3>2, <3>3
    <3>4. CASE h # g
      BY <3>2, <3>4 DEF Only
    <3> QED
      BY <3>3, <3>4
  <2> QED
    BY <2>3, <2>4
<1> QED
  BY <1>1, HostFileInv, PTL DEF Spec, OthersKept

-----------------------------------------------------------------------------
(* What nobody touches stays as it is. *)

SameHost(h) ==
    /\ NodesOf(h)' = NodesOf(h) /\ Ids(h)' = Ids(h)
    /\ RowsOf(h)' = RowsOf(h) /\ MembersOf(h)' = MembersOf(h)

(* What is said of a host nobody touches stays true. *)
LEMMA SameHostKeeps ==
    ASSUME NEW h, SameHost(h)
    PROVE  /\ Id(h)' = Id(h) /\ (Ambiguous(h)' <=> Ambiguous(h))
           /\ \A r : NotYet(r, h)' <=> NotYet(r, h)
           /\ \A s, F : GivenTo(s, h, F)' <=> GivenTo(s, h, F)
           /\ \A s : Applied(s, h)' <=> Applied(s, h)
           /\ \A s, i : Row(s, h, i)' = Row(s, h, i)
<1>1. Id(h)' = Id(h) /\ (Ambiguous(h)' <=> Ambiguous(h))
  BY DEF SameHost, Id, Ambiguous
<1>2. \A r : NotYet(r, h)' <=> NotYet(r, h)
  BY DEF SameHost, NotYet, OldOf
<1>3. \A s, F : GivenTo(s, h, F)' <=> GivenTo(s, h, F)
  BY DEF SameHost, GivenTo, Given
<1>4. \A s : Applied(s, h)' <=> Applied(s, h)
  BY <1>3 DEF SameHost, Applied, GroupsOf
<1>5. \A s, i : Row(s, h, i)' = Row(s, h, i)
  BY <1>1 DEF Row, IsDefault
<1> QED
  BY <1>1, <1>2, <1>3, <1>4, <1>5

(* So do its interfaces. *)
LEMMA SameRowsGiven ==
    ASSUME NEW h, NEW r, SameHost(h)
    PROVE  RowsGiven(r, h)' <=> RowsGiven(r, h)
<1>1. \A s, i : Row(s, h, i)' = Row(s, h, i)
  BY SameHostKeeps
<1>2. Begun(r, h)' = Begun(r, h)
  <2>1. CASE h = r.host /\ r.step \in LineSteps \ {"put"}
    <3>1. Partial(r)' = Partial(r)
      BY <2>1, SameHostKeeps DEF Partial, IsDefault
    <3> QED
      BY <2>1, <3>1 DEF Begun
  <2>2. CASE ~ (h = r.host /\ r.step \in LineSteps \ {"put"})
    BY <2>2 DEF Begun
  <2> QED
    BY <2>1, <2>2
<1>3. {Row(r.sheet, h, i)' : i \in Lines(r.sheet, h) \ Awaited(r, h)}
        = {Row(r.sheet, h, i) : i \in Lines(r.sheet, h) \ Awaited(r, h)}
  BY <1>1
<1> QED
  BY <1>2, <1>3 DEF RowsGiven, SameHost

(* A load depends on its own hosts and groups alone. *)
LEMMA SameWork ==
    ASSUME NEW r, r \in Loading, JobOK(r), \A h \in Names(r.sheet) : SameHost(h),
           groups' \cap AllGroups(r.sheet) = groups \cap AllGroups(r.sheet), WorkOK(r)
    PROVE  WorkOK(r)'
<1> DEFINE s == r.sheet
<1>1. /\ r.hosts \subseteq Names(s) /\ r.left \subseteq Names(s) /\ Cabled(s) \subseteq Names(s)
      /\ (r.step \in HostSteps => r.host \in Names(s))
      /\ (r.step \in {"join", "member"} => r.item \in AllGroups(s))
  BY DEF JobOK, Cabled, AllGroups, HostSteps
<1>2. /\ \A h \in Names(s) : /\ (Ambiguous(h)' <=> Ambiguous(h)) /\ (NotYet(r, h)' <=> NotYet(r, h))
                             /\ (Applied(s, h)' <=> Applied(s, h))
                             /\ (RowsGiven(r, h)' <=> RowsGiven(r, h))
                             /\ Ids(h)' = Ids(h) /\ MembersOf(h)' = MembersOf(h)
                             /\ RowsOf(h)' = RowsOf(h)
      /\ \A h \in Names(s) : \A F : GivenTo(s, h, F)' <=> GivenTo(s, h, F)
  BY SameHostKeeps, SameRowsGiven DEF SameHost
<1>3. Listed(r)'
  BY <1>1, <1>2 DEF WorkOK, Listed
<1>4. HostOK(r)'
  <2>1. r.step \in HostSteps =>
           /\ (NotYet(r, r.host)' <=> NotYet(r, r.host)) /\ Ids(r.host)' = Ids(r.host)
           /\ MembersOf(r.host)' = MembersOf(r.host)
           /\ \A F : GivenTo(s, r.host, F)' <=> GivenTo(s, r.host, F)
    BY <1>1, <1>2
  <2>2. r.step \in {"join", "member"} => r.item \in groups'
    BY <1>1 DEF WorkOK, HostOK
  <2> QED
    BY <2>1, <2>2 DEF WorkOK, HostOK, HostSteps
<1>5. HostsOK(r)'
  BY <1>1, <1>2 DEF WorkOK, HostsOK
<1>6. InterfacesOK(r)'
  BY <1>1, <1>2 DEF WorkOK, InterfacesOK
<1>7. Reason(r) => Reason(r)'
  BY <1>2 DEF Reason
<1> QED
  BY <1>3, <1>4, <1>5, <1>6, <1>7 DEF WorkOK

(* Whoever leaves the view of a load as it is leaves its hosts and its *)
(* groups.                                                             *)
LEMMA SameView ==
    ASSUME BInv, NEW k \in Loaders, NEW r, r = load[k], load'[k] = r, View(k)' = View(k)
    PROVE  /\ \A h \in Names(r.sheet) : SameHost(h)
           /\ groups' \cap AllGroups(r.sheet) = groups \cap AllGroups(r.sheet)
<1> DEFINE s == r.sheet
           N == Names(s)
<1>1. /\ {n \in nodes' : n.name \in N} = {n \in nodes : n.name \in N}
      /\ [h \in N |-> RowsOf(h)'] = [h \in N |-> RowsOf(h)]
      /\ [h \in N |-> MembersOf(h)'] = [h \in N |-> MembersOf(h)]
      /\ groups' \cap AllGroups(s) = groups \cap AllGroups(s)
  BY DEF View, AllGroups
<1>2. ASSUME NEW h \in N PROVE SameHost(h)
  <2>1. NodesOf(h)' = NodesOf(h)
    BY <1>1 DEF NodesOf
  <2>2. Ids(h)' = Ids(h)
    BY <2>1 DEF Ids, NodesOf
  <2>3. RowsOf(h)' = RowsOf(h) /\ MembersOf(h)' = MembersOf(h)
    <3>1. [g \in N |-> RowsOf(g)'][h] = [g \in N |-> RowsOf(g)][h]
      BY <1>1
    <3>2. [g \in N |-> MembersOf(g)'][h] = [g \in N |-> MembersOf(g)][h]
      BY <1>1
    <3> QED
      BY <3>1, <3>2
  <2> QED
    BY <2>1, <2>2, <2>3 DEF SameHost
<1> QED
  BY <1>1, <1>2

-----------------------------------------------------------------------------
(* The steps of a load itself. *)

Own(l, r, t) == r = load[l] /\ t = load'[l] /\ WorkOK(r)

(* What a well formed spreadsheet gives of a host it gives once. *)
LEMMA GivenOnce ==
    ASSUME NEW s \in Seq(Lists), ~ Malformed(s), NEW h \in Names(s), NEW f \in Fields
    PROVE  Given(s, h, f) # {} => Given(s, h, f) = {Value(Given(s, h, f))}
<1> DEFINE S == Given(s, h, f)
<1>1. IsFiniteSet(S)
  <2> DEFINE D == {j \in DOMAIN s : s[j].host = h}
             e == [j \in D |-> s[j][f]]
  <2>1. IsFiniteSet(D)
    <3>1. DOMAIN s = 1 .. Len(s) /\ Len(s) \in Nat
      OBVIOUS
    <3>2. IsFiniteSet(DOMAIN s)
      BY <3>1, FS_Interval
    <3> QED
      BY <3>2, FS_Subset
  <2>2. \A j \in D : e[j] = s[j][f]
    OBVIOUS
  <2>3. S = {e[j] : j \in D} \ {None}
    BY <2>2 DEF Given
  <2> HIDE DEF D, e
  <2>4. IsFiniteSet({e[j] : j \in D})
    BY <2>1, ImageFinite
  <2> QED
    BY <2>3, <2>4, FS_Subset
<1>2. ~ (Cardinality(S) > 1)
  BY DEF Malformed, Fields
<1>3. Cardinality(S) \in Nat /\ (Cardinality(S) = 0 <=> S = {})
      /\ (Cardinality(S) = 1 <=> \E x : S = {x})
  BY <1>1, FS_CardinalityType, FS_EmptySet, FS_Singleton
<1> HIDE DEF S
<1>4. S # {} => \E x : S = {x}
  <2>1. Cardinality(S) = 0 \/ Cardinality(S) = 1
    BY <1>2, <1>3
  <2> QED
    BY <1>3, <2>1
<1>5. S # {} => S = {Value(S)}
  BY <1>4 DEF Value
<1> QED
  BY <1>5 DEF S

(* The types of a load at its own step. *)
LEMMA OwnType ==
    ASSUME BInv, NEW l \in Loaders, NEW r, NEW t, Own(l, r, t)
    PROVE  /\ r \in Loading /\ JobOK(r) /\ r.sheet \in Seq(Lists)
           /\ r.hosts \subseteq Names(r.sheet) /\ r.left \subseteq Names(r.sheet)
           /\ Names(r.sheet) \subseteq Hosts /\ Cabled(r.sheet) \subseteq Names(r.sheet)
           /\ WorkOK(r)
           /\ \A u : Do(l, u) => t = u
BY JobType DEF Own, Do, BInv

(* Before it has listed the hosts nothing is said of a load. *)
LEMMA EarlyWork ==
    ASSUME NEW t, t.step \in {"idle", "boss", "remove", "unnode", "read", "rejected", "dead"}
    PROVE  WorkOK(t)'
BY DEF WorkOK, Listed, HostOK, HostsOK, InterfacesOK, HostSteps, Connecting

(* A load that fails for a reason. *)
LEMMA RaiseWork ==
    ASSUME BInv, NEW l \in Loaders, NEW r, NEW t, Own(l, r, t), Raise(l), Reason(r)
    PROVE  WorkOK(t)'
<1>1. t = End(l, "raised") /\ UNCHANGED tables
  BY OwnType DEF Raise
<1>2. t.step = "raised" /\ t.sheet = r.sheet /\ t.existing = r.existing /\ t.old = r.old
  BY <1>1, OwnType DEF End, Loading, Own
<1>3. \A h : Ambiguous(h)' <=> Ambiguous(h)
  BY <1>1, TablesStay DEF Ambiguous
<1>4. Reason(t)'
  BY <1>2, <1>3 DEF Reason, OldOf
<1>5. Listed(t)' /\ HostOK(t)' /\ HostsOK(t)' /\ InterfacesOK(t)'
  BY <1>2 DEF Listed, HostOK, HostsOK, InterfacesOK, HostSteps, Connecting
<1> QED
  BY <1>4, <1>5 DEF WorkOK

(* A step that changes no table leaves all hosts alone. *)
LEMMA QuietSame ==
    ASSUME BInv, (UNCHANGED tables) \/ Quiet
    PROVE  \A h \in Hosts : SameHost(h)
BY QuietIfUnchanged DEF Quiet, SameHost

(* A step for one host leaves the others alone. *)
LEMMA OnlySame ==
    ASSUME NEW h, Only(h)
    PROVE  \A g \in Hosts \ {h} : SameHost(g)
BY DEF Only, SameHost

(* A host of two records of a load that list the same. *)
LEMMA SameNotYet ==
    ASSUME NEW r, NEW t, t.existing = r.existing, t.old = r.old, NEW h, SameHost(h)
    PROVE  /\ NotYet(t, h)' <=> NotYet(r, h)
           /\ OldOf(t, h) = OldOf(r, h)
           /\ \A s : Applied(s, h)' <=> Applied(s, h)
BY SameHostKeeps DEF NotYet, OldOf, SameHost

(* Reading the hosts there are, by a load nobody disturbed. *)
LEMMA ReadWork ==
    ASSUME BInv, NEW l \in Loaders, NEW r, NEW t, Own(l, r, t), Read(l)
    PROVE  WorkOK(t)'
<1>1. UNCHANGED tables /\ t = [To(l, "groups") EXCEPT !.existing = NodeNames]
  BY OwnType DEF Read
<1>2. t.step = "groups" /\ t.sheet = r.sheet /\ t.existing = NodeNames
  BY <1>1, OwnType DEF Loading, To, Own
<1>3. \A h : Ids(h)' = Ids(h) /\ (Ids(h) # {} <=> h \in NodeNames)
  BY <1>1, TablesStay, IdsType DEF BInv
<1>4. Listed(t)'
  BY <1>2, <1>3 DEF Listed, HostSteps
<1> QED
  BY <1>2, <1>4 DEF WorkOK, HostOK, HostsOK, InterfacesOK, HostSteps, Connecting

(* Reading their groups, by a load nobody disturbed. *)
LEMMA ReadGroupsWork ==
    ASSUME BInv, NEW l \in Loaders, NEW r, NEW t, Own(l, r, t), ReadGroups(l)
    PROVE  WorkOK(t)'
<1> DEFINE mine == r.hosts \cap r.existing
<1>1. r.step = "groups" /\ \A h \in Names(r.sheet) : h \in r.existing <=> Ids(h) # {}
  BY OwnType DEF ReadGroups, At, Own, WorkOK, Listed
<1>2. \A h : Ids(h) # {} <=> h \in NodeNames
  BY IdsType DEF BInv
<1>3. mine \subseteq NodeNames
  BY <1>1, <1>2, OwnType
<1>4. /\ UNCHANGED tables
      /\ t = [To(l, "prune") EXCEPT !.known = groups,
                  !.old = UNION {{h} \X MembersOf(h) : h \in mine}]
  BY <1>3, OwnType DEF ReadGroups, Own
<1>5. /\ t.step = "prune" /\ t.sheet = r.sheet /\ t.hosts = r.hosts /\ t.existing = r.existing
      /\ t.known = groups /\ t.old = UNION {{h} \X MembersOf(h) : h \in mine}
  BY <1>4, OwnType DEF Loading, To, Own
<1>6. /\ \A h : Ids(h)' = Ids(h) /\ MembersOf(h)' = MembersOf(h)
      /\ groups' = groups
  BY <1>4, TablesStay
<1>7. ASSUME NEW h \in r.hosts PROVE NotYet(t, h)'
  <2>1. h \in r.existing <=> Ids(h) # {}
    BY <1>1, OwnType
  <2>2. \A x : x \in t.old <=> \E g \in mine : x \in {g} \X MembersOf(g)
    BY <1>5
  <2>3. OldOf(t, h) = MembersOf(h)
    <3>1. ASSUME h \in r.existing, NEW k \in MembersOf(h) PROVE k \in OldOf(t, h)
      <4>1. <<h, k>> \in t.old
        BY <2>2, <3>1
      <4>2. <<h, k>>[1] = h /\ <<h, k>>[2] = k
        OBVIOUS
      <4> QED
        BY <4>1, <4>2 DEF OldOf
    <3>2. ASSUME NEW k \in OldOf(t, h) PROVE k \in MembersOf(h)
      <4>1. PICK x \in t.old : x[1] = h /\ x[2] = k
        BY DEF OldOf
      <4>2. PICK g \in mine : x \in {g} \X MembersOf(g)
        BY <2>2, <4>1
      <4>3. x[1] = g /\ x[2] \in MembersOf(g)
        BY <4>2
      <4> QED
        BY <4>1, <4>3
    <3>3. Ids(h) = {} => MembersOf(h) = {}
      BY DEF MembersOf
    <3> QED
      BY <2>1, <3>1, <3>2, <3>3
  <2> QED
    BY <1>5, <1>6, <2>1, <2>3 DEF NotYet, OldOf
<1>8. \A x \in t.old : x[1] \in t.hosts
  BY <1>5
<1>9. Listed(t)'
  BY <1>5, <1>6, <1>7, <1>8 DEF Listed
<1> QED
  BY <1>5, <1>9 DEF WorkOK, HostOK, HostsOK, InterfacesOK, HostSteps, Connecting

(* Removing the letters of group names, by a load nobody disturbed. *)
LEMMA PruneWork ==
    ASSUME BInv, NEW l \in Loaders, NEW r, NEW t, Own(l, r, t), Prune(l)
    PROVE  WorkOK(t)'
<1>1. /\ r.step = "prune" /\ \A h \in r.hosts : NotYet(r, h)
      /\ \A x \in r.old : x[1] \in r.hosts
      /\ groups \cap AllGroups(r.sheet) = r.known \cap AllGroups(r.sheet)
  BY OwnType DEF Prune, At, Own, WorkOK, Listed
<1>2. CASE Raise(l) /\ \E x \in r.old : x[2] \notin MembersOf(x[1]) \/ Ambiguous(x[1])
  <2>1. PICK x \in r.old : x[2] \notin MembersOf(x[1]) \/ Ambiguous(x[1])
    BY <1>2
  <2>2. x[1] \in r.hosts /\ x[2] \in OldOf(r, x[1])
    BY <1>1 DEF OldOf
  <2>3. Ambiguous(x[1]) /\ x[1] \in Names(r.sheet)
    BY <1>1, <2>1, <2>2, OwnType DEF NotYet
  <2>4. Reason(r)
    BY <2>3 DEF Reason
  <2> QED
    BY <1>2, <2>4, RaiseWork
<1>3. CASE UNCHANGED tables /\ Do(l, [To(l, "host") EXCEPT !.left = r.hosts])
  <2>1. t = [To(l, "host") EXCEPT !.left = r.hosts]
    BY <1>3, OwnType
  <2>2. /\ t.step = "host" /\ t.sheet = r.sheet /\ t.hosts = r.hosts /\ t.left = r.hosts
        /\ t.existing = r.existing /\ t.known = r.known /\ t.old = r.old
    BY <2>1, OwnType DEF Loading, To, Own
  <2>3. (\A h \in Hosts : SameHost(h)) /\ groups' = groups
    BY <1>3, QuietSame, TablesStay
  <2>4. \A h \in r.hosts : NotYet(r, h)' /\ NotYet(t, h)'
    BY <1>1, <2>2, <2>3, SameHostKeeps, OwnType DEF NotYet, OldOf
  <2>5. Listed(t)' /\ HostsOK(t)'
    BY <1>1, <2>2, <2>3, <2>4 DEF Listed, HostsOK, HostSteps, Connecting
  <2> QED
    BY <2>2, <2>5 DEF WorkOK, HostOK, InterfacesOK, HostSteps, Connecting
<1> QED
  BY <1>2, <1>3 DEF Prune, Own

(* Taking the next host, by a load nobody disturbed. *)
LEMMA NextHostWork ==
    ASSUME BInv, NEW l \in Loaders, NEW r, NEW t, Own(l, r, t), NextHost(l)
    PROVE  WorkOK(t)'
<1>1. /\ r.step = "host" /\ (\A h \in r.left : NotYet(r, h))
      /\ (\A h \in r.hosts \ r.left : Applied(r.sheet, h))
      /\ groups \cap AllGroups(r.sheet) = r.known \cap AllGroups(r.sheet)
  BY OwnType DEF NextHost, At, Own, WorkOK, Listed, HostsOK
<1>2. PICK h \in r.left :
          Do(l, [To(l, IF h \in r.existing THEN "group" ELSE "add") EXCEPT
                    !.left = @ \ {h}, !.host = h, !.todo = GroupsOf(r.sheet, h)])
  BY DEF NextHost, Own
<1>3. /\ t.step = (IF h \in r.existing THEN "group" ELSE "add")
      /\ t.sheet = r.sheet /\ t.hosts = r.hosts /\ t.left = r.left \ {h} /\ t.host = h
      /\ t.existing = r.existing /\ t.known = r.known /\ t.old = r.old
      /\ t.todo = GroupsOf(r.sheet, h)
  <2>1. t = [To(l, IF h \in r.existing THEN "group" ELSE "add") EXCEPT
                 !.left = @ \ {h}, !.host = h, !.todo = GroupsOf(r.sheet, h)]
    BY <1>2, OwnType
  <2> QED
    BY <2>1, OwnType DEF Loading, To, Own
<1>4. (\A g \in Hosts : SameHost(g)) /\ groups' = groups
  BY QuietSame, TablesStay DEF NextHost
<1>5. /\ \A g \in r.left : NotYet(t, g)'
      /\ \A g \in r.hosts \ r.left : Applied(r.sheet, g)'
  BY <1>1, <1>3, <1>4, SameNotYet, OwnType
<1>6. NotYet(t, h)' /\ (h \in r.existing => Ids(h)' # {} /\ MembersOf(h)' = OldOf(t, h))
  BY <1>3, <1>5 DEF NotYet
<1>7. Listed(t)' /\ HostsOK(t)'
  <2>1. t.step \in {"group", "add"}
    BY <1>3
  <2> QED
    BY <1>1, <1>3, <1>4, <1>5, <2>1 DEF Listed, HostsOK, HostSteps, Connecting
<1>8. HostOK(t)'
  <2>1. CASE h \in r.existing
    <3>1. t.step = "group" /\ Waiting(t) = GroupsOf(r.sheet, h)
      BY <1>3, <2>1 DEF Waiting
    <3> QED
      BY <1>3, <1>6, <2>1, <3>1 DEF HostOK, Waiting
  <2>2. CASE h \notin r.existing
    BY <1>3, <1>6, <2>2 DEF HostOK
  <2> QED
    BY <2>1, <2>2
<1>9. t.step # "raised" /\ InterfacesOK(t)'
  BY <1>3 DEF InterfacesOK, Connecting
<1> QED
  BY <1>7, <1>8, <1>9 DEF WorkOK

(* The checks of add host, by a load nobody disturbed. *)
LEMMA AddHostWork ==
    ASSUME BInv, NEW l \in Loaders, NEW r, NEW t, Own(l, r, t), AddHost(l)
    PROVE  WorkOK(t)'
<1> DEFINE h == r.host
<1>1. r.step = "add" /\ h \notin r.existing /\ NotYet(r, h) /\ h \in Names(r.sheet)
  BY OwnType DEF AddHost, At, Own, WorkOK, HostOK, JobOK, HostSteps
<1>2. h \notin NodeNames
  BY <1>1, IdsType DEF NotYet, BInv
<1>3. CASE Raise(l) /\ PlaceOf(r.sheet, h) = None
  <2>1. Reason(r)
    BY <1>1, <1>3 DEF Reason
  <2> QED
    BY <1>3, <2>1, RaiseWork
<1>4. CASE UNCHANGED tables /\ Do(l, To(l, "insert"))
  <2>1. /\ t.step = "insert" /\ t.sheet = r.sheet /\ t.hosts = r.hosts /\ t.left = r.left
        /\ t.host = r.host /\ t.todo = r.todo /\ t.item = r.item
        /\ t.existing = r.existing /\ t.known = r.known /\ t.old = r.old
    BY <1>4, OwnType DEF Loading, To, Own
  <2>2. (\A g \in Hosts : SameHost(g)) /\ groups' = groups
    BY <1>4, QuietSame, TablesStay
  <2>3. /\ \A g \in r.left \cup {h} : NotYet(t, g)' <=> NotYet(r, g)
        /\ \A g \in r.hosts : Applied(r.sheet, g)' <=> Applied(r.sheet, g)
    BY <1>1, <2>1, <2>2, SameNotYet, OwnType
  <2>4. Listed(t)'
    BY <1>1, <2>1, <2>2, OwnType DEF WorkOK, Listed, HostSteps
  <2>5. HostsOK(t)' /\ HostOK(t)'
    BY <1>1, <2>1, <2>3, OwnType DEF WorkOK, HostsOK, HostOK, HostSteps, Connecting
  <2> QED
    BY <2>1, <2>4, <2>5 DEF WorkOK, InterfacesOK, Connecting
<1> QED
  BY <1>2, <1>3, <1>4 DEF AddHost, Own

(* Another step for the same host, which leaves the other hosts alone. *)
SameJob(r, t) ==
    /\ t.sheet = r.sheet /\ t.hosts = r.hosts /\ t.left = r.left /\ t.host = r.host
    /\ t.existing = r.existing /\ t.old = r.old

LEMMA HostStepWork ==
    ASSUME BInv, NEW l \in Loaders, NEW r, NEW t, Own(l, r, t), SameJob(r, t),
           r.step \in HostSteps, t.step \in HostSteps, \A g \in Hosts \ {r.host} : SameHost(g),
           groups' \cap AllGroups(r.sheet) = t.known \cap AllGroups(r.sheet), HostOK(t)'
    PROVE  WorkOK(t)'
<1>1. /\ \A g \in r.left : NotYet(r, g)
      /\ \A g \in r.hosts \ (r.left \cup {r.host}) : Applied(r.sheet, g)
      /\ r.host \in r.hosts \ r.left
  BY OwnType DEF WorkOK, HostsOK, JobOK
<1>2. /\ \A g \in r.left : NotYet(t, g)'
      /\ \A g \in r.hosts \ (r.left \cup {r.host}) : Applied(r.sheet, g)'
  BY <1>1, SameNotYet, OwnType DEF SameJob
<1>3. HostsOK(t)'
  BY <1>2 DEF HostsOK, SameJob, HostSteps, Connecting
<1>4. Listed(t)'
  BY DEF Listed, SameJob, HostSteps
<1>5. InterfacesOK(t)' /\ t.step # "raised"
  BY DEF InterfacesOK, HostSteps, Connecting
<1> QED
  BY <1>3, <1>4, <1>5 DEF WorkOK

(* What is known of the host in work. *)
LEMMA HostFacts ==
    ASSUME BInv, NEW l \in Loaders, NEW r, NEW t, Own(l, r, t), r.step \in HostSteps
    PROVE  /\ groups \cap AllGroups(r.sheet) = r.known \cap AllGroups(r.sheet)
           /\ HostOK(r) /\ r.host \in Names(r.sheet) /\ r.host \in Hosts
           /\ GroupsOf(r.sheet, r.host) \subseteq AllGroups(r.sheet)
<1>1. r.host \in Names(r.sheet) /\ r.host \in Hosts
  BY OwnType DEF JobOK
<1>2. GroupsOf(r.sheet, r.host) \subseteq AllGroups(r.sheet)
  BY <1>1 DEF AllGroups
<1> QED
  BY <1>1, <1>2, OwnType DEF WorkOK, Listed

(* The insert of add host, by a load nobody disturbed. *)
LEMMA InsertHostWork ==
    ASSUME BInv, NEW l \in Loaders, NEW r, NEW t, Own(l, r, t), InsertHost(l)
    PROVE  WorkOK(t)'
<1>1. PICK h : h = r.host
  OBVIOUS
<1>2. r.step = "insert" /\ h \notin r.existing /\ NotYet(r, h) /\ r.todo = GroupsOf(r.sheet, h)
  BY <1>1, OwnType DEF InsertHost, At, Own, WorkOK, HostOK
<1>3. /\ t.step = "group" /\ t.todo = r.todo /\ t.known = r.known /\ SameJob(r, t)
  BY OwnType DEF InsertHost, Loading, To, Own, SameJob
<1> DEFINE s == r.sheet
           n == [id |-> serial, name |-> h, appliance |-> Value(Given(s, h, "appliance")),
                 place |-> PlaceOf(s, h)]
<1>4. /\ Only(h) /\ groups' = groups /\ NodesOf(h)' = NodesOf(h) \cup {n}
      /\ Ids(h)' = Ids(h) \cup {serial} /\ MembersOf(h)' = MembersOf(h)
  BY <1>1, InsertEffect DEF Own
<1>5. /\ Ids(h) = {} /\ NodesOf(h) = {} /\ MembersOf(h) = OldOf(r, h)
  BY <1>2, IdsType DEF NotYet, BInv
<1>6. GivenTo(s, h, Fields)'
  <2>1. NodesOf(h)' = {n}
    BY <1>4, <1>5
  <2>2. /\ n["appliance"] = Value(Given(s, h, "appliance"))
        /\ n["place"] = PlaceOf(s, h)
    OBVIOUS
  <2>3. ~ Malformed(s) /\ h \in Names(s)
    BY <1>1, <1>2, OwnType, HostFacts DEF JobOK, Running, Applying, HostSteps
  <2>4. \A f \in Fields : Given(s, h, f) # {} => Given(s, h, f) = {Value(Given(s, h, f))}
    BY <2>3, OwnType, GivenOnce
  <2> HIDE DEF n
  <2>5. \A f \in Fields : Given(s, h, f) \subseteq {n[f]}
    BY <2>2, <2>4 DEF PlaceOf, Fields
  <2> QED
    BY <2>1, <2>5 DEF GivenTo
<1>7. Waiting(t) = GroupsOf(s, h) /\ OldOf(t, h) = OldOf(r, h)
  BY <1>2, <1>3 DEF Waiting, OldOf, SameJob
<1> HIDE DEF n
<1>8. HostOK(t)'
  BY <1>1, <1>3, <1>4, <1>5, <1>6, <1>7 DEF HostOK, SameJob
<1>9. r.step \in HostSteps /\ t.step \in HostSteps
  BY <1>2, <1>3 DEF HostSteps
<1> QED
  BY <1>1, <1>3, <1>4, <1>8, <1>9, HostStepWork, HostFacts, OnlySame

(* Add group, by a load nobody disturbed. *)
LEMMA AddGroupWork ==
    ASSUME BInv, NEW l \in Loaders, NEW r, NEW t, Own(l, r, t), AddGroup(l)
    PROVE  WorkOK(t)'
<1>1. PICK h : h = r.host
  OBVIOUS
<1> DEFINE s == r.sheet
<1>2. /\ r.step = "group" /\ r.step \in HostSteps
  BY DEF AddGroup, At, Own, HostSteps
<1>3. /\ Ids(h) # {} /\ (h \notin r.existing => GivenTo(s, h, Fields))
      /\ MembersOf(h) = OldOf(r, h) \cup (GroupsOf(s, h) \ r.todo)
      /\ r.todo \subseteq GroupsOf(s, h) /\ GroupsOf(s, h) \subseteq AllGroups(s)
      /\ groups \cap AllGroups(s) = r.known \cap AllGroups(s)
  BY <1>1, <1>2, HostFacts, OwnType DEF HostOK, Waiting, JobOK, GroupSteps, HostSteps
<1>4. PICK g \in r.todo :
          /\ groups' = groups \cup ({g} \ r.known)
          /\ Do(l, [To(l, "join") EXCEPT !.known = @ \cup {g}, !.todo = @ \ {g}, !.item = g])
  BY <1>3, AddGroupEffect DEF Own
<1>5. /\ t.step = "join" /\ t.todo = r.todo \ {g} /\ t.item = g /\ t.known = r.known \cup {g}
      /\ SameJob(r, t)
  <2>1. t = [To(l, "join") EXCEPT !.known = @ \cup {g}, !.todo = @ \ {g}, !.item = g]
    BY <1>4, OwnType
  <2> QED
    BY <2>1, OwnType DEF Loading, To, Own, SameJob
<1>6. Quiet
  BY AddGroupEffect, QuietIfRaised
<1>7. \A k \in Hosts : SameHost(k)
  BY <1>6, QuietSame
<1>8. groups' \cap AllGroups(s) = t.known \cap AllGroups(s) /\ g \in groups'
  BY <1>3, <1>4, <1>5
<1>9. HostOK(t)'
  <2>1. Waiting(t) = r.todo /\ OldOf(t, h) = OldOf(r, h) /\ h \in Hosts
    BY <1>1, <1>2, <1>5, HostFacts DEF Waiting, OldOf, SameJob
  <2>2. Ids(h)' = Ids(h) /\ MembersOf(h)' = MembersOf(h) /\ (GivenTo(s, h, Fields)' <=> GivenTo(s, h, Fields))
    BY <1>7, <2>1, SameHostKeeps DEF SameHost
  <2> QED
    BY <1>1, <1>3, <1>5, <1>8, <2>1, <2>2 DEF HostOK, SameJob
<1>10. t.step \in HostSteps
  BY <1>5 DEF HostSteps
<1> QED
  BY <1>2, <1>5, <1>7, <1>8, <1>9, <1>10, HostStepWork

(* The checks of add host group, by a load nobody disturbed. *)
LEMMA JoinWork ==
    ASSUME BInv, NEW l \in Loaders, NEW r, NEW t, Own(l, r, t), Join(l)
    PROVE  WorkOK(t)'
<1>1. PICK h, g : h = r.host /\ g = r.item
  OBVIOUS
<1> DEFINE s == r.sheet
<1>2. /\ r.step = "join" /\ r.step \in HostSteps
  BY DEF Join, At, Own, HostSteps
<1>3. /\ Ids(h) # {} /\ (h \notin r.existing => GivenTo(s, h, Fields))
      /\ MembersOf(h) = OldOf(r, h) \cup (GroupsOf(s, h) \ (r.todo \cup {g}))
      /\ g \in GroupsOf(s, h) /\ g \in groups /\ h \in Names(s) /\ h \in Hosts
      /\ groups \cap AllGroups(s) = r.known \cap AllGroups(s)
  BY <1>1, <1>2, HostFacts, OwnType DEF HostOK, Waiting, JobOK
<1>4. CASE Raise(l) /\ (\/ Cardinality(Ids(h)) # 1 \/ g \notin groups
                        \/ \E k \in MembersOf(h) : <<g, k>> \in Within)
  <2>1. CASE Cardinality(Ids(h)) # 1
    <3>1. Ambiguous(h)
      BY <1>3, <2>1, OneId DEF BInv
    <3>2. Reason(r)
      BY <1>3, <3>1 DEF Reason
    <3> QED
      BY <1>4, <3>2, RaiseWork
  <2>2. CASE \E k \in MembersOf(h) : <<g, k>> \in Within
    <3>1. \E k \in (GroupsOf(s, h) \ {g}) \cup OldOf(r, h) : <<g, k>> \in Within
      BY <1>3, <2>2
    <3>2. Reason(r)
      BY <1>3, <3>1 DEF Reason
    <3> QED
      BY <1>4, <3>2, RaiseWork
  <2> QED
    BY <1>3, <1>4, <2>1, <2>2
<1>5. CASE UNCHANGED tables /\ Do(l, To(l, "member"))
  <2>1. /\ t.step = "member" /\ t.todo = r.todo /\ t.item = r.item /\ t.known = r.known
        /\ SameJob(r, t)
    BY <1>5, OwnType DEF Loading, To, Own, SameJob
  <2>2. (\A k \in Hosts : SameHost(k)) /\ groups' = groups
    BY <1>5, QuietSame, TablesStay
  <2>3. HostOK(t)'
    <3>1. Waiting(t) = r.todo \cup {g} /\ OldOf(t, h) = OldOf(r, h)
      BY <1>1, <2>1 DEF Waiting, OldOf, SameJob
    <3>2. Ids(h)' = Ids(h) /\ MembersOf(h)' = MembersOf(h)
          /\ (GivenTo(s, h, Fields)' <=> GivenTo(s, h, Fields))
      BY <1>3, <2>2, SameHostKeeps DEF SameHost
    <3> QED
      BY <1>1, <1>3, <2>1, <2>2, <3>1, <3>2 DEF HostOK, SameJob
  <2>4. t.step \in HostSteps
    BY <2>1 DEF HostSteps
  <2> QED
    BY <1>2, <1>3, <2>1, <2>2, <2>3, <2>4, HostStepWork
<1> QED
  BY <1>1, <1>4, <1>5 DEF Join, Own

(* The insert of add host group, by a load nobody disturbed. *)
LEMMA MemberWork ==
    ASSUME BInv, NEW l \in Loaders, NEW r, NEW t, Own(l, r, t), Member(l)
    PROVE  WorkOK(t)'
<1>1. PICK h, g : h = r.host /\ g = r.item
  OBVIOUS
<1> DEFINE s == r.sheet
<1>2. /\ r.step = "member" /\ r.step \in HostSteps
  BY DEF Member, At, Own, HostSteps
<1>3. /\ Ids(h) # {} /\ (h \notin r.existing => GivenTo(s, h, Fields))
      /\ MembersOf(h) = OldOf(r, h) \cup (GroupsOf(s, h) \ (r.todo \cup {g}))
      /\ g \in GroupsOf(s, h) \ r.todo /\ h \in Names(s) /\ h \in Hosts
      /\ groups \cap AllGroups(s) = r.known \cap AllGroups(s)
  BY <1>1, <1>2, HostFacts, OwnType DEF HostOK, Waiting, JobOK
<1>4. CASE Raise(l) /\ Cardinality(Ids(h)) # 1
  <2>1. Ambiguous(h)
    BY <1>3, <1>4, OneId DEF BInv
  <2>2. Reason(r)
    BY <1>3, <2>1 DEF Reason
  <2> QED
    BY <1>4, <2>2, RaiseWork
<1>5. CASE /\ Only(h) /\ Kept(h) /\ groups' = groups
           /\ MembersOf(h)' = MembersOf(h) \cup {g}
           /\ Do(l, [To(l, "group") EXCEPT !.item = None])
  <2>1. /\ t.step = "group" /\ t.todo = r.todo /\ t.known = r.known /\ SameJob(r, t)
    <3>1. t = [To(l, "group") EXCEPT !.item = None]
      BY <1>5, OwnType
    <3> QED
      BY <3>1, OwnType DEF Loading, To, Own, SameJob
  <2>2. \A k \in Hosts \ {h} : SameHost(k)
    BY <1>5, OnlySame
  <2>3. HostOK(t)'
    <3>1. Waiting(t) = r.todo /\ OldOf(t, h) = OldOf(r, h)
      BY <2>1 DEF Waiting, OldOf, SameJob
    <3>2. Ids(h)' = Ids(h) /\ MembersOf(h)' = OldOf(r, h) \cup (GroupsOf(s, h) \ r.todo)
          /\ (GivenTo(s, h, Fields)' <=> GivenTo(s, h, Fields))
      BY <1>3, <1>5 DEF Kept, GivenTo, Given
    <3> QED
      BY <1>1, <1>3, <2>1, <3>1, <3>2 DEF HostOK, SameJob
  <2>4. t.step \in HostSteps
    BY <2>1 DEF HostSteps
  <2> QED
    BY <1>1, <1>2, <1>3, <1>5, <2>1, <2>2, <2>3, <2>4, HostStepWork
<1> QED
  BY <1>1, <1>4, <1>5, MemberEffect DEF Own

(* The last group of a host, by a load nobody disturbed. *)
LEMMA GroupsEndWork ==
    ASSUME BInv, NEW l \in Loaders, NEW r, NEW t, Own(l, r, t), GroupsEnd(l)
    PROVE  WorkOK(t)'
<1>1. PICK h : h = r.host
  OBVIOUS
<1> DEFINE s == r.sheet
           todo == IF h \notin r.existing THEN {} ELSE {f \in Fields : Given(s, h, f) # {}}
<1>2. /\ r.step = "group" /\ r.step \in HostSteps /\ r.todo = {}
  BY DEF GroupsEnd, At, Own, HostSteps
<1>3. /\ Ids(h) # {} /\ (h \notin r.existing => GivenTo(s, h, Fields))
      /\ GroupsOf(s, h) \subseteq MembersOf(h) /\ h \in Hosts
      /\ groups \cap AllGroups(s) = r.known \cap AllGroups(s)
  BY <1>1, <1>2, HostFacts, OwnType DEF HostOK, Waiting
<1>4. UNCHANGED tables /\ t = [To(l, "set") EXCEPT !.todo = todo]
  BY <1>1, OwnType DEF GroupsEnd, Own, Fields
<1> HIDE DEF todo
<1>5. /\ t.step = "set" /\ t.todo = todo /\ t.known = r.known /\ SameJob(r, t)
  BY <1>4, OwnType DEF Loading, To, Own, SameJob
<1>6. (\A k \in Hosts : SameHost(k)) /\ groups' = groups
  BY <1>4, QuietSame, TablesStay
<1>7. GivenTo(s, h, Fields \ todo)
  BY <1>3 DEF GivenTo, todo
<1>8. HostOK(t)'
  <2>1. /\ Ids(h)' = Ids(h) /\ MembersOf(h)' = MembersOf(h)
        /\ (GivenTo(s, h, Fields \ todo)' <=> GivenTo(s, h, Fields \ todo))
    BY <1>3, <1>6, SameHostKeeps DEF SameHost
  <2> QED
    BY <1>1, <1>3, <1>5, <1>7, <2>1 DEF HostOK, SameJob
<1>9. t.step \in HostSteps
  BY <1>5 DEF HostSteps
<1> QED
  BY <1>2, <1>3, <1>5, <1>6, <1>8, <1>9, HostStepWork

(* A set host, by a load nobody disturbed. *)
LEMMA SetHostWork ==
    ASSUME BInv, NEW l \in Loaders, NEW r, NEW t, Own(l, r, t), SetHost(l)
    PROVE  WorkOK(t)'
<1>1. PICK h : h = r.host
  OBVIOUS
<1> DEFINE s == r.sheet
<1>2. /\ r.step = "set" /\ r.step \in HostSteps
  BY DEF SetHost, At, Own, HostSteps
<1>3. /\ Ids(h) # {} /\ GroupsOf(s, h) \subseteq MembersOf(h) /\ GivenTo(s, h, Fields \ r.todo)
      /\ h \in Hosts /\ h \in Names(s) /\ (\A f \in r.todo : Given(s, h, f) # {})
      /\ groups \cap AllGroups(s) = r.known \cap AllGroups(s) /\ ~ Malformed(s)
  BY <1>1, <1>2, HostFacts, OwnType DEF HostOK, JobOK, Running, Applying
<1>4. h \in NodeNames
  BY <1>3, IdsType DEF BInv
<1>5. PICK f \in r.todo :
          /\ f \in Fields /\ Only(h) /\ groups' = groups
          /\ NodesOf(h)' = {[n EXCEPT ![f] = Value(Given(s, h, f))] : n \in NodesOf(h)}
          /\ Ids(h)' = Ids(h) /\ MembersOf(h)' = MembersOf(h)
          /\ Do(l, [load[l] EXCEPT !.todo = @ \ {f}])
  BY <1>1, <1>4, SetHostEffect DEF Own
<1>6. /\ t.step = "set" /\ t.todo = r.todo \ {f} /\ t.known = r.known /\ SameJob(r, t)
  <2>1. t = [load[l] EXCEPT !.todo = @ \ {f}]
    BY <1>5, OwnType
  <2> QED
    BY <1>2, <2>1, OwnType DEF Loading, Own, SameJob
<1>7. GivenTo(s, h, Fields \ t.todo)'
  <2>1. PICK v : v = Value(Given(s, h, f))
    OBVIOUS
  <2>2. Given(s, h, f) = {v}
    BY <1>3, <1>5, <2>1, GivenOnce, OwnType
  <2>3. ASSUME NEW n \in NodesOf(h), NEW k \in Fields \ t.todo
        PROVE  Given(s, h, k) \subseteq {[n EXCEPT ![f] = v][k]}
    <3>1. n \in NodeRow
      BY DEF NodesOf, BInv, TablesOK
    <3>2. CASE k = f
      <4>1. [n EXCEPT ![f] = v][f] = v
        BY <1>5, <3>1 DEF NodeRow, Fields
      <4> QED
        BY <2>2, <3>2, <4>1
    <3>3. CASE k # f
      <4>1. [n EXCEPT ![f] = v][k] = n[k]
        BY <1>5, <3>1, <3>3 DEF NodeRow, Fields
      <4>2. k \in Fields \ r.todo
        BY <1>6, <3>3
      <4> QED
        BY <1>3, <4>1, <4>2 DEF GivenTo
    <3> QED
      BY <3>2, <3>3
  <2>4. NodesOf(h)' = {[n EXCEPT ![f] = v] : n \in NodesOf(h)}
    BY <1>5, <2>1
  <2> QED
    BY <2>3, <2>4 DEF GivenTo
<1>8. HostOK(t)'
  BY <1>1, <1>3, <1>5, <1>6, <1>7 DEF HostOK, SameJob
<1>9. t.step \in HostSteps
  BY <1>6 DEF HostSteps
<1> QED
  BY <1>1, <1>2, <1>3, <1>5, <1>6, <1>8, <1>9, HostStepWork, OnlySame

(* The last column of a host, by a load nobody disturbed. *)
LEMMA HostEndsWork ==
    ASSUME BInv, NEW l \in Loaders, NEW r, NEW t, Own(l, r, t), HostEnds(l)
    PROVE  WorkOK(t)'
<1>1. PICK h : h = r.host
  OBVIOUS
<1> DEFINE s == r.sheet
<1>2. /\ r.step = "set" /\ r.step \in HostSteps /\ r.todo = {}
  BY DEF HostEnds, At, Own, HostSteps
<1>3. /\ Ids(h) # {} /\ GroupsOf(s, h) \subseteq MembersOf(h) /\ GivenTo(s, h, Fields)
      /\ groups \cap AllGroups(s) = r.known \cap AllGroups(s)
  BY <1>1, <1>2, HostFacts DEF HostOK
<1>4. Applied(s, h)
  BY <1>3 DEF Applied
<1>5. /\ \A g \in r.left : NotYet(r, g)
      /\ \A g \in r.hosts \ (r.left \cup {h}) : Applied(s, g)
  BY <1>1, <1>2, OwnType DEF WorkOK, HostsOK
<1>6. UNCHANGED tables /\ t = [To(l, "host") EXCEPT !.host = None]
  BY OwnType DEF HostEnds
<1>7. /\ t.step = "host" /\ t.sheet = s /\ t.hosts = r.hosts /\ t.left = r.left
      /\ t.known = r.known /\ t.existing = r.existing /\ t.old = r.old
  BY <1>6, OwnType DEF Loading, To, Own
<1>8. (\A k \in Hosts : SameHost(k)) /\ groups' = groups
  BY <1>6, QuietSame, TablesStay
<1>9. /\ \A g \in r.left : NotYet(t, g)'
      /\ \A g \in r.hosts \ r.left : Applied(s, g)'
  BY <1>4, <1>5, <1>7, <1>8, SameNotYet, OwnType
<1>10. Listed(t)' /\ HostsOK(t)'
  BY <1>3, <1>7, <1>8, <1>9 DEF Listed, HostsOK, HostSteps, Connecting
<1> QED
  BY <1>7, <1>10 DEF WorkOK, HostOK, InterfacesOK, Connecting

-----------------------------------------------------------------------------
(* The interfaces. *)

Late == {"clear", "wipe", "done"} \cup Connecting

(* From the removal of interfaces on, all hosts have their rows and groups. *)
LEMMA LateWork ==
    ASSUME NEW t, t.step \in Late, \A h \in t.hosts : Applied(t.sheet, h)', InterfacesOK(t)'
    PROVE  WorkOK(t)'
BY DEF WorkOK, Listed, HostOK, HostsOK, HostSteps, Late, Connecting

(* From the first line on no row and no group of a host changes.            *)
LEMMA AppliedStays ==
    ASSUME BInv, NEW l \in Loaders, NEW r, NEW t, Own(l, r, t), r.step \in Late,
           t.sheet = r.sheet, t.hosts = r.hosts, NEW h, Only(h), Kept(h), MembersOf(h)' = MembersOf(h)
    PROVE  \A g \in t.hosts : Applied(t.sheet, g)'
<1>1. \A g \in r.hosts : Applied(r.sheet, g) /\ g \in Hosts
  BY OwnType DEF WorkOK, HostsOK, Late
<1>2. \A g \in Hosts : Ids(g)' = Ids(g) /\ NodesOf(g)' = NodesOf(g) /\ MembersOf(g)' = MembersOf(g)
  BY DEF Only, Kept
<1> QED
  BY <1>1, <1>2 DEF Applied, GivenTo, Given, GroupsOf

(* And none where no table changes. *)
LEMMA AppliedQuiet ==
    ASSUME BInv, NEW l \in Loaders, NEW r, NEW t, Own(l, r, t), r.step \in Late,
           t.sheet = r.sheet, t.hosts = r.hosts, UNCHANGED tables
    PROVE  \A g \in t.hosts : Applied(t.sheet, g)'
BY QuietSame, SameHostKeeps, OwnType DEF WorkOK, HostsOK, Late

(* A host of the spreadsheet that is not ours is a reason to fail, and one   *)
(* that is ours has an interface.                                            *)
LEMMA HostsCabled ==
    ASSUME NEW r, JobOK(r), r.sheet \in Seq(Lists), r.step \in Checked
    PROVE  /\ r.hosts \subseteq Cabled(r.sheet)
           /\ (\A h \in Names(r.sheet) \ r.hosts : Reason(r))
           /\ (Names(r.sheet) = {} => Reason(r))
<1>1. r.hosts \subseteq Cabled(r.sheet)
  BY DEF JobOK, Inconsistent, Cabled
<1>2. \A h \in Names(r.sheet) \ r.hosts : Reason(r)
  BY DEF JobOK, Reason
<1>3. Names(r.sheet) = {} => Reason(r)
  <2>1. Names(r.sheet) = {} => DOMAIN r.sheet = {}
    BY DEF Names
  <2>2. DOMAIN r.sheet = {} => r.sheet = <<>>
    <3>1. PICK s \in Seq(Lists) : s = r.sheet
      OBVIOUS
    <3>2. DOMAIN s = {} => Len(s) = 0
      <4>1. DOMAIN s = 1 .. Len(s) /\ Len(s) \in Nat
        OBVIOUS
      <4> QED
        BY <4>1
    <3>3. Len(s) = 0 => s = <<>>
      OBVIOUS
    <3> QED
      BY <3>1, <3>2, <3>3
  <2> QED
    BY <2>1, <2>2 DEF Reason
<1> QED
  BY <1>1, <1>2, <1>3

(* The last host, by a load nobody disturbed. *)
LEMMA HostsEndWork ==
    ASSUME BInv, NEW l \in Loaders, NEW r, NEW t, Own(l, r, t), HostsEnd(l)
    PROVE  WorkOK(t)'
<1> DEFINE s == r.sheet
<1>1. r.step = "host" /\ r.left = {} /\ \A h \in r.hosts : Applied(s, h)
  BY OwnType DEF HostsEnd, At, Own, WorkOK, HostsOK
<1>2. UNCHANGED tables /\ t = [To(l, "clear") EXCEPT !.left = Cabled(s)]
  BY OwnType DEF HostsEnd, Own
<1>3. t.step = "clear" /\ t.sheet = s /\ t.hosts = r.hosts
  BY <1>2, OwnType DEF Loading, To, Own
<1>4. \A h \in t.hosts : Applied(s, h)'
  BY <1>1, <1>2, <1>3, QuietSame, SameHostKeeps, OwnType
<1> QED
  BY <1>3, <1>4, LateWork DEF InterfacesOK, Late, Connecting

(* Looking up the hosts with interfaces, by a load nobody disturbed. *)
LEMMA ClearWork ==
    ASSUME BInv, NEW l \in Loaders, NEW r, NEW t, Own(l, r, t), Clear(l)
    PROVE  WorkOK(t)'
<1> DEFINE s == r.sheet
<1>1. /\ r.step = "clear" /\ r.left = Cabled(s) /\ r.step \in Checked /\ r.step \in Late
      /\ \A h \in r.hosts : Applied(s, h)
  BY OwnType DEF Clear, At, Own, WorkOK, HostsOK, JobOK, Checked, Running, Applying, Late
<1>2. CASE Raise(l) /\ ~ (r.left \subseteq NodeNames)
  <2>1. PICK h \in r.left : h \notin NodeNames
    BY <1>2
  <2>2. h \notin r.hosts /\ h \in Names(s)
    BY <1>1, <2>1, IdsType, OwnType DEF Applied, BInv
  <2>3. Reason(r)
    BY <1>1, <2>2, HostsCabled, OwnType
  <2> QED
    BY <1>2, <2>3, RaiseWork
<1>3. CASE UNCHANGED tables /\ Do(l, To(l, "wipe"))
  <2>1. t.step = "wipe" /\ t.sheet = s /\ t.hosts = r.hosts /\ t.left = r.left
    BY <1>3, OwnType DEF Loading, To, Own
  <2>2. \A h \in t.hosts : Applied(t.sheet, h)'
    BY <1>1, <1>3, <2>1, AppliedQuiet
  <2>3. InterfacesOK(t)'
    BY <1>1, <2>1 DEF InterfacesOK, Connecting
  <2> QED
    BY <2>1, <2>2, <2>3, LateWork DEF Late
<1> QED
  BY <1>2, <1>3 DEF Clear, Own

(* Removing the interfaces of a host, by a load nobody disturbed. *)
LEMMA WipeWork ==
    ASSUME BInv, NEW l \in Loaders, NEW r, NEW t, Own(l, r, t), Wipe(l)
    PROVE  WorkOK(t)'
<1> DEFINE s == r.sheet
<1>1. /\ r.step = "wipe" /\ r.step \in Late
      /\ \A h \in Cabled(s) \ r.left : RowsOf(h) = {} /\ ~ Ambiguous(h)
  BY OwnType DEF Wipe, At, Own, WorkOK, InterfacesOK, Late
<1>2. PICK h \in r.left :
          \/ Raise(l) /\ Ambiguous(h)
          \/ /\ Only(h) /\ Kept(h) /\ ~ Ambiguous(h)
             /\ RowsOf(h)' = {} /\ MembersOf(h)' = MembersOf(h)
             /\ Do(l, [load[l] EXCEPT !.left = @ \ {h}])
  BY WipeEffect DEF Own
<1>3. CASE Raise(l) /\ Ambiguous(h)
  <2>1. Reason(r)
    BY <1>3, OwnType DEF Reason
  <2> QED
    BY <1>3, <2>1, RaiseWork
<1>4. CASE /\ Only(h) /\ Kept(h) /\ ~ Ambiguous(h)
           /\ RowsOf(h)' = {} /\ MembersOf(h)' = MembersOf(h)
           /\ Do(l, [load[l] EXCEPT !.left = @ \ {h}])
  <2>1. t = [load[l] EXCEPT !.left = @ \ {h}]
    BY <1>4, OwnType
  <2>2. t.step = "wipe" /\ t.sheet = s /\ t.hosts = r.hosts /\ t.left = r.left \ {h}
    BY <1>1, <2>1, OwnType DEF Loading, Own
  <2>3. \A g \in t.hosts : Applied(t.sheet, g)'
    BY <1>1, <1>4, <2>2, AppliedStays
  <2>4. ~ Ambiguous(h)'
    BY <1>4 DEF Ambiguous, Kept
  <2>5. \A g \in Cabled(s) \ r.left : RowsOf(g)' = {} /\ ~ Ambiguous(g)'
    BY <1>1, <1>4, OnlySame, SameHostKeeps, OwnType DEF SameHost
  <2>6. InterfacesOK(t)'
    BY <1>4, <2>2, <2>4, <2>5 DEF InterfacesOK, Connecting
  <2> QED
    BY <2>2, <2>3, <2>6, LateWork DEF Late
<1> QED
  BY <1>2, <1>3, <1>4

(* Removing the last interfaces, by a load nobody disturbed. *)
LEMMA WipeEndsWork ==
    ASSUME BInv, NEW l \in Loaders, NEW r, NEW t, Own(l, r, t), WipeEnds(l)
    PROVE  WorkOK(t)'
<1> DEFINE s == r.sheet
<1>1. /\ r.step = "wipe" /\ r.step \in Late /\ r.left = {} /\ r.step \in Checked
      /\ \A h \in Cabled(s) : RowsOf(h) = {} /\ ~ Ambiguous(h)
  BY OwnType DEF WipeEnds, At, Own, WorkOK, InterfacesOK, Late, Checked, Running, Applying
<1>2. UNCHANGED tables /\ t = [To(l, "devices") EXCEPT !.left = Cabled(s)]
  BY OwnType DEF WipeEnds, Own
<1>3. t.step = "devices" /\ t.sheet = s /\ t.hosts = r.hosts /\ t.left = Cabled(s)
  BY <1>2, OwnType DEF Loading, To, Own
<1>4. \A h \in t.hosts : Applied(t.sheet, h)'
  BY <1>1, <1>2, <1>3, AppliedQuiet
<1>5. ASSUME NEW h \in t.hosts PROVE ~ Ambiguous(h)' /\ RowsGiven(t, h)'
  <2>1. h \in Cabled(s) /\ h \in Hosts
    BY <1>1, <1>3, HostsCabled, OwnType
  <2>2. SameHost(h)
    BY <1>2, <2>1, QuietSame
  <2>3. Awaited(t, h) = Lines(s, h) /\ Begun(t, h) = {}
    BY <1>3, <2>1 DEF Awaited, Begun, LineSteps
  <2>4. RowsGiven(t, h) /\ ~ Ambiguous(h)
    BY <1>1, <1>3, <2>1, <2>3 DEF RowsGiven
  <2> QED
    BY <2>2, <2>4, SameHostKeeps, SameRowsGiven
<1>6. InterfacesOK(t)'
  BY <1>3, <1>5 DEF InterfacesOK
<1> QED
  BY <1>3, <1>4, <1>6, LateWork DEF Late, Connecting

(* What the checks say of the lines of a host. *)
LEMMA LinesChecked ==
    ASSUME NEW s \in Seq(Lists), NEW hs, hs \subseteq Names(s), ~ Malformed(s),
           ~ Inconsistent(s, hs), NEW h \in hs
    PROVE  /\ \A i, j \in Lines(s, h) : i # j => s[i].device # s[j].device
           /\ \A i, j \in Lines(s, h) : IsDefault(s, i) /\ IsDefault(s, j) => i = j
           /\ \E i \in Lines(s, h) : IsDefault(s, i)
<1> DEFINE L == Lines(s, h)
           D == {i \in L : s[i].default}
<1>1. \A i, j \in L : i # j => s[i].device # s[j].device
  BY DEF Malformed
<1>2. /\ L # {} /\ (Cardinality(L) > 1 => Cardinality(D) = 1)
      /\ \A i \in L : s[i].host = h
  BY DEF Inconsistent, Lines
<1>3. IsFiniteSet(L) /\ IsFiniteSet(D)
  <2>1. DOMAIN s = 1 .. Len(s) /\ Len(s) \in Nat
    OBVIOUS
  <2>2. IsFiniteSet(DOMAIN s)
    BY <2>1, FS_Interval
  <2> QED
    BY <2>2, FS_Subset DEF Lines
<1>4. \A i \in L : IsDefault(s, i) <=> s[i].default \/ L = {i}
  BY <1>2 DEF IsDefault
<1> HIDE DEF L, D
<1>5. Cardinality(L) \in Nat /\ Cardinality(L) # 0
      /\ (Cardinality(L) = 1 <=> \E x : L = {x})
      /\ (Cardinality(D) = 1 <=> \E x : D = {x})
  BY <1>2, <1>3, FS_CardinalityType, FS_EmptySet, FS_Singleton
<1>6. (\E x : L = {x}) \/ (\E x : D = {x})
  <2>1. Cardinality(L) = 1 \/ Cardinality(L) > 1
    BY <1>5
  <2> QED
    BY <1>2, <1>5, <2>1
<1>7. ASSUME NEW i \in L, NEW j \in L, IsDefault(s, i), IsDefault(s, j) PROVE i = j
  BY <1>4, <1>6, <1>7 DEF D
<1>8. \E i \in L : IsDefault(s, i)
  BY <1>4, <1>6 DEF D
<1> QED
  BY <1>1, <1>7, <1>8 DEF L

(* What is known while interfaces are added. *)
LEMMA ConnectFacts ==
    ASSUME BInv, NEW l \in Loaders, NEW r, NEW t, Own(l, r, t), r.step \in Connecting \cup {"done"}
    PROVE  /\ ~ Malformed(r.sheet) /\ ~ Inconsistent(r.sheet, r.hosts) /\ r.step \in Checked
           /\ r.step \in Late
           /\ \A h \in r.hosts : /\ ~ Ambiguous(h) /\ RowsGiven(r, h) /\ Applied(r.sheet, h)
                                 /\ Ids(h) # {} /\ Cardinality(Ids(h)) = 1 /\ h \in NodeNames
                                 /\ h \in Hosts
           /\ \A h \in Names(r.sheet) \ r.hosts : Reason(r)
<1>1. r.step \in Checked /\ r.step \in Late
  BY DEF Checked, Late, Running, Connecting
<1>2. /\ ~ Malformed(r.sheet) /\ ~ Inconsistent(r.sheet, r.hosts)
  BY <1>1, OwnType DEF JobOK, Running
<1>3. \A h \in r.hosts : ~ Ambiguous(h) /\ RowsGiven(r, h) /\ Applied(r.sheet, h) /\ h \in Hosts
  BY <1>1, OwnType DEF WorkOK, InterfacesOK, HostsOK, Late
<1>4. \A h \in r.hosts : Ids(h) # {} /\ Cardinality(Ids(h)) = 1 /\ h \in NodeNames
  BY <1>3, OneId, IdsType DEF Applied, BInv
<1> QED
  BY <1>1, <1>2, <1>3, <1>4, HostsCabled, OwnType

(* A step that leaves what is awaited and begun of a host. *)
LEMMA SameAwaited ==
    ASSUME NEW r, NEW t, t.sheet = r.sheet, NEW h, SameHost(h), Awaited(t, h) = Awaited(r, h),
           Begun(t, h) = {}, Begun(r, h) = {}, RowsGiven(r, h), ~ Ambiguous(h)
    PROVE  RowsGiven(t, h)' /\ ~ Ambiguous(h)'
<1>1. RowsGiven(t, h)
  BY DEF RowsGiven
<1> QED
  BY <1>1, SameRowsGiven, SameHostKeeps

(* Taking the next host with interfaces, by a load nobody disturbed. *)
LEMMA NextInterfacesWork ==
    ASSUME BInv, NEW l \in Loaders, NEW r, NEW t, Own(l, r, t), NextInterfaces(l)
    PROVE  WorkOK(t)'
<1> DEFINE s == r.sheet
<1>1. r.step = "devices" /\ r.todo = {} /\ r.step \in Connecting
  BY DEF NextInterfaces, At, Own, Connecting
<1>2. UNCHANGED tables
  BY DEF NextInterfaces
<1>3. PICK h \in r.left :
          Do(l, [load[l] EXCEPT !.left = @ \ {h}, !.host = h, !.todo = Lines(s, h)])
  BY DEF NextInterfaces, Own
<1>4. /\ t.step = "devices" /\ t.sheet = s /\ t.hosts = r.hosts /\ t.left = r.left \ {h}
      /\ t.host = h /\ t.todo = Lines(s, h)
  <2>1. t = [load[l] EXCEPT !.left = @ \ {h}, !.host = h, !.todo = Lines(s, h)]
    BY <1>3, OwnType
  <2> QED
    BY <1>1, <2>1, OwnType DEF Loading, Own
<1>5. \A g \in t.hosts : Applied(t.sheet, g)'
  BY <1>1, <1>2, <1>4, AppliedQuiet, ConnectFacts
<1>6. ASSUME NEW g \in t.hosts PROVE ~ Ambiguous(g)' /\ RowsGiven(t, g)'
  <2>1. Begun(t, g) = {} /\ Begun(r, g) = {}
    BY <1>1, <1>4 DEF Begun, LineSteps
  <2>2. Awaited(t, g) = Awaited(r, g)
    BY <1>1, <1>4 DEF Awaited, LineSteps
  <2> QED
    BY <1>1, <1>2, <1>4, <2>1, <2>2, SameAwaited, QuietSame, ConnectFacts
<1>7. InterfacesOK(t)' /\ t.step \in Late
  BY <1>4, <1>6 DEF InterfacesOK, Late, Connecting
<1> QED
  BY <1>5, <1>7, LateWork

(* The checks of add host interface, by a load nobody disturbed. *)
LEMMA AddInterfaceWork ==
    ASSUME BInv, NEW l \in Loaders, NEW r, NEW t, Own(l, r, t), AddInterface(l)
    PROVE  WorkOK(t)'
<1> DEFINE s == r.sheet
<1>1. r.step = "devices" /\ r.step \in Connecting
  BY DEF AddInterface, At, Own, Connecting
<1>2. PICK i \in r.todo :
          IF Cardinality(Ids(r.host)) # 1 THEN Raise(l)
          ELSE /\ Do(l, [To(l, "put") EXCEPT !.todo = @ \ {i}, !.item = i])
               /\ UNCHANGED tables
  BY DEF AddInterface, Own
<1>3. r.host \in Cabled(s) \ r.left /\ r.host \in Names(s)
  BY <1>1, <1>2, OwnType DEF JobOK
<1>4. CASE Cardinality(Ids(r.host)) # 1
  <2>1. Reason(r)
    BY <1>1, <1>3, <1>4, ConnectFacts
  <2> QED
    BY <1>2, <1>4, <2>1, RaiseWork
<1>5. CASE Cardinality(Ids(r.host)) = 1
  <2>1. UNCHANGED tables /\ t = [To(l, "put") EXCEPT !.todo = @ \ {i}, !.item = i]
    BY <1>2, <1>5, OwnType
  <2>2. /\ t.step = "put" /\ t.sheet = s /\ t.hosts = r.hosts /\ t.left = r.left
        /\ t.host = r.host /\ t.todo = r.todo \ {i} /\ t.item = i
    BY <2>1, OwnType DEF Loading, To, Own
  <2>3. \A g \in t.hosts : Applied(t.sheet, g)'
    BY <1>1, <2>1, <2>2, AppliedQuiet, ConnectFacts
  <2>4. ASSUME NEW g \in t.hosts PROVE ~ Ambiguous(g)' /\ RowsGiven(t, g)'
    <3>1. Begun(t, g) = {} /\ Begun(r, g) = {}
      BY <1>1, <2>2 DEF Begun, LineSteps
    <3>2. Awaited(t, g) = Awaited(r, g)
      BY <1>1, <2>2 DEF Awaited, LineSteps
    <3> QED
      BY <1>1, <2>1, <2>2, <3>1, <3>2, SameAwaited, QuietSame, ConnectFacts
  <2>5. InterfacesOK(t)' /\ t.step \in Late
    BY <2>2, <2>4 DEF InterfacesOK, Late, Connecting
  <2> QED
    BY <2>3, <2>5, LateWork
<1> QED
  BY <1>4, <1>5

(* The last interface, by a load nobody disturbed. *)
LEMMA InterfacesEndWork ==
    ASSUME BInv, NEW l \in Loaders, NEW r, NEW t, Own(l, r, t), InterfacesEnd(l)
    PROVE  WorkOK(t)'
<1> DEFINE s == r.sheet
<1>1. r.step = "devices" /\ r.step \in Connecting /\ r.left = {} /\ r.todo = {}
  BY DEF InterfacesEnd, At, Own, Connecting
<1>2. UNCHANGED tables /\ t = To(l, "boot")
  BY OwnType DEF InterfacesEnd
<1>3. /\ t.step = "boot" /\ t.sheet = s /\ t.hosts = r.hosts /\ t.left = {} /\ t.todo = {}
  BY <1>1, <1>2, OwnType DEF Loading, To, Own
<1>4. \A g \in t.hosts : Applied(t.sheet, g)'
  BY <1>1, <1>2, <1>3, AppliedQuiet, ConnectFacts
<1>5. ASSUME NEW g \in t.hosts PROVE ~ Ambiguous(g)' /\ RowsGiven(t, g)'
  <2>1. Begun(t, g) = {} /\ Begun(r, g) = {}
    BY <1>1, <1>3 DEF Begun, LineSteps
  <2>2. Awaited(t, g) = Awaited(r, g)
    BY <1>1, <1>3 DEF Awaited, LineSteps
  <2> QED
    BY <1>1, <1>2, <1>3, <2>1, <2>2, SameAwaited, QuietSame, ConnectFacts
<1>6. InterfacesOK(t)' /\ t.step \in Late
  BY <1>3, <1>5 DEF InterfacesOK, Late, Connecting
<1> QED
  BY <1>4, <1>6, LateWork

(* Set host boot, by a load nobody disturbed. *)
LEMMA FinishWork ==
    ASSUME BInv, NEW l \in Loaders, NEW r, NEW t, Own(l, r, t), Finish(l)
    PROVE  WorkOK(t)'
<1> DEFINE s == r.sheet
<1>1. r.step = "boot" /\ r.step \in Connecting /\ r.left = {}
  BY OwnType DEF Finish, At, Own, Connecting, JobOK
<1>2. r.hosts \subseteq NodeNames
  BY <1>1, ConnectFacts
<1>3. CASE r.hosts = {}
  <2>1. Reason(r)
    BY <1>1, <1>3, HostsCabled, OwnType DEF Checked, Running, Connecting
  <2>2. Raise(l)
    BY <1>3 DEF Finish, Own
  <2> QED
    BY <2>1, <2>2, RaiseWork
<1>4. CASE r.hosts # {}
  <2>1. UNCHANGED tables /\ t = End(l, "done")
    BY <1>2, <1>4, OwnType DEF Finish, Own
  <2>2. /\ t.step = "done" /\ t.sheet = s /\ t.hosts = r.hosts /\ t.left = {}
    BY <2>1, OwnType DEF Loading, End, Own
  <2>3. \A g \in t.hosts : Applied(t.sheet, g)'
    BY <1>1, <2>1, <2>2, AppliedQuiet, ConnectFacts
  <2>4. ASSUME NEW g \in t.hosts PROVE ~ Ambiguous(g)' /\ RowsGiven(t, g)'
    <3>1. Begun(t, g) = {} /\ Begun(r, g) = {}
      BY <1>1, <2>2 DEF Begun, LineSteps
    <3>2. Awaited(t, g) = Awaited(r, g)
      BY <1>1, <2>2 DEF Awaited, LineSteps
    <3> QED
      BY <1>1, <2>1, <2>2, <3>1, <3>2, SameAwaited, QuietSame, ConnectFacts
  <2>5. InterfacesOK(t)' /\ t.step \in Late
    BY <2>2, <2>4 DEF InterfacesOK, Late
  <2> QED
    BY <2>3, <2>5, LateWork
<1> QED
  BY <1>3, <1>4

(* The rows of the host in work but that of the line in work. *)
Settled(r) == {Row(r.sheet, r.host, i) : i \in Lines(r.sheet, r.host) \ (r.todo \cup {r.item})}

(* The columns of an interface that is as its line says. *)
LEMMA RowFields ==
    ASSUME NEW s, NEW h, NEW i
    PROVE  LET x == Row(s, h, i) IN
           /\ x.node = Id(h) /\ x.device = s[i].device /\ x.mac = s[i].mac /\ x.ip = s[i].ip
           /\ x.main = IsDefault(s, i) /\ x.named = IsDefault(s, i)
BY DEF Row

(* An interface with one column changed. *)
LEMMA PartialField ==
    ASSUME NEW n, NEW d, NEW m, NEW p, NEW b, NEW c, NEW v
    PROVE  LET x == [node |-> n, device |-> d, mac |-> m, ip |-> p, main |-> b, named |-> c]
           IN  /\ [x EXCEPT !.ip = v]
                    = [node |-> n, device |-> d, mac |-> m, ip |-> v, main |-> b, named |-> c]
               /\ [x EXCEPT !.main = v]
                    = [node |-> n, device |-> d, mac |-> m, ip |-> p, main |-> v, named |-> c]
               /\ [x EXCEPT !.named = v]
                    = [node |-> n, device |-> d, mac |-> m, ip |-> p, main |-> b, named |-> v]
OBVIOUS

(* A step for one line leaves the hosts but that of the line alone. *)
LEMMA LineStepWork ==
    ASSUME BInv, NEW l \in Loaders, NEW r, NEW t, Own(l, r, t), r.step \in LineSteps,
           t.step \in LineSteps \cup {"devices"}, t.sheet = r.sheet, t.hosts = r.hosts,
           t.left = r.left, t.host = r.host, NEW h, h = r.host,
           Only(h), Kept(h), MembersOf(h)' = MembersOf(h), h \in r.hosts => RowsGiven(t, h)'
    PROVE  WorkOK(t)'
<1>1. r.step \in Connecting /\ r.step \in Late /\ t.step \in Connecting /\ t.step \in Late
  BY DEF LineSteps, Connecting, Late
<1>2. \A g \in t.hosts : Applied(t.sheet, g)'
  BY <1>1, AppliedStays
<1>3. ASSUME NEW g \in t.hosts PROVE ~ Ambiguous(g)' /\ RowsGiven(t, g)'
  <2>1. ~ Ambiguous(g) /\ RowsGiven(r, g) /\ g \in Hosts
    BY <1>1, ConnectFacts
  <2>2. CASE g = h
    BY <2>1, <2>2 DEF Kept, Ambiguous
  <2>3. CASE g # h
    <3>1. Begun(t, g) = {} /\ Begun(r, g) = {}
      BY <2>3 DEF Begun
    <3>2. Awaited(t, g) = Awaited(r, g)
      BY <2>3 DEF Awaited
    <3> QED
      BY <2>1, <2>3, <3>1, <3>2, SameAwaited, OnlySame
  <2> QED
    BY <2>2, <2>3
<1>4. InterfacesOK(t)'
  BY <1>1, <1>3 DEF InterfacesOK, Connecting
<1> QED
  BY <1>1, <1>2, <1>4, LateWork

(* What is known of the line in work. *)
LEMMA LineFacts ==
    ASSUME BInv, NEW l \in Loaders, NEW r, NEW t, Own(l, r, t), r.step \in LineSteps
    PROVE  /\ r.host \in Cabled(r.sheet) \ r.left /\ r.host \in Names(r.sheet) /\ r.host \in Hosts
           /\ r.item \in Lines(r.sheet, r.host) \ r.todo /\ r.todo \subseteq Lines(r.sheet, r.host)
           /\ Awaited(r, r.host) = r.todo \cup {r.item}
           /\ Line(l) = r.sheet[r.item] /\ Default(l) = IsDefault(r.sheet, r.item)
           /\ Default(l) \in BOOLEAN
           /\ (r.host \notin r.hosts => Reason(r))
<1>1. /\ r.host \in Cabled(r.sheet) \ r.left /\ r.host \in Names(r.sheet) /\ r.host \in Hosts
      /\ r.item \in Lines(r.sheet, r.host) \ r.todo /\ r.todo \subseteq Lines(r.sheet, r.host)
  BY OwnType DEF JobOK
<1>2. Awaited(r, r.host) = r.todo \cup {r.item}
  BY <1>1 DEF Awaited, LineSteps
<1>3. Line(l) = r.sheet[r.item] /\ Default(l) = IsDefault(r.sheet, r.item)
      /\ Default(l) \in BOOLEAN
  BY LineType DEF Own, Line, Default
<1>4. r.host \notin r.hosts => Reason(r)
  BY <1>1, ConnectFacts DEF LineSteps, Connecting
<1> QED
  BY <1>1, <1>2, <1>3, <1>4

(* The insert of an interface, by a load nobody disturbed. *)
LEMMA PutWork ==
    ASSUME BInv, NEW l \in Loaders, NEW r, NEW t, Own(l, r, t), Put(l)
    PROVE  WorkOK(t)'
<1>1. PICK h, x : h = r.host /\ x = Line(l)
  OBVIOUS
<1> DEFINE s == r.sheet
           known == x.mac # None
           step == CASE known -> "devices" [] ~ known /\ x.ip # None -> "ip" [] OTHER -> Unnamed(l)
           n == [node |-> Id(h), device |-> x.device, mac |-> x.mac,
                 ip |-> IF known THEN x.ip ELSE None,
                 main |-> known /\ Default(l), named |-> known /\ Default(l)]
<1>2. r.step = "put" /\ r.step \in LineSteps
  BY DEF Put, At, Own, LineSteps
<1>3. CASE Raise(l) /\ Ambiguous(h)
  <2>1. Reason(r)
    BY <1>1, <1>2, <1>3, LineFacts DEF Reason
  <2> QED
    BY <1>3, <2>1, RaiseWork
<1>4. CASE /\ Only(h) /\ Kept(h) /\ MembersOf(h)' = MembersOf(h)
           /\ (Ids(h) # {} => RowsOf(h)' = RowsOf(h) \cup {n}) /\ Do(l, To(l, step))
  <2>1. Unnamed(l) \in {"name", "main"} /\ (Unnamed(l) = "main" => ~ Default(l))
    BY DEF Unnamed
  <2>2. /\ step \in {"devices", "ip", "name", "main"} /\ (step = "devices" <=> known)
        /\ (step = "ip" => x.ip # None)
        /\ (step \in {"name", "main"} => x.ip = None) /\ (step = "main" => ~ Default(l))
    BY <2>1
  <2> HIDE DEF step, n
  <2>3. /\ t.step = step /\ t.sheet = s /\ t.hosts = r.hosts /\ t.left = r.left
        /\ t.host = h /\ t.todo = r.todo /\ t.item = r.item
    BY <1>1, <1>4, OwnType DEF Loading, To, Own
  <2>4. ASSUME h \in r.hosts PROVE RowsGiven(t, h)'
    <3> DEFINE i == r.item
               R(g) == {Row(s, h, j) : j \in Lines(s, h) \ g}
    <3>1. RowsOf(h)' = R(r.todo \cup {i}) \cup {n}
      <4>1. Ids(h) # {} /\ RowsGiven(r, h)
        BY <1>2, <2>4, ConnectFacts DEF LineSteps, Connecting
      <4>2. Begun(r, h) = {} /\ Awaited(r, h) = r.todo \cup {i}
        BY <1>1, <1>2, LineFacts DEF Begun
      <4> QED
        BY <1>4, <4>1, <4>2 DEF RowsGiven
    <3>2. \A j : Row(s, h, j)' = Row(s, h, j)
      <4>1. Id(h)' = Id(h)
        BY <1>4 DEF Kept, Id
      <4> QED
        BY <4>1 DEF Row, IsDefault
    <3>3. /\ h \notin r.left /\ i \in Lines(s, h) \ r.todo /\ x = s[i]
          /\ Default(l) = IsDefault(s, i) /\ Default(l) \in BOOLEAN
      BY <1>1, <1>2, LineFacts
    <3>4. CASE known
      <4>1. Awaited(t, h) = r.todo /\ Begun(t, h) = {}
        BY <2>2, <2>3, <3>3, <3>4 DEF Awaited, Begun, LineSteps
      <4>2. n = Row(s, h, i)
        BY <3>3, <3>4 DEF n, Row
      <4>3. RowsOf(h)' = R(r.todo)
        BY <3>1, <3>3, <4>2
      <4>4. RowsOf(h)' = {Row(s, h, j)' : j \in Lines(s, h) \ r.todo}
        BY <3>2, <4>3
      <4>5. Begun(t, h)' = {}
        BY <2>2, <2>3, <3>4 DEF Begun, LineSteps
      <4> QED
        BY <2>3, <4>1, <4>4, <4>5 DEF RowsGiven, Lines, Awaited
    <3>5. CASE ~ known
      <4>1. Awaited(t, h) = r.todo \cup {i} /\ Begun(t, h) = {Partial(t)}
        BY <2>2, <2>3, <3>3, <3>5 DEF Awaited, Begun, LineSteps
      <4>2. n = Partial(t)
        <5>1. n = [node |-> Id(h), device |-> x.device, mac |-> None, ip |-> None,
                   main |-> FALSE, named |-> FALSE]
          BY <3>5 DEF n
        <5>2. /\ (IF t.step = "ip" THEN None ELSE x.ip) = None
              /\ (IsDefault(s, i) /\ t.step \in {"main", "only"}) = FALSE
          BY <2>2, <2>3, <3>3, <3>5
        <5>3. Partial(t) = [node |-> Id(h), device |-> x.device, mac |-> x.mac,
                            ip |-> IF t.step = "ip" THEN None ELSE x.ip, main |-> FALSE,
                            named |-> IsDefault(s, i) /\ t.step \in {"main", "only"}]
          BY <2>3, <3>3 DEF Partial
        <5> QED
          BY <3>5, <5>1, <5>2, <5>3
      <4>3. Partial(t)' = Partial(t)
        <5>1. Id(h)' = Id(h)
          BY <1>4 DEF Kept, Id
        <5> QED
          BY <2>3, <5>1 DEF Partial, IsDefault
      <4>4. RowsOf(h)' = {Row(s, h, j)' : j \in Lines(s, h) \ (r.todo \cup {i})} \cup {Partial(t)'}
        BY <3>1, <3>2, <4>2, <4>3
      <4>5. Begun(t, h)' = {Partial(t)'}
        BY <2>2, <2>3, <3>5 DEF Begun, LineSteps
      <4> QED
        BY <2>3, <4>1, <4>4, <4>5 DEF RowsGiven, Lines, Awaited
    <3> QED
      BY <3>4, <3>5
  <2>5. t.step \in LineSteps \cup {"devices"}
    BY <2>2, <2>3 DEF LineSteps
  <2> QED
    BY <1>1, <1>2, <1>4, <2>3, <2>4, <2>5, LineStepWork
<1> QED
  BY <1>1, <1>3, <1>4, PutEffect DEF Own

(* Of the host in work the interface of the line in work is the one that     *)
(* the commands find by its name.                                            *)
LEMMA SameIsPartial ==
    ASSUME BInv, NEW l \in Loaders, NEW r, NEW t, Own(l, r, t), r.step \in LineSteps \ {"put"},
           r.host \in r.hosts
    PROVE  /\ RowsOf(r.host) = Settled(r) \cup {Partial(r)} /\ Same(l) = {Partial(r)}
           /\ Partial(r) \notin Settled(r)
<1> DEFINE h == r.host
           s == r.sheet
           i == r.item
<1>1. RowsGiven(r, h) /\ ~ Malformed(s) /\ ~ Inconsistent(s, r.hosts)
  BY ConnectFacts DEF LineSteps, Connecting
<1>2. Begun(r, h) = {Partial(r)} /\ Awaited(r, h) = r.todo \cup {i}
  BY LineFacts DEF Begun
<1>3. RowsOf(h) = Settled(r) \cup {Partial(r)}
  BY <1>1, <1>2 DEF RowsGiven, Settled
<1>4. Partial(r).device = s[i].device
  BY DEF Partial
<1>5. ASSUME NEW x \in Settled(r) PROVE x.device # s[i].device
  <2>1. PICK j \in Lines(s, h) \ (r.todo \cup {i}) : x = Row(s, h, j)
    BY DEF Settled
  <2>2. x.device = s[j].device /\ i \in Lines(s, h)
    BY <2>1, RowFields, LineFacts
  <2> QED
    BY <1>1, <2>1, <2>2, LinesChecked, OwnType
<1>6. Same(l) = {n \in RowsOf(h) : n.device = s[i].device}
  BY LineFacts DEF Same, Own
<1> QED
  BY <1>3, <1>4, <1>5, <1>6

(* An update of it makes it the row of the line at the next step. *)
LEMMA PartialUpdated ==
    ASSUME BInv, NEW l \in Loaders, NEW r, NEW t, Own(l, r, t), r.step \in LineSteps \ {"put"},
           r.host \in r.hosts, t.sheet = r.sheet, t.left = r.left,
           t.host = r.host, t.todo = r.todo, t.item = r.item,
           NEW n, NEW h, h = r.host, Kept(h), RowsOf(h)' = Settled(r) \cup {n},
           \/ t.step \in LineSteps \ {"put"} /\ n = Partial(t)
           \/ t.step = "devices" /\ n = Row(r.sheet, h, r.item)
    PROVE  RowsGiven(t, h)'
<1> DEFINE s == r.sheet
           i == r.item
<1>1. \A j : Row(s, h, j)' = Row(s, h, j)
  <2>1. Id(h)' = Id(h)
    BY DEF Kept, Id
  <2> QED
    BY <2>1 DEF Row, IsDefault
<1>2. h \notin r.left /\ i \in Lines(s, h) \ r.todo
  BY LineFacts
<1>3. Settled(r) = {Row(s, h, j)' : j \in Lines(s, h) \ (r.todo \cup {i})}
  BY <1>1 DEF Settled
<1>4. CASE t.step \in LineSteps \ {"put"} /\ n = Partial(t)
  <2>1. Awaited(t, h) = r.todo \cup {i} /\ Begun(t, h)' = {Partial(t)'}
    BY <1>2, <1>4 DEF Awaited, Begun, LineSteps
  <2>2. Partial(t)' = Partial(t)
    <3>1. Id(h)' = Id(h)
      BY DEF Kept, Id
    <3> QED
      BY <3>1 DEF Partial, IsDefault
  <2> QED
    BY <1>3, <1>4, <2>1, <2>2 DEF RowsGiven, Lines, Awaited
<1>5. CASE t.step = "devices" /\ n = Row(s, h, i)
  <2>1. Awaited(t, h) = r.todo /\ Begun(t, h)' = {}
    BY <1>2, <1>5 DEF Awaited, Begun, LineSteps
  <2>2. RowsOf(h)' = {Row(s, h, j)' : j \in Lines(s, h) \ r.todo}
    BY <1>1, <1>2, <1>3, <1>5
  <2> QED
    BY <2>1, <2>2 DEF RowsGiven, Lines, Awaited
<1> QED
  BY <1>4, <1>5

(* An update of the interface in work that leaves it as it has to be at the *)
(* next step.                                                               *)
LEMMA UpdateWork ==
    ASSUME BInv, NEW l \in Loaders, NEW r, NEW t, Own(l, r, t), r.step \in LineSteps \ {"put"},
           NEW step, step \in (LineSteps \ {"put"}) \cup {"devices"}, Do(l, To(l, step)),
           NEW h, h = r.host, Only(h), Kept(h), MembersOf(h)' = MembersOf(h),
           NEW n, h \in r.hosts => RowsOf(h)' = Settled(r) \cup {n},
           step # "devices" /\ t.step = step => n = Partial(t),
           step = "devices" => n = Row(r.sheet, h, r.item)
    PROVE  WorkOK(t)'
<1>1. /\ t.step = step /\ t.sheet = r.sheet /\ t.hosts = r.hosts /\ t.left = r.left
      /\ t.host = h /\ t.todo = r.todo /\ t.item = r.item
  BY OwnType DEF Loading, To, Own
<1>2. ASSUME h \in r.hosts PROVE RowsGiven(t, h)'
  <2>1. \/ t.step \in LineSteps \ {"put"} /\ n = Partial(t)
        \/ t.step = "devices" /\ n = Row(r.sheet, h, r.item)
    BY <1>1 DEF LineSteps
  <2> QED
    BY <1>1, <1>2, <2>1, PartialUpdated
<1> QED
  BY <1>1, <1>2, LineStepWork

(* The interface in work, now and at the next step. *)
LEMMA PartialRecord ==
    ASSUME BInv, NEW l \in Loaders, NEW r, NEW t, Own(l, r, t), r.step \in LineSteps
    PROVE  LET x == Line(l) IN
           /\ Partial(r) = [node |-> Id(r.host), device |-> x.device, mac |-> x.mac,
                            ip |-> IF r.step = "ip" THEN None ELSE x.ip, main |-> FALSE,
                            named |-> Default(l) /\ r.step \in {"main", "only"}]
           /\ \A step : LET u == To(l, step) IN
                 Partial(u) = [node |-> Id(r.host), device |-> x.device, mac |-> x.mac,
                               ip |-> IF step = "ip" THEN None ELSE x.ip, main |-> FALSE,
                               named |-> Default(l) /\ step \in {"main", "only"}]
<1>1. Line(l) = r.sheet[r.item] /\ Default(l) = IsDefault(r.sheet, r.item)
  BY LineFacts
<1>2. ASSUME NEW step PROVE LET u == To(l, step) IN
          u.step = step /\ u.sheet = r.sheet /\ u.host = r.host /\ u.item = r.item
  BY OwnType DEF Loading, To, Own
<1> QED
  BY <1>1, <1>2 DEF Partial

(* The update of an address, by a load nobody disturbed. *)
LEMMA SetIPWork ==
    ASSUME BInv, NEW l \in Loaders, NEW r, NEW t, Own(l, r, t), SetIP(l)
    PROVE  WorkOK(t)'
<1>1. PICK h, x, d, v : h = r.host /\ x = Line(l) /\ d = Default(l) /\ v = Line(l).ip
  OBVIOUS
<1>2. r.step = "ip" /\ r.step \in LineSteps \ {"put"} /\ r.step \in Connecting
  BY DEF SetIP, At, Own, LineSteps, Connecting
<1>3. CASE Raise(l) /\ Cardinality(Ids(h)) # 1
  <2>1. Reason(r)
    BY <1>1, <1>2, <1>3, LineFacts, ConnectFacts
  <2> QED
    BY <1>3, <2>1, RaiseWork
<1>4. CASE /\ Only(h) /\ Kept(h) /\ MembersOf(h)' = MembersOf(h)
           /\ RowsOf(h)' = (RowsOf(h) \ Same(l)) \cup {[n EXCEPT !["ip"] = v] : n \in Same(l)}
           /\ Do(l, To(l, Unnamed(l)))
  <2>1. PICK step : step = Unnamed(l)
    OBVIOUS
  <2>2. step \in {"name", "main"} /\ (step = "main" => ~ d) /\ d \in BOOLEAN
    BY <1>1, <1>2, <2>1, LineFacts DEF Unnamed
  <2>3. t = To(l, step)
    BY <1>4, <2>1, OwnType
  <2>4. Partial(r) = [node |-> Id(h), device |-> x.device, mac |-> x.mac, ip |-> None,
                      main |-> FALSE, named |-> FALSE]
    BY <1>1, <1>2, PartialRecord
  <2>5. Partial(t) = [node |-> Id(h), device |-> x.device, mac |-> x.mac, ip |-> v,
                      main |-> FALSE, named |-> FALSE]
    <3>1. (d /\ step \in {"main", "only"}) = FALSE /\ step # "ip"
      BY <2>2
    <3> QED
      BY <1>1, <1>2, <2>3, <3>1, PartialRecord
  <2>6. Partial(t) = [Partial(r) EXCEPT !["ip"] = v]
    <3>1. PICK f : f = FALSE
      OBVIOUS
    <3>2. /\ Partial(r) = [node |-> Id(h), device |-> x.device, mac |-> x.mac, ip |-> None,
                           main |-> f, named |-> f]
          /\ Partial(t) = [node |-> Id(h), device |-> x.device, mac |-> x.mac, ip |-> v,
                           main |-> f, named |-> f]
      BY <2>4, <2>5, <3>1
    <3> QED
      BY <3>2
  <2>7. h \in r.hosts => RowsOf(h)' = Settled(r) \cup {Partial(t)}
    BY <1>1, <1>2, <1>4, <2>6, SameIsPartial
  <2>8. step \in (LineSteps \ {"put"}) \cup {"devices"} /\ step # "devices"
    BY <2>2 DEF LineSteps
  <2> QED
    BY <1>1, <1>2, <1>4, <2>1, <2>7, <2>8, UpdateWork
<1> QED
  BY <1>1, <1>3, <1>4, SetIPEffect DEF Own

(* The update of a name, by a load nobody disturbed. *)
LEMMA SetNameWork ==
    ASSUME BInv, NEW l \in Loaders, NEW r, NEW t, Own(l, r, t), SetName(l)
    PROVE  WorkOK(t)'
<1>0. PICK v : v = TRUE
  OBVIOUS
<1>1. PICK h, x : h = r.host /\ x = Line(l)
  OBVIOUS
<1>2. r.step = "name" /\ r.step \in LineSteps \ {"put"} /\ r.step \in Connecting
  BY DEF SetName, At, Own, LineSteps, Connecting
<1>3. CASE Raise(l) /\ Cardinality(Ids(h)) # 1
  <2>1. Reason(r)
    BY <1>1, <1>2, <1>3, LineFacts, ConnectFacts
  <2> QED
    BY <1>3, <2>1, RaiseWork
<1>4. CASE /\ Only(h) /\ Kept(h) /\ MembersOf(h)' = MembersOf(h)
           /\ RowsOf(h)' = (RowsOf(h) \ Same(l)) \cup {[n EXCEPT !["named"] = v] : n \in Same(l)}
           /\ Do(l, To(l, "main"))
  <2>1. t = To(l, "main") /\ t.step = "main"
    BY <1>4, OwnType DEF Loading, To, Own
  <2>2. Default(l) = TRUE
    BY <1>2, LineFacts, OwnType DEF JobOK
  <2>3. Partial(r) = [node |-> Id(h), device |-> x.device, mac |-> x.mac, ip |-> x.ip,
                      main |-> FALSE, named |-> FALSE]
    BY <1>1, <1>2, PartialRecord
  <2>4. Partial(t) = [node |-> Id(h), device |-> x.device, mac |-> x.mac, ip |-> x.ip,
                      main |-> FALSE, named |-> TRUE]
    <3>1. (Default(l) /\ "main" \in {"main", "only"}) = TRUE
      BY <2>2
    <3> QED
      BY <1>1, <1>2, <2>1, <3>1, PartialRecord
  <2>5. Partial(t) = [Partial(r) EXCEPT !["named"] = v]
    <3>1. PICK f : f = FALSE
      OBVIOUS
    <3>2. /\ Partial(r) = [node |-> Id(h), device |-> x.device, mac |-> x.mac, ip |-> x.ip,
                           main |-> f, named |-> f]
          /\ Partial(t) = [node |-> Id(h), device |-> x.device, mac |-> x.mac, ip |-> x.ip,
                           main |-> f, named |-> v]
      BY <1>0, <2>3, <2>4, <3>1
    <3> QED
      BY <3>2
  <2>6. h \in r.hosts => RowsOf(h)' = Settled(r) \cup {Partial(t)}
    BY <1>1, <1>2, <1>4, <2>5, SameIsPartial
  <2>7. "main" \in (LineSteps \ {"put"}) \cup {"devices"}
    BY DEF LineSteps
  <2> QED
    BY <1>1, <1>2, <1>4, <2>6, <2>7, UpdateWork
<1>5. \/ Raise(l) /\ Cardinality(Ids(h)) # 1
      \/ /\ Only(h) /\ Kept(h) /\ MembersOf(h)' = MembersOf(h)
         /\ RowsOf(h)' = (RowsOf(h) \ Same(l)) \cup {[n EXCEPT !["named"] = v] : n \in Same(l)}
         /\ Do(l, To(l, "main"))
  <2>1. \/ Raise(l) /\ Cardinality(Ids(h)) # 1
        \/ /\ Only(h) /\ Kept(h) /\ MembersOf(h)' = MembersOf(h)
           /\ RowsOf(h)' = (RowsOf(h) \ Same(l)) \cup {[n EXCEPT !["named"] = TRUE] : n \in Same(l)}
           /\ Do(l, To(l, "main"))
    BY <1>1, SetNameEffect DEF Own
  <2> QED
    BY <1>0, <2>1
<1> QED
  BY <1>3, <1>4, <1>5

(* The others are not the default: to clear them changes nothing. *)
LEMMA SetDefaultWork ==
    ASSUME BInv, NEW l \in Loaders, NEW r, NEW t, Own(l, r, t), SetDefault(l)
    PROVE  WorkOK(t)'
<1> DEFINE S == IF Default(l) THEN RowsOf(r.host) ELSE {}
<1>0. PICK v : v = FALSE
  OBVIOUS
<1>1. PICK h, C : h = r.host /\ C = S
  OBVIOUS
<1>2. r.step = "main" /\ r.step \in LineSteps \ {"put"} /\ r.step \in Connecting
  BY DEF SetDefault, At, Own, LineSteps, Connecting
<1>3. CASE Raise(l) /\ Same(l) = {}
  <2>1. h \notin r.hosts
    BY <1>1, <1>2, <1>3, SameIsPartial
  <2>2. Reason(r)
    BY <1>1, <1>2, <2>1, LineFacts
  <2> QED
    BY <1>3, <2>2, RaiseWork
<1>4. CASE /\ Only(h) /\ Kept(h) /\ MembersOf(h)' = MembersOf(h)
           /\ RowsOf(h)' = (RowsOf(h) \ C) \cup {[n EXCEPT !["main"] = v] : n \in C}
           /\ Do(l, To(l, "only"))
  <2>1. t = To(l, "only") /\ t.step = "only"
    BY <1>4, OwnType DEF Loading, To, Own
  <2>2. Partial(t) = Partial(r)
    <3>1. /\ (Default(l) /\ "main" \in {"main", "only"})
             = (Default(l) /\ "only" \in {"main", "only"})
          /\ "main" # "ip" /\ "only" # "ip"
      OBVIOUS
    <3> QED
      BY <1>1, <1>2, <2>1, <3>1, PartialRecord
  <2>3. ASSUME h \in r.hosts PROVE RowsOf(h)' = Settled(r) \cup {Partial(t)}
    <3>1. RowsOf(h) = Settled(r) \cup {Partial(r)}
      BY <1>1, <1>2, <2>3, SameIsPartial
    <3>2. CASE ~ Default(l)
      BY <1>1, <1>4, <2>2, <3>1, <3>2
    <3>3. CASE Default(l)
      <4>1. ASSUME NEW n \in RowsOf(h) PROVE [n EXCEPT !["main"] = v] = n
        <5>1. n.main = v
          <6>1. CASE n = Partial(r)
            BY <1>0, <6>1 DEF Partial
          <6>2. CASE n \in Settled(r)
            <7>1. PICK j \in Lines(r.sheet, h) \ (r.todo \cup {r.item}) : n = Row(r.sheet, h, j)
              BY <1>1, <6>2 DEF Settled
            <7>2. ~ Malformed(r.sheet) /\ ~ Inconsistent(r.sheet, r.hosts)
              BY <1>2, ConnectFacts
            <7>3. r.item \in Lines(r.sheet, h) /\ IsDefault(r.sheet, r.item)
              BY <1>1, <1>2, <3>3, LineFacts
            <7>4. ~ IsDefault(r.sheet, j)
              BY <2>3, <7>1, <7>2, <7>3, LinesChecked, OwnType
            <7>5. n.main = IsDefault(r.sheet, j)
              BY <7>1, RowFields
            <7>6. IsDefault(r.sheet, j) \in BOOLEAN
              BY <2>3, <7>1, OwnType, SheetType DEF IsDefault, Lists
            <7> QED
              BY <1>0, <7>4, <7>5, <7>6
          <6> QED
            BY <3>1, <6>1, <6>2
        <5>2. n \in NetworkRow
          BY <4>1 DEF RowsOf, BInv, TablesOK
        <5> QED
          BY <5>1, <5>2 DEF NetworkRow
      <4>2. C = RowsOf(h)
        BY <1>1, <3>3
      <4> QED
        BY <1>4, <2>2, <3>1, <4>1, <4>2
    <3> QED
      BY <3>2, <3>3
  <2>4. "only" \in (LineSteps \ {"put"}) \cup {"devices"}
    BY DEF LineSteps
  <2>5. h \in r.hosts => RowsOf(h)' = Settled(r) \cup {Partial(t)}
    BY <2>3
  <2> QED
    BY <1>1, <1>2, <1>4, <2>4, <2>5, UpdateWork
<1>5. \/ Raise(l) /\ Same(l) = {}
      \/ /\ Only(h) /\ Kept(h) /\ MembersOf(h)' = MembersOf(h)
         /\ RowsOf(h)' = (RowsOf(h) \ C) \cup {[n EXCEPT !["main"] = v] : n \in C}
         /\ Do(l, To(l, "only"))
  <2>1. \/ Raise(l) /\ Same(l) = {}
        \/ /\ Only(h) /\ Kept(h) /\ MembersOf(h)' = MembersOf(h)
           /\ RowsOf(h)' = (RowsOf(h) \ S) \cup {[n EXCEPT !["main"] = FALSE] : n \in S}
           /\ Do(l, To(l, "only"))
    BY <1>1, SetDefaultEffect DEF Own
  <2> QED
    BY <1>0, <1>1, <2>1
<1> QED
  BY <1>3, <1>4, <1>5

(* Setting whether an interface is the default, by a load nobody disturbed. *)
LEMMA SetMainWork ==
    ASSUME BInv, NEW l \in Loaders, NEW r, NEW t, Own(l, r, t), SetMain(l)
    PROVE  WorkOK(t)'
<1>1. PICK h, x, v : h = r.host /\ x = Line(l) /\ v = Default(l)
  OBVIOUS
<1>2. r.step = "only" /\ r.step \in LineSteps \ {"put"}
  BY DEF SetMain, At, Own, LineSteps
<1>3. /\ Only(h) /\ Kept(h) /\ MembersOf(h)' = MembersOf(h)
      /\ RowsOf(h)' = (RowsOf(h) \ Same(l)) \cup {[n EXCEPT !["main"] = v] : n \in Same(l)}
      /\ Do(l, To(l, "devices"))
  BY <1>1, SetMainEffect DEF Own
<1>4. x.mac = None /\ x = r.sheet[r.item] /\ v = IsDefault(r.sheet, r.item) /\ v \in BOOLEAN
  BY <1>1, <1>2, LineFacts, OwnType DEF JobOK
<1>5. Partial(r) = [node |-> Id(h), device |-> x.device, mac |-> x.mac, ip |-> x.ip,
                    main |-> FALSE, named |-> v]
  <2>1. (v /\ "only" \in {"main", "only"}) = v
    BY <1>4
  <2> QED
    BY <1>1, <1>2, <2>1, PartialRecord
<1>6. Row(r.sheet, h, r.item) = [node |-> Id(h), device |-> x.device, mac |-> x.mac,
                                 ip |-> x.ip, main |-> v, named |-> v]
  BY <1>4 DEF Row
<1>7. Row(r.sheet, h, r.item) = [Partial(r) EXCEPT !["main"] = v]
  <2>1. PICK f : f = FALSE
    OBVIOUS
  <2>2. Partial(r) = [node |-> Id(h), device |-> x.device, mac |-> x.mac, ip |-> x.ip,
                      main |-> f, named |-> v]
    BY <1>5, <2>1
  <2> QED
    BY <1>6, <2>2
<1>8. h \in r.hosts => RowsOf(h)' = Settled(r) \cup {Row(r.sheet, h, r.item)}
  BY <1>1, <1>2, <1>3, <1>7, SameIsPartial
<1> QED
  BY <1>1, <1>2, <1>3, <1>8, UpdateWork

-----------------------------------------------------------------------------
(* Where a load has done nothing yet, and where it ends. *)

(* Reading the spreadsheet, by a load nobody disturbed. *)
LEMMA BeginWork ==
    ASSUME BInv, NEW l \in Loaders, NEW r, NEW t, Own(l, r, t), NEW s \in Sheets, Begin(l, s)
    PROVE  WorkOK(t)'
<1> DEFINE ls == [h \in Hosts |-> IF Bossed(s) THEN Cardinality({n \in RowsOf(h) : n.named})
                                   ELSE 0]
           left == IF Bossed(s) /\ ~ Malformed(s) THEN Names(s) ELSE {}
<1>1. t = [Idle EXCEPT !.step = IF Malformed(s) THEN "rejected" ELSE "boss",
                       !.sheet = s, !.hosts = Names(s), !.listed = ls, !.left = left]
  BY OwnType DEF Begin
<1> HIDE DEF ls, left
<1>2. t.step \in {"rejected", "boss"}
  BY <1>1 DEF Idle
<1> QED
  BY <1>2, EarlyWork

(* Looking for hosts of other frontends, by a load nobody disturbed. *)
LEMMA NotOursWork ==
    ASSUME BInv, NEW l \in Loaders, NEW r, NEW t, Own(l, r, t), NotOurs(l)
    PROVE  WorkOK(t)'
<1>1. r.step = "boss"
  BY DEF NotOurs, At, Own
<1>2. PICK h \in r.left :
          CASE BossOf(r.sheet, h) = None -> Raise(l)
            [] BossOf(r.sheet, h) = Boss ->
                  Do(l, [load[l] EXCEPT !.left = @ \ {h}]) /\ UNCHANGED tables
            [] OTHER -> /\ Do(l, [To(l, "remove") EXCEPT
                                    !.left = @ \ {h}, !.hosts = @ \ {h}, !.host = h])
                        /\ UNCHANGED tables
  BY DEF NotOurs, Own
<1>3. CASE BossOf(r.sheet, h) = None
  <2>1. Bossed(r.sheet) /\ h \in Names(r.sheet)
    BY <1>1, OwnType DEF JobOK
  <2>2. None # Boss
    BY HostFileAssumption
  <2>3. Reason(r)
    BY <1>3, <2>1, <2>2 DEF Reason
  <2>4. Raise(l)
    BY <1>2, <1>3, <2>2
  <2> QED
    BY <2>3, <2>4, RaiseWork
<1>4. CASE BossOf(r.sheet, h) # None
  <2>1. \/ t = [load[l] EXCEPT !.left = @ \ {h}]
        \/ t = [To(l, "remove") EXCEPT !.left = @ \ {h}, !.hosts = @ \ {h}, !.host = h]
    BY <1>2, <1>4, OwnType
  <2>2. t.step \in {"boss", "remove"}
    <3>1. CASE t = [load[l] EXCEPT !.left = @ \ {h}]
      BY <1>1, <3>1, OwnType DEF Loading, Own
    <3>2. CASE t = [To(l, "remove") EXCEPT !.left = @ \ {h}, !.hosts = @ \ {h}, !.host = h]
      BY <3>2, OwnType DEF Loading, To, Own
    <3> QED
      BY <2>1, <3>1, <3>2
  <2> QED
    BY <2>2, EarlyWork
<1> QED
  BY <1>3, <1>4

(* A remove host but for its row, by a load nobody disturbed. *)
LEMMA RemoveWork ==
    ASSUME BInv, NEW l \in Loaders, NEW r, NEW t, Own(l, r, t), Remove(l)
    PROVE  WorkOK(t)'
<1>1. /\ r.step = "remove" /\ Bossed(r.sheet) /\ r.host \in Names(r.sheet)
      /\ BossOf(r.sheet, r.host) # Boss
  BY OwnType DEF Remove, At, Own, JobOK
<1>2. CASE Raise(l)
  <2>1. Reason(r)
    BY <1>1 DEF Reason
  <2> QED
    BY <1>2, <2>1, RaiseWork
<1>3. CASE ~ Raise(l)
  <2>1. \/ t = [To(l, "boss") EXCEPT !.host = None]
        \/ t = [To(l, "unnode") EXCEPT !.listed[r.host] = @ - 1]
    BY <1>3, OwnType DEF Remove, Own
  <2>2. t.step \in {"boss", "unnode"}
    <3>1. CASE t = [To(l, "boss") EXCEPT !.host = None]
      BY <3>1, OwnType DEF Loading, To, Own
    <3>2. CASE t = [To(l, "unnode") EXCEPT !.listed[r.host] = @ - 1]
      BY <3>2, OwnType DEF Loading, To, Own
    <3> QED
      BY <2>1, <3>1, <3>2
  <2> QED
    BY <2>2, EarlyWork
<1> QED
  BY <1>2, <1>3

(* The delete of its row, by a load nobody disturbed. *)
LEMMA UnnodeWork ==
    ASSUME BInv, NEW l \in Loaders, NEW r, NEW t, Own(l, r, t), Unnode(l)
    PROVE  WorkOK(t)'
<1>1. t = To(l, "remove")
  BY OwnType DEF Unnode
<1>2. t.step = "remove"
  BY <1>1, OwnType DEF Loading, To, Own
<1> QED
  BY <1>2, EarlyWork

(* The sanity checks, by a load nobody disturbed. *)
LEMMA CheckWork ==
    ASSUME BInv, NEW l \in Loaders, NEW r, NEW t, Own(l, r, t), Check(l)
    PROVE  WorkOK(t)'
<1>1. t = End(l, "rejected") \/ t = To(l, "read")
  BY OwnType DEF Check
<1>2. t.step \in {"rejected", "read"}
  <2>1. CASE t = End(l, "rejected")
    BY <2>1, OwnType DEF Loading, End, Own
  <2>2. CASE t = To(l, "read")
    BY <2>2, OwnType DEF Loading, To, Own
  <2> QED
    BY <1>1, <2>1, <2>2
<1> QED
  BY <1>2, EarlyWork

(* A kill, by a load nobody disturbed. *)
LEMMA DieWork ==
    ASSUME BInv, NEW l \in Loaders, NEW r, NEW t, Own(l, r, t), Die(l)
    PROVE  WorkOK(t)'
<1>1. t = End(l, "dead")
  BY OwnType DEF Die
<1>2. t.step = "dead"
  BY <1>1, OwnType DEF Loading, End, Own
<1> QED
  BY <1>2, EarlyWork

(* What holds of the record a load has next holds of the load next. *)
LEMMA WorkPrimed ==
    ASSUME NEW l \in Loaders, NEW t, t = load'[l], WorkOK(t)'
    PROVE  WorkOK(load[l])'
<1>1. Listed(t)' /\ HostOK(t)' /\ HostsOK(t)' /\ InterfacesOK(t)'
      /\ (t.step = "raised" => Reason(t)')
  BY DEF WorkOK
<1>2. Listed(load[l])'
  BY <1>1 DEF Listed, NotYet, AllGroups
<1>3. HostOK(load[l])'
  BY <1>1 DEF HostOK, NotYet, GivenTo, Waiting
<1>4. HostsOK(load[l])'
  BY <1>1 DEF HostsOK, NotYet, Applied
<1>5. InterfacesOK(load[l])'
  BY <1>1 DEF InterfacesOK, RowsGiven, Begun
<1>6. load[l].step' = "raised" => Reason(load[l])'
  BY <1>1 DEF Reason
<1> QED
  BY <1>2, <1>3, <1>4, <1>5, <1>6 DEF WorkOK

(* Every step of a load that has done its work so far does it on. *)
LEMMA StepWork ==
    ASSUME BInv, NEW l \in Loaders, Step(l), WorkOK(load[l])
    PROVE  WorkOK(load[l])'
<1>1. PICK r, t : r = load[l] /\ t = load'[l]
  OBVIOUS
<1>2. Own(l, r, t)
  BY <1>1 DEF Own
<1>3. WorkOK(t)'
  <2>1. CASE \E s \in Sheets : Begin(l, s)
    BY <1>2, <2>1, BeginWork
  <2>2. CASE NotOurs(l) \/ Remove(l) \/ Unnode(l) \/ Check(l)
    BY <1>2, <2>2, NotOursWork, RemoveWork, UnnodeWork, CheckWork
  <2>3. CASE Read(l) \/ ReadGroups(l) \/ Prune(l)
    BY <1>2, <2>3, ReadWork, ReadGroupsWork, PruneWork
  <2>4. CASE NextHost(l) \/ AddHost(l) \/ InsertHost(l)
    BY <1>2, <2>4, NextHostWork, AddHostWork, InsertHostWork
  <2>5. CASE AddGroup(l) \/ Join(l) \/ Member(l) \/ GroupsEnd(l)
    BY <1>2, <2>5, AddGroupWork, JoinWork, MemberWork, GroupsEndWork
  <2>6. CASE SetHost(l) \/ HostEnds(l) \/ HostsEnd(l)
    BY <1>2, <2>6, SetHostWork, HostEndsWork, HostsEndWork
  <2>7. CASE Clear(l) \/ Wipe(l) \/ WipeEnds(l)
    BY <1>2, <2>7, ClearWork, WipeWork, WipeEndsWork
  <2>8. CASE NextInterfaces(l) \/ AddInterface(l) \/ Put(l)
    BY <1>2, <2>8, NextInterfacesWork, AddInterfaceWork, PutWork
  <2>9. CASE SetIP(l) \/ SetName(l) \/ SetDefault(l) \/ SetMain(l) \/ InterfacesEnd(l)
    BY <1>2, <2>9, SetIPWork, SetNameWork, SetDefaultWork, SetMainWork, InterfacesEndWork
  <2>10. CASE Finish(l) \/ Die(l)
    BY <1>2, <2>10, FinishWork, DieWork
  <2> QED
    BY <2>1, <2>2, <2>3, <2>4, <2>5, <2>6, <2>7, <2>8, <2>9, <2>10 DEF Step
<1> QED
  BY <1>1, <1>3, WorkPrimed

(* And what others do is nothing to it as long as they leave its view. *)
LEMMA OtherWork ==
    ASSUME BInv, NEW k \in Loaders, load'[k] = load[k], WorkOK(load[k]),
           View(k)' = View(k) \/ UNCHANGED tables
    PROVE  WorkOK(load[k])'
<1>1. PICK r : r = load[k]
  OBVIOUS
<1>2. r \in Loading /\ JobOK(r) /\ Names(r.sheet) \subseteq Hosts
  BY <1>1, JobType DEF BInv
<1>3. /\ \A h \in Names(r.sheet) : SameHost(h)
      /\ groups' \cap AllGroups(r.sheet) = groups \cap AllGroups(r.sheet)
  <2>1. CASE View(k)' = View(k)
    BY <1>1, <2>1, SameView
  <2>2. CASE UNCHANGED tables
    BY <1>2, <2>2, QuietSame, TablesStay
  <2> QED
    BY <2>1, <2>2
<1>4. WorkOK(r)'
  BY <1>1, <1>2, <1>3, SameWork
<1> QED
  BY <1>1, <1>4, WorkPrimed

(* A load that nobody disturbed has done of its spreadsheet exactly what *)
(* its place in the code says (WorkInv), and failed for a reason only.   *)
THEOREM HostFileWork == Spec => []WorkInv
<1>1. Init => WorkInv
  <2> SUFFICES ASSUME Init, NEW l \in Loaders PROVE WorkOK(load[l])
    BY DEF WorkInv
  <2>1. load[l].step = "idle"
    BY DEF Init, Idle
  <2> QED
    BY <2>1 DEF WorkOK, Listed, HostOK, HostsOK, InterfacesOK, HostSteps, Connecting
<1>2. BInv /\ WorkInv /\ [Next]_vars => WorkInv'
  <2> SUFFICES ASSUME BInv, WorkInv, [Next]_vars, NEW k \in Loaders, undisturbed'[k]
               PROVE  WorkOK(load[k])'
    BY DEF WorkInv
  <2>1. CASE Next
    <3>1. PICK l \in Loaders :
              /\ Step(l)
              /\ undisturbed' = [j \in Loaders |-> undisturbed[j] /\ (j = l \/ View(j)' = View(j))]
      BY <2>1 DEF Next
    <3>2. undisturbed[k] /\ (k = l \/ View(k)' = View(k))
      BY <3>1
    <3>3. WorkOK(load[k])
      BY <3>2 DEF WorkInv
    <3>4. CASE k = l
      BY <3>1, <3>3, <3>4, StepWork
    <3>5. CASE k # l
      <4>1. load'[k] = load[k]
        BY <3>1, <3>5, StepWorks DEF Moved, BInv
      <4> QED
        BY <3>2, <3>3, <3>5, <4>1, OtherWork
    <3> QED
      BY <3>4, <3>5
  <2>2. CASE UNCHANGED vars
    <3>1. load'[k] = load[k] /\ undisturbed[k] /\ UNCHANGED tables
      BY <2>2 DEF vars
    <3>2. WorkOK(load[k])
      BY <3>1 DEF WorkInv
    <3> QED
      BY <3>1, <3>2, OtherWork
  <2> QED
    BY <2>1, <2>2
<1> QED
  BY <1>1, <1>2, HostFileInv, PTL DEF Spec

-----------------------------------------------------------------------------
(* What a load that ends leaves. *)

(* All hosts have one row, and the interfaces that are not awaited. *)
LEMMA InConnecting ==
    ASSUME BInv, WorkInv, NEW l \in Loaders, undisturbed[l], NEW r, r = load[l],
           r.step \in Connecting \cup {"done"}
    PROVE  /\ JobOK(r) /\ r.sheet \in Seq(Lists) /\ r.hosts \subseteq Names(r.sheet)
           /\ ~ Malformed(r.sheet) /\ ~ Inconsistent(r.sheet, r.hosts)
           /\ \A h \in r.hosts : /\ RowsGiven(r, h) /\ Applied(r.sheet, h)
                                 /\ Cardinality(Ids(h)) = 1 /\ h \in Hosts
<1>1. WorkOK(r)
  BY DEF WorkInv
<1>2. /\ JobOK(r) /\ r.sheet \in Seq(Lists) /\ r.hosts \subseteq Names(r.sheet)
      /\ Names(r.sheet) \subseteq Hosts
  BY JobType DEF BInv
<1>3. ~ Malformed(r.sheet) /\ ~ Inconsistent(r.sheet, r.hosts)
  BY <1>2 DEF JobOK, Checked, Running, Connecting
<1>4. \A h \in r.hosts : ~ Ambiguous(h) /\ RowsGiven(r, h) /\ Applied(r.sheet, h)
  BY <1>1 DEF WorkOK, InterfacesOK, HostsOK
<1>5. \A h \in r.hosts : Cardinality(Ids(h)) = 1
  BY <1>4, OneId DEF Applied, BInv
<1> QED
  BY <1>2, <1>3, <1>4, <1>5

(* And at the end all interfaces, one of them the default. *)
LEMMA DoneAsInSheet ==
    ASSUME BInv, WorkInv, NEW l \in Loaders, undisturbed[l], NEW r, r = load[l],
           r.step = "done", NEW h \in r.hosts
    PROVE  LET s == r.sheet IN
           /\ Cardinality(Ids(h)) = 1
           /\ \A n \in nodes : n.name = h =>
                 \A f \in {"appliance", "place"} : Given(s, h, f) \subseteq {n[f]}
           /\ RowsOf(h) = {Row(s, h, i) : i \in Lines(s, h)}
           /\ Cardinality({n \in RowsOf(h) : n.main}) = 1
           /\ GroupsOf(s, h) \subseteq MembersOf(h)
<1> DEFINE s == r.sheet
<1>1. /\ JobOK(r) /\ s \in Seq(Lists) /\ r.hosts \subseteq Names(s)
      /\ ~ Malformed(s) /\ ~ Inconsistent(s, r.hosts)
      /\ RowsGiven(r, h) /\ Applied(s, h) /\ Cardinality(Ids(h)) = 1
  BY InConnecting
<1>2. RowsOf(h) = {Row(s, h, i) : i \in Lines(s, h)}
  <2>1. r.left = {} /\ r.step # "devices" /\ r.step \notin LineSteps
    BY <1>1 DEF JobOK, LineSteps
  <2>2. Awaited(r, h) = {} /\ Begun(r, h) = {}
    BY <2>1 DEF Awaited, Begun
  <2> QED
    BY <1>1, <2>2 DEF RowsGiven
<1>3. Cardinality({n \in RowsOf(h) : n.main}) = 1
  <2>1. PICK d \in Lines(s, h) : IsDefault(s, d) /\ \A i \in Lines(s, h) : IsDefault(s, i) => i = d
    BY <1>1, LinesChecked
  <2>2. \A i : Row(s, h, i).main = IsDefault(s, i)
    BY RowFields
  <2>3. {n \in RowsOf(h) : n.main} = {Row(s, h, d)}
    BY <1>2, <2>1, <2>2
  <2> QED
    BY <2>3, FS_Singleton
<1>4. \A n \in nodes : n.name = h =>
          \A f \in {"appliance", "place"} : Given(s, h, f) \subseteq {n[f]}
  BY <1>1 DEF Applied, GivenTo, Fields, NodesOf
<1> QED
  BY <1>1, <1>2, <1>3, <1>4 DEF Applied

(* HostsAsInSheet for every spreadsheet, whatever the tables had before and *)
(* other loads do to other hosts.                                           *)
THEOREM HostsAsInSheetCorrect == Spec => []HostsAsInSheet
<1>1. BInv /\ WorkInv => HostsAsInSheet
  BY DoneAsInSheet DEF HostsAsInSheet, At, Row
<1> QED
  BY <1>1, HostFileInv, HostFileWork, PTL

(* Every interface comes from a line, no two from one. *)
LEMMA RowsFromLines ==
    ASSUME BInv, WorkInv, NEW l \in Loaders, undisturbed[l], NEW r, r = load[l],
           r.step \in Connecting \cup {"done"}, NEW h \in r.hosts, NEW n \in RowsOf(h)
    PROVE  LET s == r.sheet IN \E i \in Lines(s, h) :
              /\ n.ip \in {None, s[i].ip} /\ n.mac = s[i].mac
              /\ n = IF i \in Awaited(r, h) THEN Partial(r) ELSE Row(s, h, i)
<1> DEFINE s == r.sheet
<1>1. JobOK(r) /\ RowsGiven(r, h)
  BY InConnecting
<1>2. CASE n \in Begun(r, h)
  <2>1. n = Partial(r) /\ h = r.host /\ r.step \in LineSteps \ {"put"}
    BY <1>2 DEF Begun
  <2>2. r.host \notin r.left /\ r.item \in Lines(s, h)
    BY <1>1, <2>1 DEF JobOK
  <2>3. r.item \in Awaited(r, h)
    BY <2>1, <2>2 DEF Awaited, LineSteps
  <2>4. n.ip \in {None, s[r.item].ip} /\ n.mac = s[r.item].mac
    BY <2>1 DEF Partial
  <2> QED
    BY <2>1, <2>2, <2>3, <2>4
<1>3. CASE n \notin Begun(r, h)
  <2>1. PICK i \in Lines(s, h) \ Awaited(r, h) : n = Row(s, h, i)
    BY <1>1, <1>3 DEF RowsGiven
  <2>2. n.ip = s[i].ip /\ n.mac = s[i].mac
    BY <2>1, RowFields
  <2> QED
    BY <2>1, <2>2
<1> QED
  BY <1>2, <1>3

(* NoSharedAddress for every spreadsheet, initial tables and number of loads *)
(* at a time.                                                                *)
THEOREM NoSharedAddressCorrect == Spec => []NoSharedAddress
<1>1. ASSUME BInv, WorkInv PROVE NoSharedAddress
  <2> SUFFICES ASSUME NEW l \in Loaders, load[l].step \in Connecting \cup {"done"}, undisturbed[l],
                      NEW g \in load[l].hosts, NEW n \in RowsOf(g),
                      NEW h \in load[l].hosts, NEW m \in RowsOf(h), n # m
               PROVE  /\ n.ip = None \/ n.ip # m.ip
                      /\ n.mac = None \/ n.mac # m.mac
    BY DEF NoSharedAddress
  <2>1. PICK r : r = load[l]
    OBVIOUS
  <2> DEFINE s == r.sheet
  <2>2. ~ Inconsistent(s, r.hosts) /\ s \in Seq(Lists)
    BY <1>1, <2>1, InConnecting
  <2>3. PICK i \in Lines(s, g) :
            /\ n.ip \in {None, s[i].ip} /\ n.mac = s[i].mac
            /\ n = IF i \in Awaited(r, g) THEN Partial(r) ELSE Row(s, g, i)
    BY <1>1, <2>1, RowsFromLines
  <2>4. PICK j \in Lines(s, h) :
            /\ m.ip \in {None, s[j].ip} /\ m.mac = s[j].mac
            /\ m = IF j \in Awaited(r, h) THEN Partial(r) ELSE Row(s, h, j)
    BY <1>1, <2>1, RowsFromLines
  <2>5. i # j
    <3>1. s[i].host = g /\ s[j].host = h
      BY <2>3, <2>4 DEF Lines
    <3> QED
      BY <2>3, <2>4, <3>1
  <2>6. /\ i \in UNION {Lines(s, k) : k \in r.hosts}
        /\ j \in UNION {Lines(s, k) : k \in r.hosts}
    BY <2>1, <2>3, <2>4
  <2>7. /\ ~ (s[i].mac = s[j].mac /\ s[i].mac # None)
        /\ ~ (s[i].ip = s[j].ip /\ s[i].ip # None)
    BY <2>2, <2>5, <2>6 DEF Inconsistent
  <2> QED
    BY <2>3, <2>4, <2>7
<1> QED
  BY <1>1, HostFileInv, HostFileWork, PTL

(* FailsForAReason for every spreadsheet and initial tables: where one   *)
(* check of the code finds what another left, no step raises but for the *)
(* reasons it names.                                                     *)
THEOREM FailsForAReasonCorrect == Spec => []FailsForAReason
<1>1. WorkInv => FailsForAReason
  BY DEF WorkInv, WorkOK, Reason, OldOf, FailsForAReason, At
<1> QED
  BY <1>1, HostFileWork, PTL
-----------------------------------------------------------------------------
(* Why a host is twice in the tables. *)

(* The tables to begin with have no host twice. *)
OnceInitially == \A t \in Initially : \A m, n \in t.nodes : m.name = n.name => m = n

(* A load that has not begun has no spreadsheet, and none gets another. *)
Unread == \A l \in Loaders : At(l, "idle") => load[l].sheet = <<>>

(* A load keeps its spreadsheet from beginning to end. *)
LEMMA SheetKept ==
    ASSUME BInv, NEW l \in Loaders, Step(l), load[l].step # "idle"
    PROVE  load'[l].sheet = load[l].sheet /\ load'[l].step # "idle"
<1> DEFINE r == load[l]
           Stays(t) == t.sheet = r.sheet /\ t.step # "idle"
<1>1. r \in Loading /\ \A t : Do(l, t) => load'[l] = t
  BY OwnRecord, JobType
<1>2. Raise(l) => Stays(load'[l])
  BY <1>1 DEF Raise, End, Loading
<1>3. ~ \E s \in Sheets : Begin(l, s)
  BY DEF Begin, At
<1>4. CASE NotOurs(l)
  BY <1>1, <1>2, <1>4 DEF NotOurs, To, At, Loading
<1>5. CASE Remove(l) \/ Unnode(l) \/ Check(l)
  BY <1>1, <1>2, <1>5 DEF Remove, Unnode, Check, To, End, At, Loading
<1>6. CASE Read(l) \/ ReadGroups(l) \/ Prune(l)
  BY <1>1, <1>2, <1>6 DEF Read, ReadGroups, Prune, To, At, Loading
<1>7. CASE NextHost(l) \/ AddHost(l) \/ InsertHost(l)
  BY <1>1, <1>2, <1>7 DEF NextHost, AddHost, InsertHost, To, At, Loading
<1>8. CASE AddGroup(l) \/ Join(l) \/ Member(l) \/ GroupsEnd(l)
  BY <1>1, <1>2, <1>8 DEF AddGroup, Join, Member, GroupsEnd, To, At, Loading
<1>9. CASE SetHost(l) \/ HostEnds(l) \/ HostsEnd(l)
  BY <1>1, <1>2, <1>9 DEF SetHost, HostEnds, HostsEnd, To, At, Loading
<1>10. CASE Clear(l) \/ Wipe(l) \/ WipeEnds(l)
  BY <1>1, <1>2, <1>10 DEF Clear, Wipe, WipeEnds, To, At, Loading
<1>11. CASE NextInterfaces(l) \/ AddInterface(l) \/ Put(l)
  BY <1>1, <1>2, <1>11 DEF NextInterfaces, AddInterface, Put, Unnamed, To, At, Loading
<1>12. CASE SetIP(l) \/ SetName(l) \/ SetDefault(l) \/ SetMain(l) \/ InterfacesEnd(l)
  BY <1>1, <1>2, <1>12
  DEF SetIP, SetName, SetDefault, SetMain, InterfacesEnd, Unnamed, To, At, Loading
<1>13. CASE Finish(l) \/ Die(l)
  BY <1>1, <1>2, <1>13 DEF Finish, Die, To, End, At, Loading
<1> QED
  BY <1>3, <1>4, <1>5, <1>6, <1>7, <1>8, <1>9, <1>10, <1>11, <1>12, <1>13 DEF Step

(* A load that has not begun can only begin. *)
LEMMA IdleBegins ==
    ASSUME BInv, NEW l \in Loaders, Step(l), load[l].step = "idle"
    PROVE  \E s \in Sheets : Begin(l, s)
BY DEF Step, NotOurs, Remove, Unnode, Check, Read, ReadGroups, Prune, NextHost, AddHost,
       InsertHost, AddGroup, Join, Member, GroupsEnd, SetHost, HostEnds, HostsEnd, Clear,
       Wipe, WipeEnds, NextInterfaces, AddInterface, Put, SetIP, SetName, SetDefault,
       SetMain, InterfacesEnd, Finish, Die, At, Running, Applying, Connecting

(* Only an insert gives a host an id. *)
LEMMA IdsFromInsert ==
    ASSUME BInv, NEW l \in Loaders, Step(l), NEW h \in Hosts, ~ (Ids(h)' \subseteq Ids(h))
    PROVE  InsertHost(l) /\ h = load[l].host
<1>1. nodes' = nodes => Ids(h)' = Ids(h)
  BY DEF Ids
<1>2. nodes' \subseteq nodes => Ids(h)' \subseteq Ids(h)
  BY DEF Ids
<1> DEFINE fixed == nodes' = nodes
<1>3. Raise(l) => fixed
  BY DEF Raise, tables
<1>4. CASE \E s \in Sheets : Begin(l, s)
  BY <1>1, <1>4 DEF Begin, tables
<1>5. CASE NotOurs(l) \/ Remove(l) \/ Check(l) \/ Read(l) \/ ReadGroups(l) \/ Prune(l)
  <2>1. fixed
    BY <1>3, <1>5 DEF NotOurs, Remove, Check, Read, ReadGroups, Prune, tables
  <2> QED
    BY <1>1, <2>1
<1>6. CASE Unnode(l)
  BY <1>2, <1>6 DEF Unnode
<1>7. CASE NextHost(l) \/ AddHost(l) \/ AddGroup(l) \/ Join(l) \/ Member(l) \/ GroupsEnd(l)
  <2>1. fixed
    BY <1>3, <1>7 DEF NextHost, AddHost, AddGroup, Join, Member, GroupsEnd, tables
  <2> QED
    BY <1>1, <2>1
<1>8. CASE InsertHost(l)
  <2>1. Only(load[l].host)
    BY <1>8, InsertEffect
  <2> QED
    BY <1>8, <2>1 DEF Only
<1>9. CASE SetHost(l)
  <2>1. CASE Raise(l)
    BY <1>1, <1>3, <2>1
  <2>2. PICK g : g = load[l].host
    OBVIOUS
  <2>3. CASE Only(g) /\ Ids(g)' = Ids(g)
    <3>1. Ids(h)' = Ids(h)
      <4>1. CASE h = g
        BY <2>3, <4>1
      <4>2. CASE h # g
        BY <2>3, <4>2 DEF Only
      <4> QED
        BY <4>1, <4>2
    <3> QED
      BY <3>1
  <2>4. Raise(l) \/ (Only(g) /\ Ids(g)' = Ids(g))
    BY <1>9, <2>2, SetHostEffect
  <2> QED
    BY <2>1, <2>3, <2>4
<1>10. CASE HostEnds(l) \/ HostsEnd(l) \/ Clear(l) \/ Wipe(l) \/ WipeEnds(l)
            \/ NextInterfaces(l) \/ AddInterface(l) \/ Put(l)
  <2>1. fixed
    BY <1>3, <1>10 DEF HostEnds, HostsEnd, Clear, Wipe, WipeEnds, NextInterfaces,
                       AddInterface, Put, tables
  <2> QED
    BY <1>1, <2>1
<1>11. CASE SetIP(l) \/ SetName(l) \/ SetDefault(l) \/ SetMain(l) \/ InterfacesEnd(l)
            \/ Finish(l) \/ Die(l)
  <2>1. fixed
    BY <1>3, <1>11 DEF SetIP, SetName, SetDefault, SetMain, InterfacesEnd, Finish, Die,
                       Update, tables
  <2> QED
    BY <1>1, <2>1
<1> QED
  BY <1>4, <1>5, <1>6, <1>7, <1>8, <1>9, <1>10, <1>11 DEF Step

(* An insert of a load that nobody disturbed is the first of its host. *)
LEMMA FirstInsert ==
    ASSUME BInv, WorkInv, NEW l \in Loaders, undisturbed[l], InsertHost(l),
           NEW h, h = load[l].host
    PROVE  ~ Ambiguous(h)'
<1>1. /\ load[l].step = "insert" /\ WorkOK(load[l])
  BY DEF InsertHost, At, WorkInv
<1>2. h \notin load[l].existing /\ NotYet(load[l], h)
  BY <1>1 DEF WorkOK, HostOK
<1>3. Ids(h) = {}
  BY <1>2 DEF NotYet
<1>4. Ids(h)' = {serial}
  BY <1>3, InsertEffect
<1>5. Cardinality(Ids(h)') = 1
  BY <1>4, FS_Singleton
<1> QED
  BY <1>5 DEF Ambiguous

(* TwiceOnlyAtATime for every spreadsheet and number of loads, killed or not, *)
(* where the tables have no host twice to begin with: a load that nobody      *)
(* disturbed inserts none that has a row, and being disturbed is for ever.    *)
THEOREM TwiceOnlyAtATimeCorrect ==
    ASSUME OnceInitially
    PROVE  Spec => []TwiceOnlyAtATime
<1> DEFINE Twice == Unread /\ TwiceOnlyAtATime
<1>1. Init => Twice
  <2> SUFFICES ASSUME Init PROVE Twice
    OBVIOUS
  <2>1. Unread
    BY DEF Init, Idle, Unread
  <2>2. ASSUME NEW h \in Hosts PROVE ~ Ambiguous(h)
    <3>1. \A m, n \in nodes : m.name = n.name => m = n
      BY DEF Init, OnceInitially
    <3>2. CASE Ids(h) = {}
      BY <3>2, FS_EmptySet DEF Ambiguous
    <3>3. CASE Ids(h) # {}
      <4>1. PICK n \in nodes : n.name = h
        BY <3>3 DEF Ids
      <4>2. Ids(h) = {n.id}
        BY <3>1, <4>1 DEF Ids
      <4>3. Cardinality(Ids(h)) = 1
        BY <4>2, FS_Singleton
      <4> QED
        BY <4>3 DEF Ambiguous
    <3> QED
      BY <3>2, <3>3
  <2> QED
    BY <2>1, <2>2 DEF TwiceOnlyAtATime
<1>2. BInv /\ BInv' /\ WorkInv /\ Twice /\ [Next]_vars => Twice'
  <2> SUFFICES ASSUME BInv, BInv', WorkInv, Twice, [Next]_vars PROVE Twice'
    OBVIOUS
  <2>1. CASE Next
    <3>1. PICK l \in Loaders :
              /\ Step(l)
              /\ undisturbed' = [k \in Loaders |-> undisturbed[k] /\ (k = l \/ View(k)' = View(k))]
      BY <2>1 DEF Next
    <3>2. Moved(l) /\ \A k \in Loaders \ {l} : load'[k] = load[k]
      BY <3>1, StepWorks DEF Moved
    <3>3. \A k \in Loaders : ~ undisturbed[k] => ~ undisturbed'[k]
      BY <3>1
    <3>4. load[l].step # "idle" => load'[l].sheet = load[l].sheet
      BY <3>1, SheetKept
    <3>5. load'[l].step # "idle"
      <4>1. CASE load[l].step # "idle"
        BY <3>1, <4>1, SheetKept
      <4>2. CASE load[l].step = "idle"
        <5>1. PICK s \in Sheets : Begin(l, s)
          BY <3>1, <4>2, IdleBegins
        <5> DEFINE t == [Idle EXCEPT
                !.step = IF Malformed(s) THEN "rejected" ELSE "boss",
                !.sheet = s, !.hosts = Names(s),
                !.listed = [h \in Hosts |->
                               IF Bossed(s) THEN Cardinality({n \in RowsOf(h) : n.named}) ELSE 0],
                !.left = IF Bossed(s) /\ ~ Malformed(s) THEN Names(s) ELSE {}]
        <5>2. Do(l, t)
          BY <5>1 DEF Begin
        <5>3. t.step = IF Malformed(s) THEN "rejected" ELSE "boss"
          BY DEF Idle
        <5> HIDE DEF t
        <5>4. load'[l] = t
          BY <5>2, OwnRecord
        <5> QED
          BY <5>3, <5>4
      <4> QED
        BY <4>1, <4>2
    <3>6. Unread'
      BY <3>2, <3>5 DEF Unread, At
    <3>7. ASSUME NEW h \in Hosts, Ambiguous(h)'
          PROVE  \E k \in Loaders : h \in Names(load'[k].sheet) /\ ~ undisturbed'[k]
      <4>1. CASE Ids(h)' \subseteq Ids(h)
        <5>1. Ambiguous(h)
          <6>1. IsFiniteSet(Ids(h))
            BY IdsType DEF BInv
          <6>2. Cardinality(Ids(h)') <= Cardinality(Ids(h))
            BY <4>1, <6>1, FS_Subset
          <6>3. IsFiniteSet(Ids(h)') /\ Cardinality(Ids(h)) \in Nat /\ Cardinality(Ids(h)') \in Nat
            BY <4>1, <6>1, FS_Subset, FS_CardinalityType
          <6> QED
            BY <3>7, <6>2, <6>3 DEF Ambiguous
        <5>2. PICK k \in Loaders : h \in Names(load[k].sheet) /\ ~ undisturbed[k]
          BY <5>1 DEF TwiceOnlyAtATime
        <5>3. load[k].step # "idle"
          BY <5>2 DEF Unread, At, Names
        <5>4. load'[k].sheet = load[k].sheet
          BY <3>2, <3>4, <5>3
        <5> QED
          BY <3>3, <5>2, <5>4
      <4>2. CASE ~ (Ids(h)' \subseteq Ids(h))
        <5>1. InsertHost(l) /\ h = load[l].host
          BY <3>1, <4>2, IdsFromInsert
        <5>2. ~ undisturbed[l]
          BY <3>7, <5>1, FirstInsert
        <5>3. load[l].step = "insert"
          BY <5>1 DEF InsertHost, At
        <5>4. h \in Names(load[l].sheet) /\ load[l].step # "idle"
          BY <5>1, <5>3, HostInWork DEF HostSteps
        <5> QED
          BY <3>3, <3>4, <5>2, <5>4
      <4> QED
        BY <4>1, <4>2
    <3> QED
      BY <3>6, <3>7 DEF TwiceOnlyAtATime
  <2>2. CASE UNCHANGED vars
    BY <2>2 DEF vars, tables, Unread, TwiceOnlyAtATime, Ambiguous, Ids, At
  <2> QED
    BY <2>1, <2>2
<1>3. Twice => TwiceOnlyAtATime
  OBVIOUS
<1> HIDE DEF Twice
<1> QED
  BY <1>1, <1>2, <1>3, HostFileInv, HostFileWork, PTL DEF Spec
==============================================================================
