------------------------ MODULE TrackerServer_proofs ------------------------
(***************************************************************************)
(* Theorems about TrackerServer, for any number of hosts, files and slots. *)
(***************************************************************************)
EXTENDS TrackerRefinement, TrackerCompaction, TrackerPeers_proofs

-----------------------------------------------------------------------------
(* Peer lists. *)

(* Only the first entry of a host is ever made READY, and only by its own
   REGISTER; a later entry of the same host was appended DOWNLOADING. *)
LEMMA ReadyFirstKept ==
    ASSUME NEW list \in Seq(PeerInfo), ReadyFirstIn(list), NEW p \in Peers
    PROVE  /\ ReadyFirstIn(MarkReady(list, p))
           /\ ReadyFirstIn(AfterLookup(list, p))
           /\ ReadyFirstIn(RemovePeer(list, p))
<1>1. /\ Len(list) \in Nat
      /\ DOMAIN list = 1..Len(list)
      /\ \A k \in 1..Len(list) : list[k] \in PeerInfo
  BY LenProperties, ElementOfSeq
<1>2. \A j, k \in 1..Len(list) :
        (j < k /\ list[j].ip = list[k].ip) => list[k].state = DOWNLOADING
  BY <1>1 DEF ReadyFirstIn
<1>3. \A e \in PeerInfo : e.ip \in Peers
  BY DEF PeerInfo
<1>4. ASSUME NEW state \in {DOWNLOADING, READY}, Positions(list, p) # {}
      PROVE  ReadyFirstIn([list EXCEPT ![FirstPosition(list, p)] = [ip |-> p, state |-> state]])
  <2> DEFINE n == FirstPosition(list, p)
             s == [list EXCEPT ![n] = [ip |-> p, state |-> state]]
  <2>1. /\ n \in 1..Len(list) /\ list[n].ip = p
        /\ \A j \in 1..Len(list) : list[j].ip = p => n <= j
    BY <1>4, LeastPosition
  <2> HIDE DEF n
  <2>2. /\ DOMAIN s = 1..Len(list)
        /\ s[n] = [ip |-> p, state |-> state]
        /\ \A k \in 1..Len(list) : k # n => s[k] = list[k]
    BY <1>1, <2>1
  <2>3. \A k \in 1..Len(list) : s[k].ip = list[k].ip
    BY <2>1, <2>2
  <2> HIDE DEF s
  <2>4. ASSUME NEW j \in 1..Len(list), NEW k \in 1..Len(list), j < k, s[j].ip = s[k].ip
        PROVE  s[k].state = DOWNLOADING
    <3>1. list[j].ip = list[k].ip
      BY <2>3, <2>4
    <3>2. k # n
      BY <1>1, <2>1, <2>4, <3>1
    <3> QED
      BY <1>2, <2>2, <2>4, <3>1, <3>2
  <2> QED
    BY <2>2, <2>4 DEF ReadyFirstIn, s, n
<1>5. ASSUME NEW state \in {DOWNLOADING, READY},
             state = DOWNLOADING \/ Positions(list, p) = {}
      PROVE  ReadyFirstIn(addpeer(list, p, state))
  <2> DEFINE s == addpeer(list, p, state)
             n == Len(list) + 1
  <2>1. /\ s \in Seq(PeerInfo) /\ Len(s) = n
        /\ s[n] = [ip |-> p, state |-> state]
        /\ \A k \in 1..Len(list) : s[k] = list[k]
    <3>1. [ip |-> p, state |-> state] \in PeerInfo
      BY DEF PeerInfo
    <3> QED
      BY <3>1, AppendProperties DEF addpeer
  <2>2. DOMAIN s = 1..n
    BY <2>1, LenProperties
  <2> HIDE DEF s
  <2>3. ASSUME NEW j \in 1..n, NEW k \in 1..n, j < k, s[j].ip = s[k].ip
        PROVE  s[k].state = DOWNLOADING
    <3>1. j \in 1..Len(list)
      BY <1>1, <2>3
    <3>2. CASE k = n
      <4>1. list[j].ip = p
        BY <2>1, <2>3, <3>1, <3>2
      <4>2. j \in Positions(list, p)
        BY <1>1, <3>1, <4>1 DEF Positions
      <4> QED
        BY <1>5, <2>1, <3>2, <4>2
    <3>3. CASE k # n
      <4>1. k \in 1..Len(list)
        BY <1>1, <3>3
      <4> QED
        BY <1>2, <2>1, <2>3, <3>1, <4>1
    <3> QED
      BY <3>2, <3>3
  <2> QED
    BY <2>2, <2>3 DEF ReadyFirstIn, s
<1>6. ReadyFirstIn(MarkReady(list, p))
  BY <1>4, <1>5 DEF MarkReady
<1>7. ReadyFirstIn(AfterLookup(list, p))
  BY <1>4, <1>5 DEF AfterLookup, MeetsRequestor
<1>8. ReadyFirstIn(RemovePeer(list, p))
  <2>1. /\ RemovePeer(list, p) \in Seq(PeerInfo)
        /\ \A j, k \in 1..Len(RemovePeer(list, p)) : j < k =>
             \E i, m \in 1..Len(list) : /\ i < m
                                       /\ RemovePeer(list, p)[j] = list[i]
                                       /\ RemovePeer(list, p)[k] = list[m]
    BY RemovedPeers
  <2>2. PICK s \in Seq(PeerInfo) : s = RemovePeer(list, p)
    BY <2>1
  <2>3. \A j, k \in 1..Len(s) : j < k =>
           \E i, m \in 1..Len(list) : i < m /\ s[j] = list[i] /\ s[k] = list[m]
    BY <2>1, <2>2
  <2>4. DOMAIN s = 1..Len(s)
    BY <2>2, LenProperties
  <2>5. ASSUME NEW j \in 1..Len(s), NEW k \in 1..Len(s), j < k, s[j].ip = s[k].ip
        PROVE  s[k].state = DOWNLOADING
    <3>1. PICK i \in 1..Len(list), m \in 1..Len(list) :
                 i < m /\ s[j] = list[i] /\ s[k] = list[m]
      BY <2>3, <2>5
    <3> QED
      BY <1>2, <2>5, <3>1
  <2>6. ReadyFirstIn(s)
    BY <2>4, <2>5 DEF ReadyFirstIn
  <2> QED
    BY <2>2, <2>6
<1> QED
  BY <1>6, <1>7, <1>8

(* Sorted by it, a list has the READY entry of a host before the others. *)
LEMMA ReadyFirstShuffled ==
    ASSUME CoopsAlike, NEW list \in Seq(PeerInfo), ReadyFirstIn(list),
           NEW q \in Peers, NEW st \in [Peers -> Nat],
           NEW s \in Shuffles(list, Coop[q], st)
    PROVE  s \in Seq(PeerInfo) /\ ReadyFirstIn(s)
<1>1. /\ s \in Arrangements(list)
      /\ \A i, j \in DOMAIN s : i < j => ~ Before(s[j], s[i], Coop[q], st)
  BY ComparesConsistently DEF Shuffles
<1>2. /\ s \in Seq(PeerInfo)
      /\ \A j, k \in 1..Len(s) : j # k =>
           \E i, m \in 1..Len(list) : i # m /\ s[j] = list[i] /\ s[k] = list[m]
  BY <1>1, ArrangedPeers
<1>3. /\ DOMAIN s = 1..Len(s) /\ Len(s) \in Nat
      /\ \A k \in 1..Len(s) : s[k].state \in {DOWNLOADING, READY}
      /\ DOMAIN list = 1..Len(list) /\ Len(list) \in Nat
      /\ DOWNLOADING # READY
  <2>1. \A k \in 1..Len(s) : s[k] \in PeerInfo
    BY <1>2, ElementOfSeq
  <2>2. /\ DOMAIN s = 1..Len(s) /\ Len(s) \in Nat
        /\ DOMAIN list = 1..Len(list) /\ Len(list) \in Nat
    BY <1>2, LenProperties
  <2> QED
    BY <2>1, <2>2 DEF PeerInfo, DOWNLOADING, READY
<1>4. ASSUME NEW j \in 1..Len(s), NEW k \in 1..Len(s), j < k, s[j].ip = s[k].ip,
             s[k].state # DOWNLOADING
      PROVE  FALSE
  <2>1. PICK i \in 1..Len(list), m \in 1..Len(list) :
               i # m /\ s[j] = list[i] /\ s[k] = list[m]
    BY <1>2, <1>3, <1>4
  <2>2. s[k].state = READY
    BY <1>3, <1>4
  <2>3. s[j].state # READY
    <3>1. i < m => list[m].state = DOWNLOADING
      BY <1>3, <1>4, <2>1 DEF ReadyFirstIn
    <3>2. m < i => list[i].state = DOWNLOADING
      BY <1>3, <1>4, <2>1 DEF ReadyFirstIn
    <3> QED
      BY <1>3, <2>1, <2>2, <3>1, <3>2
  <2>4. Before(s[k], s[j], Coop[q], st)
    BY <1>4, <2>2, <2>3 DEF Before, CoopDecides
  <2> QED
    BY <1>1, <1>3, <1>4, <2>4
<1> QED
  BY <1>2, <1>3, <1>4 DEF ReadyFirstIn

-----------------------------------------------------------------------------
(* Tables with their entries in a set E that has the free entry in it. *)
IsTable(t, E) ==
    /\ t = [head |-> t.head, tail |-> t.tail, size |-> t.size, entry |-> t.entry]
    /\ t.size \in Nat \ {0}
    /\ t.head \in 0..(t.size - 1)
    /\ t.tail \in 0..(t.size - 1)
    /\ t.entry \in [0..(t.size - 1) -> E]

(* The table the server starts with is a table. *)
LEMMA InitTableType ==
    ASSUME NEW E, FreeEntry \in E
    PROVE  IsTable(InitTable, E)
BY TableAssumption DEF IsTable, InitTable

(* Replacing the entries of a table by others. *)
LEMMA ReplacedType ==
    ASSUME NEW E, NEW t, IsTable(t, E), NEW e \in [Slots(t) -> E]
    PROVE  IsTable([t EXCEPT !.entry = e], E)
<1>1. [t EXCEPT !.entry = e] =
        [head |-> t.head, tail |-> t.tail, size |-> t.size, entry |-> e]
  BY DEF IsTable
<1> QED
  BY <1>1 DEF IsTable, Slots

(* Moving the head, growing if need be, keeps a table and every slot of it. *)
LEMMA AdvancedType ==
    ASSUME NEW E, FreeEntry \in E, NEW t, IsTable(t, E)
    PROVE  /\ IsTable(Advanced(t), E)
           /\ t.head \in 0..(Advanced(t).size - 1)
<1> DEFINE u == [t EXCEPT !.head = t.head + 1]
<1>1. /\ u.head = t.head + 1 /\ u.tail = t.tail /\ u.size = t.size /\ u.entry = t.entry
      /\ u = [head |-> u.head, tail |-> u.tail, size |-> u.size, entry |-> u.entry]
  BY DEF IsTable
<1> HIDE DEF u
<1>2. CASE NeedsGrowth(t)
  <2> DEFINE g == grow_hash_table(u)
  <2>1. /\ g.head = t.head + 1 /\ g.tail = t.tail + GrowBy /\ g.size = t.size + GrowBy
        /\ g.entry = Grown(u)
        /\ g = [head |-> g.head, tail |-> g.tail, size |-> g.size, entry |-> g.entry]
    BY <1>1 DEF grow_hash_table
  <2>2. Grown(u) \in [0..(t.size + GrowBy - 1) -> E]
    <3>1. ASSUME NEW i \in 0..(t.size + GrowBy - 1)
          PROVE  (IF i \in u.head..(u.head + GrowBy) THEN FreeEntry
                  ELSE IF i > u.tail + GrowBy THEN u.entry[i - GrowBy]
                  ELSE u.entry[i]) \in E
      <4>1. CASE i \in u.head..(u.head + GrowBy)
        BY <4>1
      <4>2. CASE ~ i \in u.head..(u.head + GrowBy) /\ i > u.tail + GrowBy
        <5>1. i - GrowBy \in 0..(t.size - 1)
          BY <1>1, <4>2, TableAssumption DEF IsTable
        <5> QED
          BY <1>1, <4>2, <5>1 DEF IsTable
      <4>3. CASE ~ i \in u.head..(u.head + GrowBy) /\ ~ i > u.tail + GrowBy
        <5>1. i \in 0..(t.size - 1)
          BY <1>1, <1>2, <4>3, TableAssumption DEF IsTable, NeedsGrowth
        <5> QED
          BY <1>1, <4>3, <5>1 DEF IsTable
      <4> QED
        BY <4>1, <4>2, <4>3
    <3> QED
      BY <1>1, <3>1 DEF Grown
  <2>3. Advanced(t) = g
    BY <1>1, <1>2, <2>1, TableAssumption DEF Advanced, u, IsTable, NeedsGrowth
  <2> HIDE DEF g
  <2> QED
    BY <1>2, <2>1, <2>2, <2>3, TableAssumption DEF IsTable, NeedsGrowth
<1>3. CASE ~ NeedsGrowth(t)
  <2>1. Advanced(t) = IF u.head = u.size THEN [u EXCEPT !.head = 0] ELSE u
    BY <1>3 DEF Advanced, u
  <2>2. CASE u.head = u.size
    <3>1. Advanced(t) = [head |-> 0, tail |-> t.tail, size |-> t.size, entry |-> t.entry]
      BY <1>1, <2>1, <2>2
    <3> QED
      BY <3>1 DEF IsTable
  <2>3. CASE u.head # u.size
    <3>1. Advanced(t) = [head |-> t.head + 1, tail |-> t.tail, size |-> t.size, entry |-> t.entry]
      BY <1>1, <2>1, <2>3
    <3> QED
      BY <1>1, <2>3, <3>1 DEF IsTable
  <2> QED
    BY <2>2, <2>3
<1> QED
  BY <1>2, <1>3

(* A new entry is written to a slot of the table. *)
LEMMA newentryType ==
    ASSUME NEW E, FreeEntry \in E, NEW t, IsTable(t, E), NEW h, NEW list,
           [hash |-> h, peers |-> list] \in E
    PROVE  IsTable(newentry(t, h, list), E)
<1> DEFINE g == Advanced(t)
           e == [g.entry EXCEPT ![t.head] = [hash |-> h, peers |-> list]]
<1>1. IsTable(g, E) /\ t.head \in 0..(g.size - 1)
  BY AdvancedType
<1>2. newentry(t, h, list) = [g EXCEPT !.entry = e]
  BY DEF newentry
<1> HIDE DEF g
<1>4. e \in [0..(g.size - 1) -> E]
  BY <1>1 DEF IsTable
<1>5. newentry(t, h, list) = [head |-> g.head, tail |-> g.tail, size |-> g.size, entry |-> e]
  BY <1>1, <1>2 DEF IsTable
<1> HIDE DEF e
<1> QED
  BY <1>1, <1>4, <1>5 DEF IsTable

(* Every slot the lookup passes is a slot of the table. *)
LEMMA BelowType ==
    ASSUME NEW E, NEW t, IsTable(t, E), NEW d \in 1..Span(t)
    PROVE  Below(t, d) \in 0..(t.size - 1)
BY DEF IsTable, Below, Span

(* Compaction only moves entries the table has. *)
LEMMA CompactedType ==
    ASSUME NEW E, FreeEntry \in E, NEW t, IsTable(t, E)
    PROVE  IsTable(compact_hash_table(t), E)
<1> DEFINE ranked(k) == {d \in UsedWithin(t, Span(t)) :
                           Cardinality(UsedWithin(t, d)) = k}
           at(k) == IF ranked(k) = {} THEN FreeEntry
                    ELSE t.entry[Below(t, CHOOSE d \in ranked(k) : TRUE)]
           e == [i \in Slots(t) |->
                  IF i = t.tail \/ ~ \E d \in 1..Span(t) : Below(t, d) = i THEN t.entry[i]
                  ELSE at(CHOOSE d \in 1..Span(t) : Below(t, d) = i)]
<1>1. compact_hash_table(t) = [t EXCEPT !.entry = e]
  BY DEF compact_hash_table
<1>2. ASSUME NEW k
      PROVE  at(k) \in E
  <2>1. CASE ranked(k) = {}
    BY <2>1
  <2>2. CASE ranked(k) # {}
    <3>1. (CHOOSE d \in ranked(k) : TRUE) \in ranked(k)
      BY <2>2
    <3>2. (CHOOSE d \in ranked(k) : TRUE) \in 1..Span(t)
      BY <3>1 DEF UsedWithin
    <3>3. Below(t, CHOOSE d \in ranked(k) : TRUE) \in 0..(t.size - 1)
      BY <3>2, BelowType
    <3> QED
      BY <2>2, <3>3 DEF IsTable
  <2> QED
    BY <2>1, <2>2
<1> HIDE DEF at
<1>3. \A i \in 0..(t.size - 1) : t.entry[i] \in E
  BY DEF IsTable
<1>4. e \in [0..(t.size - 1) -> E]
  BY <1>2, <1>3 DEF Slots
<1> HIDE DEF e
<1> QED
  BY <1>1, <1>4, ReplacedType DEF Slots

(* The three steps of reclaim_free_entries only move the head and the tail,
   and to slots of the table. *)
LEMMA GreatestOf ==
    ASSUME NEW n \in Nat, NEW T \in SUBSET (0..n), T # {}
    PROVE  Max(T) \in T
<1>1. PICK x \in T : \A y \in T : y <= x
  BY GreatestExists
<1>2. \A y \in T : x >= y
  BY <1>1
<1> QED
  BY <1>2 DEF Max

(* The slot after a run of free entries is a slot of the table. *)
LEMMA AfterRunType ==
    ASSUME NEW E, NEW t, IsTable(t, E), NEW top \in 0..(t.size - 1)
    PROVE  AfterRun(t, FreeRun(t, top)) \in 0..(t.size - 1)
<1>1. FreeRun(t, top) \in SUBSET (0..(t.size - 1)) /\ t.size - 1 \in Nat
  BY DEF FreeRun, IsTable
<1>2. FreeRun(t, top) # {} => Max(FreeRun(t, top)) \in 0..(t.size - 1)
  BY <1>1, GreatestOf
<1> QED
  BY <1>2 DEF AfterRun, IsTable

(* Reclaiming free entries keeps a table. *)
LEMMA ReclaimedType ==
    ASSUME NEW E, NEW t, IsTable(t, E)
    PROVE  IsTable(reclaim_free_entries(t), E)
<1>1. ASSUME NEW u, IsTable(u, E), NEW n \in 0..(u.size - 1)
      PROVE  IsTable([u EXCEPT !.tail = n], E) /\ IsTable([u EXCEPT !.head = n], E)
  <2>1. /\ [u EXCEPT !.tail = n] =
             [head |-> u.head, tail |-> n, size |-> u.size, entry |-> u.entry]
        /\ [u EXCEPT !.head = n] =
             [head |-> n, tail |-> u.tail, size |-> u.size, entry |-> u.entry]
    BY <1>1 DEF IsTable
  <2> QED
    BY <1>1, <2>1 DEF IsTable
<1>2. IsTable(TailUp(t), E)
  <2>1. t.size - 1 \in 0..(t.size - 1) /\ 0 \in 0..(t.size - 1)
    BY DEF IsTable
  <2>2. AfterRun(t, FreeRun(t, t.size - 1)) \in 0..(t.size - 1)
    BY <2>1, AfterRunType
  <2> QED
    BY <1>1, <2>1, <2>2 DEF TailUp
<1>3. ASSUME NEW u, IsTable(u, E)
      PROVE  IsTable(TailToHead(u), E)
  <2>1. CASE u.tail >= u.head
    BY <1>3, <2>1 DEF TailToHead
  <2>2. CASE ~ u.tail >= u.head
    <3>1. u.head - 1 \in 0..(u.size - 1)
      BY <1>3, <2>2 DEF IsTable
    <3>2. AfterRun(u, FreeRun(u, u.head - 1)) \in 0..(u.size - 1)
      BY <1>3, <3>1, AfterRunType
    <3> QED
      BY <1>1, <1>3, <2>2, <3>2 DEF TailToHead
  <2> QED
    BY <2>1, <2>2
<1>4. ASSUME NEW u, IsTable(u, E)
      PROVE  IsTable(HeadDown(u), E)
  <2>1. CASE u.head >= u.tail
    BY <1>4, <2>1 DEF HeadDown
  <2>2. CASE ~ u.head >= u.tail
    <3> DEFINE used == {i \in 0..(u.head - 1) : InUse(u, i)}
               down == IF used = {} THEN 0 ELSE Max(used) + 1
    <3>1. used \in SUBSET (0..(u.size - 1)) /\ u.size - 1 \in Nat
      BY <1>4 DEF IsTable
    <3>2. used # {} => Max(used) \in used
      BY <3>1, GreatestOf
    <3>3. down \in 0..(u.size - 1) /\ u.size - 1 \in 0..(u.size - 1)
      BY <1>4, <3>2 DEF IsTable
    <3>4. HeadDown(u) = [u EXCEPT !.head = IF down = 0 /\ ~ InUse(u, u.size - 1)
                                           THEN u.size - 1 ELSE down]
      BY <2>2 DEF HeadDown
    <3> HIDE DEF down
    <3> QED
      BY <1>1, <1>4, <3>3, <3>4
  <2> QED
    BY <2>1, <2>2
<1> QED
  BY <1>2, <1>3, <1>4 DEF reclaim_free_entries

(* Removing a host from entries of a table keeps a table. *)
LEMMA PeerRemovedType ==
    ASSUME NEW E, NEW p, \A e \in E : WithoutPeer(e, p) \in E,
           NEW t, IsTable(t, E), NEW slots
    PROVE  IsTable(PeerRemoved(t, slots, p), E)
<1> DEFINE f == [i \in Slots(t) |->
                   IF i \in slots THEN WithoutPeer(t.entry[i], p) ELSE t.entry[i]]
<1>1. \A i \in 0..(t.size - 1) : t.entry[i] \in E
  BY DEF IsTable
<1>2. f \in [0..(t.size - 1) -> E]
  BY <1>1 DEF Slots
<1>3. PeerRemoved(t, slots, p) = [t EXCEPT !.entry = f]
  BY DEF PeerRemoved
<1> HIDE DEF f
<1> QED
  BY <1>2, <1>3, ReplacedType DEF Slots

(* The lookup finds a slot that holds the hash it was asked for. *)
LEMMA FoundSlot ==
    ASSUME NEW E, NEW t, IsTable(t, E), NEW h, NEW i \in getpeers(t, h)
    PROVE  i \in Slots(t) /\ t.entry[i].hash = h
BY DEF getpeers, Matches, IsTable, Slots

(* The predictions of an answer are read from slots of the table. *)
LEMMA AnsweredSlot ==
    ASSUME NEW E, NEW t, IsTable(t, E), NEW i \in Slots(t), NEW k \in Answered(t, i)
    PROVE  /\ k \in Nat
           /\ Above(t, i, k) \in Slots(t)
           /\ t.entry[Above(t, i, k)] \in E
<1>1. k \in Nat
  BY DEF Answered, NewerThan
<1>2. Above(t, i, k) \in Slots(t)
  BY <1>1 DEF Above, Slots, IsTable
<1> QED
  BY <1>1, <1>2 DEF IsTable, Slots

-----------------------------------------------------------------------------
(* What the handlers do to single peer lists does not leave the set L. *)
EntryOf(L) == [hash : Hashes \cup {NoHash}, peers : L]

Closed(L) ==
    /\ L \subseteq Seq(PeerInfo)
    /\ <<>> \in L
    /\ \A p \in Peers :
          /\ addpeer(<<>>, p, DOWNLOADING) \in L
          /\ addpeer(<<>>, p, READY) \in L
    /\ \A list \in L, p \in Peers :
          /\ MarkReady(list, p) \in L
          /\ RemovePeer(list, p) \in L
          /\ AfterLookup(list, p) \in L
          /\ \A st \in [Peers -> Nat] : Shuffles(list, Coop[p], st) \subseteq L

(* The lists of peers are closed under what the server does to them. *)
LEMMA AllListsClosed == Closed(Seq(PeerInfo))
<1>1. <<>> \in Seq(PeerInfo)
  BY EmptySeq
<1>2. \A list \in Seq(PeerInfo), p \in Peers, st \in [Peers -> Nat] :
         Shuffles(list, Coop[p], st) \subseteq Arrangements(list)
  BY DEF Shuffles
<1>3. \A list \in Seq(PeerInfo) : Arrangements(list) \subseteq Seq(PeerInfo)
  BY ArrangedPeers
<1>4. ASSUME NEW list \in Seq(PeerInfo), NEW p \in Peers
      PROVE  /\ MarkReady(list, p) \in Seq(PeerInfo)
             /\ RemovePeer(list, p) \in Seq(PeerInfo)
             /\ AfterLookup(list, p) \in Seq(PeerInfo)
             /\ \A st \in [Peers -> Nat] :
                   Shuffles(list, Coop[p], st) \subseteq Seq(PeerInfo)
  <2>1. RemovePeer(list, p) \in Seq(PeerInfo)
    BY RemovedPeers
  <2>2. MarkReady(list, p) \in Seq(PeerInfo) /\ AfterLookup(list, p) \in Seq(PeerInfo)
    BY MarkedPeers
  <2> QED
    BY <1>2, <1>3, <2>1, <2>2
<1>5. \A p \in Peers : /\ addpeer(<<>>, p, DOWNLOADING) \in Seq(PeerInfo)
                      /\ addpeer(<<>>, p, READY) \in Seq(PeerInfo)
  BY <1>1, MarkedPeers
<1> QED
  BY <1>1, <1>4, <1>5 DEF Closed

ReadyFirstLists == {list \in Seq(PeerInfo) : ReadyFirstIn(list)}

(* So are the lists with the READY entry of a host first, if hosts are compared
   consistently. *)
LEMMA ReadyFirstClosed ==
    ASSUME CoopsAlike
    PROVE  Closed(ReadyFirstLists)
<1>1. <<>> \in Seq(PeerInfo)
  BY EmptySeq
<1>2. ASSUME NEW p \in Peers, NEW state \in {DOWNLOADING, READY}
      PROVE  addpeer(<<>>, p, state) \in ReadyFirstLists
  <2>1. [ip |-> p, state |-> state] \in PeerInfo
    BY DEF PeerInfo
  <2>2. /\ addpeer(<<>>, p, state) \in Seq(PeerInfo)
        /\ Len(addpeer(<<>>, p, state)) = 1
    BY <1>1, <2>1, AppendProperties, EmptySeq DEF addpeer
  <2>3. DOMAIN addpeer(<<>>, p, state) = 1..1
    BY <2>2, LenProperties
  <2>4. ReadyFirstIn(addpeer(<<>>, p, state))
    BY <2>3 DEF ReadyFirstIn
  <2> QED
    BY <2>2, <2>4 DEF ReadyFirstLists
<1>3. <<>> \in ReadyFirstLists
  <2>1. DOMAIN <<>> = {}
    OBVIOUS
  <2> QED
    BY <1>1, <2>1 DEF ReadyFirstLists, ReadyFirstIn
<1>4. ASSUME NEW list \in ReadyFirstLists, NEW p \in Peers
      PROVE  /\ MarkReady(list, p) \in ReadyFirstLists
             /\ RemovePeer(list, p) \in ReadyFirstLists
             /\ AfterLookup(list, p) \in ReadyFirstLists
             /\ \A st \in [Peers -> Nat] :
                   Shuffles(list, Coop[p], st) \subseteq ReadyFirstLists
  <2>1. list \in Seq(PeerInfo) /\ ReadyFirstIn(list)
    BY DEF ReadyFirstLists
  <2>2. /\ MarkReady(list, p) \in Seq(PeerInfo)
        /\ RemovePeer(list, p) \in Seq(PeerInfo)
        /\ AfterLookup(list, p) \in Seq(PeerInfo)
    BY <2>1, AllListsClosed DEF Closed
  <2>3. /\ ReadyFirstIn(MarkReady(list, p))
        /\ ReadyFirstIn(RemovePeer(list, p))
        /\ ReadyFirstIn(AfterLookup(list, p))
    BY <2>1, ReadyFirstKept
  <2>4. ASSUME NEW st \in [Peers -> Nat], NEW s \in Shuffles(list, Coop[p], st)
        PROVE  s \in ReadyFirstLists
    BY <2>1, ReadyFirstShuffled DEF ReadyFirstLists
  <2> QED
    BY <2>2, <2>3, <2>4 DEF ReadyFirstLists
<1> QED
  BY <1>2, <1>3, <1>4 DEF Closed, ReadyFirstLists

(* Entries with lists of a closed set stay such entries without a host. *)
LEMMA EntriesClosed ==
    ASSUME NEW L, Closed(L)
    PROVE  /\ FreeEntry \in EntryOf(L)
           /\ \A e \in EntryOf(L), p \in Peers : WithoutPeer(e, p) \in EntryOf(L)
<1>1. FreeEntry \in EntryOf(L)
  BY DEF Closed, FreeEntry, EntryOf
<1>2. ASSUME NEW e \in EntryOf(L), NEW p \in Peers
      PROVE  [e EXCEPT !.peers = RemovePeer(e.peers, p)] \in EntryOf(L)
  BY DEF EntryOf, Closed
<1> QED
  BY <1>1, <1>2 DEF WithoutPeer

-----------------------------------------------------------------------------
(* The handlers. *)
IsState(L) ==
    /\ IsTable(table, EntryOf(L))
    /\ stamps \in [Peers -> Nat]
    /\ reply \in Replies \cup {NoReply}

(* A lookup of a known hash keeps the state well formed. *)
LEMMA LookupKnownType ==
    ASSUME NEW L, Closed(L), IsState(L), NEW p \in Peers, NEW h \in Hashes,
           NEW i \in getpeers(table, h), LookupKnown(p, h, i)
    PROVE  IsState(L)'
<1> DEFINE A == Answered(table, i)
           slot(k) == Above(table, i, k)
           lists == [k \in A |-> table.entry[slot(k)].peers]
<1>1. i \in Slots(table)
  BY FoundSlot DEF IsState
<1>2. \A k \in A : k \in Nat /\ slot(k) \in Slots(table) /\ table.entry[slot(k)] \in EntryOf(L)
  BY <1>1, AnsweredSlot DEF IsState
<1>3. 0 \in A /\ DOMAIN lists = A /\ \A k \in A : lists[k] \in L
  BY <1>2 DEF Answered, EntryOf
<1> DEFINE entry(ls) == [j \in Slots(table) |->
               IF j = i
               THEN [hash |-> table.entry[j].hash, peers |-> AfterLookup(ls[0], p)]
               ELSE IF \E k \in A : slot(k) = j
               THEN [hash |-> table.entry[j].hash,
                     peers |-> ls[CHOOSE k \in A : slot(k) = j]]
               ELSE table.entry[j]]
           answer(ls) == [to |-> p, hash |-> h, peers |-> Offered(ls[0], p),
                     predicted |-> {[hash |-> table.entry[slot(k)].hash,
                                     peers |-> Offered(ls[k], p)] : k \in A \ {0}}]
<1>4. PICK ls \in Reorderings(lists, Coop[p], stamps) :
             /\ table' = [table EXCEPT !.entry = entry(ls)]
             /\ stamps' = StampsAfter(stamps, ls, DOMAIN ls)
             /\ reply' = answer(ls)
  BY DEF LookupKnown
<1>5. ASSUME NEW k \in A
      PROVE  ls[k] \in L
  <2>1. ls[k] \in Shuffles(lists[k], Coop[p], StampsAfter(stamps, ls, {j \in A : j < k}))
    BY <1>3, <1>4 DEF Reorderings
  <2>2. StampsAfter(stamps, ls, {j \in A : j < k}) \in [Peers -> Nat]
    BY StampsType
  <2> QED
    BY <1>3, <2>1, <2>2 DEF Closed
<1> HIDE DEF lists, A, slot
<1>6. IsTable(table', EntryOf(L))
  <2>1. ASSUME NEW j \in Slots(table)
        PROVE  (IF j = i
                THEN [hash |-> table.entry[j].hash, peers |-> AfterLookup(ls[0], p)]
                ELSE IF \E k \in A : slot(k) = j
                THEN [hash |-> table.entry[j].hash,
                      peers |-> ls[CHOOSE k \in A : slot(k) = j]]
                ELSE table.entry[j]) \in EntryOf(L)
    <3>1. table.entry[j] \in EntryOf(L)
      BY DEF IsState, IsTable, Slots
    <3>2. AfterLookup(ls[0], p) \in L
      BY <1>3, <1>5 DEF Closed
    <3>3. (\E k \in A : slot(k) = j) => ls[CHOOSE k \in A : slot(k) = j] \in L
      BY <1>5
    <3> QED
      BY <3>1, <3>2, <3>3 DEF EntryOf
  <2>2. entry(ls) \in [Slots(table) -> EntryOf(L)]
    BY <2>1
  <2> HIDE DEF entry
  <2> QED
    BY <1>4, <2>2, ReplacedType DEF IsState
<1>7. stamps' \in [Peers -> Nat]
  BY <1>4, StampsType
<1>8. reply' \in Replies
  <2>1. \A k \in A : Offered(ls[k], p) \in Seq(PeerInfo)
    BY <1>5, MarkedPeers DEF Closed
  <2>2. \A k \in A : table.entry[slot(k)].hash \in Hashes \cup {NoHash}
    BY <1>2 DEF EntryOf, slot, A
  <2>3. {[hash |-> table.entry[slot(k)].hash, peers |-> Offered(ls[k], p)] : k \in A \ {0}}
           \in SUBSET Info
    BY <2>1, <2>2 DEF Info
  <2> QED
    BY <1>3, <1>4, <2>1, <2>3 DEF Replies
<1> QED
  BY <1>6, <1>7, <1>8 DEF IsState

(* Every step keeps the state well formed. *)
LEMMA NextType ==
    ASSUME NEW L, Closed(L), IsState(L), [Next]_vars
    PROVE  IsState(L)'
<1>1. /\ IsTable(table, EntryOf(L))
      /\ FreeEntry \in EntryOf(L)
      /\ \A e \in EntryOf(L), p \in Peers : WithoutPeer(e, p) \in EntryOf(L)
  BY EntriesClosed DEF IsState
<1>2. ASSUME NEW p \in Peers, NEW h \in Hashes, Lookup(p, h)
      PROVE  IsState(L)'
  <2>1. CASE LookupNew(p, h)
    <3>1. IsTable(table', EntryOf(L))
      <4>1. [hash |-> h, peers |-> addpeer(<<>>, p, DOWNLOADING)] \in EntryOf(L)
        BY DEF Closed, EntryOf
      <4> QED
        BY <1>1, <2>1, <4>1, newentryType DEF LookupNew
    <3>2. reply' \in Replies
      <4>1. <<>> \in Seq(PeerInfo)
        BY EmptySeq
      <4> QED
        BY <2>1, <4>1 DEF LookupNew, Replies
    <3> QED
      BY <2>1, <3>1, <3>2 DEF IsState, LookupNew
  <2>2. CASE \E i \in getpeers(table, h) : LookupKnown(p, h, i)
    BY <2>2, LookupKnownType
  <2> QED
    BY <1>2, <2>1, <2>2 DEF Lookup
<1>3. ASSUME NEW p \in Peers, NEW h \in Hashes, Register(p, h)
      PROVE  IsState(L)'
  <2> DEFINE e == [i \in Slots(table) |->
                     IF i \in getpeers(table, h)
                     THEN [hash |-> table.entry[i].hash,
                           peers |-> MarkReady(table.entry[i].peers, p)]
                     ELSE table.entry[i]]
  <2>1. CASE getpeers(table, h) = {}
    <3>1. table' = newentry(table, h, addpeer(<<>>, p, READY))
      BY <1>3, <2>1 DEF Register
    <3>2. [hash |-> h, peers |-> addpeer(<<>>, p, READY)] \in EntryOf(L)
      BY DEF Closed, EntryOf
    <3>3. IsTable(table', EntryOf(L))
      BY <1>1, <3>1, <3>2, newentryType
    <3> QED
      BY <1>3, <3>3 DEF Register, IsState
  <2>2. CASE getpeers(table, h) # {}
    <3>1. \A i \in Slots(table) : table.entry[i] \in EntryOf(L)
      BY <1>1 DEF IsTable, Slots
    <3>2. e \in [Slots(table) -> EntryOf(L)]
      BY <3>1 DEF EntryOf, Closed
    <3>3. table' = [table EXCEPT !.entry = e]
      BY <1>3, <2>2 DEF Register
    <3> HIDE DEF e
    <3>4. IsTable(table', EntryOf(L))
      BY <1>1, <3>2, <3>3, ReplacedType
    <3> QED
      BY <1>3, <3>4 DEF Register, IsState
  <2> QED
    BY <2>1, <2>2
<1>4. ASSUME NEW p \in Peers, NEW h \in Hashes, Unregister(p, h)
      PROVE  IsState(L)'
  <2> DEFINE t == PeerRemoved(table, getpeers(table, h), p)
  <2>1. IsTable(t, EntryOf(L))
    BY <1>1, PeerRemovedType
  <2>2. IsTable(reclaim_free_entries(compact_hash_table(t)), EntryOf(L))
    BY <1>1, <2>1, CompactedType, ReclaimedType
  <2>3. table' \in {t, reclaim_free_entries(compact_hash_table(t))}
    BY <1>4 DEF Unregister
  <2> HIDE DEF t
  <2>4. IsTable(table', EntryOf(L))
    BY <2>1, <2>2, <2>3
  <2> QED
    BY <1>4, <2>4 DEF Unregister, IsState
<1>5. ASSUME NEW p \in Peers, PeerDone(p)
      PROVE  IsState(L)'
  <2>1. IsTable(PeerRemoved(table, Walked(table), p), EntryOf(L))
    BY <1>1, PeerRemovedType
  <2>2. IsTable(table', EntryOf(L))
    BY <1>1, <1>5, <2>1, CompactedType, ReclaimedType DEF PeerDone
  <2> QED
    BY <1>5, <2>2 DEF PeerDone, IsState
<1>6. CASE Restart
  BY <1>1, <1>6, InitTableType DEF Restart, IsState
<1>7. CASE UNCHANGED vars
  BY <1>7 DEF vars, IsState
<1> QED
  BY <1>2, <1>3, <1>4, <1>5, <1>6, <1>7 DEF Next

(* The server starts in a well-formed state. *)
LEMMA InitType ==
    ASSUME NEW L, Closed(L), Init
    PROVE  IsState(L)
BY InitTableType, EntriesClosed DEF Init, IsState

-----------------------------------------------------------------------------
(* The table is a table of the size it says, with both indices inside it,
   the stamps and the reply have their types: no handler reads or writes an
   entry outside the allocated table. *)
THEOREM TypeCorrect == Spec => []TypeOK
<1>1. Init => IsState(Seq(PeerInfo))
  BY AllListsClosed, InitType
<1>2. IsState(Seq(PeerInfo)) /\ [Next]_vars => IsState(Seq(PeerInfo))'
  BY AllListsClosed, NextType
<1>3. IsState(Seq(PeerInfo)) => TypeOK
  <2> SUFFICES ASSUME IsState(Seq(PeerInfo))
               PROVE  TypeOK
    OBVIOUS
  <2>1. EntryOf(Seq(PeerInfo)) = Entry
    BY DEF EntryOf, Entry
  <2>2. /\ table.size \in Nat \ {0}
        /\ table.head \in Slots(table)
        /\ table.tail \in Slots(table)
        /\ table.entry \in [Slots(table) -> Entry]
        /\ table = [head |-> table.head, tail |-> table.tail, size |-> table.size,
                    entry |-> table.entry]
    BY <2>1 DEF IsState, IsTable, Slots
  <2>3. table.head \in Nat /\ table.tail \in Nat
    BY <2>2 DEF Slots
  <2>4. table \in [head : Nat, tail : Nat, size : Nat, entry : [Slots(table) -> Entry]]
    BY <2>2, <2>3
  <2> QED
    BY <2>2, <2>4 DEF TypeOK, IsState
<1> QED
  BY <1>1, <1>2, <1>3, PTL DEF Spec

(* If every host has a known coop group, or none has, only the first entry
   of a host in a list can be READY, however the requests are repeated,
   delayed and reordered: dropping the first entry drops the READY one. *)
THEOREM ReadyFirstCorrect ==
    ASSUME CoopsAlike
    PROVE  Spec => []ReadyFirst
<1>1. Init => IsState(ReadyFirstLists)
  BY ReadyFirstClosed, InitType
<1>2. IsState(ReadyFirstLists) /\ [Next]_vars => IsState(ReadyFirstLists)'
  BY ReadyFirstClosed, NextType
<1>3. IsState(ReadyFirstLists) => ReadyFirst
  BY DEF IsState, IsTable, EntryOf, ReadyFirst, ReadyFirstLists, Slots
<1> QED
  BY <1>1, <1>2, <1>3, PTL DEF Spec

-----------------------------------------------------------------------------
(* Where READY entries come from. *)

(* The entries whose READY peers the table t has under the same hash, and
   those that only q's REGISTER for h can add. *)
EntriesOf(t) ==
    {e \in Entry : \A p \in Peers : Ready(p) \in Range(e.peers) => HasReady(t, e.hash, p)}

EntriesWith(t, q, h) ==
    {e \in Entry : \A p \in Peers : Ready(p) \in Range(e.peers) =>
                      (HasReady(t, e.hash, p) \/ (p = q /\ e.hash = h))}

(* A table has its own entries. *)
LEMMA OwnEntries ==
    ASSUME NEW t, IsTable(t, Entry)
    PROVE  IsTable(t, EntriesOf(t)) /\ FreeEntry \in EntriesOf(t)
<1>1. FreeEntry \in Entry /\ Range(FreeEntry.peers) = {}
  BY EmptySeq DEF FreeEntry, Entry, Range
<1>2. ASSUME NEW i \in 0..(t.size - 1)
      PROVE  t.entry[i] \in EntriesOf(t)
  BY DEF IsTable, EntriesOf, HasReady, Slots, Ready
<1> QED
  BY <1>1, <1>2 DEF IsTable, EntriesOf

(* A READY entry in a table of old entries was READY before; in one that also
   has the REGISTERed entry, it may be the sender's. *)
LEMMA ReadyTraced ==
    ASSUME NEW t, NEW u, NEW p \in Peers, NEW h, HasReady(u, h, p)
    PROVE  /\ IsTable(u, EntriesOf(t)) => HasReady(t, h, p)
           /\ \A q, g : IsTable(u, EntriesWith(t, q, g)) =>
                         HasReady(t, h, p) \/ (p = q /\ h = g)
<1>1. PICK i \in Slots(u) : u.entry[i].hash = h /\ Ready(p) \in Range(u.entry[i].peers)
  BY DEF HasReady, Ready
<1>2. IsTable(u, EntriesOf(t)) => u.entry[i] \in EntriesOf(t)
  BY DEF IsTable, Slots
<1>4. IsTable(u, EntriesOf(t)) => HasReady(t, h, p)
  BY <1>1, <1>2 DEF EntriesOf
<1>5. ASSUME NEW q, NEW g, IsTable(u, EntriesWith(t, q, g))
      PROVE  HasReady(t, h, p) \/ (p = q /\ h = g)
  <2>1. u.entry[i] \in EntriesWith(t, q, g)
    BY <1>5 DEF IsTable, Slots
  <2>2. \A r \in Peers : Ready(r) \in Range(u.entry[i].peers) =>
                        (HasReady(t, u.entry[i].hash, r) \/ (r = q /\ u.entry[i].hash = g))
    BY <2>1 DEF EntriesWith
  <2> QED
    BY <1>1, <2>2
<1> QED
  BY <1>4, <1>5

(* An entry without a host has no READY entry it did not have. *)
LEMMA DroppingTraced ==
    ASSUME NEW t, NEW e \in EntriesOf(t), NEW q \in Peers
    PROVE  WithoutPeer(e, q) \in EntriesOf(t)
<1>1. e \in Entry /\ e.peers \in Seq(PeerInfo)
  BY DEF EntriesOf, Entry
<1>2. FreeEntry \in EntriesOf(t)
  BY EmptySeq DEF FreeEntry, EntriesOf, Entry, Range
<1>3. /\ RemovePeer(e.peers, q) \in Seq(PeerInfo)
      /\ \A p \in Peers : Ready(p) \in Range(RemovePeer(e.peers, q)) =>
                             Ready(p) \in Range(e.peers)
  BY <1>1, RemovedPeers, NoNewReady
<1> DEFINE f == [e EXCEPT !.peers = RemovePeer(e.peers, q)]
<1>4. f \in Entry /\ f.hash = e.hash /\ f.peers = RemovePeer(e.peers, q)
  BY <1>1, <1>3 DEF Entry
<1> HIDE DEF f
<1>5. f \in EntriesOf(t)
  BY <1>3, <1>4 DEF EntriesOf
<1> QED
  BY <1>2, <1>5 DEF WithoutPeer, f

(* A lookup puts no READY entry into the table. *)
LEMMA LookupTraced ==
    ASSUME IsTable(table, Entry), stamps \in [Peers -> Nat], NEW q \in Peers, NEW g \in Hashes,
           NEW i \in getpeers(table, g), LookupKnown(q, g, i)
    PROVE  IsTable(table', EntriesOf(table))
<1> DEFINE A == Answered(table, i)
           slot(k) == Above(table, i, k)
           lists == [k \in A |-> table.entry[slot(k)].peers]
<1>1. i \in Slots(table)
  BY FoundSlot
<1>2. \A k \in A : k \in Nat /\ slot(k) \in Slots(table) /\ table.entry[slot(k)] \in Entry
  BY <1>1, AnsweredSlot
<1>3. /\ 0 \in A /\ DOMAIN lists = A
      /\ \A k \in A : lists[k] \in Seq(PeerInfo) /\ lists[k] = table.entry[slot(k)].peers
  BY <1>2 DEF Answered, Entry
<1>4. slot(0) = i
  <2>1. i \in Nat /\ table.size \in Nat /\ i < table.size /\ i + 0 = i
    BY <1>1 DEF Slots, IsTable
  <2>2. i % table.size = i
    BY <2>1
  <2> QED
    BY <2>1, <2>2 DEF Above
<1> DEFINE change(ls, j) ==
               IF j = i
               THEN [hash |-> table.entry[j].hash, peers |-> AfterLookup(ls[0], q)]
               ELSE IF \E k \in A : slot(k) = j
               THEN [hash |-> table.entry[j].hash,
                     peers |-> ls[CHOOSE k \in A : slot(k) = j]]
               ELSE table.entry[j]
<1>5. PICK ls \in Reorderings(lists, Coop[q], stamps) :
             table' = [table EXCEPT !.entry = [j \in Slots(table) |-> change(ls, j)]]
  BY DEF LookupKnown
<1>6. ASSUME NEW k \in A
      PROVE  /\ ls[k] \in Seq(PeerInfo)
             /\ \A p \in Peers : Ready(p) \in Range(ls[k]) =>
                   Ready(p) \in Range(table.entry[slot(k)].peers)
  <2> DEFINE st == StampsAfter(stamps, ls, {j \in A : j < k})
  <2>1. ls[k] \in Shuffles(lists[k], Coop[q], st)
    BY <1>3, <1>5 DEF Reorderings
  <2>2. st \in [Peers -> Nat]
    BY StampsType
  <2> HIDE DEF st
  <2>3. ls[k] \in Seq(PeerInfo)
    BY <1>3, <2>1, <2>2, AllListsClosed DEF Closed
  <2>4. \A p \in Peers : Ready(p) \in Range(ls[k]) => Ready(p) \in Range(lists[k])
    BY <1>3, <2>1, NoNewReady
  <2> QED
    BY <1>3, <2>3, <2>4
<1> HIDE DEF lists, A, slot
<1>7. ASSUME NEW j \in Slots(table)
      PROVE  change(ls, j) \in EntriesOf(table)
  <2>1. table.entry[j] \in EntriesOf(table) /\ table.entry[j] \in Entry
    BY OwnEntries DEF IsTable, Slots
  <2>2. ASSUME NEW list \in Seq(PeerInfo),
               \A p \in Peers : Ready(p) \in Range(list) =>
                                   Ready(p) \in Range(table.entry[j].peers)
        PROVE  [hash |-> table.entry[j].hash, peers |-> list] \in EntriesOf(table)
    BY <2>1, <2>2 DEF EntriesOf, Entry
  <2>3. CASE j = i
    <3>1. AfterLookup(ls[0], q) \in Seq(PeerInfo)
      BY <1>3, <1>6, MarkedPeers
    <3>2. \A p \in Peers : Ready(p) \in Range(AfterLookup(ls[0], q)) =>
                            Ready(p) \in Range(ls[0])
      BY <1>3, <1>6, NoNewReady
    <3> QED
      BY <1>3, <1>4, <1>6, <2>2, <2>3, <3>1, <3>2
  <2>4. CASE j # i /\ \E k \in A : slot(k) = j
    <3>1. PICK k \in A : slot(k) = j /\ k = CHOOSE m \in A : slot(m) = j
      BY <2>4
    <3> QED
      BY <1>6, <2>2, <2>4, <3>1
  <2> QED
    BY <2>1, <2>3, <2>4
<1>8. FreeEntry \in EntriesOf(table) /\ IsTable(table, EntriesOf(table))
  BY OwnEntries
<1> HIDE DEF change
<1>9. [j \in Slots(table) |-> change(ls, j)] \in [Slots(table) -> EntriesOf(table)]
  BY <1>7
<1> QED
  BY <1>5, <1>8, <1>9, ReplacedType

(* The step in which a host becomes READY for a hash is its REGISTER of it. *)
LEMMA ReadyStep ==
    ASSUME IsState(Seq(PeerInfo)), [Next]_vars, NEW p \in Peers, NEW h \in Hashes,
           HasReady(table', h, p), ~ HasReady(table, h, p)
    PROVE  Register(p, h)
<1> DEFINE E == EntriesOf(table)
<1>1. /\ IsTable(table, E) /\ FreeEntry \in E
      /\ \A q \in Peers : \A e \in E : WithoutPeer(e, q) \in E
      /\ IsTable(table, Entry) /\ stamps \in [Peers -> Nat]
  BY OwnEntries, DroppingTraced DEF IsState, EntryOf, Entry
<1>2. ~ IsTable(table', E)
  BY ReadyTraced
<1> HIDE DEF E
<1>3. ASSUME NEW q \in Peers, NEW g \in Hashes, Lookup(q, g)
      PROVE  FALSE
  <2>1. CASE LookupNew(q, g)
    <3> DEFINE list == addpeer(<<>>, q, DOWNLOADING)
    <3>1. list \in Seq(PeerInfo) /\ \A r \in Peers : Ready(r) \notin Range(list)
      <4>1. [ip |-> q, state |-> DOWNLOADING] \in PeerInfo /\ <<>> \in Seq(PeerInfo)
        BY EmptySeq DEF PeerInfo
      <4>2. /\ list \in Seq(PeerInfo) /\ Len(list) = 1
            /\ list[1] = [ip |-> q, state |-> DOWNLOADING]
        BY <4>1, AppendProperties, EmptySeq DEF addpeer
      <4> HIDE DEF list
      <4> QED
        BY <4>2, RangeOf DEF Ready, READY, DOWNLOADING
    <3> HIDE DEF list
    <3>2. [hash |-> g, peers |-> list] \in E
      BY <3>1 DEF E, EntriesOf, Entry
    <3>3. IsTable(table', E)
      BY <1>1, <2>1, <3>2, newentryType DEF LookupNew, list
    <3> QED
      BY <1>2, <3>3
  <2>2. CASE \E i \in getpeers(table, g) : LookupKnown(q, g, i)
    BY <1>1, <1>2, <2>2, LookupTraced DEF E
  <2> QED
    BY <1>3, <2>1, <2>2 DEF Lookup
<1>4. ASSUME NEW q \in Peers, NEW g \in Hashes, Register(q, g)
      PROVE  q = p /\ g = h
  <2> DEFINE F == EntriesWith(table, q, g)
  <2>1. /\ IsTable(table, F) /\ FreeEntry \in F
        /\ \A i \in Slots(table) : table.entry[i] \in F
    <3>1. E \subseteq F
      BY DEF E, EntriesOf, EntriesWith
    <3> QED
      BY <1>1, <3>1 DEF IsTable, Slots
  <2>2. \A e \in F : e \in Entry
    BY DEF EntriesWith
  <2>3. ASSUME NEW list \in Seq(PeerInfo), [hash |-> g, peers |-> list] \in F
        PROVE  [hash |-> g, peers |-> MarkReady(list, q)] \in F
    <3>1. /\ MarkReady(list, q) \in Seq(PeerInfo)
          /\ \A r \in Peers : Ready(r) \in Range(MarkReady(list, q)) =>
                                (Ready(r) \in Range(list) \/ r = q)
      BY MarkedPeers, NoNewReady
    <3> QED
      BY <2>3, <3>1 DEF EntriesWith, Entry
  <2>4. CASE getpeers(table, g) = {}
    <3>1. <<>> \in Seq(PeerInfo) /\ [hash |-> g, peers |-> <<>>] \in F
      BY EmptySeq DEF EntriesWith, Entry, Range
    <3>2. Positions(<<>>, q) = {}
      BY DEF Positions
    <3>3. MarkReady(<<>>, q) = addpeer(<<>>, q, READY)
      BY <3>2 DEF MarkReady
    <3>4. [hash |-> g, peers |-> addpeer(<<>>, q, READY)] \in F
      BY <2>3, <3>1, <3>3
    <3>5. table' = newentry(table, g, addpeer(<<>>, q, READY))
      BY <1>4, <2>4 DEF Register
    <3>6. IsTable(table', F)
      BY <2>1, <3>4, <3>5, newentryType
    <3> QED
      BY <3>6, ReadyTraced
  <2>5. CASE getpeers(table, g) # {}
    <3> DEFINE e == [i \in Slots(table) |->
                       IF i \in getpeers(table, g)
                       THEN [hash |-> table.entry[i].hash,
                             peers |-> MarkReady(table.entry[i].peers, q)]
                       ELSE table.entry[i]]
    <3>1. ASSUME NEW i \in getpeers(table, g)
          PROVE  [hash |-> table.entry[i].hash,
                  peers |-> MarkReady(table.entry[i].peers, q)] \in F
      <4>1. i \in Slots(table) /\ table.entry[i].hash = g
        BY <1>1, FoundSlot
      <4>2. /\ table.entry[i].peers \in Seq(PeerInfo)
            /\ table.entry[i] = [hash |-> g, peers |-> table.entry[i].peers]
        BY <2>1, <2>2, <4>1 DEF Entry
      <4> QED
        BY <2>1, <2>3, <4>1, <4>2
    <3>2. e \in [Slots(table) -> F]
      BY <2>1, <3>1
    <3>3. table' = [table EXCEPT !.entry = e]
      BY <1>4, <2>5 DEF Register
    <3> HIDE DEF e, F
    <3>4. IsTable(table', F)
      BY <2>1, <3>2, <3>3, ReplacedType
    <3> QED
      BY <3>4, ReadyTraced DEF F
  <2> QED
    BY <2>4, <2>5
<1>5. ASSUME NEW q \in Peers, NEW g \in Hashes, Unregister(q, g)
      PROVE  FALSE
  <2> DEFINE t == PeerRemoved(table, getpeers(table, g), q)
  <2>1. IsTable(t, E)
    BY <1>1, PeerRemovedType
  <2>2. IsTable(reclaim_free_entries(compact_hash_table(t)), E)
    BY <1>1, <2>1, CompactedType, ReclaimedType
  <2>3. table' \in {t, reclaim_free_entries(compact_hash_table(t))}
    BY <1>5 DEF Unregister
  <2> HIDE DEF t
  <2> QED
    BY <1>2, <2>1, <2>2, <2>3
<1>6. ASSUME NEW q \in Peers, PeerDone(q)
      PROVE  FALSE
  <2>1. IsTable(PeerRemoved(table, Walked(table), q), E)
    BY <1>1, PeerRemovedType
  <2>2. IsTable(table', E)
    BY <1>1, <1>6, <2>1, CompactedType, ReclaimedType DEF PeerDone
  <2> QED
    BY <1>2, <2>2
<1>7. ~ Restart
  BY <1>1, <1>2, InitTableType DEF Restart
<1>8. ~ UNCHANGED vars
  BY <1>1, <1>2 DEF vars
<1> QED
  BY <1>3, <1>4, <1>5, <1>6, <1>7, <1>8 DEF Next

(* Nothing but a host's own REGISTER makes it a READY source of a file,
   whatever slots its entry moves through: no host is ever recommended for a
   file it never announced. *)
THEOREM ReadyByRegister == Spec => ReadyOnlyByRegister
<1>1. Init => IsState(Seq(PeerInfo))
  BY AllListsClosed, InitType
<1>2. IsState(Seq(PeerInfo)) /\ [Next]_vars => IsState(Seq(PeerInfo))'
  BY AllListsClosed, NextType
<1>3. IsState(Seq(PeerInfo)) /\ [Next]_vars =>
        [\A p \in Peers, h \in Hashes :
           (HasReady(table', h, p) /\ ~ HasReady(table, h, p)) => Register(p, h)]_vars
  BY ReadyStep
<1> QED
  BY <1>1, <1>2, <1>3, PTL DEF Spec, ReadyOnlyByRegister

-----------------------------------------------------------------------------
(* Who is sent where. *)

(* The answer to a lookup does not send its sender to itself. *)
LEMMA LookupAnswer ==
    ASSUME IsState(Seq(PeerInfo)), NEW p \in Peers, NEW h \in Hashes, Lookup(p, h)
    PROVE  NotSentToItself'
<1>1. CASE LookupNew(p, h)
  <2>1. reply' = [to |-> p, hash |-> h, peers |-> <<>>, predicted |-> {}]
    BY <1>1 DEF LookupNew
  <2>2. DOMAIN <<>> = {}
    OBVIOUS
  <2> QED
    BY <2>1, <2>2 DEF NotSentToItself
<1>2. ASSUME NEW i \in getpeers(table, h), LookupKnown(p, h, i)
      PROVE  NotSentToItself'
  <2> DEFINE A == Answered(table, i)
             slot(k) == Above(table, i, k)
             lists == [k \in A |-> table.entry[slot(k)].peers]
  <2>1. i \in Slots(table)
    BY FoundSlot DEF IsState
  <2>2. \A k \in A : k \in Nat /\ table.entry[slot(k)] \in EntryOf(Seq(PeerInfo))
    BY <2>1, AnsweredSlot DEF IsState
  <2>3. 0 \in A /\ DOMAIN lists = A /\ \A k \in A : lists[k] \in Seq(PeerInfo)
    BY <2>2 DEF Answered, EntryOf
  <2>4. PICK ls \in Reorderings(lists, Coop[p], stamps) :
          reply' = [to |-> p, hash |-> h, peers |-> Offered(ls[0], p),
                    predicted |-> {[hash |-> table.entry[slot(k)].hash,
                                    peers |-> Offered(ls[k], p)] : k \in A \ {0}}]
    BY <1>2 DEF LookupKnown
  <2>5. ASSUME NEW k \in A
        PROVE  ls[k] \in Seq(PeerInfo)
    <3>1. ls[k] \in Shuffles(lists[k], Coop[p], StampsAfter(stamps, ls, {j \in A : j < k}))
      BY <2>3, <2>4 DEF Reorderings
    <3>2. StampsAfter(stamps, ls, {j \in A : j < k}) \in [Peers -> Nat]
      BY StampsType
    <3> QED
      BY <2>3, <3>1, <3>2, AllListsClosed DEF Closed
  <2>6. \A k \in A : \A j \in DOMAIN Offered(ls[k], p) : Offered(ls[k], p)[j].ip # p
    BY <2>5, RequestorLeftOut
  <2> HIDE DEF lists, A, slot
  <2>7. reply'.to = p /\ reply'.peers = Offered(ls[0], p)
        /\ \A e \in reply'.predicted : \E k \in A : e.peers = Offered(ls[k], p)
    BY <2>4
  <2>8. \A list \in {reply'.peers} \cup {e.peers : e \in reply'.predicted} :
          \E k \in A : list = Offered(ls[k], p)
    BY <2>3, <2>7
  <2> QED
    BY <2>6, <2>7, <2>8 DEF NotSentToItself
<1> QED
  BY <1>1, <1>2 DEF Lookup

(* Nor does any other step change an answer so that it does. *)
LEMMA AnswerStep ==
    ASSUME IsState(Seq(PeerInfo)), NotSentToItself, [Next]_vars
    PROVE  NotSentToItself'
<1>1. ASSUME NEW p \in Peers, NEW h \in Hashes, Lookup(p, h)
      PROVE  NotSentToItself'
  BY <1>1, LookupAnswer
<1>2. ASSUME NEW p \in Peers, NEW h \in Hashes, Register(p, h) \/ Unregister(p, h)
      PROVE  NotSentToItself'
  BY <1>2 DEF Register, Unregister, NotSentToItself
<1>3. ASSUME NEW p \in Peers, PeerDone(p)
      PROVE  NotSentToItself'
  BY <1>3 DEF PeerDone, NotSentToItself
<1>4. CASE Restart
  BY <1>4 DEF Restart, NotSentToItself
<1>5. CASE UNCHANGED vars
  BY <1>5 DEF vars, NotSentToItself
<1> QED
  BY <1>1, <1>2, <1>3, <1>4, <1>5 DEF Next

(* No host is ever sent to itself, wherever it is in the lists and however
   often. *)
THEOREM NotSentToItselfCorrect == Spec => []NotSentToItself
<1>1. Init => IsState(Seq(PeerInfo)) /\ NotSentToItself
  BY AllListsClosed, InitType DEF Init, NotSentToItself
<1>2. IsState(Seq(PeerInfo)) /\ NotSentToItself /\ [Next]_vars =>
        IsState(Seq(PeerInfo))' /\ NotSentToItself'
  BY AllListsClosed, NextType, AnswerStep
<1> QED
  BY <1>1, <1>2, PTL DEF Spec

-----------------------------------------------------------------------------
(* In which order. *)

(* No peer of a sorted list is a better source than the first: none of the
   requestor's group is behind one of another group, and no READY one behind
   one that still downloads and is as near. *)
LEMMA SortedFirst ==
    ASSUME CoopsAlike, NEW list \in Seq(PeerInfo), NEW p \in Peers,
           NEW st \in [Peers -> Nat], NEW s \in Shuffles(list, Coop[p], st),
           NEW k \in 1..Len(s)
    PROVE  /\ Local(p, s[k].ip) => Local(p, s[1].ip)
           /\ (Local(p, s[k].ip) <=> Local(p, s[1].ip))
                => (s[k].state = READY => s[1].state = READY)
<1>1. s \in Arrangements(list) /\ \A i, j \in DOMAIN s : i < j => ~ Before(s[j], s[i], Coop[p], st)
  BY ComparesConsistently DEF Shuffles
<1>2. s \in Seq(PeerInfo)
  BY <1>1, ArrangedPeers
<1>3. /\ Len(s) \in Nat /\ DOMAIN s = 1..Len(s) /\ 1 \in 1..Len(s)
      /\ s[1] \in PeerInfo /\ s[k] \in PeerInfo
  BY <1>2, LenProperties, ElementOfSeq
<1>4. CASE k = 1
  BY <1>4
<1>5. CASE k # 1
  <2>1. ~ Before(s[k], s[1], Coop[p], st)
    BY <1>1, <1>3, <1>5
  <2>2. /\ s[1].ip \in Peers /\ s[k].ip \in Peers /\ DOWNLOADING # READY
        /\ s[1].state \in {DOWNLOADING, READY} /\ s[k].state \in {DOWNLOADING, READY}
    BY <1>3 DEF PeerInfo, DOWNLOADING, READY
  <2> QED
    BY <2>1, <2>2 DEF Before, CoopDecides, Local, CoopsAlike
<1> QED
  BY <1>4, <1>5

(* A LOOKUP changes no peer of the list but the requestor. *)
LEMMA OthersStay ==
    ASSUME NEW list \in Seq(PeerInfo), NEW p \in Peers,
           NEW k \in DOMAIN AfterLookup(list, p), AfterLookup(list, p)[k].ip # p
    PROVE  k \in 1..Len(list) /\ AfterLookup(list, p)[k] = list[k]
<1> DEFINE n == FirstPosition(list, p)
           e == [ip |-> p, state |-> DOWNLOADING]
<1>1. Len(list) \in Nat /\ DOMAIN list = 1..Len(list) /\ e \in PeerInfo
  BY LenProperties DEF PeerInfo
<1>2. CASE MeetsRequestor(list, p)
  <2>1. AfterLookup(list, p) = [list EXCEPT ![n] = e] /\ n \in 1..Len(list)
    BY <1>2, LeastPosition DEF AfterLookup, MeetsRequestor
  <2> QED
    BY <1>1, <2>1
<1>3. CASE ~ MeetsRequestor(list, p)
  <2>1. AfterLookup(list, p) = Append(list, e)
    BY <1>3 DEF AfterLookup, addpeer
  <2>2. /\ Append(list, e) \in Seq(PeerInfo) /\ Len(Append(list, e)) = Len(list) + 1
        /\ \A j \in 1..Len(list) : Append(list, e)[j] = list[j]
        /\ Append(list, e)[Len(list) + 1] = e
    BY <1>1, AppendProperties
  <2>3. DOMAIN AfterLookup(list, p) = 1..(Len(list) + 1)
    BY <2>1, <2>2, LenProperties
  <2>4. k \in 1..Len(list) \/ k = Len(list) + 1
    BY <1>1, <2>3
  <2> QED
    BY <2>1, <2>2, <2>4
<1> QED
  BY <1>2, <1>3

(* The peer offered first is the first of the list. *)
LEMMA OfferedFirst ==
    ASSUME NEW list \in Seq(PeerInfo), NEW p \in Peers, Offered(list, p) # <<>>
    PROVE  Offered(list, p)[1] = list[1]
<1> DEFINE n == IF MeetsRequestor(list, p) THEN FirstPosition(list, p) - 1 ELSE CopyLimit(list)
<1>1. Len(list) \in Nat /\ DOMAIN list = 1..Len(list)
  BY LenProperties
<1>2. CopyLimit(list) \in 0..Len(list)
  BY <1>1, PeersAssumption DEF CopyLimit
<1>3. MeetsRequestor(list, p) => FirstPosition(list, p) \in 1..Len(list)
  BY LeastPosition DEF MeetsRequestor
<1>4. n \in 0..Len(list)
  BY <1>1, <1>2, <1>3
<1>5. Offered(list, p) = SubSeq(list, 1, n)
  BY DEF Offered
<1> HIDE DEF n
<1>6. n # 0
  BY <1>5
<1> QED
  BY <1>1, <1>4, <1>5, <1>6

(* Where a hash is found depends on the hashes of the slots only. *)
LEMMA FoundAlike ==
    ASSUME NEW t, NEW u, u.head = t.head, u.tail = t.tail, u.size = t.size, NEW h,
           t.head \in Slots(t), t.tail \in Slots(t), t.size \in Nat,
           \A i \in Slots(t) : u.entry[i].hash = t.entry[i].hash
    PROVE  getpeers(u, h) = getpeers(t, h)
<1>1. \A from, to \in Nat : to < t.size => Matches(u, h, from, to) = Matches(t, h, from, to)
  BY DEF Matches, Slots
<1>2. t.head < t.tail => Matches(u, h, 0, t.head - 1) = Matches(t, h, 0, t.head - 1)
  BY DEF Matches, Slots
<1>3. Matches(u, h, t.tail, t.size - 1) = Matches(t, h, t.tail, t.size - 1)
  BY DEF Matches, Slots
<1>4. Matches(u, h, t.tail, t.head) = Matches(t, h, t.tail, t.head)
  BY DEF Matches, Slots
<1> QED
  BY <1>2, <1>3, <1>4 DEF getpeers

(* What a LOOKUP of a known hash answers, and leaves in its slot. *)
LEMMA LookupSlot ==
    ASSUME IsState(Seq(PeerInfo)), NEW p \in Peers, NEW h \in Hashes,
           NEW i \in getpeers(table, h), LookupKnown(p, h, i)
    PROVE  \E st \in [Peers -> Nat] : \E s \in Shuffles(table.entry[i].peers, Coop[p], st) :
              /\ s \in Seq(PeerInfo)
              /\ reply'.to = p /\ reply'.hash = h /\ reply'.peers = Offered(s, p)
              /\ table'.entry[i].peers = AfterLookup(s, p)
              /\ table'.head = table.head /\ table'.tail = table.tail
              /\ table'.size = table.size
              /\ \A j \in Slots(table) : table'.entry[j].hash = table.entry[j].hash
<1> DEFINE A == Answered(table, i)
           slot(k) == Above(table, i, k)
           lists == [k \in A |-> table.entry[slot(k)].peers]
           entry(ls) == [j \in Slots(table) |->
               IF j = i
               THEN [hash |-> table.entry[j].hash, peers |-> AfterLookup(ls[0], p)]
               ELSE IF \E k \in A : slot(k) = j
               THEN [hash |-> table.entry[j].hash,
                     peers |-> ls[CHOOSE k \in A : slot(k) = j]]
               ELSE table.entry[j]]
<1>1. i \in Slots(table) /\ table.entry[i] \in EntryOf(Seq(PeerInfo))
  BY FoundSlot DEF IsState, IsTable, Slots
<1>2. 0 \in A /\ DOMAIN lists = A /\ lists[0] = table.entry[slot(0)].peers
  BY DEF Answered
<1>3. slot(0) = i
  <2>1. i \in Nat /\ table.size \in Nat /\ i < table.size /\ i + 0 = i
    BY <1>1 DEF Slots, IsState, IsTable
  <2>2. i % table.size = i
    BY <2>1
  <2> QED
    BY <2>1, <2>2 DEF Above
<1>4. PICK ls \in Reorderings(lists, Coop[p], stamps) :
          /\ table' = [table EXCEPT !.entry = entry(ls)]
          /\ reply' = [to |-> p, hash |-> h, peers |-> Offered(ls[0], p),
                       predicted |-> {[hash |-> table.entry[slot(k)].hash,
                                       peers |-> Offered(ls[k], p)] : k \in A \ {0}}]
  BY DEF LookupKnown
<1> DEFINE st == StampsAfter(stamps, ls, {j \in A : j < 0})
<1>5. st \in [Peers -> Nat]
  BY StampsType
<1>6. ls[0] \in Shuffles(table.entry[i].peers, Coop[p], st)
  BY <1>2, <1>3, <1>4 DEF Reorderings
<1>7. ls[0] \in Seq(PeerInfo)
  BY <1>1, <1>5, <1>6, AllListsClosed DEF Closed, EntryOf
<1> HIDE DEF A, slot, lists, st
<1>8. /\ table'.head = table.head /\ table'.tail = table.tail /\ table'.size = table.size
      /\ table'.entry = entry(ls)
  BY <1>4 DEF IsState, IsTable
<1>9. table'.entry[i].peers = AfterLookup(ls[0], p)
  BY <1>1, <1>8
<1>10. \A j \in Slots(table) : table'.entry[j].hash = table.entry[j].hash
  BY <1>8
<1>11. reply'.to = p /\ reply'.hash = h /\ reply'.peers = Offered(ls[0], p)
  BY <1>4
<1> QED
  BY <1>5, <1>6, <1>7, <1>8, <1>9, <1>10, <1>11

LEMMA BestStep ==
    ASSUME CoopsAlike, IsState(Seq(PeerInfo)), BestSourceFirst, [Next]_vars
    PROVE  BestSourceFirst'
<1>1. ASSUME NEW p \in Peers, NEW h \in Hashes, NEW i \in getpeers(table, h),
             LookupKnown(p, h, i)
      PROVE  BestSourceFirst'
  <2>1. PICK st \in [Peers -> Nat], s \in Seq(PeerInfo) :
              /\ s \in Shuffles(table.entry[i].peers, Coop[p], st)
              /\ reply'.to = p /\ reply'.hash = h /\ reply'.peers = Offered(s, p)
              /\ table'.entry[i].peers = AfterLookup(s, p)
              /\ table'.head = table.head /\ table'.tail = table.tail
              /\ table'.size = table.size
              /\ \A j \in Slots(table) : table'.entry[j].hash = table.entry[j].hash
    BY <1>1, LookupSlot
  <2>2. i \in Slots(table) /\ table.entry[i].peers \in Seq(PeerInfo)
    BY FoundSlot DEF IsState, IsTable, Slots, EntryOf
  <2>3. getpeers(table', h) = getpeers(table, h)
    <3>1. table.head \in Slots(table) /\ table.tail \in Slots(table) /\ table.size \in Nat
      BY DEF IsState, IsTable, Slots
    <3> QED
      BY <2>1, <3>1, FoundAlike
  <2>4. \A j \in getpeers(table, h) : j = i
    BY DEF getpeers, Matches, IsState, IsTable
  <2>5. ASSUME reply'.peers # <<>>, NEW k \in DOMAIN AfterLookup(s, p),
               AfterLookup(s, p)[k].ip # p
        PROVE  LET best == reply'.peers[1]
                   other == AfterLookup(s, p)[k] IN
               /\ Local(p, other.ip) => Local(p, best.ip)
               /\ (Local(p, other.ip) <=> Local(p, best.ip))
                    => (other.state = READY => best.state = READY)
    <3>1. k \in 1..Len(s) /\ AfterLookup(s, p)[k] = s[k]
      BY <2>5, OthersStay
    <3>2. reply'.peers[1] = s[1]
      BY <2>1, <2>5, OfferedFirst
    <3> QED
      BY <2>1, <2>2, <3>1, <3>2, SortedFirst
  <2> QED
    BY <2>1, <2>3, <2>4, <2>5 DEF BestSourceFirst
<1>2. ASSUME NEW p \in Peers, NEW h \in Hashes, LookupNew(p, h)
      PROVE  BestSourceFirst'
  BY <1>2 DEF LookupNew, BestSourceFirst
<1>3. ASSUME NEW p \in Peers, NEW h \in Hashes, Register(p, h) \/ Unregister(p, h)
      PROVE  BestSourceFirst'
  BY <1>3 DEF Register, Unregister, BestSourceFirst
<1>4. ASSUME NEW p \in Peers, PeerDone(p)
      PROVE  BestSourceFirst'
  BY <1>4 DEF PeerDone, BestSourceFirst
<1>5. CASE Restart
  BY <1>5 DEF Restart, BestSourceFirst
<1>6. CASE UNCHANGED vars
  BY <1>6 DEF vars, BestSourceFirst
<1> QED
  BY <1>1, <1>2, <1>3, <1>4, <1>5, <1>6 DEF Next, Lookup

(* If every host has a known coop group, or none has, nobody is offered a
   source first when the list has a nearer one, or as near a one that is
   complete where the first is not. *)
THEOREM BestSourceFirstCorrect ==
    ASSUME CoopsAlike
    PROVE  Spec => []BestSourceFirst
<1>1. Init => IsState(Seq(PeerInfo)) /\ BestSourceFirst
  BY AllListsClosed, InitType DEF Init, BestSourceFirst
<1>2. IsState(Seq(PeerInfo)) /\ BestSourceFirst /\ [Next]_vars =>
        IsState(Seq(PeerInfo))' /\ BestSourceFirst'
  BY AllListsClosed, NextType, BestStep
<1> QED
  BY <1>1, <1>2, PTL DEF Spec

-----------------------------------------------------------------------------
(* The window: the slots strictly between the tail and the head. *)

(* Counted from the head down it has as many slots as there are between head
   and tail, each of them once, and neither the head nor the tail. *)
LEMMA Geometry ==
    ASSUME NEW E, NEW t, IsTable(t, E), t.head # t.tail
    PROVE  /\ Span(t) \in 0..(t.size - 2)
           /\ \A d \in 1..Span(t) :
                 Below(t, d) \in Walked(t) /\ HeadDistance(t, Below(t, d)) = d
           /\ \A i \in Walked(t) : /\ i \in Slots(t) /\ i # t.head /\ i # t.tail
                                   /\ HeadDistance(t, i) \in 1..Span(t)
                                   /\ Below(t, HeadDistance(t, i)) = i
<1>1. /\ t.size \in Nat \ {0}
      /\ t.head \in 0..(t.size - 1)
      /\ t.tail \in 0..(t.size - 1)
  BY DEF IsTable
<1>2. Span(t) \in 0..(t.size - 2)
  BY <1>1 DEF Span
<1>3. ASSUME NEW d \in 1..Span(t)
      PROVE  Below(t, d) \in Walked(t) /\ HeadDistance(t, Below(t, d)) = d
  <2>1. CASE t.tail < t.head
    BY <1>1, <1>3, <2>1 DEF Span, Below, Walked, HeadDistance
  <2>2. CASE t.head < t.tail /\ d <= t.head
    BY <1>1, <1>3, <2>2 DEF Span, Below, Walked, HeadDistance
  <2>3. CASE t.head < t.tail /\ ~ d <= t.head
    <3> DEFINE i == t.head + t.size - d
    <3>1. Below(t, d) = i
      BY <2>3 DEF Below
    <3>2. Span(t) = t.head + t.size - 1 - t.tail
      BY <1>1, <2>3 DEF Span
    <3>3. d \in Nat /\ d <= t.head + t.size - 1 - t.tail
      BY <1>1, <1>3, <3>2
    <3>4. i \in (t.tail + 1)..(t.size - 1)
      BY <1>1, <2>3, <3>3
    <3>5. ~ i < t.head /\ t.head + t.size - i = d
      BY <1>1, <2>3, <3>3
    <3>6. HeadDistance(t, i) = d
      BY <3>5 DEF HeadDistance
    <3>7. i \in Walked(t)
      BY <1>1, <2>3, <3>4 DEF Walked
    <3> QED
      BY <3>1, <3>6, <3>7
  <2> QED
    BY <1>1, <2>1, <2>2, <2>3
<1>4. ASSUME NEW i \in Walked(t)
      PROVE  /\ i \in Slots(t) /\ i # t.head /\ i # t.tail
             /\ HeadDistance(t, i) \in 1..Span(t)
             /\ Below(t, HeadDistance(t, i)) = i
  <2>1. CASE t.tail < t.head
    BY <1>1, <1>4, <2>1 DEF Span, Below, Walked, HeadDistance, Slots
  <2>2. CASE t.head < t.tail /\ i < t.head
    BY <1>1, <1>4, <2>2 DEF Span, Below, Walked, HeadDistance, Slots
  <2>3. CASE t.head < t.tail /\ ~ i < t.head
    BY <1>1, <1>4, <2>3 DEF Span, Below, Walked, HeadDistance, Slots
  <2> QED
    BY <1>1, <2>1, <2>2, <2>3
<1> QED
  BY <1>2, <1>3, <1>4

(* PEER_DONE walks the window. *)
LEMMA WindowWalked ==
    ASSUME NEW E, NEW t, IsTable(t, E), t.head # t.tail
    PROVE  Window(t) = Walked(t)
<1>1. \A d \in 1..Span(t) : Below(t, d) \in Walked(t)
  BY Geometry
<1>2. \A i \in Walked(t) : HeadDistance(t, i) \in 1..Span(t) /\ Below(t, HeadDistance(t, i)) = i
  BY Geometry
<1> QED
  BY <1>1, <1>2 DEF Window

Exact(t) ==
    /\ t.head # t.tail
    /\ \A i \in Slots(t) : InUse(t, i) <=> i \in Window(t)
    /\ \A i, j \in Window(t) : t.entry[i].hash = t.entry[j].hash => i = j

(* In between, while peers are removed, slots of the window may be free. *)
Sparse(t) ==
    /\ t.head # t.tail
    /\ \A i \in Slots(t) : InUse(t, i) => i \in Window(t)
    /\ \A i, j \in Slots(t) :
          InUse(t, i) /\ t.entry[i].hash = t.entry[j].hash => i = j

(* The members of the window are slots. *)
LEMMA WindowSlots ==
    ASSUME NEW E, NEW t, IsTable(t, E), t.head # t.tail
    PROVE  Window(t) \subseteq Slots(t) \ {t.head, t.tail}
<1>1. \A i \in Walked(t) : i \in Slots(t) /\ i # t.head /\ i # t.tail
  BY Geometry
<1> QED
  BY <1>1, WindowWalked

LEMMA ExactIsSparse ==
    ASSUME NEW E, NEW t, IsTable(t, E), Exact(t)
    PROVE  Sparse(t)
BY WindowSlots DEF Exact, Sparse, InUse

(* Removing a host empties entries, and renames none. *)
LEMMA RemovedSparse ==
    ASSUME NEW t, IsTable(t, Entry), Sparse(t), NEW slots, NEW p
    PROVE  LET u == PeerRemoved(t, slots, p) IN
           /\ Sparse(u)
           /\ u.head = t.head /\ u.tail = t.tail /\ u.size = t.size
           /\ \A i \in Slots(t) :
                 u.entry[i] = IF i \in slots THEN WithoutPeer(t.entry[i], p) ELSE t.entry[i]
<1> DEFINE u == PeerRemoved(t, slots, p)
<1>1. /\ u.head = t.head /\ u.tail = t.tail /\ u.size = t.size
      /\ \A i \in Slots(t) :
            u.entry[i] = IF i \in slots THEN WithoutPeer(t.entry[i], p) ELSE t.entry[i]
  BY DEF PeerRemoved, IsTable
<1>2. \A i \in Slots(t) : t.entry[i] \in Entry
  BY DEF IsTable, Slots
<1>3. \A e \in Entry : WithoutPeer(e, p).hash \in {e.hash, NoHash}
  BY DEF WithoutPeer, FreeEntry, Entry
<1>4. \A i \in Slots(t) : u.entry[i].hash \in {t.entry[i].hash, NoHash}
  BY <1>1, <1>2, <1>3
<1> HIDE DEF u
<1>5. Slots(u) = Slots(t) /\ Window(u) = Window(t)
  BY <1>1 DEF Slots, Window, Span, Below
<1>6. Sparse(u)
  BY <1>1, <1>4, <1>5 DEF Sparse, InUse
<1> QED
  BY <1>1, <1>6 DEF u

(* Compacting moves the entries in use up to the head, in their order. *)
LEMMA CompactedEntries ==
    ASSUME NEW t, IsTable(t, Entry), t.head # t.tail
    PROVE  LET c == compact_hash_table(t)
               U == UsedWithin(t, Span(t))
               n == CountTo(U, Span(t)) IN
           /\ c.head = t.head /\ c.tail = t.tail /\ c.size = t.size
           /\ n \in 0..Span(t)
           /\ \A i \in Slots(t) \ Window(t) : c.entry[i] = t.entry[i]
           /\ \E f \in [1..n -> U] :
                 /\ \A k \in 1..n : CountTo(U, f[k]) = k
                 /\ \A d \in U : CountTo(U, d) \in 1..n /\ f[CountTo(U, d)] = d
                 /\ \A j, k \in 1..n : j < k => f[j] < f[k]
                 /\ \A d \in 1..Span(t) :
                       c.entry[Below(t, d)] = IF d <= n THEN t.entry[Below(t, f[d])] ELSE FreeEntry
<1> DEFINE S == Span(t)
           U == UsedWithin(t, S)
           n == CountTo(U, S)
           ranked(k) == {d \in U : Cardinality(UsedWithin(t, d)) = k}
           at(k) == IF ranked(k) = {} THEN FreeEntry
                    ELSE t.entry[Below(t, CHOOSE d \in ranked(k) : TRUE)]
           entry == [i \in Slots(t) |->
                      IF i = t.tail \/ ~ \E d \in 1..S : Below(t, d) = i THEN t.entry[i]
                      ELSE at(CHOOSE d \in 1..S : Below(t, d) = i)]
           c == compact_hash_table(t)
<1>1. c = [t EXCEPT !.entry = entry]
  BY DEF compact_hash_table
<1>2. c.head = t.head /\ c.tail = t.tail /\ c.size = t.size /\ c.entry = entry
  BY <1>1 DEF IsTable
<1>3. S \in Nat /\ U \in SUBSET (1..S)
  BY Geometry DEF UsedWithin
<1>4. n \in 0..S
  <2>1. S \in 0..S
    BY <1>3
  <2> QED
    BY <1>3, <2>1, Counting
<1>5. PICK f \in [1..n -> U] :
         /\ \A k \in 1..n : CountTo(U, f[k]) = k
         /\ \A d \in U : CountTo(U, d) \in 1..n /\ f[CountTo(U, d)] = d
         /\ \A j, k \in 1..n : j < k => f[j] < f[k]
  BY <1>3, Enumerated
<1>6. \A d \in U : Cardinality(UsedWithin(t, d)) = CountTo(U, d)
  <2>1. ASSUME NEW d \in U
        PROVE  UsedWithin(t, d) = {e \in 1..d : e \in U}
    BY <1>3 DEF UsedWithin
  <2> QED
    BY <2>1 DEF CountTo
<1> HIDE DEF c, U, n
<1>7. ASSUME NEW k \in 1..S
      PROVE  at(k) = IF k <= n THEN t.entry[Below(t, f[k])] ELSE FreeEntry
  <2>1. CASE k <= n
    <3>1. k \in 1..n
      BY <1>4, <2>1
    <3>2. f[k] \in U /\ CountTo(U, f[k]) = k
      BY <1>5, <3>1
    <3>3. \A d \in ranked(k) : d = f[k]
      BY <1>5, <1>6
    <3>4. f[k] \in ranked(k)
      BY <1>6, <3>2
    <3>5. (CHOOSE d \in ranked(k) : TRUE) = f[k]
      BY <3>3, <3>4
    <3> QED
      BY <2>1, <3>4, <3>5
  <2>2. CASE ~ k <= n
    <3>1. k \notin 1..n
      BY <1>4, <2>2
    <3>2. ranked(k) = {}
      BY <1>5, <1>6, <3>1
    <3> QED
      BY <2>2, <3>2
  <2> QED
    BY <2>1, <2>2
<1> HIDE DEF at
<1>8. ASSUME NEW d \in 1..S
      PROVE  c.entry[Below(t, d)] = at(d)
  <2> DEFINE i == Below(t, d)
  <2>1. i \in Slots(t) /\ i # t.tail /\ HeadDistance(t, i) = d
    BY Geometry
  <2>2. \A e \in 1..S : Below(t, e) = i => e = d
    BY <2>1, Geometry
  <2>3. (CHOOSE e \in 1..S : Below(t, e) = i) = d
    BY <2>2
  <2> HIDE DEF i
  <2>4. \E e \in 1..S : Below(t, e) = i
    BY DEF i
  <2>5. c.entry[i] = at(CHOOSE e \in 1..S : Below(t, e) = i)
    BY <1>2, <2>1, <2>4
  <2> QED
    BY <2>3, <2>5 DEF i
<1>9. \A i \in Slots(t) \ Window(t) : c.entry[i] = t.entry[i]
  BY <1>2 DEF Window
<1> HIDE DEF entry
<1>10. \A d \in 1..S : c.entry[Below(t, d)] = IF d <= n THEN t.entry[Below(t, f[d])] ELSE FreeEntry
  BY <1>7, <1>8
<1> HIDE DEF S
<1>11. \E g \in [1..n -> U] :
          /\ \A k \in 1..n : CountTo(U, g[k]) = k
          /\ \A d \in U : CountTo(U, d) \in 1..n /\ g[CountTo(U, d)] = d
          /\ \A j, k \in 1..n : j < k => g[j] < g[k]
          /\ \A d \in 1..S :
                c.entry[Below(t, d)] = IF d <= n THEN t.entry[Below(t, g[d])] ELSE FreeEntry
  BY <1>5, <1>10
<1> QED
  BY <1>2, <1>4, <1>9, <1>11 DEF c, U, n, S

(* So that the slots in use are the n just below the head. *)
UsedBelow(t, n) ==
    \A i \in Slots(t) : InUse(t, i) <=> \E d \in 1..n : Below(t, d) = i

Distinct(t) ==
    \A i, j \in Slots(t) : InUse(t, i) /\ t.entry[i].hash = t.entry[j].hash => i = j

LEMMA CompactedUsed ==
    ASSUME NEW t, IsTable(t, Entry), Sparse(t)
    PROVE  LET c == compact_hash_table(t) IN
           /\ c.head = t.head /\ c.tail = t.tail /\ c.size = t.size
           /\ CountTo(UsedWithin(t, Span(t)), Span(t)) \in 0..Span(t)
           /\ UsedBelow(c, CountTo(UsedWithin(t, Span(t)), Span(t)))
           /\ Distinct(c)
<1> DEFINE c == compact_hash_table(t)
           S == Span(t)
           U == UsedWithin(t, S)
           n == CountTo(U, S)
<1>0. t.head # t.tail
  BY DEF Sparse
<1>1. /\ c.head = t.head /\ c.tail = t.tail /\ c.size = t.size
      /\ n \in 0..S
      /\ \A i \in Slots(t) \ Window(t) : c.entry[i] = t.entry[i]
      /\ \E f \in [1..n -> U] :
            /\ \A k \in 1..n : CountTo(U, f[k]) = k
            /\ \A d \in U : CountTo(U, d) \in 1..n /\ f[CountTo(U, d)] = d
            /\ \A j, k \in 1..n : j < k => f[j] < f[k]
            /\ \A d \in 1..S :
                  c.entry[Below(t, d)] = IF d <= n THEN t.entry[Below(t, f[d])] ELSE FreeEntry
  BY <1>0, CompactedEntries
<1>2. PICK f \in [1..n -> U] :
            /\ \A k \in 1..n : CountTo(U, f[k]) = k
            /\ \A d \in 1..S :
                  c.entry[Below(t, d)] = IF d <= n THEN t.entry[Below(t, f[d])] ELSE FreeEntry
  BY <1>1
<1>3. /\ S \in Nat
      /\ \A d \in 1..S : Below(t, d) \in Slots(t) /\ HeadDistance(t, Below(t, d)) = d
  BY <1>0, Geometry
<1>4. U \subseteq 1..S /\ \A d \in U : InUse(t, Below(t, d))
  BY DEF UsedWithin
<1> HIDE DEF c, U, n
<1>5. Slots(c) = Slots(t) /\ \A d : Below(c, d) = Below(t, d)
  BY <1>1 DEF Slots, Below
<1>6. \A d \in 1..n : d \in 1..S
  BY <1>1, <1>3
<1>7. \A i \in Slots(t) : i \in Window(t) => \E d \in 1..S : Below(t, d) = i
  BY DEF Window
<1> HIDE DEF S
<1>8. ASSUME NEW i \in Slots(t)
      PROVE  InUse(c, i) <=> \E d \in 1..n : Below(t, d) = i
  <2>1. CASE i \notin Window(t)
    <3>1. c.entry[i] = t.entry[i] /\ ~ InUse(t, i)
      BY <1>1, <2>1 DEF Sparse
    <3>2. \A d \in 1..n : Below(t, d) # i
      BY <1>6, <2>1 DEF Window, S
    <3> QED
      BY <3>1, <3>2 DEF InUse
  <2>2. CASE i \in Window(t)
    <3>1. PICK d \in 1..S : Below(t, d) = i
      BY <1>7, <2>2
    <3>2. \A e \in 1..n : Below(t, e) = i => e = d
      BY <1>3, <1>6, <3>1
    <3>3. CASE d <= n
      <4>1. d \in 1..n
        BY <1>1, <1>3, <3>1, <3>3
      <4>2. c.entry[i] = t.entry[Below(t, f[d])] /\ InUse(t, Below(t, f[d]))
        BY <1>2, <1>4, <3>1, <3>3, <4>1
      <4> QED
        BY <3>1, <4>1, <4>2 DEF InUse
    <3>4. CASE ~ d <= n
      <4>1. c.entry[i] = FreeEntry
        BY <1>2, <3>1, <3>4
      <4>2. d \notin 1..n
        BY <1>1, <1>3, <3>4
      <4> QED
        BY <3>2, <4>1, <4>2 DEF InUse, FreeEntry
    <3> QED
      BY <3>3, <3>4
  <2> QED
    BY <2>1, <2>2
<1>9. Distinct(c)
  <2>1. ASSUME NEW i \in Slots(t), NEW j \in Slots(t), InUse(c, i),
               c.entry[i].hash = c.entry[j].hash
        PROVE  i = j
    <3>1. InUse(c, j)
      BY <2>1 DEF InUse
    <3>2. PICK d \in 1..n : Below(t, d) = i
      BY <1>8, <2>1
    <3>3. PICK e \in 1..n : Below(t, e) = j
      BY <1>8, <3>1
    <3>4. d <= n /\ e <= n /\ d \in 1..S /\ e \in 1..S
      BY <1>1, <1>3, <1>6
    <3>5. c.entry[i] = t.entry[Below(t, f[d])] /\ c.entry[j] = t.entry[Below(t, f[e])]
      BY <1>2, <3>2, <3>3, <3>4
    <3>6. f[d] \in U /\ f[e] \in U
      BY <1>2
    <3>7. /\ InUse(t, Below(t, f[d])) /\ f[d] \in 1..S /\ f[e] \in 1..S
          /\ Below(t, f[d]) \in Slots(t) /\ Below(t, f[e]) \in Slots(t)
      BY <1>3, <1>4, <3>6
    <3>8. Below(t, f[d]) = Below(t, f[e])
      BY <2>1, <3>5, <3>7 DEF Sparse
    <3>9. f[d] = f[e]
      BY <1>3, <3>7, <3>8
    <3>10. d = e
      BY <1>2, <3>9
    <3> QED
      BY <3>2, <3>3, <3>10
  <2> QED
    BY <1>5, <2>1 DEF Distinct
<1> QED
  BY <1>1, <1>5, <1>8, <1>9 DEF UsedBelow, c, n, U, S

(* A run of free slots ends where the next slot is in use. *)
LEMMA RunTo ==
    ASSUME NEW t, t.tail \in Nat, NEW top \in Nat, NEW m \in t.tail..top,
           \A j \in (t.tail + 1)..m : ~ InUse(t, j),
           m = top \/ InUse(t, m + 1)
    PROVE  AfterRun(t, FreeRun(t, top)) = m
<1>1. FreeRun(t, top) = (t.tail + 1)..m
  <2>1. \A i \in (t.tail + 1)..top : i <= m => \A j \in (t.tail + 1)..i : ~ InUse(t, j)
    OBVIOUS
  <2>2. \A i \in (t.tail + 1)..top : ~ i <= m => m + 1 \in (t.tail + 1)..i /\ InUse(t, m + 1)
    OBVIOUS
  <2> QED
    BY <2>1, <2>2 DEF FreeRun
<1>2. CASE m = t.tail
  BY <1>1, <1>2 DEF AfterRun
<1>3. CASE m # t.tail
  <2> DEFINE R == (t.tail + 1)..m
  <2>1. m \in R /\ \A y \in R : y <= m
    BY <1>3
  <2>2. \A x \in R : (\A y \in R : x >= y) => x = m
    BY <2>1
  <2>3. Max(R) = m
    BY <2>1, <2>2 DEF Max
  <2> QED
    BY <1>1, <2>1, <2>3 DEF AfterRun
<1> QED
  BY <1>2, <1>3

(* Reclaiming the free slots of a compacted table moves the tail to just
   below the entries in use, and nothing else, unless the head meets it. *)
LEMMA Reclaimed ==
    ASSUME NEW E, NEW t, IsTable(t, E), t.head # t.tail,
           NEW n \in 0..Span(t), UsedBelow(t, n),
           reclaim_free_entries(t).head # reclaim_free_entries(t).tail
    PROVE  LET r == reclaim_free_entries(t) IN
           /\ r.head = t.head /\ r.size = t.size /\ r.entry = t.entry
           /\ Span(r) = n
<1> DEFINE h == t.head
           z == t.size
           r == reclaim_free_entries(t)
           Tailed(m) == [t EXCEPT !.tail = m]
<1>1. z \in Nat /\ h \in 0..(z - 1) /\ t.tail \in 0..(z - 1) /\ n \in Nat
  BY Geometry DEF IsTable
<1>2. \A m : /\ Tailed(m).head = h /\ Tailed(m).size = z /\ Tailed(m).entry = t.entry
             /\ Tailed(m).tail = m
             /\ \A k : [Tailed(m) EXCEPT !.tail = k] = Tailed(k)
  BY DEF IsTable
<1>3. t = Tailed(t.tail)
  BY DEF IsTable
<1>4. \A i \in Slots(t) : InUse(t, i) <=> i \in Walked(t) /\ HeadDistance(t, i) <= n
  <2>1. \A d \in 1..n : d \in 1..Span(t)
    BY Geometry
  <2>2. \A d \in 1..n : Below(t, d) \in Walked(t) /\ HeadDistance(t, Below(t, d)) <= n
    BY <2>1, Geometry
  <2>3. \A i \in Walked(t) : HeadDistance(t, i) <= n =>
           HeadDistance(t, i) \in 1..n /\ Below(t, HeadDistance(t, i)) = i
    BY <1>1, Geometry
  <2> QED
    BY <2>2, <2>3 DEF UsedBelow
<1> HIDE DEF Tailed, r
<1>5. ASSUME NEW m \in Nat, r = Tailed(m),
             Span(Tailed(m)) = n
      PROVE  r.head = h /\ r.size = z /\ r.entry = t.entry /\ Span(r) = n
  BY <1>2, <1>5
<1>6. \A m, i : InUse(Tailed(m), i) <=> InUse(t, i)
  BY <1>2 DEF InUse
<1>7. CASE t.tail < h
  <2> DEFINE m == h - n - 1
  <2>1. m \in t.tail..(h - 1) /\ m \in Nat
    BY <1>1, <1>7 DEF Span
  <2>2. \A i \in Slots(t) : InUse(t, i) <=> i \in (h - n)..(h - 1)
    BY <1>1, <1>4, <1>7, <2>1 DEF Walked, HeadDistance, Slots
  <2>3. \A j \in (t.tail + 1)..m : j \in Slots(t) /\ ~ InUse(t, j)
    BY <1>1, <2>1, <2>2 DEF Slots
  <2>4. m = h - 1 \/ InUse(t, m + 1)
    BY <1>1, <1>7, <2>1, <2>2 DEF Slots
  <2>5. AfterRun(t, FreeRun(t, h - 1)) = m
    <3>1. h - 1 \in Nat /\ t.tail \in Nat
      BY <1>1, <1>7
    <3> HIDE DEF m
    <3> QED
      BY <2>1, <2>3, <2>4, <3>1, RunTo
  <2>6. TailUp(t) = t
    BY <1>1, <1>7 DEF TailUp
  <2>7. TailToHead(t) = Tailed(m)
    BY <1>1, <1>7, <2>5 DEF TailToHead, Tailed
  <2>8. HeadDown(Tailed(m)) = Tailed(m)
    BY <1>1, <1>2, <2>1 DEF HeadDown
  <2>9. Span(Tailed(m)) = n
    BY <1>1, <1>2, <2>1 DEF Span
  <2> QED
    BY <1>5, <2>1, <2>6, <2>7, <2>8, <2>9 DEF r, reclaim_free_entries
<1>8. CASE h < t.tail /\ h < n
  <2> DEFINE m == h + z - n - 1
  <2>1. m \in t.tail..(z - 2) /\ m \in Nat /\ n <= h + z - 1 - t.tail
    BY <1>1, <1>8 DEF Span
  <2>2. \A i \in Slots(t) : InUse(t, i) <=> i \in 0..(h - 1) \/ i \in (h + z - n)..(z - 1)
    BY <1>1, <1>4, <1>8, <2>1 DEF Walked, HeadDistance, Slots
  <2>3. \A j \in (t.tail + 1)..m : j \in Slots(t) /\ ~ InUse(t, j)
    BY <1>1, <1>8, <2>1, <2>2 DEF Slots
  <2>4. InUse(t, m + 1) /\ InUse(t, z - 1)
    BY <1>1, <1>8, <2>1, <2>2 DEF Slots
  <2>5. AfterRun(t, FreeRun(t, z - 1)) = m
    <3>1. z - 1 \in Nat /\ t.tail \in Nat /\ m \in t.tail..(z - 1)
      BY <1>1, <2>1
    <3> HIDE DEF m
    <3> QED
      BY <2>3, <2>4, <3>1, RunTo
  <2>6. TailUp(t) = Tailed(m)
    BY <1>1, <1>8, <2>1, <2>5 DEF TailUp, Tailed
  <2>7. TailToHead(Tailed(m)) = Tailed(m)
    BY <1>1, <1>2, <1>8, <2>1 DEF TailToHead
  <2>8. HeadDown(Tailed(m)) = [Tailed(m) EXCEPT !.head = h]
    <3> DEFINE used == {i \in 0..(h - 1) : InUse(Tailed(m), i)}
    <3>1. used = 0..(h - 1)
      BY <1>1, <1>6, <2>2 DEF Slots
    <3>2. (IF used = {} THEN 0 ELSE Max(used) + 1) = h
      <4>1. CASE h = 0
        BY <3>1, <4>1
      <4>2. CASE h # 0
        <5>1. h - 1 \in used /\ \A y \in used : y <= h - 1
          BY <1>1, <3>1, <4>2
        <5>2. \A x \in used : (\A y \in used : x >= y) => x = h - 1
          BY <1>1, <3>1, <5>1
        <5>3. Max(used) = h - 1
          BY <3>1, <5>1, <5>2 DEF Max
        <5> QED
          BY <1>1, <5>1, <5>3
      <4> QED
        BY <4>1, <4>2
    <3>3. Tailed(m).head = h /\ Tailed(m).size = z /\ ~ h >= Tailed(m).tail
      BY <1>1, <1>2, <1>8, <2>1
    <3>4. InUse(Tailed(m), z - 1)
      BY <1>6, <2>4
    <3> HIDE DEF m
    <3> QED
      BY <3>2, <3>3, <3>4 DEF HeadDown
  <2>9. [Tailed(m) EXCEPT !.head = h] = Tailed(m)
    BY DEF Tailed, IsTable
  <2>10. Span(Tailed(m)) = n
    BY <1>1, <1>2, <1>8, <2>1 DEF Span
  <2> QED
    BY <1>5, <2>1, <2>6, <2>7, <2>8, <2>9, <2>10 DEF r, reclaim_free_entries
<1>9. CASE h < t.tail /\ n <= h
  <2>1. \A i \in Slots(t) : InUse(t, i) <=> i \in (h - n)..(h - 1)
    BY <1>1, <1>4, <1>9 DEF Walked, HeadDistance, Slots
  <2>2. AfterRun(t, FreeRun(t, z - 1)) = z - 1
    <3>1. z - 1 \in t.tail..(z - 1) /\ z - 1 \in Nat /\ t.tail \in Nat
      BY <1>1
    <3>2. \A j \in (t.tail + 1)..(z - 1) : ~ InUse(t, j)
      BY <1>1, <1>9, <2>1 DEF Slots
    <3> QED
      BY <3>1, <3>2, RunTo
  <2>3. CASE n < h
    <3> DEFINE m == h - n - 1
    <3>1. TailUp(t) = Tailed(0)
      BY <1>1, <1>9, <2>1, <2>2, <2>3 DEF TailUp, Tailed, Slots
    <3>2. AfterRun(Tailed(0), FreeRun(Tailed(0), h - 1)) = m
      <4>1. /\ Tailed(0).tail \in Nat /\ h - 1 \in Nat /\ m \in Tailed(0).tail..(h - 1)
            /\ \A j \in (Tailed(0).tail + 1)..m : j \in Slots(t) /\ ~ j \in (h - n)..(h - 1)
            /\ m = h - 1 \/ (m + 1 \in Slots(t) /\ m + 1 \in (h - n)..(h - 1))
        BY <1>1, <1>2, <2>3 DEF Slots
      <4>2. /\ \A j \in (Tailed(0).tail + 1)..m : ~ InUse(Tailed(0), j)
            /\ m = h - 1 \/ InUse(Tailed(0), m + 1)
        BY <1>6, <2>1, <4>1
      <4> HIDE DEF m
      <4> QED
        BY <4>1, <4>2, RunTo
    <3>3. TailToHead(Tailed(0)) = Tailed(m)
      BY <1>1, <1>2, <2>3, <3>2 DEF TailToHead
    <3>4. m \in Nat /\ m < h
      BY <1>1, <2>3
    <3>5. HeadDown(Tailed(m)) = Tailed(m)
      BY <1>1, <1>2, <3>4 DEF HeadDown
    <3>6. Span(Tailed(m)) = n
      BY <1>1, <1>2, <3>4 DEF Span
    <3> QED
      BY <1>5, <3>1, <3>3, <3>4, <3>5, <3>6 DEF r, reclaim_free_entries
  <2>4. CASE n = h
    <3>1. TailUp(t) = Tailed(z - 1)
      <4>1. h = 0 \/ InUse(t, 0)
        BY <1>1, <2>1, <2>4 DEF Slots
      <4> QED
        BY <1>1, <1>9, <2>2, <4>1 DEF TailUp, Tailed
    <3>2. TailToHead(Tailed(z - 1)) = Tailed(z - 1)
      BY <1>1, <1>2, <1>9 DEF TailToHead
    <3> DEFINE used == {i \in 0..(h - 1) : InUse(Tailed(z - 1), i)}
    <3>3. used = 0..(h - 1)
      BY <1>1, <1>6, <2>1, <2>4 DEF Slots
    <3>4. Tailed(z - 1).head = h /\ Tailed(z - 1).size = z /\ ~ h >= Tailed(z - 1).tail
      BY <1>1, <1>2, <1>9
    <3>5. h # 0
      <4>1. SUFFICES ASSUME h = 0 PROVE FALSE
        OBVIOUS
      <4>2. ~ InUse(Tailed(z - 1), z - 1)
        BY <1>1, <1>6, <2>1, <4>1 DEF Slots
      <4>3. used = {}
        BY <3>3, <4>1
      <4>4. HeadDown(Tailed(z - 1)) = [Tailed(z - 1) EXCEPT !.head = z - 1]
        BY <3>4, <4>2, <4>3 DEF HeadDown
      <4>5. r = [Tailed(z - 1) EXCEPT !.head = z - 1]
        BY <3>1, <3>2, <4>4 DEF r, reclaim_free_entries
      <4>6. r.head = z - 1 /\ r.tail = z - 1
        BY <4>5 DEF Tailed, IsTable
      <4> QED
        BY <4>6 DEF r
    <3>6. Max(used) = h - 1 /\ used # {}
      <4>1. h - 1 \in used /\ \A y \in used : y <= h - 1
        BY <1>1, <3>3, <3>5
      <4>2. \A x \in used : (\A y \in used : x >= y) => x = h - 1
        BY <1>1, <3>3, <4>1
      <4> QED
        BY <3>3, <4>1, <4>2 DEF Max
    <3>7. HeadDown(Tailed(z - 1)) = [Tailed(z - 1) EXCEPT !.head = h]
      <4>1. Max(used) + 1 = h
        BY <1>1, <3>6
      <4> HIDE DEF h, z
      <4> QED
        BY <3>4, <3>5, <3>6, <4>1 DEF HeadDown
    <3>8. [Tailed(z - 1) EXCEPT !.head = h] = Tailed(z - 1)
      BY DEF Tailed, IsTable
    <3>9. Span(Tailed(z - 1)) = n
      BY <1>1, <1>2, <1>9, <2>4 DEF Span
    <3> QED
      BY <1>1, <1>5, <3>1, <3>2, <3>7, <3>8, <3>9 DEF r, reclaim_free_entries
  <2> QED
    BY <1>1, <1>9, <2>3, <2>4
<1> QED
  BY <1>1, <1>7, <1>8, <1>9 DEF r

(* After UNREGISTER or PEER_DONE the window is what is in use again. *)
LEMMA CompactedExact ==
    ASSUME NEW t, IsTable(t, Entry), Sparse(t),
           reclaim_free_entries(compact_hash_table(t)).head
             # reclaim_free_entries(compact_hash_table(t)).tail
    PROVE  LET c == compact_hash_table(t)
               r == reclaim_free_entries(c) IN
           /\ r.head = t.head /\ r.size = t.size /\ r.entry = c.entry
           /\ Span(r) = CountTo(UsedWithin(t, Span(t)), Span(t))
           /\ Exact(r)
<1> DEFINE c == compact_hash_table(t)
           r == reclaim_free_entries(c)
           n == CountTo(UsedWithin(t, Span(t)), Span(t))
<1>1. /\ c.head = t.head /\ c.tail = t.tail /\ c.size = t.size
      /\ n \in 0..Span(t) /\ UsedBelow(c, n) /\ Distinct(c)
  BY CompactedUsed
<1>2. IsTable(c, Entry)
  <2>1. FreeEntry \in Entry
    BY EmptySeq DEF FreeEntry, Entry
  <2> QED
    BY <2>1, CompactedType
<1>3. t.head # t.tail
  BY DEF Sparse
<1>4. Span(c) = Span(t)
  BY <1>1 DEF Span
<1> HIDE DEF c, n
<1>5. /\ r.head = c.head /\ r.size = c.size /\ r.entry = c.entry /\ Span(r) = n
  BY <1>1, <1>2, <1>3, <1>4, Reclaimed DEF c
<1>6. r.head # r.tail
  BY DEF c
<1> HIDE DEF r
<1>7. Slots(r) = Slots(c) /\ \A d : Below(r, d) = Below(c, d)
  BY <1>5 DEF Slots, Below
<1>8. Window(r) = {Below(c, d) : d \in 1..n}
  BY <1>5, <1>7 DEF Window
<1>9. \A i \in Slots(r) : InUse(r, i) <=> i \in Window(r)
  BY <1>1, <1>5, <1>7, <1>8 DEF UsedBelow, InUse
<1>10. IsTable(r, Entry)
  BY <1>2, ReclaimedType DEF r
<1>11. \A i, j \in Window(r) : r.entry[i].hash = r.entry[j].hash => i = j
  <2>1. Window(r) \subseteq Slots(c)
    BY <1>6, <1>7, <1>10, WindowSlots
  <2>2. \A i \in Window(r) : InUse(c, i)
    BY <1>1, <1>8, <2>1 DEF UsedBelow
  <2> QED
    BY <1>1, <1>5, <2>1, <2>2 DEF Distinct
<1>12. Exact(r)
  BY <1>6, <1>9, <1>11 DEF Exact
<1> QED
  BY <1>1, <1>5, <1>12 DEF r, c, n

(* getpeers finds what is in the window. *)
LEMMA FoundExactly ==
    ASSUME NEW E, NEW t, IsTable(t, E), Exact(t), NEW h, h # NoHash
    PROVE  /\ getpeers(t, h) = {i \in Window(t) : t.entry[i].hash = h}
           /\ getpeers(t, h) = {} => \A i \in Slots(t) : t.entry[i].hash # h
<1> DEFINE W == {i \in Window(t) : t.entry[i].hash = h}
<1>1. /\ t.size \in Nat /\ t.head \in 0..(t.size - 1) /\ t.tail \in 0..(t.size - 1)
      /\ t.head # t.tail
  BY DEF IsTable, Exact
<1>2. W = {i \in Slots(t) : t.entry[i].hash = h}
  BY <1>1, WindowSlots DEF Exact, InUse
<1>3. \A i, j \in W : i = j
  BY DEF Exact
<1>4. \A i \in W : i # t.head /\ i # t.tail /\ i \in Walked(t)
  BY <1>1, WindowSlots, WindowWalked
<1> HIDE DEF W
<1>5. CASE t.tail < t.head
  <2>1. Matches(t, h, t.tail, t.head) = W
    BY <1>1, <1>2, <1>4, <1>5 DEF Matches, Walked, Slots
  <2>2. getpeers(t, h) = {i \in W : \A j \in W : j <= i}
    BY <1>1, <1>5, <2>1 DEF getpeers
  <2>3. getpeers(t, h) = W
    BY <1>1, <1>2, <1>3, <2>2 DEF Slots
  <2> QED
    BY <1>2, <2>3 DEF W
<1>6. CASE t.head < t.tail
  <2>1. /\ Matches(t, h, 0, t.head - 1) = {i \in W : i < t.head}
        /\ Matches(t, h, t.tail, t.size - 1) = {i \in W : ~ i < t.head}
    BY <1>1, <1>2, <1>4, <1>6 DEF Matches, Walked, Slots
  <2>2. PICK F : F \in {{i \in W : i < t.head}, {i \in W : ~ i < t.head}} /\
                 (F = {} => W = {}) /\ getpeers(t, h) = {i \in F : \A j \in F : j <= i}
    BY <1>1, <1>6, <2>1 DEF getpeers
  <2>3. F = W
    BY <1>3, <2>2
  <2>4. getpeers(t, h) = W
    BY <1>1, <1>2, <1>3, <2>2, <2>3 DEF Slots
  <2> QED
    BY <1>2, <2>4 DEF W
<1> QED
  BY <1>1, <1>5, <1>6

(* A new entry is the newest, and leaves the others where they were,
   counted from the head. *)
LEMMA NewEntry ==
    ASSUME NEW E, FreeEntry \in E, NEW t, IsTable(t, E), t.head # t.tail,
           \A i \in Slots(t) : InUse(t, i) => i \in Window(t),
           NEW h, NEW list, [hash |-> h, peers |-> list] \in E,
           newentry(t, h, list).head # newentry(t, h, list).tail
    PROVE  LET n == newentry(t, h, list) IN
           /\ Span(n) = Span(t) + 1
           /\ n.entry[Below(n, 1)] = [hash |-> h, peers |-> list]
           /\ \A d \in 1..Span(t) : n.entry[Below(n, d + 1)] = t.entry[Below(t, d)]
           /\ \A i \in Slots(n) : InUse(n, i) => i \in Window(n)
<1> DEFINE n == newentry(t, h, list)
           u == [t EXCEPT !.head = t.head + 1]
           g == Advanced(t)
           z == t.size
<1>1. z \in Nat /\ t.head \in 0..(z - 1) /\ t.tail \in 0..(z - 1)
  BY DEF IsTable
<1>2. u.head = t.head + 1 /\ u.tail = t.tail /\ u.size = t.size /\ u.entry = t.entry
  BY DEF IsTable
<1>3. IsTable(g, E) /\ t.head \in 0..(g.size - 1)
  BY AdvancedType
<1>4. IsTable(n, E)
  BY newentryType
<1>5. /\ n.head = g.head /\ n.tail = g.tail /\ n.size = g.size
      /\ n.entry = [g.entry EXCEPT ![t.head] = [hash |-> h, peers |-> list]]
  <2> HIDE DEF g
  <2> QED
    BY <1>3 DEF newentry, IsTable, g
<1>6. \A i \in 0..(g.size - 1) :
         n.entry[i] = IF i = t.head THEN [hash |-> h, peers |-> list] ELSE g.entry[i]
  BY <1>3, <1>5 DEF IsTable
<1>7. /\ \A d \in 1..Span(t) : Below(t, d) \in Slots(t) \ {t.head, t.tail}
      /\ Window(t) = Walked(t) /\ Window(n) = Walked(n)
  BY <1>4, Geometry, WindowWalked
<1> HIDE DEF n, g, u
<1>8. CASE NeedsGrowth(t)
  <2>1. /\ g.head = t.head + 1 /\ g.tail = t.head + 1 + GrowBy /\ g.size = z + GrowBy
        /\ \A i \in 0..(z + GrowBy - 1) :
              g.entry[i] = IF i \in (t.head + 1)..(t.head + 1 + GrowBy) THEN FreeEntry
                           ELSE IF i > t.head + 1 + GrowBy THEN t.entry[i - GrowBy]
                           ELSE t.entry[i]
    <3>1. t.tail = t.head + 1 /\ t.head + 1 < z
      BY <1>1, <1>8 DEF NeedsGrowth
    <3>2. g = grow_hash_table(u)
      BY <1>1, <1>2, <1>8, <3>1, TableAssumption DEF g, u, Advanced, grow_hash_table
    <3>3. /\ g.head = u.head /\ g.tail = u.tail + GrowBy /\ g.size = u.size + GrowBy
          /\ g.entry = Grown(u)
      BY <3>2 DEF grow_hash_table
    <3> QED
      BY <1>2, <3>1, <3>3 DEF Grown
  <2>0. \A i \in 0..(z + GrowBy - 1) :
           n.entry[i] = IF i = t.head THEN [hash |-> h, peers |-> list]
                        ELSE IF i \in (t.head + 1)..(t.head + 1 + GrowBy) THEN FreeEntry
                        ELSE IF i > t.head + 1 + GrowBy THEN t.entry[i - GrowBy]
                        ELSE t.entry[i]
    <3>1. ASSUME NEW i \in 0..(z + GrowBy - 1)
          PROVE  n.entry[i] = IF i = t.head THEN [hash |-> h, peers |-> list] ELSE g.entry[i]
      <4>1. i \in 0..(g.size - 1)
        BY <1>1, <2>1, <3>1, TableAssumption
      <4> QED
        BY <1>6, <4>1
    <3> QED
      BY <2>1, <3>1
  <2>2. t.tail = t.head + 1 /\ Span(t) = z - 2 /\ Span(n) = z - 1
    BY <1>1, <1>5, <1>8, <2>1, TableAssumption DEF NeedsGrowth, Span
  <2>3. Below(n, 1) = t.head
    BY <1>1, <1>5, <2>1 DEF Below
  <2>4. ASSUME NEW d \in 1..Span(t)
        PROVE  n.entry[Below(n, d + 1)] = t.entry[Below(t, d)]
    <3>1. CASE d <= t.head
      <4>1. Below(n, d + 1) = t.head - d /\ Below(t, d) = t.head - d
        BY <1>1, <1>5, <2>1, <2>2, <3>1 DEF Below
      <4> QED
        BY <1>1, <1>6, <2>1, <2>2, <3>1, <4>1, TableAssumption
    <3>2. CASE ~ d <= t.head
      <4> DEFINE i == t.head + z - d
      <4>1. Below(n, d + 1) = i + GrowBy /\ Below(t, d) = i
        BY <1>1, <1>5, <2>1, <2>2, <3>2, TableAssumption DEF Below
      <4>2. i \in (t.head + 2)..(z - 1)
        BY <1>1, <2>2, <3>2
      <4> HIDE DEF i
      <4> DEFINE j == i + GrowBy
      <4>4. j - GrowBy = i /\ j \in 0..(z + GrowBy - 1) /\ j # t.head
            /\ ~ j \in (t.head + 1)..(t.head + 1 + GrowBy) /\ j > t.head + 1 + GrowBy
        BY <1>1, <4>2, TableAssumption
      <4> HIDE DEF j
      <4>5. n.entry[j] = t.entry[i]
        BY <1>1, <2>0, <4>4, TableAssumption
      <4> QED
        BY <4>1, <4>5 DEF j
    <3> QED
      BY <1>1, <3>1, <3>2
  <2>5. ASSUME NEW i \in Slots(n), i \notin Walked(n)
        PROVE  ~ InUse(n, i)
    <3>1. i \in (t.head + 1)..(t.head + 1 + GrowBy) /\ i \in 0..(z + GrowBy - 1) /\ i # t.head
      BY <1>1, <1>5, <2>1, <2>5, TableAssumption DEF Walked, Slots
    <3>2. n.entry[i] = FreeEntry
      BY <2>0, <3>1
    <3> QED
      BY <3>2 DEF InUse, FreeEntry
  <2>6. n.entry[Below(n, 1)] = [hash |-> h, peers |-> list]
    BY <1>3, <1>6, <2>3
  <2>7. Span(n) = Span(t) + 1
    BY <1>1, <2>2
  <2> QED
    BY <1>7, <2>4, <2>5, <2>6, <2>7 DEF n
<1>9. CASE ~ NeedsGrowth(t)
  <2>1. /\ g.tail = t.tail /\ g.size = z /\ g.entry = t.entry
        /\ g.head = IF t.head + 1 = z THEN 0 ELSE t.head + 1
    <3>1. [u EXCEPT !.head = 0].tail = u.tail /\ [u EXCEPT !.head = 0].size = u.size
          /\ [u EXCEPT !.head = 0].entry = u.entry /\ [u EXCEPT !.head = 0].head = 0
      BY DEF u, IsTable
    <3>2. g = IF t.head + 1 = z THEN [u EXCEPT !.head = 0] ELSE u
      BY <1>2, <1>9 DEF g, u, Advanced
    <3> HIDE DEF z
    <3> QED
      BY <1>2, <3>1, <3>2 DEF z
  <2>2. n.head # n.tail
    BY DEF n
  <2>3. Span(n) = Span(t) + 1
    <3>1. n.tail = t.tail /\ n.size = z /\ n.head = IF t.head + 1 = z THEN 0 ELSE t.head + 1
      BY <1>5, <2>1
    <3>2. CASE t.head + 1 = z
      <4>1. n.head = 0 /\ t.tail > 0 /\ t.tail < t.head
        BY <1>1, <2>2, <3>1, <3>2
      <4> QED
        BY <1>1, <3>1, <3>2, <4>1 DEF Span
    <3>3. CASE t.head + 1 # z /\ t.tail < t.head
      BY <1>1, <3>1, <3>3 DEF Span
    <3>4. CASE t.head + 1 # z /\ t.head < t.tail
      <4>1. t.head + 1 < t.tail
        BY <1>1, <1>9, <3>4 DEF NeedsGrowth
      <4> QED
        BY <1>1, <3>1, <3>4, <4>1 DEF Span
    <3> QED
      BY <1>1, <3>2, <3>3, <3>4
  <2>4. Below(n, 1) = t.head
    BY <1>1, <1>5, <1>9, <2>1, <2>2 DEF Below, NeedsGrowth
  <2>5. n.entry[Below(n, 1)] = [hash |-> h, peers |-> list]
    BY <1>3, <1>6, <2>4
  <2>6. ASSUME NEW d \in 1..Span(t)
        PROVE  n.entry[Below(n, d + 1)] = t.entry[Below(t, d)]
    <3>1. Below(n, d + 1) = Below(t, d)
      <4>1. CASE t.head + 1 = z
        <5>1. g.head = 0 /\ d <= t.head
          BY <1>1, <2>1, <2>6, <4>1 DEF Span
        <5> QED
          BY <1>1, <1>5, <2>1, <4>1, <5>1 DEF Below
      <4>2. CASE t.head + 1 # z
        BY <1>1, <1>5, <2>1, <2>6, <4>2 DEF Below
      <4> QED
        BY <4>1, <4>2
    <3>2. Below(t, d) \in Slots(t) /\ Below(t, d) # t.head
      BY <1>7
    <3> QED
      BY <1>6, <2>1, <3>1, <3>2 DEF Slots
  <2>7. ASSUME NEW i \in Slots(n), InUse(n, i)
        PROVE  i \in Walked(n)
    <3>1. i \in Slots(t) /\ (i = t.head \/ n.entry[i] = t.entry[i])
      BY <1>5, <1>6, <2>1 DEF Slots
    <3>2. i = t.head \/ i \in Walked(t)
      BY <1>7, <2>7, <3>1 DEF InUse
    <3> QED
      BY <1>1, <1>5, <1>9, <2>1, <2>2, <3>1, <3>2 DEF Walked, NeedsGrowth, Slots
  <2> QED
    BY <1>7, <2>3, <2>5, <2>6, <2>7 DEF n
<1> QED
  BY <1>8, <1>9

LEMMA HashesKept ==
    ASSUME NEW t, NEW u, u.head = t.head, u.tail = t.tail, u.size = t.size,
           \A i \in Slots(t) : u.entry[i].hash = t.entry[i].hash,
           NEW E, IsTable(t, E), Exact(t)
    PROVE  Exact(u)
<1>1. Slots(u) = Slots(t) /\ Window(u) = Window(t)
  BY DEF Slots, Window, Span, Below
<1>2. Window(t) \subseteq Slots(t)
  BY WindowSlots DEF Exact
<1> QED
  BY <1>1, <1>2 DEF Exact, InUse

LEMMA NewEntryExact ==
    ASSUME NEW t, IsTable(t, Entry), Exact(t), NEW h \in Hashes, getpeers(t, h) = {},
           NEW list \in Seq(PeerInfo),
           newentry(t, h, list).head # newentry(t, h, list).tail
    PROVE  Exact(newentry(t, h, list))
<1> DEFINE n == newentry(t, h, list)
<1>1. /\ FreeEntry \in Entry /\ [hash |-> h, peers |-> list] \in Entry
      /\ h # NoHash
  BY EmptySeq, TableAssumption DEF FreeEntry, Entry
<1>2. t.head # t.tail /\ \A i \in Slots(t) : InUse(t, i) => i \in Window(t)
  BY DEF Exact
<1>3. /\ Span(n) = Span(t) + 1
      /\ n.entry[Below(n, 1)] = [hash |-> h, peers |-> list]
      /\ \A d \in 1..Span(t) : n.entry[Below(n, d + 1)] = t.entry[Below(t, d)]
      /\ \A i \in Slots(n) : InUse(n, i) => i \in Window(n)
  BY <1>1, <1>2, NewEntry
<1>4. IsTable(n, Entry)
  BY <1>1, newentryType
<1>5. /\ Span(t) \in Nat
      /\ \A d \in 1..Span(t) : HeadDistance(t, Below(t, d)) = d
      /\ \A d \in 1..Span(t) : /\ Below(t, d) \in Window(t) /\ Below(t, d) \in Slots(t)
                               /\ InUse(t, Below(t, d)) /\ t.entry[Below(t, d)].hash # h
  <2>1. Span(t) \in Nat /\ \A d \in 1..Span(t) : HeadDistance(t, Below(t, d)) = d
    BY <1>2, Geometry
  <2>2. \A i \in Slots(t) : t.entry[i].hash # h
    BY <1>1, FoundExactly
  <2>3. Window(t) \subseteq Slots(t)
    BY <1>2, WindowSlots
  <2> QED
    BY <2>1, <2>2, <2>3 DEF Exact, Window
<1> DEFINE hash(d) == n.entry[Below(n, d)].hash
<1>6. n.head # n.tail
  OBVIOUS
<1> HIDE DEF n
<1>7. \A d \in 1..Span(n) : d = 1 \/ (d - 1 \in 1..Span(t) /\ d - 1 + 1 = d)
  BY <1>3, <1>5
<1>8. ASSUME NEW d \in 1..Span(n)
      PROVE  hash(d) = IF d = 1 THEN h ELSE t.entry[Below(t, d - 1)].hash
  BY <1>3, <1>7
<1>9. ASSUME NEW d \in 1..Span(n), NEW e \in 1..Span(n), hash(d) = hash(e)
      PROVE  d = e
  <2>1. CASE d = 1 \/ e = 1
    BY <1>5, <1>7, <1>8, <1>9, <2>1
  <2>2. CASE d # 1 /\ e # 1
    <3>1. Below(t, d - 1) = Below(t, e - 1)
      BY <1>5, <1>7, <1>8, <1>9, <2>2 DEF Exact
    <3>2. d - 1 = e - 1
      BY <1>5, <1>7, <2>2, <3>1
    <3> QED
      BY <1>7, <2>2, <3>2
  <2> QED
    BY <2>1, <2>2
<1>10. \A i, j \in Window(n) : n.entry[i].hash = n.entry[j].hash => i = j
  BY <1>9 DEF Window
<1>11. \A d \in 1..Span(n) : InUse(n, Below(n, d))
  BY <1>1, <1>5, <1>7, <1>8 DEF InUse
<1>12. \A i \in Slots(n) : InUse(n, i) <=> i \in Window(n)
  BY <1>3, <1>11 DEF Window
<1>13. Exact(n)
  BY <1>6, <1>10, <1>12 DEF Exact
<1> QED
  BY <1>13 DEF n

(* The table without a host, before it is compacted. *)
LEMMA RemovedExact ==
    ASSUME NEW t, IsTable(t, Entry), Exact(t), NEW slots, NEW p
    PROVE  LET v == PeerRemoved(t, slots, p) IN
           /\ Sparse(v) /\ IsTable(v, Entry)
           /\ v.head = t.head /\ v.tail = t.tail /\ v.size = t.size
           /\ (\A i \in slots : InUse(t, i) => InUse(v, i)) => Exact(v)
<1> DEFINE v == PeerRemoved(t, slots, p)
<1>1. Sparse(t)
  BY ExactIsSparse
<1>2. /\ Sparse(v) /\ v.head = t.head /\ v.tail = t.tail /\ v.size = t.size
      /\ \A i \in Slots(t) :
            v.entry[i] = IF i \in slots THEN WithoutPeer(t.entry[i], p) ELSE t.entry[i]
  BY <1>1, RemovedSparse
<1>3. IsTable(v, Entry)
  <2>1. FreeEntry \in Entry
    BY EmptySeq DEF FreeEntry, Entry
  <2>2. \A e \in Entry : RemovePeer(e.peers, p) \in Seq(PeerInfo)
    BY RemovedPeers DEF Entry
  <2>3. \A e \in Entry : WithoutPeer(e, p) \in Entry
    BY <2>1, <2>2 DEF WithoutPeer, Entry
  <2> QED
    BY <2>3, PeerRemovedType
<1> HIDE DEF v
<1>4. ASSUME \A i \in slots : InUse(t, i) => InUse(v, i)
      PROVE  Exact(v)
  <2>1. \A i \in Slots(t) : t.entry[i] \in Entry
    BY DEF IsTable, Slots
  <2>2. \A e \in Entry : WithoutPeer(e, p).hash \in {e.hash, NoHash}
    BY DEF WithoutPeer, FreeEntry, Entry
  <2>3. ASSUME NEW i \in Slots(t)
        PROVE  v.entry[i].hash = t.entry[i].hash
    <3>1. v.entry[i].hash = t.entry[i].hash \/ (i \in slots /\ v.entry[i].hash = NoHash)
      BY <1>2, <2>1, <2>2
    <3> QED
      BY <1>4, <3>1 DEF InUse
  <2> QED
    BY <1>2, <2>3, HashesKept
<1> QED
  BY <1>2, <1>3, <1>4 DEF v

LEMMA ExactAtStart == Exact(InitTable)
<1>1. /\ InitTable.head = 0 /\ InitTable.tail = InitSize - 1 /\ InitTable.size = InitSize
      /\ \A i \in 0..(InitSize - 1) : InitTable.entry[i] = FreeEntry
  BY DEF InitTable
<1>2. InitSize \in Nat /\ InitSize >= 2
  BY TableAssumption
<1>3. Span(InitTable) = 0
  BY <1>1, <1>2 DEF Span
<1>4. Window(InitTable) = {}
  BY <1>3 DEF Window
<1> QED
  BY <1>1, <1>2, <1>4 DEF Exact, InUse, Slots, FreeEntry

LEMMA ExactStep ==
    ASSUME HeadMayMeetTail = FALSE, IsState(Seq(PeerInfo)), Exact(table), [Next]_vars
    PROVE  Exact(table')
<1>1. IsTable(table, Entry)
  BY DEF IsState, EntryOf, Entry
<1>2. \A p \in Peers : \A state \in {DOWNLOADING, READY} :
         addpeer(<<>>, p, state) \in Seq(PeerInfo)
  BY AllListsClosed DEF Closed
<1>3. WithinBounds => table'.head # table'.tail
  BY DEF WithinBounds
<1>4. ASSUME NEW p \in Peers, NEW h \in Hashes, Lookup(p, h)
      PROVE  Exact(table')
  <2>1. CASE getpeers(table, h) = {}
    BY <1>1, <1>2, <1>3, <1>4, <2>1, NewEntryExact DEF Lookup, LookupNew
  <2>2. ASSUME NEW i \in getpeers(table, h), LookupKnown(p, h, i)
        PROVE  Exact(table')
    <3>1. /\ table'.head = table.head /\ table'.tail = table.tail
          /\ table'.size = table.size
          /\ \A j \in Slots(table) : table'.entry[j].hash = table.entry[j].hash
      BY <2>2, LookupSlot
    <3> QED
      BY <1>1, <3>1, HashesKept
  <2> QED
    BY <1>4, <2>1, <2>2 DEF Lookup
<1>5. ASSUME NEW p \in Peers, NEW h \in Hashes, Register(p, h)
      PROVE  Exact(table')
  <2>1. CASE getpeers(table, h) = {}
    BY <1>1, <1>2, <1>3, <1>5, <2>1, NewEntryExact DEF Register
  <2>2. CASE getpeers(table, h) # {}
    <3>1. table' = [table EXCEPT !.entry = [i \in Slots(table) |->
                        IF i \in getpeers(table, h)
                        THEN [hash |-> table.entry[i].hash,
                              peers |-> MarkReady(table.entry[i].peers, p)]
                        ELSE table.entry[i]]]
      BY <1>5, <2>2 DEF Register
    <3>2. /\ table'.head = table.head /\ table'.tail = table.tail
          /\ table'.size = table.size
          /\ \A j \in Slots(table) : table'.entry[j].hash = table.entry[j].hash
      BY <1>1, <3>1 DEF IsTable
    <3> QED
      BY <1>1, <3>2, HashesKept
  <2> QED
    BY <2>1, <2>2
<1>6. ASSUME NEW p \in Peers, NEW h \in Hashes, Unregister(p, h)
      PROVE  Exact(table')
  <2> DEFINE t == PeerRemoved(table, getpeers(table, h), p)
             emptied == \E i \in getpeers(table, h) : InUse(table, i) /\ ~ InUse(t, i)
  <2>1. /\ table'.head # table'.tail
        /\ table' = IF emptied THEN reclaim_free_entries(compact_hash_table(t)) ELSE t
    BY <1>3, <1>6 DEF Unregister
  <2>2. CASE emptied
    <3>1. Sparse(t) /\ IsTable(t, Entry)
      BY <1>1, RemovedExact
    <3>2. table' = reclaim_free_entries(compact_hash_table(t))
      BY <2>1, <2>2
    <3> HIDE DEF t
    <3> QED
      BY <2>1, <3>1, <3>2, CompactedExact
  <2>3. CASE ~ emptied
    <3>1. table' = t /\ \A i \in getpeers(table, h) : InUse(table, i) => InUse(t, i)
      BY <2>1, <2>3
    <3> QED
      BY <1>1, <3>1, RemovedExact
  <2> QED
    BY <2>2, <2>3
<1>7. ASSUME NEW p \in Peers, PeerDone(p)
      PROVE  Exact(table')
  <2> DEFINE t == PeerRemoved(table, Walked(table), p)
  <2>1. /\ table'.head # table'.tail
        /\ table' = reclaim_free_entries(compact_hash_table(t))
    BY <1>3, <1>7 DEF PeerDone
  <2>2. Sparse(t) /\ IsTable(t, Entry)
    BY <1>1, RemovedExact
  <2> HIDE DEF t
  <2> QED
    BY <2>1, <2>2, CompactedExact
<1>8. CASE Restart
  BY <1>8, ExactAtStart DEF Restart
<1>9. CASE UNCHANGED vars
  BY <1>9 DEF vars
<1> QED
  BY <1>4, <1>5, <1>6, <1>7, <1>8, <1>9 DEF Next

(* The slots in use are those between the tail and the head, and no hash has
   two of them: as long as the head does not meet the tail. *)
THEOREM WindowExactCorrect ==
    ASSUME HeadMayMeetTail = FALSE
    PROVE  Spec => []WindowExact
<1>1. Init => IsState(Seq(PeerInfo)) /\ Exact(table)
  BY AllListsClosed, InitType, ExactAtStart DEF Init
<1>2. IsState(Seq(PeerInfo)) /\ Exact(table) /\ [Next]_vars =>
        IsState(Seq(PeerInfo))' /\ Exact(table)'
  BY AllListsClosed, NextType, ExactStep
<1>3. Exact(table) => WindowExact
  BY DEF Exact, WindowExact
<1> QED
  BY <1>1, <1>2, <1>3, PTL DEF Spec
-----------------------------------------------------------------------------
(* A list with the READY entry of a host first has none without its first. *)
LEMMA NoneReadyLeft ==
    ASSUME NEW list \in ReadyFirstLists, NEW p \in Peers
    PROVE  Ready(p) \notin Range(RemovePeer(list, p))
<1>1. /\ list \in Seq(PeerInfo) /\ Len(list) \in Nat
      /\ \A j, k \in 1..Len(list) :
           (j < k /\ list[j].ip = list[k].ip) => list[k].state = DOWNLOADING
  BY LenProperties DEF ReadyFirstLists, ReadyFirstIn
<1>2. Ready(p).ip = p /\ Ready(p).state # DOWNLOADING
  BY DEF Ready, READY, DOWNLOADING
<1>3. CASE Positions(list, p) = {}
  <2>1. \A k \in DOMAIN list : list[k].ip # p
    BY <1>3 DEF Positions
  <2> QED
    BY <1>2, <1>3, <2>1 DEF RemovePeer, Range
<1>4. CASE Positions(list, p) # {}
  <2> DEFINE n == FirstPosition(list, p)
             r == RemovePeer(list, p)
  <2>1. n \in 1..Len(list) /\ list[n].ip = p
        /\ \A j \in 1..Len(list) : list[j].ip = p => n <= j
    BY <1>1, <1>4, LeastPosition
  <2>2. /\ r \in Seq(PeerInfo) /\ Len(r) = Len(list) - 1
        /\ \A i \in 1..(Len(list) - 1) : r[i] = IF i < n THEN list[i] ELSE list[i + 1]
    BY <1>1, <1>4, TakenOut
  <2> HIDE DEF n, r
  <2>3. ASSUME NEW k \in 1..Len(r)
        PROVE  r[k] # Ready(p)
    <3>1. CASE k < n
      <4>1. k \in 1..Len(list) /\ r[k] = list[k] /\ ~ n <= k
        BY <1>1, <2>1, <2>2, <3>1
      <4> QED
        BY <1>2, <2>1, <4>1
    <3>2. CASE ~ k < n
      <4>1. k + 1 \in 1..Len(list) /\ r[k] = list[k + 1] /\ n < k + 1
        BY <1>1, <2>1, <2>2, <3>2
      <4> QED
        BY <1>1, <1>2, <2>1, <4>1
    <3> QED
      BY <3>1, <3>2
  <2>4. DOMAIN r = 1..Len(r)
    BY <2>2, LenProperties
  <2> QED
    BY <2>3, <2>4 DEF Range, r
<1> QED
  BY <1>3, <1>4

(* No slot keeps a host as READY that was taken out of every slot with the hash. *)
LEMMA NoneReadyAfter ==
    ASSUME NEW t, IsTable(t, EntryOf(ReadyFirstLists)), NEW p \in Peers, NEW h \in Hashes,
           NEW slots, \A i \in Slots(t) : t.entry[i].hash = h => i \in slots
    PROVE  /\ ~ HasReady(PeerRemoved(t, slots, p), h, p)
           /\ ~ HasReady(reclaim_free_entries(compact_hash_table(PeerRemoved(t, slots, p))), h, p)
<1> DEFINE v == PeerRemoved(t, slots, p)
<1>1. /\ v.size = t.size
      /\ \A i \in Slots(t) :
            v.entry[i] = IF i \in slots THEN WithoutPeer(t.entry[i], p) ELSE t.entry[i]
      /\ \A i \in Slots(t) : t.entry[i] \in EntryOf(ReadyFirstLists)
  BY DEF PeerRemoved, IsTable, Slots
<1>2. \A e \in EntryOf(ReadyFirstLists) : WithoutPeer(e, p).hash \in {e.hash, NoHash}
  BY DEF WithoutPeer, FreeEntry, EntryOf
<1>3. ASSUME NEW e \in EntryOf(ReadyFirstLists)
      PROVE  Ready(p) \notin Range(WithoutPeer(e, p).peers)
  <2>1. e.peers \in ReadyFirstLists /\ e.peers \in Seq(PeerInfo)
    BY DEF EntryOf, ReadyFirstLists
  <2>2. Ready(p) \notin Range(RemovePeer(e.peers, p))
    BY <2>1, NoneReadyLeft
  <2>3. Range(<<>>) = {}
    BY DEF Range
  <2>4. WithoutPeer(e, p).peers \in {e.peers, <<>>, RemovePeer(e.peers, p)}
        /\ (WithoutPeer(e, p).peers = e.peers =>
              Positions(e.peers, p) = {} \/ e.peers \in {<<>>, RemovePeer(e.peers, p)})
    BY DEF WithoutPeer, FreeEntry, EntryOf
  <2>5. Positions(e.peers, p) = {} => RemovePeer(e.peers, p) = e.peers
    BY DEF RemovePeer
  <2> QED
    BY <2>2, <2>3, <2>4, <2>5
<1> HIDE DEF v
<1>4. ~ HasReady(v, h, p)
  <2>1. SUFFICES ASSUME NEW i \in Slots(v), v.entry[i].hash = h,
                        Ready(p) \in Range(v.entry[i].peers)
                 PROVE  FALSE
    BY DEF HasReady, Ready
  <2>2. i \in Slots(t) /\ h # NoHash
    BY <1>1, TableAssumption DEF Slots
  <2>3. t.entry[i].hash = h
    BY <1>1, <1>2, <2>1, <2>2
  <2>4. v.entry[i] = WithoutPeer(t.entry[i], p)
    BY <1>1, <2>2, <2>3
  <2> QED
    BY <1>1, <1>3, <2>1, <2>2, <2>4
<1>5. IsTable(v, Entry)
  <2>1. \A i \in 0..(t.size - 1) : t.entry[i] \in Entry
    BY DEF IsTable, EntryOf, Entry, ReadyFirstLists
  <2>2. IsTable(t, Entry)
    BY <2>1 DEF IsTable
  <2>3. /\ FreeEntry \in EntryOf(Seq(PeerInfo))
        /\ \A e \in EntryOf(Seq(PeerInfo)) : WithoutPeer(e, p) \in EntryOf(Seq(PeerInfo))
    BY AllListsClosed, EntriesClosed
  <2>4. EntryOf(Seq(PeerInfo)) = Entry
    BY DEF EntryOf, Entry
  <2> QED
    BY <2>2, <2>3, <2>4, PeerRemovedType DEF v
<1>6. IsTable(v, EntriesOf(v)) /\ FreeEntry \in EntriesOf(v)
  BY <1>5, OwnEntries
<1>7. IsTable(reclaim_free_entries(compact_hash_table(v)), EntriesOf(v))
  BY <1>6, CompactedType, ReclaimedType
<1>8. ~ HasReady(reclaim_free_entries(compact_hash_table(v)), h, p)
  BY <1>4, <1>7, ReadyTraced
<1> QED
  BY <1>4, <1>8 DEF v

LEMMA DroppedStep ==
    ASSUME IsState(ReadyFirstLists), Exact(table), NEW p \in Peers, NEW h \in Hashes,
           Unregister(p, h) \/ PeerDone(p)
    PROVE  ~ HasReady(table', h, p)
<1>1. IsTable(table, EntryOf(ReadyFirstLists)) /\ h # NoHash
  BY TableAssumption DEF IsState
<1>2. Window(table) = Walked(table) /\ Window(table) \subseteq Slots(table)
  BY <1>1, WindowWalked, WindowSlots DEF Exact
<1>3. \A i \in Slots(table) : table.entry[i].hash = h =>
         i \in Walked(table) /\ i \in getpeers(table, h)
  BY <1>1, <1>2, FoundExactly DEF Exact, InUse
<1>4. CASE Unregister(p, h)
  <2> DEFINE t == PeerRemoved(table, getpeers(table, h), p)
  <2>1. table' \in {t, reclaim_free_entries(compact_hash_table(t))}
    BY <1>4 DEF Unregister
  <2> QED
    BY <1>1, <1>3, <2>1, NoneReadyAfter
<1>5. CASE PeerDone(p)
  <2>1. table' = reclaim_free_entries(compact_hash_table(
                    PeerRemoved(table, Walked(table), p)))
    BY <1>5 DEF PeerDone
  <2> QED
    BY <1>1, <1>3, <2>1, NoneReadyAfter
<1> QED
  BY <1>4, <1>5

(* Where hosts are compared consistently and the head does not meet the tail, a host
   that was unregistered from a file, or is done, is no READY source of it. *)
THEOREM DroppedNotReady ==
    ASSUME CoopsAlike, HeadMayMeetTail = FALSE
    PROVE  Spec => DroppedIsNotReady
<1>1. Init => IsState(Seq(PeerInfo)) /\ IsState(ReadyFirstLists) /\ Exact(table)
  BY AllListsClosed, ReadyFirstClosed, InitType, ExactAtStart DEF Init
<1>2. IsState(Seq(PeerInfo)) /\ IsState(ReadyFirstLists) /\ Exact(table) /\ [Next]_vars =>
        IsState(Seq(PeerInfo))' /\ IsState(ReadyFirstLists)' /\ Exact(table)'
  BY AllListsClosed, ReadyFirstClosed, NextType, ExactStep
<1>3. IsState(ReadyFirstLists) /\ Exact(table) =>
        [\A p \in Peers, h \in Hashes :
           (Unregister(p, h) \/ PeerDone(p)) => ~ HasReady(table', h, p)]_vars
  BY DroppedStep
<1> QED
  BY <1>1, <1>2, <1>3, PTL DEF Spec, DroppedIsNotReady
-----------------------------------------------------------------------------
(* The refinement of the queue of TrackerList. *)

(* An entry in use has peers, so that the queue forgets a hash exactly when
   its slot becomes free. *)
Peopled == {e \in Entry : e.hash # NoHash => e.peers # <<>>}

LEMMA PeopledEntries ==
    /\ FreeEntry \in Peopled
    /\ \A e \in Peopled, p \in Peers : WithoutPeer(e, p) \in Peopled
<1>1. FreeEntry \in Peopled
  BY EmptySeq DEF FreeEntry, Peopled, Entry
<1>2. ASSUME NEW e \in Peopled, NEW p \in Peers
      PROVE  WithoutPeer(e, p) \in Peopled
  <2>1. e.peers \in Seq(PeerInfo) /\ e \in Entry
    BY DEF Peopled, Entry
  <2>2. CASE Len(e.peers) # 1 /\ Positions(e.peers, p) # {}
    <3> DEFINE f == [e EXCEPT !.peers = RemovePeer(e.peers, p)]
    <3>1. RemovePeer(e.peers, p) \in Seq(PeerInfo) /\ RemovePeer(e.peers, p) # <<>>
      BY <2>1, <2>2, RemovedPeers, NeverEmptied
    <3>2. f \in Peopled
      BY <2>1, <3>1 DEF Peopled, Entry
    <3> QED
      BY <2>2, <3>2 DEF WithoutPeer
  <2> QED
    BY <1>1, <2>2 DEF WithoutPeer
<1> QED
  BY <1>1, <1>2

LEMMA LookupPeopled ==
    ASSUME IsTable(table, Peopled), stamps \in [Peers -> Nat], NEW q \in Peers, NEW g \in Hashes,
           NEW i \in getpeers(table, g), LookupKnown(q, g, i)
    PROVE  IsTable(table', Peopled)
<1> DEFINE A == Answered(table, i)
           slot(k) == Above(table, i, k)
           lists == [k \in A |-> table.entry[slot(k)].peers]
<1>1. i \in Slots(table)
  BY FoundSlot
<1>2. \A k \in A : k \in Nat /\ slot(k) \in Slots(table) /\ table.entry[slot(k)] \in Peopled
  BY <1>1, AnsweredSlot
<1>3. /\ 0 \in A /\ DOMAIN lists = A
      /\ \A k \in A : lists[k] \in Seq(PeerInfo) /\ lists[k] = table.entry[slot(k)].peers
  BY <1>2 DEF Answered, Peopled, Entry
<1> DEFINE change(ls, j) ==
               IF j = i
               THEN [hash |-> table.entry[j].hash, peers |-> AfterLookup(ls[0], q)]
               ELSE IF \E k \in A : slot(k) = j
               THEN [hash |-> table.entry[j].hash,
                     peers |-> ls[CHOOSE k \in A : slot(k) = j]]
               ELSE table.entry[j]
<1>4. PICK ls \in Reorderings(lists, Coop[q], stamps) :
             table' = [table EXCEPT !.entry = [j \in Slots(table) |-> change(ls, j)]]
  BY DEF LookupKnown
<1>5. ASSUME NEW k \in A
      PROVE  ls[k] \in Seq(PeerInfo) /\ (lists[k] # <<>> => ls[k] # <<>>)
  <2> DEFINE st == StampsAfter(stamps, ls, {j \in A : j < k})
  <2>1. ls[k] \in Shuffles(lists[k], Coop[q], st)
    BY <1>3, <1>4 DEF Reorderings
  <2> HIDE DEF st
  <2>2. ls[k] \in Arrangements(lists[k])
    BY <2>1 DEF Shuffles
  <2>3. ls[k] \in Seq(PeerInfo)
    BY <1>3, <2>2, ArrangedPeers
  <2>4. lists[k] # <<>> => ls[k] # <<>>
    BY <1>3, <2>2, NeverEmptied
  <2> QED
    BY <2>3, <2>4
<1> HIDE DEF lists, A, slot
<1>6. ASSUME NEW j \in Slots(table)
      PROVE  change(ls, j) \in Peopled
  <2>1. table.entry[j] \in Peopled
    BY DEF IsTable, Slots
  <2>2. ASSUME NEW list \in Seq(PeerInfo), table.entry[j].hash # NoHash => list # <<>>
        PROVE  [hash |-> table.entry[j].hash, peers |-> list] \in Peopled
    BY <2>1, <2>2 DEF Peopled, Entry
  <2>3. CASE j = i
    <3>1. AfterLookup(ls[0], q) \in Seq(PeerInfo) /\ AfterLookup(ls[0], q) # <<>>
      BY <1>3, <1>5, MarkedPeers, NeverEmptied
    <3> QED
      BY <2>2, <2>3, <3>1
  <2>4. CASE j # i /\ \E k \in A : slot(k) = j
    <3>1. PICK k \in A : slot(k) = j /\ k = CHOOSE m \in A : slot(m) = j
      BY <2>4
    <3>2. table.entry[j].hash # NoHash => lists[k] # <<>>
      BY <1>3, <2>1, <3>1 DEF Peopled
    <3> QED
      BY <1>5, <2>2, <2>4, <3>1, <3>2
  <2> QED
    BY <2>1, <2>3, <2>4
<1> HIDE DEF change
<1>7. [j \in Slots(table) |-> change(ls, j)] \in [Slots(table) -> Peopled]
  BY <1>6
<1> QED
  BY <1>4, <1>7, ReplacedType

LEMMA PeopledStep ==
    ASSUME IsState(Seq(PeerInfo)), IsTable(table, Peopled), [Next]_vars
    PROVE  IsTable(table', Peopled)
<1>1. stamps \in [Peers -> Nat]
  BY DEF IsState
<1>2. ASSUME NEW p \in Peers, NEW state \in {DOWNLOADING, READY}, NEW h \in Hashes
      PROVE  IsTable(newentry(table, h, addpeer(<<>>, p, state)), Peopled)
  <2>1. <<>> \in Seq(PeerInfo)
    BY EmptySeq
  <2>2. addpeer(<<>>, p, state) \in Seq(PeerInfo) /\ addpeer(<<>>, p, state) # <<>>
    BY <2>1, MarkedPeers, NeverEmptied
  <2>3. [hash |-> h, peers |-> addpeer(<<>>, p, state)] \in Peopled
    BY <2>2 DEF Peopled, Entry
  <2> QED
    BY <2>3, PeopledEntries, newentryType
<1>3. ASSUME NEW p \in Peers, NEW slots
      PROVE  /\ IsTable(PeerRemoved(table, slots, p), Peopled)
             /\ IsTable(reclaim_free_entries(compact_hash_table(PeerRemoved(table, slots, p))),
                        Peopled)
  BY PeopledEntries, PeerRemovedType, CompactedType, ReclaimedType
<1>4. ASSUME NEW p \in Peers, NEW h \in Hashes, Lookup(p, h)
      PROVE  IsTable(table', Peopled)
  BY <1>1, <1>2, <1>4, LookupPeopled DEF Lookup, LookupNew
<1>5. ASSUME NEW p \in Peers, NEW h \in Hashes, Register(p, h)
      PROVE  IsTable(table', Peopled)
  <2> DEFINE e(i) == IF i \in getpeers(table, h)
                     THEN [hash |-> table.entry[i].hash,
                           peers |-> MarkReady(table.entry[i].peers, p)]
                     ELSE table.entry[i]
  <2>1. CASE getpeers(table, h) = {}
    BY <1>2, <1>5, <2>1 DEF Register
  <2>2. CASE getpeers(table, h) # {}
    <3>1. ASSUME NEW i \in Slots(table)
          PROVE  e(i) \in Peopled
      <4>1. table.entry[i] \in Peopled /\ table.entry[i].peers \in Seq(PeerInfo)
        BY DEF IsTable, Slots, Peopled, Entry
      <4>2. /\ MarkReady(table.entry[i].peers, p) \in Seq(PeerInfo)
            /\ MarkReady(table.entry[i].peers, p) # <<>>
        BY <4>1, MarkedPeers, NeverEmptied
      <4> QED
        BY <4>1, <4>2 DEF Peopled, Entry
    <3>2. [i \in Slots(table) |-> e(i)] \in [Slots(table) -> Peopled]
      BY <3>1
    <3>3. table' = [table EXCEPT !.entry = [i \in Slots(table) |-> e(i)]]
      BY <1>5, <2>2 DEF Register
    <3> QED
      BY <3>2, <3>3, ReplacedType
  <2> QED
    BY <2>1, <2>2
<1>6. ASSUME NEW p \in Peers, NEW h \in Hashes, Unregister(p, h)
      PROVE  IsTable(table', Peopled)
  BY <1>3, <1>6 DEF Unregister
<1>7. ASSUME NEW p \in Peers, PeerDone(p)
      PROVE  IsTable(table', Peopled)
  BY <1>3, <1>7 DEF PeerDone
<1>8. CASE Restart
  BY <1>8, PeopledEntries, InitTableType DEF Restart
<1>9. CASE UNCHANGED vars
  BY <1>9 DEF vars
<1> QED
  BY <1>4, <1>5, <1>6, <1>7, <1>8, <1>9 DEF Next

(* The operators TrackerList takes from TrackerPeers are those of the table. *)
LEMMA SameOperators ==
    /\ \A list, p, state : List!addpeer(list, p, state) = addpeer(list, p, state)
    /\ \A list, p : /\ List!MarkReady(list, p) = MarkReady(list, p)
                    /\ List!RemovePeer(list, p) = RemovePeer(list, p)
                    /\ List!AfterLookup(list, p) = AfterLookup(list, p)
                    /\ List!Offered(list, p) = Offered(list, p)
    /\ \A s, K : List!Filtered(s, K) = Filtered(s, K)
    /\ \A s, ls, done : List!StampsAfter(s, ls, done) = StampsAfter(s, ls, done)
    /\ \A lists, my, s : List!Reorderings(lists, my, s) = Reorderings(lists, my, s)
<1>1. \A list, p, state : List!addpeer(list, p, state) = addpeer(list, p, state)
  BY DEF List!addpeer, addpeer
<1>2. \A list, p : List!Positions(list, p) = Positions(list, p)
  BY DEF List!Positions, Positions
<1>3. \A list, p : List!FirstPosition(list, p) = FirstPosition(list, p)
  BY <1>2 DEF List!FirstPosition, FirstPosition
<1>4. \A list, p : List!MarkReady(list, p) = MarkReady(list, p)
  BY <1>1, <1>2, <1>3 DEF List!MarkReady, MarkReady, READY, List!READY
<1>5. \A list, p : List!RemovePeer(list, p) = RemovePeer(list, p)
  BY <1>2, <1>3 DEF List!RemovePeer, RemovePeer, List!RemoveAt, RemoveAt
<1>6. \A list, p : List!AfterLookup(list, p) = AfterLookup(list, p)
  BY <1>1, <1>2, <1>3 DEF List!AfterLookup, AfterLookup, List!MeetsRequestor, MeetsRequestor,
       List!CopyLimit, CopyLimit, List!DOWNLOADING, DOWNLOADING
<1>7. \A list, p : List!Offered(list, p) = Offered(list, p)
  BY <1>2, <1>3 DEF List!Offered, Offered, List!MeetsRequestor, MeetsRequestor,
       List!CopyLimit, CopyLimit
<1>8. \A s, K : List!Filtered(s, K) = Filtered(s, K)
  BY DEF List!Filtered, Filtered
<1>9. \A s, ls, done : List!StampsAfter(s, ls, done) = StampsAfter(s, ls, done)
  BY DEF List!StampsAfter, StampsAfter, List!HasStamp, HasStamp, List!StampedLater, StampedLater,
       List!StampedAt, StampedAt, List!Cardinality, Cardinality
<1>10. \A list : List!Arrangements(list) = Arrangements(list)
  BY DEF List!Arrangements, Arrangements, List!Bijection, Bijection, List!Injection, Injection,
       List!Surjection, Surjection, List!IsInjective, IsInjective
<1>11. \A list, my, s : List!Shuffles(list, my, s) = Shuffles(list, my, s)
  BY <1>10 DEF List!Shuffles, Shuffles, List!ConsistentOrder, ConsistentOrder, List!Before, Before,
       List!CoopDecides, CoopDecides, List!READY, READY
<1>12. \A lists, my, s : List!Reorderings(lists, my, s) = Reorderings(lists, my, s)
  BY <1>9, <1>10, <1>11 DEF List!Reorderings, Reorderings
<1> QED
  BY <1>1, <1>4, <1>5, <1>6, <1>7, <1>8, <1>9, <1>12

(* The queue is the window from its oldest slot up. *)
LEMMA QueueOfWindow ==
    ASSUME NEW t, IsTable(t, Entry), Exact(t)
    PROVE  /\ Span(t) \in Nat
           /\ Queue(t) = [k \in 1..Span(t) |-> t.entry[Below(t, Span(t) + 1 - k)].hash]
           /\ Queue(t) \in Seq(Hashes) /\ Len(Queue(t)) = Span(t)
           /\ \A k \in 1..Span(t) : /\ Span(t) + 1 - k \in 1..Span(t)
                                    /\ Below(t, Span(t) + 1 - k) \in Window(t)
           /\ \A i \in Window(t) : t.entry[i] \in Entry /\ t.entry[i].hash \in Hashes
<1> DEFINE S == Span(t)
           walked == [d \in 1..S |-> t.entry[Below(t, S + 1 - d)]]
           K == {d \in DOMAIN walked : walked[d].hash # NoHash}
<1>1. /\ t.head # t.tail
      /\ S \in Nat /\ \A d \in 1..S : Below(t, d) \in Window(t)
      /\ Window(t) \subseteq Slots(t)
  BY Geometry, WindowSlots DEF Window, Exact
<1>2. \A i \in Window(t) : t.entry[i] \in Entry /\ t.entry[i].hash \in Hashes
  BY <1>1 DEF Exact, InUse, IsTable, Slots, Entry
<1> HIDE DEF S
<1>3. \A k \in 1..S : S + 1 - k \in 1..S /\ Below(t, S + 1 - k) \in Window(t)
  BY <1>1
<1>4. walked \in Seq(Entry) /\ Len(walked) = S
  BY <1>1, <1>2, <1>3
<1>5. K = 1..S
  BY <1>2, <1>3, TableAssumption
<1>6. Filtered(walked, K) = walked
  <2> HIDE DEF walked, K
  <2> QED
    BY <1>4, <1>5, FilteredAll
<1>7. Entries(t) = walked
  BY <1>6 DEF Entries, S
<1>8. Queue(t) = [k \in 1..S |-> t.entry[Below(t, S + 1 - k)].hash]
  <2>1. Queue(t) = [k \in DOMAIN walked |-> walked[k].hash]
    BY <1>7 DEF Queue
  <2> QED
    BY <2>1
<1>9. Queue(t) \in Seq(Hashes) /\ Len(Queue(t)) = S
  BY <1>1, <1>2, <1>3, <1>8
<1> QED
  BY <1>1, <1>2, <1>3, <1>8, <1>9 DEF S

(* A hash has the peers of its slot. *)
LEMMA PeersOfWindow ==
    ASSUME NEW t, Exact(t), NEW h
    PROVE  /\ \A i \in Window(t) : t.entry[i].hash = h => PeersOf(t, h) = t.entry[i].peers
           /\ (\A i \in Window(t) : t.entry[i].hash # h) => PeersOf(t, h) = <<>>
<1> DEFINE at == {i \in Window(t) : t.entry[i].hash = h}
<1>1. PeersOf(t, h) = IF at = {} THEN <<>> ELSE t.entry[CHOOSE i \in at : TRUE].peers
  BY DEF PeersOf
<1>2. ASSUME NEW i \in Window(t), t.entry[i].hash = h
      PROVE  PeersOf(t, h) = t.entry[i].peers
  <2>1. i \in at /\ \A j \in at : j = i
    BY <1>2 DEF Exact
  <2> HIDE DEF at
  <2>2. (CHOOSE j \in at : TRUE) = i
    BY <2>1
  <2> QED
    BY <1>1, <2>1, <2>2
<1> QED
  BY <1>1, <1>2

(* A hash is in the queue if a slot of the window has it, and that is what
   getpeers looks for. *)
LEMMA QueuedIsFound ==
    ASSUME NEW t, IsTable(t, Entry), Exact(t), NEW h \in Hashes
    PROVE  /\ h \in List!ToSet(Queue(t)) <=> getpeers(t, h) # {}
           /\ getpeers(t, h) = {i \in Window(t) : t.entry[i].hash = h}
<1> DEFINE S == Span(t)
<1>1. /\ S \in Nat
      /\ Queue(t) = [k \in 1..S |-> t.entry[Below(t, S + 1 - k)].hash]
      /\ \A k \in 1..S : S + 1 - k \in 1..S /\ Below(t, S + 1 - k) \in Window(t)
  BY QueueOfWindow
<1>2. getpeers(t, h) = {i \in Window(t) : t.entry[i].hash = h}
  <2>1. h # NoHash
    BY TableAssumption
  <2> QED
    BY <2>1, FoundExactly
<1>3. Window(t) = {Below(t, d) : d \in 1..S}
  BY DEF Window
<1> HIDE DEF S
<1>4. ASSUME NEW d \in 1..S
      PROVE  Queue(t)[S + 1 - d] = t.entry[Below(t, d)].hash /\ S + 1 - d \in DOMAIN Queue(t)
  <2>1. S + 1 - d \in 1..S /\ S + 1 - (S + 1 - d) = d
    BY <1>1
  <2> QED
    BY <1>1, <2>1
<1>5. h \in List!ToSet(Queue(t)) <=> \E k \in DOMAIN Queue(t) : Queue(t)[k] = h
  BY DEF List!ToSet
<1>6. (\E k \in DOMAIN Queue(t) : Queue(t)[k] = h) <=> \E i \in Window(t) : t.entry[i].hash = h
  <2>1. ASSUME NEW k \in DOMAIN Queue(t), Queue(t)[k] = h
        PROVE  \E i \in Window(t) : t.entry[i].hash = h
    <3>1. k \in 1..S /\ Queue(t)[k] = t.entry[Below(t, S + 1 - k)].hash
      BY <1>1
    <3> QED
      BY <1>1, <2>1, <3>1
  <2>2. ASSUME NEW d \in 1..S, t.entry[Below(t, d)].hash = h
        PROVE  \E k \in DOMAIN Queue(t) : Queue(t)[k] = h
    BY <1>4, <2>2
  <2> QED
    BY <1>3, <2>1, <2>2
<1> QED
  BY <1>2, <1>5, <1>6

(* A new entry is the last of the queue. *)
LEMMA NewQueued ==
    ASSUME NEW t, IsTable(t, Entry), Exact(t), NEW h \in Hashes, getpeers(t, h) = {},
           NEW list \in Seq(PeerInfo),
           newentry(t, h, list).head # newentry(t, h, list).tail
    PROVE  /\ Queue(newentry(t, h, list)) = Append(Queue(t), h)
           /\ \A g \in Hashes : PeersOf(newentry(t, h, list), g) =
                                  IF g = h THEN list ELSE PeersOf(t, g)
           /\ PeersOf(t, h) = <<>>
<1> DEFINE n == newentry(t, h, list)
           S == Span(t)
<1>1. /\ FreeEntry \in Entry /\ [hash |-> h, peers |-> list] \in Entry
      /\ t.head # t.tail /\ \A i \in Slots(t) : InUse(t, i) => i \in Window(t)
  BY EmptySeq DEF FreeEntry, Entry, Exact
<1>2. /\ Span(n) = S + 1
      /\ n.entry[Below(n, 1)] = [hash |-> h, peers |-> list]
      /\ \A d \in 1..S : n.entry[Below(n, d + 1)] = t.entry[Below(t, d)]
  BY <1>1, NewEntry
<1>3. IsTable(n, Entry) /\ Exact(n)
  BY <1>1, newentryType, NewEntryExact
<1> HIDE DEF n
<1>4. /\ S \in Nat
      /\ Queue(t) = [k \in 1..S |-> t.entry[Below(t, S + 1 - k)].hash]
      /\ Queue(t) \in Seq(Hashes) /\ Len(Queue(t)) = S
      /\ Window(t) = {Below(t, d) : d \in 1..S}
  BY QueueOfWindow DEF Window
<1>5. /\ Queue(n) = [k \in 1..(S + 1) |-> n.entry[Below(n, S + 1 + 1 - k)].hash]
      /\ Queue(n) \in Seq(Hashes) /\ Len(Queue(n)) = S + 1
      /\ Window(n) = {Below(n, d) : d \in 1..(S + 1)}
  BY <1>2, <1>3, QueueOfWindow DEF Window
<1>6. \A i \in Window(t) : t.entry[i].hash # h
  <2>1. {i \in Window(t) : t.entry[i].hash = h} = {}
    BY QueuedIsFound
  <2> QED
    BY <2>1
<1> HIDE DEF S
<1>7. Queue(n) = Append(Queue(t), h)
  <2>1. /\ Append(Queue(t), h) \in Seq(Hashes) /\ Len(Append(Queue(t), h)) = S + 1
        /\ \A k \in 1..S : Append(Queue(t), h)[k] = Queue(t)[k]
        /\ Append(Queue(t), h)[S + 1] = h
    BY <1>4, AppendProperties
  <2>2. ASSUME NEW k \in 1..(S + 1)
        PROVE  Queue(n)[k] = Append(Queue(t), h)[k]
    <3>1. CASE k = S + 1
      <4>1. S + 1 + 1 - k = 1
        BY <1>4, <3>1
      <4> QED
        BY <1>2, <1>5, <2>1, <3>1, <4>1
    <3>2. CASE k # S + 1
      <4>1. k \in 1..S /\ S + 1 - k \in 1..S /\ S + 1 + 1 - k = (S + 1 - k) + 1
        BY <1>4, <3>2
      <4>2. Queue(n)[k] = n.entry[Below(n, (S + 1 - k) + 1)].hash
        BY <1>5, <4>1
      <4>3. n.entry[Below(n, (S + 1 - k) + 1)] = t.entry[Below(t, S + 1 - k)]
        BY <1>2, <4>1
      <4> QED
        BY <1>4, <2>1, <4>1, <4>2, <4>3
    <3> QED
      BY <3>1, <3>2
  <2> QED
    BY <1>5, <2>1, <2>2, SeqEqual
<1>8. ASSUME NEW g \in Hashes
      PROVE  PeersOf(n, g) = IF g = h THEN list ELSE PeersOf(t, g)
  <2>1. /\ 1 \in 1..(S + 1) /\ \A d \in 1..S : d + 1 \in 1..(S + 1)
        /\ \A e \in 1..(S + 1) : e = 1 \/ (e - 1 \in 1..S /\ (e - 1) + 1 = e)
    BY <1>4
  <2>2. CASE g = h
    <3>1. Below(n, 1) \in Window(n) /\ n.entry[Below(n, 1)].hash = h
      BY <1>2, <1>5, <2>1
    <3> QED
      BY <1>2, <1>3, <2>2, <3>1, PeersOfWindow
  <2>3. CASE g # h /\ \E i \in Window(t) : t.entry[i].hash = g
    <3>1. PICK d \in 1..S : t.entry[Below(t, d)].hash = g
      BY <1>4, <2>3
    <3>2. /\ Below(t, d) \in Window(t) /\ Below(n, d + 1) \in Window(n)
          /\ n.entry[Below(n, d + 1)] = t.entry[Below(t, d)]
      BY <1>2, <1>4, <1>5, <2>1
    <3>3. PeersOf(t, g) = t.entry[Below(t, d)].peers
      BY <3>1, <3>2, PeersOfWindow
    <3>4. PeersOf(n, g) = n.entry[Below(n, d + 1)].peers
      BY <1>3, <3>1, <3>2, PeersOfWindow
    <3> QED
      BY <2>3, <3>2, <3>3, <3>4
  <2>4. CASE g # h /\ \A i \in Window(t) : t.entry[i].hash # g
    <3>1. \A i \in Window(n) : n.entry[i].hash # g
      <4>1. ASSUME NEW e \in 1..(S + 1)
            PROVE  n.entry[Below(n, e)].hash # g
        <5>1. CASE e = 1
          BY <1>2, <2>4, <5>1
        <5>2. CASE e # 1
          <6>1. e - 1 \in 1..S /\ (e - 1) + 1 = e
            BY <2>1, <5>2
          <6>2. n.entry[Below(n, e)] = t.entry[Below(t, e - 1)]
            BY <1>2, <6>1
          <6> QED
            BY <1>4, <2>4, <6>1, <6>2
        <5> QED
          BY <5>1, <5>2
      <4> QED
        BY <1>5, <4>1
    <3> QED
      BY <1>3, <2>4, <3>1, PeersOfWindow
  <2> QED
    BY <2>2, <2>3, <2>4
<1>9. PeersOf(t, h) = <<>>
  BY <1>6, PeersOfWindow
<1> QED
  BY <1>7, <1>8, <1>9 DEF n

(* Taking a host out of slots, and out of the lists of their hashes. *)
RemovedFrom(t, slots, p, lists) ==
    /\ \A i \in Window(t) :
          lists[t.entry[i].hash] = IF i \in slots THEN RemovePeer(t.entry[i].peers, p)
                                                 ELSE t.entry[i].peers
    /\ \A g \in Hashes : (\A i \in Window(t) : t.entry[i].hash # g) => lists[g] = <<>>

(* A slot becomes free when the list of its hash becomes empty, and has that
   list otherwise. *)
LEMMA RemovedSlots ==
    ASSUME NEW t, IsTable(t, Entry), IsTable(t, Peopled), Exact(t), NEW p \in Peers, NEW slots,
           NEW lists, RemovedFrom(t, slots, p, lists), NEW i \in Window(t)
    PROVE  LET v == PeerRemoved(t, slots, p)
               h == t.entry[i].hash IN
           /\ i \in Slots(t)
           /\ InUse(v, i) <=> lists[h] # <<>>
           /\ InUse(v, i) => v.entry[i].hash = h /\ v.entry[i].peers = lists[h]
<1> DEFINE v == PeerRemoved(t, slots, p)
           e == t.entry[i]
<1>1. i \in Slots(t) /\ e \in Peopled /\ e \in Entry /\ e.hash # NoHash
  <2>1. i \in Slots(t)
    BY WindowSlots DEF Exact
  <2> QED
    BY <2>1 DEF Exact, InUse, IsTable, Slots
<1>2. v.entry[i] = IF i \in slots THEN WithoutPeer(e, p) ELSE e
  BY <1>1 DEF PeerRemoved, IsTable, Slots
<1>3. lists[e.hash] = IF i \in slots THEN RemovePeer(e.peers, p) ELSE e.peers
  BY DEF RemovedFrom
<1>4. e.peers \in Seq(PeerInfo) /\ e.peers # <<>>
  BY <1>1 DEF Peopled, Entry
<1> HIDE DEF v
<1>5. CASE i \notin slots
  BY <1>1, <1>2, <1>3, <1>4, <1>5 DEF InUse, v
<1>6. CASE i \in slots
  <2>1. CASE Positions(e.peers, p) = {}
    <3>1. WithoutPeer(e, p) = e /\ RemovePeer(e.peers, p) = e.peers
      BY <2>1 DEF WithoutPeer, RemovePeer
    <3> QED
      BY <1>1, <1>2, <1>3, <1>4, <1>6, <3>1 DEF InUse, v
  <2>2. CASE Positions(e.peers, p) # {} /\ Len(e.peers) = 1
    <3>1. WithoutPeer(e, p) = FreeEntry
      BY <2>2 DEF WithoutPeer
    <3>2. RemovePeer(e.peers, p) \in Seq(PeerInfo) /\ Len(RemovePeer(e.peers, p)) = 0
      BY <1>4, <2>2, TakenOut
    <3>3. RemovePeer(e.peers, p) = <<>>
      BY <3>2, EmptySeq
    <3> QED
      BY <1>1, <1>2, <1>3, <1>6, <3>1, <3>3 DEF InUse, FreeEntry, v
  <2>3. CASE Positions(e.peers, p) # {} /\ Len(e.peers) # 1
    <3>1. WithoutPeer(e, p) = [e EXCEPT !.peers = RemovePeer(e.peers, p)]
      BY <2>3 DEF WithoutPeer
    <3>2. RemovePeer(e.peers, p) # <<>>
      BY <1>4, <2>3, NeverEmptied
    <3>3. /\ WithoutPeer(e, p).hash = e.hash
          /\ WithoutPeer(e, p).peers = RemovePeer(e.peers, p)
      BY <1>1, <3>1 DEF Entry
    <3> QED
      BY <1>1, <1>2, <1>3, <1>6, <3>2, <3>3 DEF InUse, v
  <2> QED
    BY <2>1, <2>2, <2>3
<1> QED
  BY <1>5, <1>6

Remaining(t, lists) ==
    Filtered(Queue(t), {k \in DOMAIN Queue(t) : lists[Queue(t)[k]] # <<>>})

(* No slot freed: the queue is what it was. *)
LEMMA RemainedQueued ==
    ASSUME NEW t, IsTable(t, Entry), IsTable(t, Peopled), Exact(t), NEW p \in Peers, NEW slots,
           NEW lists, RemovedFrom(t, slots, p, lists),
           \A i \in slots : InUse(t, i) => InUse(PeerRemoved(t, slots, p), i)
    PROVE  /\ Queue(PeerRemoved(t, slots, p)) = Remaining(t, lists)
           /\ \A g \in Hashes : PeersOf(PeerRemoved(t, slots, p), g) = lists[g]
<1> DEFINE v == PeerRemoved(t, slots, p)
           Q == Queue(t)
           S == Span(t)
<1>1. /\ v.head = t.head /\ v.tail = t.tail /\ v.size = t.size
      /\ IsTable(v, Entry) /\ Exact(v)
      /\ \A i \in Slots(t) : i \notin slots => v.entry[i] = t.entry[i]
  <2>1. v.head = t.head /\ v.tail = t.tail /\ v.size = t.size /\ IsTable(v, Entry) /\ Exact(v)
    BY RemovedExact
  <2>2. \A i \in Slots(t) : i \notin slots => v.entry[i] = t.entry[i]
    BY DEF PeerRemoved, IsTable
  <2> QED
    BY <2>1, <2>2
<1>2. Slots(v) = Slots(t) /\ Window(v) = Window(t) /\ Span(v) = Span(t)
      /\ \A d : Below(v, d) = Below(t, d)
  BY <1>1 DEF Slots, Window, Span, Below
<1>3. \A i \in Window(t) : /\ lists[t.entry[i].hash] # <<>>
                           /\ v.entry[i].hash = t.entry[i].hash
                           /\ v.entry[i].peers = lists[t.entry[i].hash]
  <2>1. \A i \in Window(t) : i \in Slots(t) /\ InUse(t, i)
    BY WindowSlots DEF Exact
  <2>2. \A i \in Window(t) : InUse(v, i)
    BY <1>1, <2>1 DEF InUse
  <2> HIDE DEF v
  <2> QED
    BY <2>2, RemovedSlots DEF v
<1>4. /\ S \in Nat /\ Q = [k \in 1..S |-> t.entry[Below(t, S + 1 - k)].hash]
      /\ Q \in Seq(Hashes) /\ Len(Q) = S
      /\ \A k \in 1..S : Below(t, S + 1 - k) \in Window(t)
  BY QueueOfWindow
<1> HIDE DEF v
<1>5. Queue(v) = [k \in 1..S |-> v.entry[Below(t, S + 1 - k)].hash]
  BY <1>1, <1>2, QueueOfWindow
<1> HIDE DEF S, Q
<1>6. Queue(v) = Q
  BY <1>3, <1>4, <1>5
<1>7. {k \in DOMAIN Q : lists[Q[k]] # <<>>} = 1..Len(Q)
  BY <1>3, <1>4
<1>8. Remaining(t, lists) = Q
  <2>1. Filtered(Q, 1..Len(Q)) = Q
    BY <1>4, FilteredAll
  <2> QED
    BY <1>7, <2>1 DEF Remaining, Q
<1>9. ASSUME NEW g \in Hashes
      PROVE  PeersOf(v, g) = lists[g]
  <2>1. CASE \E i \in Window(t) : t.entry[i].hash = g
    <3>1. PICK i \in Window(t) : t.entry[i].hash = g
      BY <2>1
    <3> QED
      BY <1>1, <1>2, <1>3, <3>1, PeersOfWindow
  <2>2. CASE \A i \in Window(t) : t.entry[i].hash # g
    <3>1. PeersOf(v, g) = <<>>
      BY <1>1, <1>2, <1>3, <2>2, PeersOfWindow
    <3> QED
      BY <2>2, <3>1 DEF RemovedFrom
  <2> QED
    BY <2>1, <2>2
<1> QED
  BY <1>6, <1>8, <1>9 DEF v

(* Slots freed: compaction forgets their hashes and keeps the order of the
   others. *)
LEMMA CompactedQueued ==
    ASSUME NEW t, IsTable(t, Entry), IsTable(t, Peopled), Exact(t), NEW p \in Peers, NEW slots,
           NEW lists, RemovedFrom(t, slots, p, lists),
           NEW r, r = reclaim_free_entries(compact_hash_table(PeerRemoved(t, slots, p))),
           r.head # r.tail
    PROVE  /\ Queue(r) = Remaining(t, lists)
           /\ \A g \in Hashes : PeersOf(r, g) = lists[g]
<1> DEFINE v == PeerRemoved(t, slots, p)
           c == compact_hash_table(v)
           S == Span(t)
           U == UsedWithin(v, S)
           n == CountTo(U, S)
           Q == Queue(t)
           K == {k \in DOMAIN Q : lists[Q[k]] # <<>>}
<1>1. /\ Sparse(v) /\ IsTable(v, Entry) /\ v.head # v.tail
      /\ v.head = t.head /\ v.tail = t.tail /\ v.size = t.size
  BY RemovedExact DEF Exact
<1>2. \A i \in Window(t) :
          /\ i \in Slots(t)
          /\ InUse(v, i) <=> lists[t.entry[i].hash] # <<>>
          /\ InUse(v, i) => /\ v.entry[i].hash = t.entry[i].hash
                            /\ v.entry[i].peers = lists[t.entry[i].hash]
  BY RemovedSlots
<1> HIDE DEF v
<1>3. Span(v) = S /\ \A d : Below(v, d) = Below(t, d)
  BY <1>1 DEF Span, Below
<1>4. /\ r.head = t.head /\ r.size = t.size /\ r.entry = c.entry /\ Span(r) = n
      /\ Exact(r) /\ IsTable(r, Entry)
  <2>1. IsTable(r, Entry)
    <3>1. FreeEntry \in Entry
      BY EmptySeq DEF FreeEntry, Entry
    <3> QED
      BY <1>1, <3>1, CompactedType, ReclaimedType DEF v
  <2>2. r = reclaim_free_entries(compact_hash_table(v))
    BY DEF v
  <2> QED
    BY <1>1, <1>3, <2>1, <2>2, CompactedExact
<1>5. PICK f \in [1..n -> U] :
         /\ n \in 0..S
         /\ \A k \in 1..n : CountTo(U, f[k]) = k
         /\ \A d \in U : CountTo(U, d) \in 1..n /\ f[CountTo(U, d)] = d
         /\ \A d \in 1..S :
               c.entry[Below(v, d)] = IF d <= n THEN v.entry[Below(v, f[d])] ELSE FreeEntry
  <2> DEFINE V == UsedWithin(v, Span(v))
             l == CountTo(V, Span(v))
  <2>1. /\ l \in 0..Span(v)
        /\ \E f \in [1..l -> V] :
              /\ \A k \in 1..l : CountTo(V, f[k]) = k
              /\ \A d \in V : CountTo(V, d) \in 1..l /\ f[CountTo(V, d)] = d
              /\ \A j, k \in 1..l : j < k => f[j] < f[k]
              /\ \A d \in 1..Span(v) :
                    c.entry[Below(v, d)] = IF d <= l THEN v.entry[Below(v, f[d])] ELSE FreeEntry
    BY <1>1, CompactedEntries
  <2>2. V = U /\ l = n
    BY <1>3
  <2> HIDE DEF V, l, U, n, S, c
  <2> QED
    BY <1>3, <2>1, <2>2
<1>6. /\ S \in Nat /\ Q = [k \in 1..S |-> t.entry[Below(t, S + 1 - k)].hash]
      /\ Q \in Seq(Hashes) /\ Len(Q) = S
      /\ \A k \in 1..S : S + 1 - k \in 1..S /\ Below(t, S + 1 - k) \in Window(t)
      /\ Window(t) = {Below(t, d) : d \in 1..S}
  BY QueueOfWindow DEF Window
<1>7. U \in SUBSET (1..S) /\ \A d \in 1..S : d \in U <=> InUse(v, Below(t, d))
  BY <1>3 DEF UsedWithin
<1>8. /\ CountTo(U, 0) = 0
      /\ \A d \in 0..S : CountTo(U, d) \in Nat
      /\ \A d \in 1..S : CountTo(U, d) = CountTo(U, d - 1) + (IF d \in U THEN 1 ELSE 0)
  BY <1>6, <1>7, Counting
<1>9. Below(r, 1) = Below(r, 1) /\ \A d : Below(r, d) = Below(t, d)
  BY <1>4 DEF Below
<1> HIDE DEF c, S, U, n, Q
<1>10. ASSUME NEW e \in 1..n
       PROVE  /\ f[e] \in U /\ f[e] \in 1..S /\ Below(t, f[e]) \in Window(t)
              /\ r.entry[Below(r, e)] = v.entry[Below(t, f[e])]
              /\ v.entry[Below(t, f[e])].hash = t.entry[Below(t, f[e])].hash
              /\ v.entry[Below(t, f[e])].peers = lists[t.entry[Below(t, f[e])].hash]
  <2>1. f[e] \in U /\ f[e] \in 1..S /\ e \in 1..S /\ e <= n
    BY <1>5, <1>6, <1>7
  <2>2. Below(t, f[e]) \in Window(t) /\ InUse(v, Below(t, f[e]))
    BY <1>6, <1>7, <2>1
  <2> QED
    BY <1>2, <1>3, <1>4, <1>5, <1>9, <2>1, <2>2
<1>11. /\ Queue(r) = [m \in 1..n |-> r.entry[Below(r, n + 1 - m)].hash]
       /\ Queue(r) \in Seq(Hashes) /\ Len(Queue(r)) = n
       /\ Window(r) = {Below(r, d) : d \in 1..n}
  BY <1>4, QueueOfWindow DEF Window
<1>12. \A k \in 1..S : k \in K <=> S + 1 - k \in U
  <2>1. ASSUME NEW k \in 1..S
        PROVE  k \in K <=> S + 1 - k \in U
    <3>1. S + 1 - k \in 1..S /\ Below(t, S + 1 - k) \in Window(t)
          /\ Q[k] = t.entry[Below(t, S + 1 - k)].hash
      BY <1>6
    <3> QED
      BY <1>2, <1>6, <1>7, <3>1
  <2> QED
    BY <2>1
<1>13. K \in SUBSET (1..S)
  BY <1>6
<1>14. \A k \in 0..S : CountTo(K, k) = CountTo(U, S) - CountTo(U, S - k)
  <2> HIDE DEF K
  <2> QED
    BY <1>6, <1>7, <1>12, <1>13, CountReversed
<1>15. /\ Filtered(Q, K) \in Seq(Hashes) /\ Len(Filtered(Q, K)) = CountTo(K, S)
       /\ \A k \in K : Filtered(Q, K)[CountTo(K, k)] = Q[k]
  <2> HIDE DEF K
  <2>1. K \in SUBSET (1..Len(Q)) /\ Q \in Seq(Hashes)
    BY <1>6, <1>13
  <2>2. /\ Len(Filtered(Q, K)) = CountTo(K, Len(Q))
        /\ \A k \in K : Filtered(Q, K)[CountTo(K, k)] = Q[k]
    BY <2>1, FilteredElements
  <2>3. Filtered(Q, K) \in Seq(Hashes)
    BY <2>1, FilteredType
  <2> QED
    BY <1>6, <2>2, <2>3
<1> HIDE DEF K
<1>16. CountTo(K, S) = n
  <2>1. S \in 0..S /\ S - S = 0
    BY <1>6
  <2>2. CountTo(K, S) = CountTo(U, S) - CountTo(U, 0)
    BY <1>14, <2>1
  <2> QED
    BY <1>8, <2>1, <2>2 DEF n
<1>17. ASSUME NEW m \in 1..n
       PROVE  Queue(r)[m] = Filtered(Q, K)[m]
  <2> DEFINE e == n + 1 - m
             d == f[e]
             k == S + 1 - d
  <2>1. e \in 1..n /\ n \in Nat
    BY <1>5, <1>6, <1>17
  <2>2. d \in U /\ d \in 1..S /\ CountTo(U, d) = e
    BY <1>5, <1>10, <2>1
  <2>3. k \in 1..S /\ k \in 0..S /\ S - k = d - 1 /\ S + 1 - k = d /\ d - 1 \in 0..S
    BY <1>6, <2>2
  <2>4. k \in K
    BY <1>12, <2>2, <2>3
  <2>5. CountTo(K, k) = m
    <3>1. CountTo(K, k) = n - CountTo(U, d - 1)
      BY <1>14, <2>3 DEF n
    <3>2. CountTo(U, d) = CountTo(U, d - 1) + 1 /\ CountTo(U, d - 1) \in Nat
      BY <1>8, <2>2, <2>3
    <3> HIDE DEF d, k
    <3>3. CountTo(U, d - 1) = n - m
      BY <2>1, <2>2, <3>2
    <3> QED
      BY <2>1, <3>1, <3>3
  <2>6. Filtered(Q, K)[m] = t.entry[Below(t, d)].hash
    <3>1. Filtered(Q, K)[m] = Q[k]
      BY <1>15, <2>4, <2>5
    <3>2. Q[k] = t.entry[Below(t, S + 1 - k)].hash
      BY <1>6, <2>3
    <3> QED
      BY <2>3, <3>1, <3>2
  <2>7. Queue(r)[m] = r.entry[Below(r, e)].hash
    BY <1>11, <1>17
  <2> HIDE DEF e
  <2> QED
    BY <1>10, <2>1, <2>6, <2>7
<1>18. Queue(r) = Remaining(t, lists)
  <2>1. Queue(r) = Filtered(Q, K)
    BY <1>11, <1>15, <1>16, <1>17, SeqEqual
  <2> QED
    BY <2>1 DEF Remaining, Q, K
<1>19. ASSUME NEW g \in Hashes
       PROVE  PeersOf(r, g) = lists[g]
  <2>1. CASE \E d \in U : t.entry[Below(t, d)].hash = g
    <3>1. PICK d \in U : t.entry[Below(t, d)].hash = g
      BY <2>1
    <3> DEFINE e == CountTo(U, d)
    <3>2. e \in 1..n /\ f[e] = d
      BY <1>5
    <3> HIDE DEF e
    <3>3. /\ Below(r, e) \in Window(r) /\ r.entry[Below(r, e)].hash = g
          /\ r.entry[Below(r, e)].peers = lists[g]
      BY <1>10, <1>11, <3>1, <3>2
    <3> QED
      BY <1>4, <3>3, PeersOfWindow
  <2>2. CASE \A d \in U : t.entry[Below(t, d)].hash # g
    <3>1. \A i \in Window(r) : r.entry[i].hash # g
      BY <1>10, <1>11, <2>2
    <3>2. PeersOf(r, g) = <<>>
      BY <1>4, <3>1, PeersOfWindow
    <3>3. lists[g] = <<>>
      <4>1. CASE \E i \in Window(t) : t.entry[i].hash = g
        <5>1. PICK d \in 1..S : t.entry[Below(t, d)].hash = g
          BY <1>6, <4>1
        <5>2. Below(t, d) \in Window(t) /\ ~ InUse(v, Below(t, d))
          BY <1>6, <1>7, <2>2, <5>1
        <5> QED
          BY <1>2, <5>1, <5>2
      <4>2. CASE \A i \in Window(t) : t.entry[i].hash # g
        BY <4>2 DEF RemovedFrom
      <4> QED
        BY <4>1, <4>2
    <3> QED
      BY <3>2, <3>3
  <2> QED
    BY <2>1, <2>2
<1> QED
  BY <1>18, <1>19

LEMMA ListsBounded ==
    ASSUME NEW t, IsTable(t, Entry), Exact(t), NEW h,
           \A i \in Slots(t) : Len(t.entry[i].peers) <= MaxPeers
    PROVE  Len(PeersOf(t, h)) <= MaxPeers
<1>1. Window(t) \subseteq Slots(t)
  BY WindowSlots DEF Exact
<1>2. CASE \E i \in Window(t) : t.entry[i].hash = h
  BY <1>1, <1>2, PeersOfWindow
<1>3. CASE \A i \in Window(t) : t.entry[i].hash # h
  <2>1. Len(<<>>) = 0 /\ MaxPeers \in Nat
    BY ServerAssumption
  <2> QED
    BY <1>3, <2>1, PeersOfWindow
<1> QED
  BY <1>2, <1>3

LEMMA Wrapped ==
    ASSUME NEW z \in Nat \ {0}, NEW x \in 0..(z - 1)
    PROVE  x % z = x /\ (z + x) % z = x
<1>1. x % z = x
  OBVIOUS
<1>2. (z + x) % z = x
  OBVIOUS
<1> QED
  BY <1>1, <1>2

(* The predictions are the next entries of the window, towards the head. *)
LEMMA AnsweredWindow ==
    ASSUME NEW t, IsTable(t, Entry), Exact(t), NEW i \in Window(t)
    PROVE  LET D == HeadDistance(t, i) IN
           /\ D \in 1..Span(t) /\ Below(t, D) = i
           /\ \A k \in 0..(D - 1) : D - k \in 1..Span(t) /\ Above(t, i, k) = Below(t, D - k)
           /\ Answered(t, i) = 0..(IF PREDICTIONS < D THEN PREDICTIONS ELSE D - 1)
<1> DEFINE D == HeadDistance(t, i)
           z == t.size
           S == Span(t)
<1>1. /\ z \in Nat \ {0} /\ t.head \in 0..(z - 1) /\ t.tail \in 0..(z - 1) /\ t.head # t.tail
      /\ S \in 0..(z - 2)
      /\ i \in Slots(t) /\ D \in 1..S /\ Below(t, D) = i
  BY WindowWalked, Geometry DEF IsTable, Exact
<1>2. \A d \in 1..S : Below(t, d) \in Window(t) /\ InUse(t, Below(t, d))
  <2>1. \A d \in 1..S : Below(t, d) \in Window(t)
    BY DEF Window
  <2>2. Window(t) \subseteq Slots(t)
    BY WindowSlots DEF Exact
  <2> QED
    BY <2>1, <2>2 DEF Exact
<1> HIDE DEF D, S
<1>3. ASSUME NEW k \in 0..(D - 1)
      PROVE  D - k \in 1..S /\ Above(t, i, k) = Below(t, D - k)
  <2>1. D - k \in 1..S /\ D \in Nat /\ k \in Nat /\ S <= z - 2
    BY <1>1, <1>3
  <2>2. CASE D <= t.head
    <3> DEFINE x == t.head - (D - k)
    <3>1. i + k = x /\ x \in 0..(z - 1) /\ Below(t, D - k) = x
      BY <1>1, <2>1, <2>2 DEF Below
    <3> QED
      BY <1>1, <2>1, <3>1, Wrapped DEF Above
  <2>3. CASE ~ D <= t.head /\ D - k <= t.head
    <3> DEFINE x == t.head - (D - k)
    <3>1. i + k = z + x /\ x \in 0..(z - 1) /\ Below(t, D - k) = x
      BY <1>1, <2>1, <2>3 DEF Below
    <3> HIDE DEF x
    <3> QED
      BY <1>1, <2>1, <3>1, Wrapped DEF Above
  <2>4. CASE ~ D <= t.head /\ ~ D - k <= t.head
    <3> DEFINE x == t.head + z - (D - k)
    <3>1. i + k = x /\ x \in 0..(z - 1) /\ Below(t, D - k) = x
      BY <1>1, <2>1, <2>4 DEF Below
    <3> HIDE DEF x
    <3> QED
      BY <1>1, <2>1, <3>1, Wrapped DEF Above
  <2> QED
    BY <1>1, <2>2, <2>3, <2>4
<1>4. NewerThan(t, i) = 1..(D - 1)
  <2>1. ASSUME NEW d \in 1..(D - 1)
        PROVE  InUse(t, Above(t, i, d))
    <3>1. d \in 0..(D - 1)
      BY <1>1
    <3> QED
      BY <1>2, <1>3, <3>1
  <2> QED
    BY <2>1 DEF NewerThan, D
<1>5. ASSUME NEW d \in NewerThan(t, i)
      PROVE  Cardinality({e \in NewerThan(t, i) : e <= d}) = d
  <2>1. d \in 1..(D - 1) /\ {e \in NewerThan(t, i) : e <= d} = 1..d
    BY <1>1, <1>4
  <2>2. Cardinality(1..d) = d
    BY <2>1, FS_Interval
  <2> QED
    BY <2>1, <2>2
<1>6. Answered(t, i) = {0} \cup {d \in 1..(D - 1) : d <= PREDICTIONS}
  BY <1>4, <1>5 DEF Answered
<1>7. Answered(t, i) = 0..(IF PREDICTIONS < D THEN PREDICTIONS ELSE D - 1)
  BY <1>1, <1>6, TableAssumption
<1> QED
  BY <1>1, <1>3, <1>7 DEF D, S

LEMMA LookupKnownRefined ==
    ASSUME IsTable(table, Entry), Exact(table), IsTable(table', Entry), Exact(table'),
           \A j \in Slots(table') : Len(table'.entry[j].peers) <= MaxPeers,
           NEW p \in Peers, NEW h \in Hashes, NEW i \in getpeers(table, h), LookupKnown(p, h, i)
    PROVE  List!Lookup(p, h)
<1> DEFINE t == table
           D == HeadDistance(t, i)
           S == Span(t)
           at == S + 1 - D
           last == IF at + PREDICTIONS < Len(Queue(t)) THEN at + PREDICTIONS ELSE Len(Queue(t))
           A == Answered(t, i)
           slot(k) == Above(t, i, k)
           lists == [k \in A |-> t.entry[slot(k)].peers]
           old == [g \in Hashes |-> PeersOf(t, g)]
           entry(ls) == [j \in Slots(t) |->
               IF j = i
               THEN [hash |-> t.entry[j].hash, peers |-> AfterLookup(ls[0], p)]
               ELSE IF \E k \in A : slot(k) = j
               THEN [hash |-> t.entry[j].hash,
                     peers |-> ls[CHOOSE k \in A : slot(k) = j]]
               ELSE t.entry[j]]
<1>1. i \in Window(t) /\ t.entry[i].hash = h /\ i \in Slots(t) /\ t.head # t.tail
  BY QueuedIsFound, WindowSlots DEF Exact
<1>2. /\ D \in 1..S /\ Below(t, D) = i
      /\ \A k \in 0..(D - 1) : D - k \in 1..S /\ slot(k) = Below(t, D - k)
      /\ A = 0..(IF PREDICTIONS < D THEN PREDICTIONS ELSE D - 1)
  BY <1>1, AnsweredWindow
<1>3. /\ S \in Nat /\ Queue(t) = [k \in 1..S |-> t.entry[Below(t, S + 1 - k)].hash]
      /\ Len(Queue(t)) = S /\ DOMAIN Queue(t) = 1..S
      /\ \A j \in Window(t) : t.entry[j].hash \in Hashes
      /\ Window(t) = {Below(t, d) : d \in 1..S}
      /\ Window(t) \subseteq Slots(t)
  <2>1. /\ S \in Nat /\ Queue(t) = [k \in 1..S |-> t.entry[Below(t, S + 1 - k)].hash]
        /\ Len(Queue(t)) = S
        /\ \A j \in Window(t) : t.entry[j].hash \in Hashes
    BY QueueOfWindow
  <2>2. DOMAIN Queue(t) = 1..S
    BY <2>1
  <2>3. Window(t) \subseteq Slots(t)
    BY <1>1, WindowSlots
  <2>4. Window(t) = {Below(t, d) : d \in 1..S}
    BY DEF Window
  <2> HIDE DEF S
  <2> QED
    BY <2>1, <2>2, <2>3, <2>4
<1>4. PICK ls \in Reorderings(lists, Coop[p], stamps) :
          /\ table' = [table EXCEPT !.entry = entry(ls)]
          /\ stamps' = StampsAfter(stamps, ls, DOMAIN ls)
          /\ reply' = [to |-> p, hash |-> h, peers |-> Offered(ls[0], p),
                       predicted |-> {[hash |-> t.entry[slot(k)].hash,
                                       peers |-> Offered(ls[k], p)] : k \in A \ {0}}]
  BY DEF LookupKnown
<1>5. DOMAIN lists = A /\ DOMAIN ls = A
  BY <1>4 DEF Reorderings
<1>6. table'.head = t.head /\ table'.tail = t.tail /\ table'.size = t.size
      /\ table'.entry = entry(ls)
  BY <1>4 DEF IsTable
<1> HIDE DEF D, S, A
<1>7. at \in 1..S /\ S + 1 - at = D /\ 0..(last - at) = A /\ A \subseteq 0..(D - 1) /\ 0 \in A
      /\ \A k \in 0..(D - 1) : at + k \in 1..S /\ S + 1 - (at + k) = D - k
  <2>1. D \in Nat /\ D >= 1 /\ D <= S /\ PREDICTIONS \in Nat
    BY <1>2, <1>3, TableAssumption
  <2>2. last - at = IF PREDICTIONS < D THEN PREDICTIONS ELSE D - 1
    <3>1. at \in Int /\ S - at = D - 1 /\ last = IF at + PREDICTIONS < S THEN at + PREDICTIONS ELSE S
      BY <1>3, <2>1
    <3> HIDE DEF at, last
    <3>2. CASE at + PREDICTIONS < S
      BY <1>3, <2>1, <3>1, <3>2
    <3>3. CASE ~ at + PREDICTIONS < S
      BY <1>3, <2>1, <3>1, <3>3
    <3> QED
      BY <3>2, <3>3
  <2>3. at \in 1..S /\ S + 1 - at = D
    BY <1>3, <2>1
  <2>4. A \subseteq 0..(D - 1) /\ 0 \in A
    BY <1>2, <2>1
  <2>5. \A k \in 0..(D - 1) : at + k \in 1..S /\ S + 1 - (at + k) = D - k
    BY <1>3, <2>1
  <2> HIDE DEF at, last
  <2> QED
    BY <1>2, <2>2, <2>3, <2>4, <2>5
<1> HIDE DEF last, at
<1>8. \A k \in A : /\ slot(k) \in Window(t) /\ slot(k) \in Slots(t)
                   /\ Queue(t)[at + k] = t.entry[slot(k)].hash
                   /\ Queue(t)[at + k] \in Hashes
                   /\ old[Queue(t)[at + k]] = lists[k]
  <2>1. ASSUME NEW k \in A
        PROVE  /\ slot(k) \in Window(t)
               /\ Queue(t)[at + k] = t.entry[slot(k)].hash
    <3>1. k \in 0..(D - 1) /\ at + k \in 1..S /\ S + 1 - (at + k) = D - k
          /\ D - k \in 1..S /\ slot(k) = Below(t, D - k)
      BY <1>2, <1>7
    <3>2. Queue(t)[at + k] = t.entry[Below(t, S + 1 - (at + k))].hash
      BY <1>3, <3>1
    <3> QED
      BY <1>3, <3>1, <3>2
  <2>2. ASSUME NEW k \in A
        PROVE  PeersOf(t, t.entry[slot(k)].hash) = t.entry[slot(k)].peers
    BY <2>1, PeersOfWindow
  <2> QED
    BY <1>3, <2>1, <2>2
<1>9. Queue(t)[at] = h /\ at \in DOMAIN Queue(t)
  BY <1>1, <1>2, <1>3, <1>7
<1>10. lists = [k \in 0..(last - at) |-> old[Queue(t)[at + k]]]
  BY <1>5, <1>7, <1>8
<1> HIDE DEF lists, slot
<1>11. Slots(table') = Slots(t) /\ Window(table') = Window(t) /\ Span(table') = S
       /\ \A d : Below(table', d) = Below(t, d)
  BY <1>6 DEF Slots, Window, Span, Below, S
<1>12. \A j \in Slots(t) : table'.entry[j].hash = t.entry[j].hash
  BY <1>6
<1>13. Queue(table') = Queue(t)
  <2>1. Queue(table') = [k \in 1..S |-> table'.entry[Below(t, S + 1 - k)].hash]
    BY <1>11, QueueOfWindow
  <2>2. \A k \in 1..S : S + 1 - k \in 1..S
    BY <1>3
  <2>3. \A k \in 1..S : Below(t, S + 1 - k) \in Slots(t)
    BY <1>3, <2>2
  <2> QED
    BY <1>3, <1>12, <2>1, <2>3
<1> HIDE DEF entry
<1>14. ASSUME NEW g \in Hashes
       PROVE  PeersOf(table', g) =
                IF g = h THEN AfterLookup(ls[0], p)
                ELSE IF \E k \in A : Queue(t)[at + k] = g
                THEN ls[CHOOSE k \in A : Queue(t)[at + k] = g]
                ELSE PeersOf(t, g)
  <2>1. CASE \E j \in Window(t) : t.entry[j].hash = g
    <3>1. PICK j \in Window(t) : t.entry[j].hash = g
      BY <2>1
    <3>2. j \in Slots(t) /\ PeersOf(table', g) = table'.entry[j].peers
          /\ PeersOf(t, g) = t.entry[j].peers
      <4>1. j \in Slots(t) /\ table'.entry[j].hash = g
        BY <1>3, <1>12, <3>1
      <4> QED
        BY <1>11, <3>1, <4>1, PeersOfWindow
    <3>3. g = h <=> j = i
      BY <1>1, <3>1 DEF Exact
    <3>4. \A k \in A : Queue(t)[at + k] = g <=> slot(k) = j
      BY <1>8, <3>1 DEF Exact
    <3>5. (CHOOSE k \in A : Queue(t)[at + k] = g) = (CHOOSE k \in A : slot(k) = j)
      BY <3>4
    <3>6. table'.entry[j].peers = IF j = i THEN AfterLookup(ls[0], p)
                                  ELSE IF \E k \in A : slot(k) = j
                                  THEN ls[CHOOSE k \in A : slot(k) = j]
                                  ELSE t.entry[j].peers
      BY <1>6, <3>2 DEF entry
    <3> QED
      BY <3>2, <3>3, <3>4, <3>5, <3>6
  <2>2. CASE \A j \in Window(t) : t.entry[j].hash # g
    <3>1. \A j \in Window(table') : table'.entry[j].hash # g
      BY <1>3, <1>11, <1>12, <2>2
    <3>2. PeersOf(t, g) = <<>> /\ PeersOf(table', g) = <<>>
      BY <2>2, <3>1, PeersOfWindow
    <3>3. g # h /\ \A k \in A : Queue(t)[at + k] # g
      BY <1>1, <1>8, <2>2
    <3> QED
      BY <3>2, <3>3
  <2> QED
    BY <2>1, <2>2
<1>15. \A g \in Hashes : Len(PeersOf(table', g)) <= MaxPeers
  BY ListsBounded
<1>16. h \in List!ToSet(Queue(t))
  BY QueuedIsFound
<1>17. {[hash |-> Queue(t)[at + k], peers |-> Offered(ls[k], p)] : k \in A \ {0}} =
       {[hash |-> t.entry[slot(k)].hash, peers |-> Offered(ls[k], p)] : k \in A \ {0}}
  BY <1>8
<1>18. List!LookupKnown(p, h, at)
  <2> DEFINE q == Queue(table)
             alists == [k \in 0..(last - at) |-> old[q[at + k]]]
  <2>1. ls \in List!Reorderings(alists, Coop[p], stamps)
    BY <1>4, <1>10, SameOperators
  <2>2. [g \in Hashes |-> PeersOf(table', g)] =
          [g \in Hashes |->
               IF g = h THEN List!AfterLookup(ls[0], p)
               ELSE IF \E k \in DOMAIN ls : q[at + k] = g
               THEN ls[CHOOSE k \in DOMAIN ls : q[at + k] = g]
               ELSE old[g]]
    BY <1>5, <1>14, SameOperators
  <2>3. stamps' = List!StampsAfter(stamps, ls, DOMAIN ls)
    BY <1>4, SameOperators
  <2>4. reply' = [to |-> p, hash |-> h, peers |-> List!Offered(ls[0], p),
                  predicted |-> {[hash |-> q[at + k],
                                  peers |-> List!Offered(ls[k], p)] : k \in DOMAIN ls \ {0}}]
    BY <1>4, <1>5, <1>17, SameOperators
  <2> QED
    BY <1>13, <2>1, <2>2, <2>3, <2>4 DEF List!LookupKnown, last
<1> QED
  BY <1>9, <1>15, <1>16, <1>18 DEF List!Lookup, List!Known, List!WithinBounds

LEMMA NewRefined ==
    ASSUME IsTable(table, Entry), Exact(table), IsTable(table', Entry), Exact(table'),
           \A j \in Slots(table') : Len(table'.entry[j].peers) <= MaxPeers,
           NEW p \in Peers, NEW h \in Hashes, getpeers(table, h) = {}
    PROVE  /\ LookupNew(p, h) => List!Lookup(p, h)
           /\ Register(p, h) => List!Register(p, h)
<1>1. <<>> \in Seq(PeerInfo) /\ Positions(<<>>, p) = {}
  BY EmptySeq DEF Positions
<1>2. \A g \in Hashes : Len(PeersOf(table', g)) <= MaxPeers
  BY ListsBounded
<1>3. h \notin List!ToSet(Queue(table))
  BY QueuedIsFound
<1>4. ASSUME NEW state \in {DOWNLOADING, READY},
             table' = newentry(table, h, addpeer(<<>>, p, state))
      PROVE  /\ Queue(table') = Append(Queue(table), h)
             /\ [g \in Hashes |-> PeersOf(table', g)] =
                  [[g \in Hashes |-> PeersOf(table, g)] EXCEPT ![h] = addpeer(<<>>, p, state)]
             /\ [g \in Hashes |-> PeersOf(table, g)][h] = <<>>
  <2>1. addpeer(<<>>, p, state) \in Seq(PeerInfo)
    BY <1>1, MarkedPeers
  <2>2. table'.head # table'.tail
    BY DEF Exact
  <2>3. /\ Queue(table') = Append(Queue(table), h)
        /\ \A g \in Hashes : PeersOf(table', g) =
              IF g = h THEN addpeer(<<>>, p, state) ELSE PeersOf(table, g)
        /\ PeersOf(table, h) = <<>>
    BY <1>4, <2>1, <2>2, NewQueued
  <2> QED
    BY <2>3
<1>5. ASSUME LookupNew(p, h)
      PROVE  List!Lookup(p, h)
  <2>1. /\ table' = newentry(table, h, addpeer(<<>>, p, DOWNLOADING))
        /\ UNCHANGED stamps
        /\ reply' = [to |-> p, hash |-> h, peers |-> <<>>, predicted |-> {}]
    BY <1>5 DEF LookupNew
  <2>2. List!addpeer(<<>>, p, List!DOWNLOADING) = addpeer(<<>>, p, DOWNLOADING)
    BY SameOperators DEF List!DOWNLOADING, DOWNLOADING
  <2>3. List!LookupNew(p, h)
    BY <1>4, <2>1, <2>2 DEF List!LookupNew
  <2> QED
    BY <1>2, <1>3, <2>3 DEF List!Lookup, List!Known, List!WithinBounds
<1>6. ASSUME Register(p, h)
      PROVE  List!Register(p, h)
  <2>1. /\ table' = newentry(table, h, addpeer(<<>>, p, READY))
        /\ UNCHANGED stamps
        /\ reply' = NoReply
    BY <1>6 DEF Register
  <2>2. List!MarkReady(<<>>, p) = addpeer(<<>>, p, READY)
    BY <1>1, SameOperators DEF MarkReady
  <2> QED
    BY <1>2, <1>3, <1>4, <2>1, <2>2
       DEF List!Register, List!Known, List!WithinBounds, List!NoReply, NoReply
<1> QED
  BY <1>5, <1>6

LEMMA RegisterKnownRefined ==
    ASSUME IsTable(table, Entry), Exact(table), IsTable(table', Entry), Exact(table'),
           \A j \in Slots(table') : Len(table'.entry[j].peers) <= MaxPeers,
           NEW p \in Peers, NEW h \in Hashes, getpeers(table, h) # {}, Register(p, h)
    PROVE  List!Register(p, h)
<1> DEFINE e(i) == IF i \in getpeers(table, h)
                   THEN [hash |-> table.entry[i].hash,
                         peers |-> MarkReady(table.entry[i].peers, p)]
                   ELSE table.entry[i]
           S == Span(table)
<1>1. table' = [table EXCEPT !.entry = [i \in Slots(table) |-> e(i)]]
      /\ UNCHANGED stamps /\ reply' = NoReply
  BY DEF Register
<1>2. table'.head = table.head /\ table'.tail = table.tail /\ table'.size = table.size
      /\ \A i \in Slots(table) : table'.entry[i] = e(i)
  BY <1>1 DEF IsTable
<1>3. Window(table') = Window(table) /\ Span(table') = S
      /\ \A d : Below(table', d) = Below(table, d)
  BY <1>2 DEF Window, Span, Below
<1>4. Window(table) \subseteq Slots(table)
  BY WindowSlots DEF Exact
<1>5. getpeers(table, h) = {i \in Window(table) : table.entry[i].hash = h}
      /\ h \in List!ToSet(Queue(table))
  BY QueuedIsFound
<1>6. \A i \in Window(table) :
         /\ table'.entry[i].hash = table.entry[i].hash
         /\ table'.entry[i].peers = IF table.entry[i].hash = h
                                    THEN MarkReady(table.entry[i].peers, p)
                                    ELSE table.entry[i].peers
  <2> TAKE i \in Window(table)
  <2>1. table'.entry[i] = e(i)
    BY <1>2, <1>4
  <2>2. i \in getpeers(table, h) <=> table.entry[i].hash = h
    BY <1>5
  <2>3. CASE table.entry[i].hash = h
    <3>1. table'.entry[i] = [hash |-> table.entry[i].hash,
                             peers |-> MarkReady(table.entry[i].peers, p)]
      BY <2>1, <2>2, <2>3
    <3> QED
      BY <2>3, <3>1
  <2>4. CASE table.entry[i].hash # h
    <3>1. table'.entry[i] = table.entry[i]
      BY <2>1, <2>2, <2>4
    <3> QED
      BY <2>4, <3>1
  <2> QED
    BY <2>3, <2>4
<1>7. /\ Queue(table) = [k \in 1..S |-> table.entry[Below(table, S + 1 - k)].hash]
      /\ \A k \in 1..S : Below(table, S + 1 - k) \in Window(table)
  BY QueueOfWindow
<1> HIDE DEF S
<1>8. Queue(table') = Queue(table)
  <2>1. Queue(table') = [k \in 1..Span(table') |->
                           table'.entry[Below(table', Span(table') + 1 - k)].hash]
    BY QueueOfWindow
  <2>2. Queue(table') = [k \in 1..S |-> table'.entry[Below(table, S + 1 - k)].hash]
    BY <1>3, <2>1
  <2> QED
    BY <1>6, <1>7, <2>2
<1>9. ASSUME NEW g \in Hashes
      PROVE  PeersOf(table', g) = IF g = h THEN MarkReady(PeersOf(table, g), p)
                                  ELSE PeersOf(table, g)
  <2>1. CASE \E i \in Window(table) : table.entry[i].hash = g
    <3>1. PICK i \in Window(table) : table.entry[i].hash = g
      BY <2>1
    <3>2. PeersOf(table, g) = table.entry[i].peers /\ PeersOf(table', g) = table'.entry[i].peers
      BY <1>3, <1>6, <3>1, PeersOfWindow
    <3> QED
      BY <1>6, <3>1, <3>2
  <2>2. CASE \A i \in Window(table) : table.entry[i].hash # g
    <3>1. PeersOf(table, g) = <<>> /\ PeersOf(table', g) = <<>>
      BY <1>3, <1>6, <2>2, PeersOfWindow
    <3>2. g # h
      BY <1>5, <2>2
    <3> QED
      BY <3>1, <3>2
  <2> QED
    BY <2>1, <2>2
<1>10. [g \in Hashes |-> PeersOf(table', g)] =
         [[g \in Hashes |-> PeersOf(table, g)] EXCEPT
             ![h] = List!MarkReady([g \in Hashes |-> PeersOf(table, g)][h], p)]
  BY <1>9, SameOperators
<1>11. \A g \in Hashes : Len(PeersOf(table', g)) <= MaxPeers
  BY ListsBounded
<1> QED
  BY <1>1, <1>5, <1>8, <1>10, <1>11
     DEF List!Register, List!Known, List!WithinBounds, List!NoReply, NoReply

LEMMA RemovalRefined ==
    ASSUME IsTable(table, Entry), IsTable(table, Peopled), Exact(table), Exact(table'),
           NEW p \in Peers
    PROVE  /\ \A h \in Hashes : Unregister(p, h) => List!Unregister(p, h)
           /\ PeerDone(p) => List!PeerDone(p)
<1> DEFINE old == [g \in Hashes |-> PeersOf(table, g)]
           new == [g \in Hashes |-> PeersOf(table', g)]
<1>1. \A i \in Window(table) : table.entry[i].hash \in Hashes
                               /\ old[table.entry[i].hash] = table.entry[i].peers
  BY QueueOfWindow, PeersOfWindow
<1>2. \A g \in Hashes : (\A i \in Window(table) : table.entry[i].hash # g) => old[g] = <<>>
  BY PeersOfWindow
<1>3. Positions(<<>>, p) = {} /\ RemovePeer(<<>>, p) = <<>>
  BY DEF Positions, RemovePeer
<1>4. ASSUME NEW slots, NEW lists, lists = [g \in Hashes |-> lists[g]],
             RemovedFrom(table, slots, p, lists),
             \/ /\ table' = PeerRemoved(table, slots, p)
                /\ \A i \in slots : InUse(table, i) => InUse(PeerRemoved(table, slots, p), i)
             \/ table' = reclaim_free_entries(compact_hash_table(PeerRemoved(table, slots, p)))
      PROVE  new = lists /\ Queue(table') = List!Forget(Queue(table), lists)
  <2>1. table'.head # table'.tail
    BY DEF Exact
  <2>2. Queue(table') = Remaining(table, lists)
        /\ \A g \in Hashes : PeersOf(table', g) = lists[g]
    BY <1>4, <2>1, RemainedQueued, CompactedQueued
  <2>3. new = lists
    BY <1>4, <2>2
  <2> QED
    BY <2>2, <2>3, SameOperators DEF Remaining, List!Forget
<1>5. ASSUME NEW h \in Hashes, Unregister(p, h)
      PROVE  List!Unregister(p, h)
  <2> DEFINE slots == getpeers(table, h)
             t == PeerRemoved(table, slots, p)
             emptied == \E i \in slots : InUse(table, i) /\ ~ InUse(t, i)
             lists == [old EXCEPT ![h] = RemovePeer(old[h], p)]
  <2>1. /\ slots # {} /\ UNCHANGED stamps /\ reply' = NoReply
        /\ table' = IF emptied THEN reclaim_free_entries(compact_hash_table(t)) ELSE t
    BY <1>5 DEF Unregister
  <2>2. /\ slots = {i \in Window(table) : table.entry[i].hash = h}
        /\ h \in List!ToSet(Queue(table))
    BY <2>1, QueuedIsFound
  <2> HIDE DEF slots, old
  <2>3. lists = [g \in Hashes |-> IF g = h THEN RemovePeer(old[h], p) ELSE old[g]]
    BY DEF old
  <2>4. RemovedFrom(table, slots, p, lists)
    BY <1>1, <1>2, <1>3, <2>2, <2>3 DEF RemovedFrom
  <2> HIDE DEF lists
  <2>5. \/ /\ table' = t
           /\ \A i \in slots : InUse(table, i) => InUse(t, i)
        \/ table' = reclaim_free_entries(compact_hash_table(t))
    BY <2>1
  <2>6. new = lists /\ Queue(table') = List!Forget(Queue(table), lists)
    BY <1>4, <2>3, <2>4, <2>5
  <2>7. lists = [old EXCEPT ![h] = List!RemovePeer(old[h], p)]
    BY SameOperators DEF lists
  <2> QED
    BY <2>1, <2>2, <2>6, <2>7 DEF List!Unregister, List!Known, List!NoReply, NoReply, old
<1>6. ASSUME PeerDone(p)
      PROVE  List!PeerDone(p)
  <2> DEFINE slots == Walked(table)
             lists == [g \in Hashes |-> RemovePeer(old[g], p)]
  <2>1. /\ stamps' = [stamps EXCEPT ![p] = 0] /\ reply' = NoReply
        /\ table' = reclaim_free_entries(compact_hash_table(PeerRemoved(table, slots, p)))
    BY <1>6 DEF PeerDone
  <2>2. Window(table) = slots
    BY WindowWalked DEF Exact
  <2> HIDE DEF slots, old
  <2>3. RemovedFrom(table, slots, p, lists)
    BY <1>1, <1>2, <1>3, <2>2 DEF RemovedFrom
  <2>4. lists = [g \in Hashes |-> lists[g]]
    OBVIOUS
  <2>5. lists = [g \in Hashes |-> List!RemovePeer(old[g], p)]
    BY SameOperators
  <2> HIDE DEF lists
  <2>6. new = lists /\ Queue(table') = List!Forget(Queue(table), lists)
    BY <1>4, <2>1, <2>3, <2>4
  <2>7. lists = [g \in Hashes |-> List!RemovePeer(PeersOf(table, g), p)]
    BY <2>5 DEF old
  <2> QED
    BY <2>1, <2>6, <2>7 DEF List!PeerDone, List!NoReply, NoReply
<1> QED
  BY <1>5, <1>6

LEMMA EmptyQueue ==
    /\ Queue(InitTable) = <<>>
    /\ \A h \in Hashes : PeersOf(InitTable, h) = <<>>
<1>1. IsTable(InitTable, Entry) /\ Exact(InitTable)
  <2>1. FreeEntry \in Entry
    BY EmptySeq DEF FreeEntry, Entry
  <2> QED
    BY <2>1, InitTableType, ExactAtStart
<1>2. Span(InitTable) = 0
  BY TableAssumption DEF Span, InitTable
<1>3. Window(InitTable) = {}
  BY <1>2 DEF Window
<1>4. Queue(InitTable) \in Seq(Hashes) /\ Len(Queue(InitTable)) = 0
  BY <1>1, <1>2, QueueOfWindow
<1>5. \A h \in Hashes : PeersOf(InitTable, h) = <<>>
  BY <1>1, <1>3, PeersOfWindow
<1> QED
  BY <1>4, <1>5, EmptySeq

(* Every step of the table is one of the queue, or changes neither. *)
LEMMA RefinedStep ==
    ASSUME HeadMayMeetTail = FALSE, IsState(Seq(PeerInfo)), IsTable(table, Peopled),
           Exact(table), [Next]_vars
    PROVE  [List!Next]_(List!vars)
<1>1. IsTable(table, Entry)
  BY DEF IsState, EntryOf, Entry
<1>2. IsTable(table', Entry)
  <2>1. IsState(Seq(PeerInfo))'
    BY AllListsClosed, NextType
  <2> QED
    BY <2>1 DEF IsState, EntryOf, Entry
<1>3. Exact(table')
  BY ExactStep
<1>4. WithinBounds => \A j \in Slots(table') : Len(table'.entry[j].peers) <= MaxPeers
  BY DEF WithinBounds
<1>5. ASSUME NEW p \in Peers, NEW h \in Hashes, Lookup(p, h)
      PROVE  List!Lookup(p, h)
  <2>1. CASE getpeers(table, h) = {}
    BY <1>1, <1>2, <1>3, <1>4, <1>5, <2>1, NewRefined DEF Lookup
  <2>2. CASE getpeers(table, h) # {}
    BY <1>1, <1>2, <1>3, <1>4, <1>5, <2>2, LookupKnownRefined DEF Lookup
  <2> QED
    BY <2>1, <2>2
<1>6. ASSUME NEW p \in Peers, NEW h \in Hashes, Register(p, h)
      PROVE  List!Register(p, h)
  <2>1. WithinBounds
    BY <1>6 DEF Register
  <2> QED
    BY <1>1, <1>2, <1>3, <1>4, <1>6, <2>1, NewRefined, RegisterKnownRefined
<1>7. ASSUME NEW p \in Peers, NEW h \in Hashes, Unregister(p, h)
      PROVE  List!Unregister(p, h)
  BY <1>1, <1>3, <1>7, RemovalRefined
<1>8. ASSUME NEW p \in Peers, PeerDone(p)
      PROVE  List!PeerDone(p)
  BY <1>1, <1>3, <1>8, RemovalRefined
<1>9. CASE Restart
  <2>1. List!Restart
    BY <1>9, EmptyQueue DEF Restart, List!Restart, List!NoReply, NoReply
  <2> QED
    BY <2>1 DEF List!Next
<1>10. CASE UNCHANGED vars
  BY <1>10 DEF vars, List!vars
<1> QED
  BY <1>5, <1>6, <1>7, <1>8, <1>9, <1>10 DEF Next, List!Next

(* As long as the head does not meet the tail, the circular table is a
   queue of hashes: every request has on it the effect and the answer that
   TrackerList gives it. *)
THEOREM TableImplementsList ==
    ASSUME HeadMayMeetTail = FALSE
    PROVE  Spec => ImplementsList
<1> DEFINE Inv == /\ IsState(Seq(PeerInfo)) /\ IsTable(table, Peopled) /\ Exact(table)
<1>1. Init => Inv
  BY AllListsClosed, InitType, PeopledEntries, InitTableType, ExactAtStart DEF Init
<1>2. Inv /\ [Next]_vars => Inv'
  BY AllListsClosed, NextType, PeopledStep, ExactStep
<1>3. Init => List!Init
  BY EmptyQueue DEF Init, List!Init, List!NoReply, NoReply
<1>4. Inv /\ [Next]_vars => [List!Next]_(List!vars)
  BY RefinedStep
<1> HIDE DEF Inv
<1> QED
  BY <1>1, <1>2, <1>3, <1>4, PTL DEF Spec, ImplementsList, List!Spec

-----------------------------------------------------------------------------
(***************************************************************************)
(* The loop of compact_hash_table (TrackerCompaction): what its indices    *)
(* have done with of the table it started from.                            *)
(***************************************************************************)
(* A table of which nothing is known but its size and that a slot that is not
   in use is empty: the head may be on the tail, and the tail in use. *)
AnyTable(t) ==
    /\ t = [head |-> t.head, tail |-> t.tail, size |-> t.size, entry |-> t.entry]
    /\ t.size \in Nat \ {0}
    /\ t.head \in Slots(t) /\ t.tail \in Slots(t)
    /\ t.entry = [i \in Slots(t) |-> t.entry[i]]
    /\ \A i \in Slots(t) : ~ InUse(t, i) => t.entry[i] = FreeEntry

(* How far below the head an index is: -1 is another name of the last slot. *)
Place(t, i) == HeadDistance(t, IF i < 0 THEN t.size - 1 ELSE i)

(* Going down from the head meets every slot once, the tail behind the window. *)
LEMMA Round ==
    ASSUME NEW t, AnyTable(t)
    PROVE  /\ Span(t) \in 0..(t.size - 1)
           /\ HeadDistance(t, t.tail) = Span(t) + 1
           /\ Place(t, t.head - 1) = 1 /\ t.head - 1 \in -1..(t.size - 1)
           /\ \A i \in Slots(t) : /\ HeadDistance(t, i) \in 1..t.size
                                  /\ Below(t, HeadDistance(t, i)) = i
                                  /\ Place(t, i) = HeadDistance(t, i)
           /\ \A d \in 1..t.size : /\ Below(t, d) \in Slots(t)
                                   /\ HeadDistance(t, Below(t, d)) = d
           /\ \A i \in Slots(t) : HeadDistance(t, i) < t.size =>
                 Place(t, i - 1) = HeadDistance(t, i) + 1
<1> DEFINE n == t.size
           h == t.head
<1>1. n \in Nat /\ n > 0 /\ h \in 0..(n - 1) /\ t.tail \in 0..(n - 1) /\ Slots(t) = 0..(n - 1)
  BY DEF AnyTable, Slots
<1>2. Span(t) \in 0..(n - 1) /\ HeadDistance(t, t.tail) = Span(t) + 1
  <2>1. CASE t.tail < h
    BY <1>1, <2>1 DEF Span, HeadDistance
  <2>2. CASE ~ t.tail < h
    BY <1>1, <2>2 DEF Span, HeadDistance
  <2> QED
    BY <2>1, <2>2
<1>3. Place(t, h - 1) = 1 /\ h - 1 \in -1..(n - 1)
  <2>1. CASE h = 0
    BY <1>1, <2>1 DEF Place, HeadDistance
  <2>2. CASE h > 0
    BY <1>1, <2>2 DEF Place, HeadDistance
  <2> QED
    BY <1>1, <2>1, <2>2
<1>4. ASSUME NEW i \in Slots(t)
      PROVE  /\ HeadDistance(t, i) \in 1..n
             /\ Below(t, HeadDistance(t, i)) = i
             /\ Place(t, i) = HeadDistance(t, i)
  <2>1. CASE i < h
    BY <1>1, <2>1 DEF HeadDistance, Below, Place
  <2>2. CASE ~ i < h
    BY <1>1, <2>2 DEF HeadDistance, Below, Place
  <2> QED
    BY <2>1, <2>2
<1>5. ASSUME NEW d \in 1..n
      PROVE  Below(t, d) \in Slots(t) /\ HeadDistance(t, Below(t, d)) = d
  <2>1. CASE d <= h
    BY <1>1, <2>1 DEF HeadDistance, Below
  <2>2. CASE ~ d <= h
    <3>1. Below(t, d) = h + n - d
      BY <2>2 DEF Below
    <3>2. h + n - d \in 0..(n - 1) /\ ~ (h + n - d < h) /\ h + n - (h + n - d) = d
      BY <1>1, <2>2
    <3> QED
      BY <1>1, <3>1, <3>2 DEF HeadDistance
  <2> QED
    BY <2>1, <2>2
<1>6. ASSUME NEW i \in Slots(t), HeadDistance(t, i) < n
      PROVE  Place(t, i - 1) = HeadDistance(t, i) + 1
  <2>1. i # h
    BY <1>1, <1>6 DEF HeadDistance
  <2>2. CASE i = 0
    BY <1>1, <2>1, <2>2 DEF HeadDistance, Place
  <2>3. CASE i > 0
    BY <1>1, <2>1, <2>3 DEF HeadDistance, Place
  <2> QED
    BY <1>1, <2>2, <2>3
<1> QED
  BY <1>2, <1>3, <1>4, <1>5, <1>6

LEMMA TailPlace ==
    ASSUME NEW t, AnyTable(t), NEW i \in Slots(t), HeadDistance(t, i) = Span(t) + 1
    PROVE  i = t.tail
<1>1. t.tail \in Slots(t)
  BY DEF AnyTable
<1>2. /\ Below(t, HeadDistance(t, i)) = i
      /\ Below(t, HeadDistance(t, t.tail)) = t.tail
      /\ HeadDistance(t, t.tail) = Span(t) + 1
  BY <1>1, Round
<1> QED
  BY <1>2

(* How many slots in use there are down to the d-th. *)
Rank(t, d) == Cardinality(UsedWithin(t, d))

LEMMA Ranks ==
    ASSUME NEW t, AnyTable(t)
    PROVE  /\ Rank(t, 0) = 0
           /\ \A d \in 0..Span(t) : Rank(t, d) \in 0..d
           /\ \A d \in 1..Span(t) :
                 Rank(t, d) = Rank(t, d - 1) + (IF InUse(t, Below(t, d)) THEN 1 ELSE 0)
           /\ \A d, e \in 0..Span(t) : d <= e => Rank(t, d) <= Rank(t, e)
           /\ \A k \in 1..Rank(t, Span(t)) :
                 \E d \in 1..Span(t) : InUse(t, Below(t, d)) /\ Rank(t, d) = k
<1> DEFINE S == Span(t)
           U == UsedWithin(t, S)
<1>1. S \in Nat /\ U \in SUBSET (1..S)
  BY Round DEF UsedWithin
<1>2. ASSUME NEW d \in 0..S PROVE Rank(t, d) = CountTo(U, d)
  <2>1. UsedWithin(t, d) = {e \in 1..d : e \in U}
    BY <1>1 DEF UsedWithin
  <2> QED
    BY <2>1 DEF Rank, CountTo
<1>3. \A d \in 1..S : d \in U <=> InUse(t, Below(t, d))
  BY DEF UsedWithin
<1> HIDE DEF U, S
<1>4. /\ CountTo(U, 0) = 0
      /\ \A d \in 0..S : CountTo(U, d) \in 0..d
      /\ \A d \in 1..S : CountTo(U, d) = CountTo(U, d - 1) + (IF d \in U THEN 1 ELSE 0)
      /\ \A d, e \in 0..S : d <= e => CountTo(U, d) <= CountTo(U, e)
  BY <1>1, Counting
<1>5. \A k \in 1..CountTo(U, S) : \E d \in U : CountTo(U, d) = k
  <2>1. PICK f \in [1..CountTo(U, S) -> U] : \A k \in 1..CountTo(U, S) : CountTo(U, f[k]) = k
    BY <1>1, Enumerated
  <2> QED
    BY <2>1
<1>6. \A d \in 1..S : d \in 0..S /\ d - 1 \in 0..S
  BY <1>1
<1>7. 0 \in 0..S /\ S \in 0..S
  BY <1>1
<1>8. \A d \in 1..S :
         Rank(t, d) = Rank(t, d - 1) + (IF InUse(t, Below(t, d)) THEN 1 ELSE 0)
  BY <1>2, <1>3, <1>4, <1>6
<1>9. \A k \in 1..Rank(t, S) : \E d \in 1..S : InUse(t, Below(t, d)) /\ Rank(t, d) = k
  BY <1>1, <1>2, <1>3, <1>5, <1>6, <1>7
<1>10. /\ Rank(t, 0) = 0
       /\ \A d \in 0..S : Rank(t, d) \in 0..d
       /\ \A d, e \in 0..S : d <= e => Rank(t, d) <= Rank(t, e)
  BY <1>2, <1>4, <1>7
<1> QED
  BY <1>8, <1>9, <1>10 DEF S

(* The part of the window down to m is done with: its entries in use fill the
   f - 1 slots below the head, and the slots from f to m are free. *)
Slid(t, b, f, m) ==
    /\ t = [b EXCEPT !.entry = t.entry]
    /\ t.entry = [i \in Slots(b) |-> t.entry[i]]
    /\ m \in 0..Span(b) /\ f = Rank(b, m) + 1
    /\ \A d \in 1..m : InUse(b, Below(b, d)) =>
          t.entry[Below(b, Rank(b, d))] = b.entry[Below(b, d)]
    /\ \A d \in f..m : t.entry[Below(b, d)] = FreeEntry
    /\ \A d \in (m + 1)..b.size : t.entry[Below(b, d)] = b.entry[Below(b, d)]

(* A free slot is passed over. *)
LEMMA SlidOn ==
    ASSUME NEW t, NEW b, AnyTable(b), NEW f, NEW m, Slid(t, b, f, m),
           m < Span(b), ~ InUse(t, Below(b, m + 1))
    PROVE  Slid(t, b, f, m + 1)
<1> DEFINE e == m + 1
<1>1. m \in Nat /\ Span(b) \in Nat /\ Span(b) <= b.size - 1 /\ b.size \in Nat /\ e \in 1..Span(b)
      /\ m \in 0..Span(b)
  BY Round DEF Slid, AnyTable
<1>2. t.entry[Below(b, e)] = b.entry[Below(b, e)] /\ Below(b, e) \in Slots(b)
  <2>1. e \in (m + 1)..b.size /\ e \in 1..b.size
    BY <1>1
  <2> QED
    BY <2>1, Round DEF Slid
<1>3. ~ InUse(b, Below(b, e)) /\ t.entry[Below(b, e)] = FreeEntry
  BY <1>2 DEF InUse, AnyTable
<1>4. Rank(b, e) = Rank(b, m) /\ Rank(b, m) \in Nat
  <2>1. Rank(b, e) = Rank(b, e - 1) + 0 /\ Rank(b, m) \in 0..m
    BY <1>1, <1>3, Ranks
  <2>2. e - 1 = m
    BY <1>1
  <2> QED
    BY <2>1, <2>2, <1>1
<1>5. \A d \in 1..e : InUse(b, Below(b, d)) =>
         t.entry[Below(b, Rank(b, d))] = b.entry[Below(b, d)]
  <2>1. \A d \in 1..e : d \in 1..m \/ d = e
    BY <1>1
  <2> QED
    BY <1>3, <2>1 DEF Slid
<1>6. f \in Nat
  BY <1>4 DEF Slid
<1>7. \A d \in f..e : t.entry[Below(b, d)] = FreeEntry
  <2>1. \A d \in f..e : d \in f..m \/ d = e
    BY <1>1, <1>6
  <2> QED
    BY <1>3, <2>1 DEF Slid
<1>8. \A d \in (e + 1)..b.size : t.entry[Below(b, d)] = b.entry[Below(b, d)]
  <2>1. \A d \in (e + 1)..b.size : d \in (m + 1)..b.size
    BY <1>1
  <2> QED
    BY <2>1 DEF Slid
<1>9. e \in 0..Span(b)
  BY <1>1
<1>10. f = Rank(b, e) + 1
  BY <1>4 DEF Slid
<1> HIDE DEF e
<1>11. Slid(t, b, f, e)
  BY <1>5, <1>7, <1>8, <1>9, <1>10 DEF Slid
<1> QED
  BY <1>11 DEF e

(* An entry in use that is where it belongs stays there. *)
LEMMA SlidStays ==
    ASSUME NEW t, NEW b, AnyTable(b), NEW f, NEW m, Slid(t, b, f, m),
           m < Span(b), f = m + 1, InUse(t, Below(b, f))
    PROVE  Slid(t, b, f + 1, f)
<1>1. m \in 0..Span(b) /\ Span(b) \in Nat /\ Span(b) <= b.size - 1 /\ b.size \in Nat
  BY Round DEF Slid, AnyTable
<1>2. /\ f \in 1..Span(b) /\ f \in 0..Span(b) /\ f \in (m + 1)..b.size /\ f - 1 = m
      /\ f = Rank(b, m) + 1 /\ Rank(b, m) \in 0..m
  BY <1>1, Ranks DEF Slid
<1>3. t.entry[Below(b, f)] = b.entry[Below(b, f)]
  BY <1>2 DEF Slid
<1>4. Rank(b, f) = f
  <2>1. InUse(b, Below(b, f))
    BY <1>3 DEF InUse
  <2>2. Rank(b, f) = Rank(b, f - 1) + 1
    BY <1>2, <2>1, Ranks
  <2> QED
    BY <1>2, <2>2
<1>5. \A d \in 1..f : InUse(b, Below(b, d)) =>
         t.entry[Below(b, Rank(b, d))] = b.entry[Below(b, d)]
  <2>1. \A d \in 1..f : d \in 1..m \/ d = f
    BY <1>1
  <2> QED
    BY <1>3, <1>4, <2>1 DEF Slid
<1>6. (f + 1)..f = {}
  BY <1>2
<1>7. \A d \in (f + 1)..b.size : d \in (m + 1)..b.size
  BY <1>1
<1> QED
  BY <1>2, <1>4, <1>5, <1>6, <1>7 DEF Slid

(* An entry in use right behind what is done with moves up to f, or stays
   there. *)
LEMMA SlidUp ==
    ASSUME NEW t, NEW u, NEW b, AnyTable(b), NEW f, NEW m, Slid(t, b, f, m),
           m < Span(b), InUse(t, Below(b, m + 1)),
           u = [t EXCEPT !.entry =
                  [i \in Slots(b) |-> IF i = Below(b, f) THEN t.entry[Below(b, m + 1)]
                                      ELSE IF i = Below(b, m + 1) THEN FreeEntry
                                      ELSE t.entry[i]]]
    PROVE  Slid(u, b, f + 1, m + 1)
<1> DEFINE e == m + 1
<1>1. m \in Nat /\ Span(b) \in Nat /\ Span(b) <= b.size - 1 /\ b.size \in Nat /\ e \in 1..Span(b)
      /\ m \in 0..Span(b)
  BY Round DEF Slid, AnyTable
<1>2. t.entry[Below(b, e)] = b.entry[Below(b, e)] /\ Below(b, e) \in Slots(b)
  <2>1. e \in (m + 1)..b.size /\ e \in 1..b.size
    BY <1>1
  <2> QED
    BY <2>1, Round DEF Slid
<1>3. InUse(b, Below(b, e))
  BY <1>2 DEF InUse
<1>4. Rank(b, e) = f /\ f \in 1..e /\ Rank(b, m) = f - 1
  <2>1. Rank(b, e) = Rank(b, e - 1) + 1 /\ Rank(b, m) \in 0..m
    BY <1>1, <1>3, Ranks
  <2>2. e - 1 = m
    BY <1>1
  <2>3. f = Rank(b, m) + 1
    BY DEF Slid
  <2> QED
    BY <2>1, <2>2, <2>3, <1>1
<1>5. /\ \A d \in 1..b.size : Below(b, d) \in Slots(b)
      /\ \A c, d \in 1..b.size : Below(b, c) = Below(b, d) => c = d
  BY Round
<1>6. /\ u = [b EXCEPT !.entry = u.entry]
      /\ u.entry = [i \in Slots(b) |-> IF i = Below(b, f) THEN t.entry[Below(b, e)]
                                       ELSE IF i = Below(b, e) THEN FreeEntry
                                       ELSE t.entry[i]]
  BY DEF Slid, AnyTable
<1>7. u.entry = [i \in Slots(b) |-> u.entry[i]]
  BY <1>6
<1> HIDE DEF e
<1>8. f \in 1..b.size /\ e \in 1..b.size
  BY <1>1, <1>4
<1>9. ASSUME NEW d \in 1..b.size
      PROVE  u.entry[Below(b, d)] = IF d = f THEN t.entry[Below(b, e)]
                                    ELSE IF d = e THEN FreeEntry
                                    ELSE t.entry[Below(b, d)]
  BY <1>5, <1>6, <1>8
<1>10. ASSUME NEW d \in 1..e, InUse(b, Below(b, d))
       PROVE  u.entry[Below(b, Rank(b, d))] = b.entry[Below(b, d)]
  <2>1. CASE d = e
    BY <1>2, <1>4, <1>8, <1>9, <2>1
  <2>2. CASE d # e
    <3>1. d \in 1..m /\ d \in 1..Span(b) /\ d \in 0..Span(b) /\ d - 1 \in 0..Span(b)
      BY <1>1, <2>2 DEF e
    <3>2. Rank(b, d) <= f - 1
      BY <1>1, <1>4, <3>1, Ranks
    <3>3. Rank(b, d) = Rank(b, d - 1) + 1 /\ Rank(b, d - 1) \in 0..(d - 1)
      BY <1>10, <3>1, Ranks
    <3>4. Rank(b, d) \in 1..b.size /\ Rank(b, d) # f /\ Rank(b, d) # e
      BY <1>1, <1>4, <3>1, <3>2, <3>3
    <3>5. t.entry[Below(b, Rank(b, d))] = b.entry[Below(b, d)]
      BY <1>10, <3>1 DEF Slid
    <3> QED
      BY <1>9, <3>4, <3>5
  <2> QED
    BY <2>1, <2>2
<1>11. ASSUME NEW d \in (f + 1)..e
       PROVE  u.entry[Below(b, d)] = FreeEntry
  <2>1. d \in 1..b.size /\ d # f /\ (d = e \/ d \in f..m)
    BY <1>1, <1>4, <1>8 DEF e
  <2> QED
    BY <1>9, <2>1 DEF Slid
<1>12. ASSUME NEW d \in (e + 1)..b.size
       PROVE  u.entry[Below(b, d)] = b.entry[Below(b, d)]
  <2>1. d \in 1..b.size /\ d # f /\ d # e /\ d \in (m + 1)..b.size
    BY <1>1, <1>4, <1>8 DEF e
  <2> QED
    BY <1>9, <2>1 DEF Slid
<1>13. e \in 0..Span(b) /\ f + 1 = Rank(b, e) + 1
  BY <1>1, <1>4
<1>14. Slid(u, b, f + 1, e)
  BY <1>6, <1>7, <1>10, <1>11, <1>12, <1>13 DEF Slid
<1> QED
  BY <1>14 DEF e

(* When all of the window is done with the table is compact. *)
LEMMA SlidIsCompact ==
    ASSUME NEW t, NEW b, AnyTable(b), NEW f, Slid(t, b, f, Span(b))
    PROVE  t = compact_hash_table(b)
<1> DEFINE S == Span(b)
           ranked(k) == {d \in UsedWithin(b, S) : Cardinality(UsedWithin(b, d)) = k}
           at(k) == IF ranked(k) = {} THEN FreeEntry
                    ELSE b.entry[Below(b, CHOOSE d \in ranked(k) : TRUE)]
           new(i) == IF i = b.tail \/ ~ \E d \in 1..S : Below(b, d) = i THEN b.entry[i]
                     ELSE at(CHOOSE d \in 1..S : Below(b, d) = i)
<1>1. compact_hash_table(b) = [b EXCEPT !.entry = [i \in Slots(b) |-> new(i)]]
  BY DEF compact_hash_table
<1>2. /\ S \in Nat /\ S <= b.size - 1 /\ b.size \in Nat
      /\ \A d \in 1..b.size : Below(b, d) \in Slots(b) /\ HeadDistance(b, Below(b, d)) = d
      /\ \A i \in Slots(b) : HeadDistance(b, i) \in 1..b.size /\ Below(b, HeadDistance(b, i)) = i
      /\ HeadDistance(b, b.tail) = S + 1
  BY Round DEF AnyTable
<1>3. \A d : d \in UsedWithin(b, S) <=> d \in 1..S /\ InUse(b, Below(b, d))
  BY DEF UsedWithin
<1>4. ASSUME NEW k \in 1..S
      PROVE  at(k) = t.entry[Below(b, k)]
  <2>1. CASE ranked(k) = {}
    <3>1. ~ k \in 1..Rank(b, S)
      BY <1>3, <2>1, Ranks DEF Rank
    <3>2. k \in f..S
      BY <1>2, <3>1, Ranks DEF Slid
    <3> QED
      BY <2>1, <3>2 DEF Slid
  <2>2. CASE ranked(k) # {}
    <3>1. PICK d \in ranked(k) : d = CHOOSE e \in ranked(k) : TRUE
      BY <2>2
    <3>2. d \in 1..S /\ InUse(b, Below(b, d)) /\ Rank(b, d) = k
      BY <1>3, <3>1 DEF Rank
    <3>3. t.entry[Below(b, k)] = b.entry[Below(b, d)]
      BY <3>2 DEF Slid
    <3> QED
      BY <2>2, <3>1, <3>3
  <2> QED
    BY <2>1, <2>2
<1> HIDE DEF at
<1>5. ASSUME NEW i \in Slots(b)
      PROVE  new(i) = t.entry[i]
  <2> DEFINE d == HeadDistance(b, i)
  <2>1. d \in 1..b.size /\ Below(b, d) = i
    BY <1>2
  <2>2. \A e \in 1..b.size : Below(b, e) = i <=> e = d
    BY <1>2, <2>1
  <2>3. i = b.tail <=> d = S + 1
    <3>1. b.tail \in Slots(b)
      BY DEF AnyTable
    <3> QED
      BY <1>2, <2>1, <3>1
  <2> HIDE DEF d
  <2>4. \A e \in 1..S : e \in 1..b.size
    BY <1>2
  <2>5. CASE d \in 1..S
    <3>1. i # b.tail /\ \E e \in 1..S : Below(b, e) = i
      BY <1>2, <2>1, <2>3, <2>5
    <3>2. (CHOOSE e \in 1..S : Below(b, e) = i) = d
      BY <2>2, <2>4, <2>5
    <3>3. new(i) = at(d)
      BY <3>1, <3>2
    <3> QED
      BY <1>4, <2>1, <2>5, <3>3
  <2>6. CASE d \notin 1..S
    <3>1. ~ \E e \in 1..S : Below(b, e) = i
      BY <2>2, <2>4, <2>6
    <3>2. d \in (S + 1)..b.size
      BY <1>2, <2>1, <2>6
    <3> QED
      BY <2>1, <3>1, <3>2 DEF Slid
  <2> QED
    BY <2>5, <2>6
<1> HIDE DEF new
<1>6. t.entry = [i \in Slots(b) |-> new(i)]
  BY <1>5 DEF Slid
<1> QED
  BY <1>1, <1>6 DEF Slid
-----------------------------------------------------------------------------
LoopTypeOK ==
    /\ AnyTable(before)
    /\ free_index \in -1..(before.size - 1)
    /\ allocated_index \in -1..(before.size - 1)
    /\ pc \in {"find free slot", "find allocated slot", "done"}

(* Looking for a free slot, all slots above the f-th are filled; looking for
   one in use, the f-th is the first free slot and none from it to the a-th is
   in use. *)
FreeSought(t, b, f) == \E m \in 0..Span(b) : m >= f - 1 /\ Slid(t, b, f, m)

UsedSought(t, b, f, a) ==
    /\ a \in (f + 1)..(Span(b) + 1)
    /\ \E m \in f..Span(b) : a - 1 <= m /\ Slid(t, b, f, m)

AllSlid(t, b) == \E f : Slid(t, b, f, Span(b))

Sliding ==
    /\ pc = "find free slot" => FreeSought(hash_table, before, Place(before, free_index))
    /\ pc = "find allocated slot" =>
          /\ free_index \in Slots(before) \ {before.tail}
          /\ UsedSought(hash_table, before, Place(before, free_index), Place(before, allocated_index))
    /\ pc = "done" => AllSlid(hash_table, before)

LEMMA SoughtOn ==
    ASSUME NEW t, NEW b, NEW f \in Int, NEW a \in Int, a + 1 \in (f + 1)..(Span(b) + 1),
           NEW k \in f..Span(b), a <= k, Slid(t, b, f, k)
    PROVE  UsedSought(t, b, f, a + 1)
<1>1. (a + 1) - 1 <= k
  OBVIOUS
<1> QED
  BY <1>1 DEF UsedSought

LEMMA LoopTables == \A t \in Tables : AnyTable(t)
<1> SUFFICES ASSUME NEW t \in Tables PROVE AnyTable(t)
  OBVIOUS
<1> DEFINE I == 0..(InitSize - 1)
           made(used) == [i \in I |-> IF i \in used THEN [hash |-> i, peers |-> <<>>]
                                      ELSE FreeEntry]
<1>1. Tables = {[head |-> head, tail |-> tail, size |-> InitSize, entry |-> made(used)] :
                        head \in I, tail \in I, used \in SUBSET I}
  BY DEF Tables
<1>2. \A used : /\ made(used) = [i \in I |-> made(used)[i]]
                /\ \A i \in I : made(used)[i].hash = NoHash => made(used)[i] = FreeEntry
  BY DEF FreeEntry
<1> HIDE DEF made
<1>3. PICK head \in I, tail \in I, used \in SUBSET I :
         t = [head |-> head, tail |-> tail, size |-> InitSize, entry |-> made(used)]
  BY <1>1
<1> QED
  BY <1>2, <1>3, TableAssumption DEF AnyTable, Slots, InUse

LEMMA LoopStarts == LoopInit => LoopTypeOK /\ Sliding
<1> SUFFICES ASSUME LoopInit PROVE LoopTypeOK /\ Sliding
  OBVIOUS
<1>1. /\ hash_table \in Tables /\ before = hash_table
      /\ free_index = before.head - 1 /\ allocated_index = 0 /\ pc = "find free slot"
  BY DEF LoopInit
<1>2. AnyTable(before)
  BY <1>1, LoopTables
<1>3. /\ Place(before, before.head - 1) = 1 /\ before.head - 1 \in -1..(before.size - 1)
      /\ Span(before) \in 0..(before.size - 1)
  BY <1>2, Round
<1>4. before.size \in Nat \ {0}
  BY <1>2 DEF AnyTable
<1>5. 0 \in -1..(before.size - 1) /\ 0 \in 0..Span(before)
  BY <1>3, <1>4
<1>6. LoopTypeOK
  BY <1>1, <1>2, <1>3, <1>5 DEF LoopTypeOK
<1>7. Rank(before, 0) = 0
  BY <1>2, Ranks
<1>8. Slid(before, before, 1, 0)
  BY <1>2, <1>5, <1>7 DEF Slid, AnyTable
<1>9. FreeSought(before, before, 1)
  BY <1>5, <1>8 DEF FreeSought
<1>10. FreeSought(hash_table, before, Place(before, free_index))
  <2>1. Place(before, free_index) = 1
    BY <1>1, <1>3
  <2> QED
    BY <1>1, <1>9, <2>1
<1> QED
  BY <1>1, <1>6, <1>10 DEF Sliding

LEMMA LoopFindsFree ==
    ASSUME LoopTypeOK, Sliding, FindFree
    PROVE  LoopTypeOK' /\ Sliding'
<1> DEFINE f == Place(before, free_index)
           S == Span(before)
<1>1. /\ AnyTable(before) /\ before' = before /\ hash_table' = hash_table
      /\ pc = "find free slot"
      /\ free_index \in -1..(before.size - 1)
      /\ allocated_index \in -1..(before.size - 1)
  BY DEF LoopTypeOK, FindFree
<1>2. PICK m \in 0..S : m >= f - 1 /\ Slid(hash_table, before, f, m)
  BY <1>1 DEF Sliding, FreeSought
<1>3. hash_table.tail = before.tail /\ hash_table.size = before.size /\ Slots(hash_table) = Slots(before)
  BY <1>1, <1>2 DEF Slid, AnyTable, Slots
<1>4. /\ S \in 0..(before.size - 1)
      /\ HeadDistance(before, before.tail) = S + 1
      /\ \A i \in Slots(before) : /\ HeadDistance(before, i) \in 1..before.size
                                   /\ Below(before, HeadDistance(before, i)) = i
                                   /\ Place(before, i) = HeadDistance(before, i)
      /\ \A i \in Slots(before) : HeadDistance(before, i) < before.size =>
            Place(before, i - 1) = HeadDistance(before, i) + 1
      /\ before.tail \in Slots(before) /\ before.size \in Nat
      /\ \A i : i \in Slots(before) <=> i \in 0..(before.size - 1)
  BY <1>1, Round DEF AnyTable, Slots
<1>5. f = Rank(before, m) + 1 /\ Rank(before, m) \in 0..m
  BY <1>1, <1>2, Ranks DEF Slid
<1>6. CASE /\ free_index = hash_table.tail
           /\ pc' = "done"
           /\ UNCHANGED <<free_index, allocated_index>>
  <2>1. f = S + 1
    BY <1>3, <1>4, <1>6
  <2>2. m = S
    BY <1>2, <1>4, <2>1
  <2>3. AllSlid(hash_table, before)
    BY <1>2, <2>2 DEF AllSlid
  <2> QED
    BY <1>1, <1>6, <2>3 DEF LoopTypeOK, Sliding
<1>7. CASE /\ free_index < 0
           /\ free_index' = hash_table.size - 1
           /\ UNCHANGED <<pc, allocated_index>>
  <2>1. Place(before, free_index') = f
    BY <1>1, <1>3, <1>4, <1>7 DEF Place
  <2>2. free_index' \in -1..(before.size - 1)
    BY <1>3, <1>4, <1>7
  <2>3. FreeSought(hash_table, before, Place(before, free_index'))
    BY <1>1, <2>1 DEF Sliding
  <2> QED
    BY <1>1, <1>7, <2>2, <2>3 DEF LoopTypeOK, Sliding
<1>8. ASSUME free_index \in Slots(hash_table) \ {hash_table.tail}
      PROVE  /\ free_index \in Slots(before) \ {before.tail}
             /\ f \in 1..S /\ Below(before, f) = free_index
             /\ Place(before, free_index - 1) = f + 1
             /\ free_index - 1 \in -1..(before.size - 1)
  <2>1. free_index \in Slots(before) \ {before.tail}
    BY <1>3, <1>8
  <2>2. /\ f = HeadDistance(before, free_index)
        /\ f \in 1..before.size /\ Below(before, f) = free_index
    BY <1>4, <2>1
  <2>3. f # S + 1
    BY <1>1, <1>4, <2>1, <2>2, TailPlace
  <2>4. f \in 1..S
    <3>1. f \in Nat /\ f <= m + 1 /\ m <= S /\ S \in Nat
      BY <1>2, <1>4, <1>5
    <3> QED
      BY <2>2, <2>3, <3>1
  <2>5. f < before.size
    BY <1>4, <2>4
  <2> QED
    BY <1>4, <2>1, <2>2, <2>4, <2>5
<1>9. CASE /\ free_index \in Slots(hash_table) \ {hash_table.tail}
           /\ ~ InUse(hash_table, free_index)
           /\ pc' = "find allocated slot"
           /\ allocated_index' = free_index - 1
           /\ UNCHANGED free_index
  <2>1. ~ InUse(hash_table, Below(before, f))
    BY <1>8, <1>9
  <2>2. Place(before, allocated_index') = f + 1 /\ f \in 1..S
    BY <1>8, <1>9
  <2>3. \E k \in f..S : f <= k /\ Slid(hash_table, before, f, k)
    <3>1. CASE m >= f
      BY <1>2, <1>4, <2>2, <3>1
    <3>2. CASE m < f
      <4>1. m = f - 1 /\ m + 1 = f /\ m < S
        BY <1>2, <1>4, <2>2, <3>2
      <4>2. Slid(hash_table, before, f, f)
        BY <1>1, <1>2, <2>1, <4>1, SlidOn
      <4> QED
        BY <2>2, <4>2
    <3> QED
      BY <1>2, <1>4, <2>2, <3>1, <3>2
  <2>4. f + 1 \in (f + 1)..(S + 1) /\ (f + 1) - 1 = f
    BY <1>4, <2>2
  <2>5. UsedSought(hash_table, before, f, f + 1)
    BY <2>3, <2>4 DEF UsedSought
  <2>6. allocated_index' \in -1..(before.size - 1)
    BY <1>8, <1>9
  <2>7. LoopTypeOK'
    BY <1>1, <1>9, <2>6 DEF LoopTypeOK
  <2> HIDE DEF f
  <2>8. UsedSought(hash_table', before', Place(before', free_index'), Place(before', allocated_index'))
    BY <1>1, <1>9, <2>2, <2>5 DEF f
  <2> QED
    BY <1>1, <1>8, <1>9, <2>7, <2>8 DEF Sliding
<1>10. CASE /\ free_index \in Slots(hash_table) \ {hash_table.tail}
            /\ InUse(hash_table, free_index)
            /\ free_index' = free_index - 1
            /\ UNCHANGED <<pc, allocated_index>>
  <2>1. InUse(hash_table, Below(before, f)) /\ f \in 1..S
    BY <1>8, <1>10
  <2>2. m = f - 1 /\ m + 1 = f /\ m < S
    <3>1. ASSUME f \in f..m
          PROVE  FALSE
      <4>1. hash_table.entry[Below(before, f)] = FreeEntry
        BY <1>2, <3>1 DEF Slid
      <4> QED
        BY <2>1, <4>1 DEF InUse, FreeEntry
    <3> QED
      BY <1>2, <1>4, <2>1, <3>1
  <2>3. Slid(hash_table, before, f + 1, f)
    BY <1>1, <1>2, <2>1, <2>2, SlidStays
  <2>4. Place(before, free_index') = f + 1 /\ free_index' \in -1..(before.size - 1)
    BY <1>8, <1>10
  <2>5. f \in 0..S /\ f >= (f + 1) - 1
    BY <1>4, <2>1
  <2>6. FreeSought(hash_table, before, f + 1)
    BY <2>3, <2>5 DEF FreeSought
  <2> QED
    BY <1>1, <1>10, <2>4, <2>6 DEF LoopTypeOK, Sliding
<1> QED
  BY <1>6, <1>7, <1>9, <1>10 DEF FindFree

LEMMA LoopFindsAllocated ==
    ASSUME LoopTypeOK, Sliding, FindAllocated
    PROVE  LoopTypeOK' /\ Sliding'
<1> DEFINE f == Place(before, free_index)
           a == Place(before, allocated_index)
           S == Span(before)
<1>1. /\ AnyTable(before) /\ before' = before
      /\ pc = "find allocated slot"
      /\ free_index \in -1..(before.size - 1)
      /\ allocated_index \in -1..(before.size - 1)
  BY DEF LoopTypeOK, FindAllocated
<1>2. /\ free_index \in Slots(before) \ {before.tail}
      /\ a \in (f + 1)..(S + 1)
  BY <1>1 DEF Sliding, UsedSought
<1>m. PICK m \in f..S : a - 1 <= m /\ Slid(hash_table, before, f, m)
  BY <1>1 DEF Sliding, UsedSought
<1>3. hash_table.tail = before.tail /\ hash_table.size = before.size /\ Slots(hash_table) = Slots(before)
  BY <1>1, <1>m DEF Slid, AnyTable, Slots
<1>4. /\ S \in 0..(before.size - 1)
      /\ HeadDistance(before, before.tail) = S + 1
      /\ \A i \in Slots(before) : /\ HeadDistance(before, i) \in 1..before.size
                                   /\ Below(before, HeadDistance(before, i)) = i
                                   /\ Place(before, i) = HeadDistance(before, i)
      /\ \A i \in Slots(before) : HeadDistance(before, i) < before.size =>
            Place(before, i - 1) = HeadDistance(before, i) + 1
      /\ before.tail \in Slots(before) /\ before.size \in Nat
      /\ \A i : i \in Slots(before) <=> i \in 0..(before.size - 1)
  BY <1>1, Round DEF AnyTable, Slots
<1>5. /\ f \in 1..S /\ Below(before, f) = free_index
      /\ Place(before, free_index - 1) = f + 1
      /\ free_index - 1 \in -1..(before.size - 1)
  <2>1. /\ f = HeadDistance(before, free_index)
        /\ f \in 1..before.size /\ Below(before, f) = free_index
    BY <1>2, <1>4
  <2>2. f \in 1..S
    BY <1>4, <1>m, <2>1
  <2>3. f < before.size
    BY <1>4, <2>2
  <2> QED
    BY <1>2, <1>4, <2>1, <2>2, <2>3
<1>6. CASE /\ allocated_index = hash_table.tail
           /\ pc' = "done"
           /\ UNCHANGED <<hash_table, free_index, allocated_index>>
  <2>1. a = S + 1
    BY <1>3, <1>4, <1>6
  <2>2. m = S
    BY <1>m, <1>4, <1>5, <2>1
  <2>3. AllSlid(hash_table, before)
    BY <1>m, <2>2 DEF AllSlid
  <2> QED
    BY <1>1, <1>6, <2>3 DEF LoopTypeOK, Sliding
<1>7. CASE /\ allocated_index < 0
           /\ allocated_index' = hash_table.size - 1
           /\ UNCHANGED <<hash_table, free_index, pc>>
  <2>1. Place(before, allocated_index') = a
    BY <1>1, <1>3, <1>4, <1>7 DEF Place
  <2>2. allocated_index' \in -1..(before.size - 1)
    BY <1>3, <1>4, <1>7
  <2>3. UsedSought(hash_table, before, f, Place(before, allocated_index'))
    BY <1>1, <2>1 DEF Sliding
  <2> QED
    BY <1>1, <1>2, <1>7, <2>2, <2>3 DEF LoopTypeOK, Sliding
<1>8. ASSUME allocated_index \in Slots(hash_table) \ {hash_table.tail}
      PROVE  /\ a \in (f + 1)..S /\ Below(before, a) = allocated_index
             /\ Place(before, allocated_index - 1) = a + 1
             /\ allocated_index - 1 \in -1..(before.size - 1)
  <2>1. allocated_index \in Slots(before) \ {before.tail}
    BY <1>3, <1>8
  <2>2. /\ a = HeadDistance(before, allocated_index)
        /\ a \in 1..before.size /\ Below(before, a) = allocated_index
    BY <1>4, <2>1
  <2>3. a # S + 1
    BY <1>1, <1>4, <2>1, <2>2, TailPlace
  <2>4. a \in (f + 1)..S
    BY <1>2, <1>4, <1>5, <2>3
  <2>5. a < before.size
    BY <1>4, <1>5, <2>4
  <2> QED
    BY <1>4, <2>1, <2>2, <2>4, <2>5
<1>9. CASE /\ allocated_index \in Slots(hash_table) \ {hash_table.tail}
           /\ ~ InUse(hash_table, allocated_index)
           /\ allocated_index' = allocated_index - 1
           /\ UNCHANGED <<hash_table, free_index, pc>>
  <2>1. ~ InUse(hash_table, Below(before, a)) /\ a \in (f + 1)..S
    BY <1>8, <1>9
  <2>2. \E k \in f..S : a <= k /\ Slid(hash_table, before, f, k)
    <3>1. CASE m >= a
      BY <1>m, <3>1
    <3>2. CASE m < a
      <4>1. m + 1 = a /\ m < S /\ a \in f..S
        BY <1>m, <1>4, <1>5, <2>1, <3>2
      <4>2. Slid(hash_table, before, f, a)
        BY <1>1, <1>m, <2>1, <4>1, SlidOn
      <4> QED
        BY <1>5, <2>1, <4>1, <4>2
    <3> QED
      BY <1>m, <1>4, <1>5, <2>1, <3>1, <3>2
  <2>3. a + 1 \in (f + 1)..(S + 1) /\ a + 1 - 1 = a
    BY <1>4, <1>5, <2>1
  <2>4. Place(before, allocated_index') = a + 1 /\ allocated_index' \in -1..(before.size - 1)
    BY <1>8, <1>9
  <2>5. UsedSought(hash_table, before, f, a + 1)
    <3>1. PICK k \in f..S : a <= k /\ Slid(hash_table, before, f, k)
      BY <2>2
    <3>2. f \in Int /\ a \in Int
      BY <1>5, <2>1
    <3> HIDE DEF f, a
    <3> QED
      BY <2>3, <3>1, <3>2, SoughtOn
  <2>6. LoopTypeOK'
    BY <1>1, <1>9, <2>4 DEF LoopTypeOK
  <2> HIDE DEF f, a
  <2>7. UsedSought(hash_table', before', Place(before', free_index'), Place(before', allocated_index'))
    BY <1>1, <1>9, <2>4, <2>5 DEF f
  <2> QED
    BY <1>1, <1>2, <1>9, <2>6, <2>7 DEF Sliding
<1>10. CASE /\ allocated_index \in Slots(hash_table) \ {hash_table.tail}
            /\ InUse(hash_table, allocated_index)
            /\ hash_table' = [hash_table EXCEPT
                  !.entry = [hash_table.entry EXCEPT
                               ![free_index] = hash_table.entry[allocated_index],
                               ![allocated_index] = FreeEntry]]
            /\ free_index' = free_index - 1
            /\ pc' = "find free slot"
            /\ UNCHANGED allocated_index
  <2>1. InUse(hash_table, Below(before, a)) /\ a \in (f + 1)..S
    BY <1>8, <1>10
  <2>2. m + 1 = a /\ m < S
    <3>1. ASSUME a \in f..m
          PROVE  FALSE
      <4>1. hash_table.entry[Below(before, a)] = FreeEntry
        BY <1>m, <3>1 DEF Slid
      <4> QED
        BY <2>1, <4>1 DEF InUse, FreeEntry
    <3> QED
      BY <1>m, <1>4, <1>5, <2>1, <3>1
  <2>3. free_index # allocated_index
    <3>1. \A i \in Slots(before) : HeadDistance(before, i) = Place(before, i)
      BY <1>4
    <3>2. f # a
      BY <1>5, <2>1
    <3> QED
      BY <3>2
  <2>4. hash_table.entry = [i \in Slots(before) |-> hash_table.entry[i]]
    BY <1>m DEF Slid
  <2>5. [hash_table.entry EXCEPT ![free_index] = hash_table.entry[allocated_index],
                            ![allocated_index] = FreeEntry]
        = [i \in Slots(before) |-> IF i = free_index THEN hash_table.entry[allocated_index]
                                   ELSE IF i = allocated_index THEN FreeEntry
                                   ELSE hash_table.entry[i]]
    BY <1>2, <1>3, <1>10, <2>3, <2>4
  <2>6. hash_table' = [hash_table EXCEPT !.entry =
                    [i \in Slots(before) |->
                       IF i = Below(before, f) THEN hash_table.entry[Below(before, m + 1)]
                       ELSE IF i = Below(before, m + 1) THEN FreeEntry
                       ELSE hash_table.entry[i]]]
    <3>1. Below(before, f) = free_index /\ Below(before, m + 1) = allocated_index
      BY <1>5, <1>8, <1>10, <2>2
    <3> HIDE DEF f
    <3> QED
      BY <1>10, <2>5, <3>1
  <2>7. Slid(hash_table', before, f + 1, m + 1)
    BY <1>1, <1>m, <2>1, <2>2, <2>6, SlidUp
  <2>8. m + 1 \in 0..S /\ m + 1 >= (f + 1) - 1
    BY <1>m, <1>4, <1>5, <2>2
  <2>9. Place(before, free_index') = f + 1 /\ free_index' \in -1..(before.size - 1)
    BY <1>5, <1>10
  <2>10. FreeSought(hash_table', before, f + 1)
    BY <2>7, <2>8 DEF FreeSought
  <2>11. LoopTypeOK'
    BY <1>1, <1>10, <2>9 DEF LoopTypeOK
  <2>12. FreeSought(hash_table', before', Place(before', free_index'))
    BY <1>1, <2>9, <2>10
  <2> QED
    BY <1>10, <2>11, <2>12 DEF Sliding
<1> QED
  BY <1>6, <1>7, <1>9, <1>10 DEF FindAllocated

(* compact_hash_table, index by index, computes what TrackerTable says it
   does: for a table of any size, its head and its tail anywhere and any slots
   in use. *)
THEOREM CompactionLoop == LoopSpec => []LoopIsClosedForm
<1>1. LoopTypeOK /\ Sliding /\ [LoopNext]_loopVars => (LoopTypeOK /\ Sliding)'
  <2> SUFFICES ASSUME LoopTypeOK, Sliding, [LoopNext]_loopVars
               PROVE  (LoopTypeOK /\ Sliding)'
    OBVIOUS
  <2>1. CASE UNCHANGED loopVars
    BY <2>1 DEF loopVars, LoopTypeOK, Sliding
  <2>2. CASE FindFree
    BY <2>2, LoopFindsFree
  <2>3. CASE FindAllocated
    BY <2>3, LoopFindsAllocated
  <2> QED
    BY <2>1, <2>2, <2>3 DEF LoopNext, Returned
<1>2. LoopTypeOK /\ Sliding => LoopIsClosedForm
  <2> SUFFICES ASSUME LoopTypeOK, Sliding, pc = "done"
               PROVE  hash_table = compact_hash_table(before)
    BY DEF LoopIsClosedForm
  <2>1. PICK f : Slid(hash_table, before, f, Span(before))
    BY DEF Sliding, AllSlid
  <2>2. hash_table = compact_hash_table(before)
    BY <2>1, SlidIsCompact DEF LoopTypeOK
  <2> QED
    BY <2>2
<1> QED
  BY <1>1, <1>2, LoopStarts, PTL DEF LoopSpec

=============================================================================
