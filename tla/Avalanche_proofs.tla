-------------------------- MODULE Avalanche_proofs --------------------------
(***************************************************************************)
(* Theorems about the installing hosts and the tracker together, for any   *)
(* number of hosts, of processes on each, of files and of package servers, *)
(* and for datagrams that are lost, duplicated and reordered.              *)
(***************************************************************************)
EXTENDS Avalanche, TrackerPeers_proofs

-----------------------------------------------------------------------------
(* The tracker. *)

TrackerType == queue \in Seq(Files) /\ peers \in [Files -> Seq(PeerInfo)]

LeavesOut(list, p) == \A k \in DOMAIN list : list[k].ip # p

Predictions == [hash : Files, peers : Seq(PeerInfo)]

(* TrackerList has the operators of TrackerPeers. *)
LEMMA SameLists ==
    ASSUME NEW list, NEW p
    PROVE  /\ Tracker!MarkReady(list, p) = MarkReady(list, p)
           /\ Tracker!RemovePeer(list, p) = RemovePeer(list, p)
           /\ Tracker!AfterLookup(list, p) = AfterLookup(list, p)
           /\ Tracker!Offered(list, p) = Offered(list, p)
<1>1. Tracker!Positions(list, p) = Positions(list, p)
  BY DEF Tracker!Positions, Positions
<1>2. Tracker!FirstPosition(list, p) = FirstPosition(list, p)
  BY <1>1 DEF Tracker!FirstPosition, FirstPosition
<1>3. \A state : Tracker!addpeer(list, p, state) = addpeer(list, p, state)
  BY DEF Tracker!addpeer, addpeer
<1>4. Tracker!READY = READY /\ Tracker!DOWNLOADING = DOWNLOADING
  BY DEF Tracker!READY, READY, Tracker!DOWNLOADING, DOWNLOADING
<1>5. Tracker!MarkReady(list, p) = MarkReady(list, p)
  BY <1>1, <1>2, <1>3, <1>4 DEF Tracker!MarkReady, MarkReady
<1>6. \A k : Tracker!RemoveAt(list, k) = RemoveAt(list, k)
  BY DEF Tracker!RemoveAt, RemoveAt
<1>7. Tracker!RemovePeer(list, p) = RemovePeer(list, p)
  BY <1>1, <1>2, <1>6 DEF Tracker!RemovePeer, RemovePeer
<1>8. Tracker!CopyLimit(list) = CopyLimit(list)
  BY DEF Tracker!CopyLimit, CopyLimit
<1>9. Tracker!MeetsRequestor(list, p) = MeetsRequestor(list, p)
  BY <1>1, <1>2, <1>8 DEF Tracker!MeetsRequestor, MeetsRequestor
<1>10. Tracker!AfterLookup(list, p) = AfterLookup(list, p)
  BY <1>2, <1>3, <1>4, <1>9 DEF Tracker!AfterLookup, AfterLookup
<1>11. Tracker!Offered(list, p) = Offered(list, p)
  BY <1>2, <1>8, <1>9 DEF Tracker!Offered, Offered
<1> QED
  BY <1>5, <1>7, <1>10, <1>11

(* However it reorders a list, the list is arranged. *)
LEMMA Reordered ==
    ASSUME NEW lists, NEW my, NEW st, NEW ls \in Tracker!Reorderings(lists, my, st)
    PROVE  DOMAIN ls = DOMAIN lists /\ \A k \in DOMAIN lists : ls[k] \in Arrangements(lists[k])
<1>1. DOMAIN ls = DOMAIN lists /\ \A k \in DOMAIN lists :
         \E turns : ls[k] \in Tracker!Shuffles(lists[k], my, turns)
  BY DEF Tracker!Reorderings
<1>2. \A list, turns : Tracker!Shuffles(list, my, turns) \subseteq Tracker!Arrangements(list)
  BY DEF Tracker!Shuffles
<1>3. \A list : Tracker!Arrangements(list) = Arrangements(list)
  BY DEF Tracker!Arrangements, Arrangements, Tracker!Bijection, Bijection,
         Tracker!Injection, Injection, Tracker!IsInjective, IsInjective,
         Tracker!Surjection, Surjection
<1> QED
  BY <1>1, <1>2, <1>3

(* The queue keeps hashes of files when it forgets some. *)
LEMMA Forgotten ==
    ASSUME NEW q \in Seq(Files), NEW lists
    PROVE  Tracker!Forget(q, lists) \in Seq(Files)
<1>1. \A K : Tracker!Filtered(q, K) = Filtered(q, K)
  BY DEF Tracker!Filtered, Filtered
<1> QED
  BY <1>1, FilteredType DEF Tracker!Forget

(* What a LOOKUP by p changes: lists stay lists, no entry becomes READY, and
   neither the answer nor its predictions have p in them. *)
LEMMA AfterHearLookup ==
    ASSUME TrackerType, NEW p \in Peers, NEW h \in Files, Tracker!Lookup(p, h)
    PROVE  /\ TrackerType'
           /\ \A f \in Files, q \in Peers :
                 Ready(q) \in Range(peers'[f]) => Ready(q) \in Range(peers[f])
           /\ reply'.peers \in Seq(PeerInfo) /\ LeavesOut(reply'.peers, p)
           /\ reply'.predicted \in SUBSET Predictions
           /\ \A e \in reply'.predicted : LeavesOut(e.peers, p)
<1>1. /\ DOMAIN queue = 1..Len(queue) /\ Len(queue) \in Nat
      /\ \A k \in 1..Len(queue) : queue[k] \in Files
  BY LenProperties, ElementOfSeq DEF TrackerType
<1>2. ASSUME NEW at \in DOMAIN queue, queue[at] = h, Tracker!LookupKnown(p, h, at)
      PROVE  /\ TrackerType'
             /\ \A f \in Files, q \in Peers :
                   Ready(q) \in Range(peers'[f]) => Ready(q) \in Range(peers[f])
             /\ reply'.peers \in Seq(PeerInfo) /\ LeavesOut(reply'.peers, p)
             /\ reply'.predicted \in SUBSET Predictions
             /\ \A e \in reply'.predicted : LeavesOut(e.peers, p)
  <2> DEFINE last == IF at + PREDICTIONS < Len(queue) THEN at + PREDICTIONS ELSE Len(queue)
             K == 0..(last - at)
             lists == [k \in K |-> peers[queue[at + k]]]
  <2>1. /\ last \in at..Len(queue) /\ 0 \in K
        /\ \A k \in K : k \in Nat /\ queue[at + k] \in Files
    BY <1>1, AvalancheAssumption
  <2>2. PICK ls \in Tracker!Reorderings(lists, Coop[p], stamps) :
          /\ peers' = [g \in Files |->
                 IF g = h THEN Tracker!AfterLookup(ls[0], p)
                 ELSE IF \E k \in DOMAIN ls : queue[at + k] = g
                 THEN ls[CHOOSE k \in DOMAIN ls : queue[at + k] = g]
                 ELSE peers[g]]
          /\ reply' = [to |-> p, hash |-> h, peers |-> Tracker!Offered(ls[0], p),
                       predicted |-> {[hash |-> queue[at + k],
                                       peers |-> Tracker!Offered(ls[k], p)] :
                                      k \in DOMAIN ls \ {0}}]
          /\ queue' = queue
    BY <1>2 DEF Tracker!LookupKnown
  <2> HIDE DEF last
  <2>3. DOMAIN ls = K /\ \A k \in K : ls[k] \in Arrangements(peers[queue[at + k]])
    BY <2>2, Reordered
  <2> HIDE DEF lists, K
  <2>4. ASSUME NEW k \in K
        PROVE  /\ ls[k] \in Seq(PeerInfo)
               /\ \A q : Ready(q) \in Range(ls[k]) => Ready(q) \in Range(peers[queue[at + k]])
               /\ Tracker!Offered(ls[k], p) \in Seq(PeerInfo)
               /\ LeavesOut(Tracker!Offered(ls[k], p), p)
    <3>1. peers[queue[at + k]] \in Seq(PeerInfo)
      BY <2>1 DEF TrackerType
    <3>2. /\ ls[k] \in Seq(PeerInfo)
          /\ \A j \in 1..Len(ls[k]) : \E m \in 1..Len(peers[queue[at + k]]) :
                ls[k][j] = peers[queue[at + k]][m]
      BY <2>3, <3>1, ArrangedPeers
    <3>3. \A q : Ready(q) \in Range(ls[k]) => Ready(q) \in Range(peers[queue[at + k]])
      <4> TAKE q
      <4> HAVE Ready(q) \in Range(ls[k])
      <4>1. PICK j \in 1..Len(ls[k]) : Ready(q) = ls[k][j]
        BY <3>2, RangeOf
      <4> QED
        BY <3>1, <3>2, <4>1, RangeOf
    <3>4. Offered(ls[k], p) \in Seq(PeerInfo) /\ LeavesOut(Offered(ls[k], p), p)
      BY <3>2, MarkedPeers, RequestorLeftOut DEF LeavesOut
    <3>5. Tracker!Offered(ls[k], p) = Offered(ls[k], p)
      BY SameLists
    <3> QED
      BY <3>2, <3>3, <3>4, <3>5
  <2>5. ASSUME NEW f \in Files
        PROVE  /\ peers'[f] \in Seq(PeerInfo)
               /\ \A q \in Peers : Ready(q) \in Range(peers'[f]) => Ready(q) \in Range(peers[f])
    <3>1. CASE f = h
      <4>1. peers'[f] = AfterLookup(ls[0], p)
        BY <2>2, <3>1, SameLists
      <4>2. /\ ls[0] \in Seq(PeerInfo)
            /\ \A q : Ready(q) \in Range(ls[0]) => Ready(q) \in Range(peers[h])
        BY <1>1, <1>2, <2>1, <2>4
      <4>3. AfterLookup(ls[0], p) \in Seq(PeerInfo)
        BY <4>2, MarkedPeers
      <4>4. \A q : Ready(q) \in Range(AfterLookup(ls[0], p)) => Ready(q) \in Range(ls[0])
        BY <4>2, NoNewReady
      <4> QED
        BY <3>1, <4>1, <4>2, <4>3, <4>4
    <3>2. CASE f # h /\ \E k \in K : queue[at + k] = f
      <4>1. PICK k \in K : queue[at + k] = f /\ peers'[f] = ls[k]
        BY <2>2, <2>3, <3>2
      <4> QED
        BY <2>4, <4>1
    <3>3. CASE f # h /\ ~ \E k \in K : queue[at + k] = f
      <4>1. peers'[f] = peers[f]
        BY <2>2, <2>3, <3>3
      <4> QED
        BY <4>1 DEF TrackerType
    <3> QED
      BY <3>1, <3>2, <3>3
  <2>6. TrackerType'
    <3>1. peers' = [f \in Files |-> peers'[f]]
      BY <2>2
    <3> QED
      BY <2>2, <2>5, <3>1 DEF TrackerType
  <2>7. /\ reply'.peers = Tracker!Offered(ls[0], p)
        /\ reply'.predicted = {[hash |-> queue[at + k], peers |-> Tracker!Offered(ls[k], p)] :
                                k \in K \ {0}}
    BY <2>2, <2>3
  <2>8. reply'.predicted \in SUBSET Predictions /\ \A e \in reply'.predicted : LeavesOut(e.peers, p)
    BY <2>1, <2>4, <2>7 DEF Predictions
  <2> QED
    BY <2>1, <2>4, <2>5, <2>6, <2>7, <2>8
<1>3. ASSUME Tracker!LookupNew(p, h)
      PROVE  /\ TrackerType'
             /\ \A f \in Files, q \in Peers :
                   Ready(q) \in Range(peers'[f]) => Ready(q) \in Range(peers[f])
             /\ reply'.peers \in Seq(PeerInfo) /\ LeavesOut(reply'.peers, p)
             /\ reply'.predicted \in SUBSET Predictions
             /\ \A e \in reply'.predicted : LeavesOut(e.peers, p)
  <2>1. /\ queue' = Append(queue, h)
        /\ peers' = [peers EXCEPT ![h] = Append(<<>>, [ip |-> p, state |-> DOWNLOADING])]
        /\ reply'.peers = <<>> /\ reply'.predicted = {}
    BY <1>3 DEF Tracker!LookupNew, Tracker!addpeer, Tracker!DOWNLOADING, DOWNLOADING
  <2>2. [ip |-> p, state |-> DOWNLOADING] \in PeerInfo /\ DOWNLOADING # READY
    BY DEF PeerInfo, DOWNLOADING, READY
  <2> DEFINE e == [ip |-> p, state |-> DOWNLOADING]
             one == Append(<<>>, e)
  <2>3. one \in Seq(PeerInfo) /\ Len(one) = 1 /\ one[1] = e
    BY <2>2, EmptySeq, AppendProperties
  <2>4. \A q : Ready(q) \notin Range(one)
    <3>1. \A q : Ready(q) # e
      BY <2>2 DEF Ready
    <3> HIDE DEF one, e
    <3> QED
      BY <2>3, <3>1, RangeOf
  <2> HIDE DEF one
  <2>5. queue' \in Seq(Files)
    BY <2>1, AppendProperties DEF TrackerType
  <2>6. peers' \in [Files -> Seq(PeerInfo)]
    BY <2>1, <2>3 DEF TrackerType, one
  <2>7. \A f \in Files, q \in Peers :
           Ready(q) \in Range(peers'[f]) => Ready(q) \in Range(peers[f])
    BY <2>1, <2>4 DEF TrackerType, one
  <2>8. LeavesOut(<<>>, p) /\ <<>> \in Seq(PeerInfo)
    BY EmptySeq DEF LeavesOut
  <2> QED
    BY <2>1, <2>5, <2>6, <2>7, <2>8 DEF TrackerType
<1> QED
  BY <1>2, <1>3 DEF Tracker!Lookup

(* After a REGISTER only its sender can be a new READY source, of its file. *)
LEMMA AfterRegister ==
    ASSUME TrackerType, NEW p \in Peers, NEW h \in Files, Tracker!Register(p, h)
    PROVE  /\ TrackerType'
           /\ \A f \in Files, q \in Peers :
                 Ready(q) \in Range(peers'[f]) =>
                     (Ready(q) \in Range(peers[f]) \/ (q = p /\ f = h))
<1>1. /\ peers' = [peers EXCEPT ![h] = MarkReady(peers[h], p)]
      /\ queue' = queue \/ queue' = Append(queue, h)
  BY SameLists DEF Tracker!Register
<1>2. queue' \in Seq(Files)
  <2>1. queue \in Seq(Files) /\ Append(queue, h) \in Seq(Files)
    BY AppendProperties DEF TrackerType
  <2> QED
    BY <1>1, <2>1
<1>3. MarkReady(peers[h], p) \in Seq(PeerInfo)
  BY MarkedPeers DEF TrackerType
<1>4. \A q : Ready(q) \in Range(MarkReady(peers[h], p)) =>
                (Ready(q) \in Range(peers[h]) \/ q = p)
  BY NoNewReady DEF TrackerType
<1> QED
  BY <1>1, <1>2, <1>3, <1>4 DEF TrackerType

(* After an UNREGISTER, a PEER_DONE or a restart there is no new one. *)
LEMMA AfterDrop ==
    ASSUME TrackerType,
           \/ \E p \in Peers, h \in Files : Tracker!Unregister(p, h)
           \/ \E p \in Peers : Tracker!PeerDone(p)
           \/ Tracker!Restart
    PROVE  /\ TrackerType'
           /\ \A f \in Files, q \in Peers :
                 Ready(q) \in Range(peers'[f]) => Ready(q) \in Range(peers[f])
<1>1. ASSUME NEW f \in Files, NEW p \in Peers
      PROVE  /\ RemovePeer(peers[f], p) \in Seq(PeerInfo)
             /\ \A q : Ready(q) \in Range(RemovePeer(peers[f], p)) => Ready(q) \in Range(peers[f])
  BY RemovedPeers, NoNewReady DEF TrackerType
<1>2. ASSUME NEW p \in Peers, NEW h \in Files, Tracker!Unregister(p, h)
      PROVE  /\ TrackerType'
             /\ \A f \in Files, q \in Peers :
                   Ready(q) \in Range(peers'[f]) => Ready(q) \in Range(peers[f])
  <2>1. /\ peers' = [peers EXCEPT ![h] = RemovePeer(peers[h], p)]
        /\ queue' = Tracker!Forget(queue, peers')
    BY <1>2, SameLists DEF Tracker!Unregister
  <2> QED
    BY <1>1, <2>1, Forgotten DEF TrackerType
<1>3. ASSUME NEW p \in Peers, Tracker!PeerDone(p)
      PROVE  /\ TrackerType'
             /\ \A f \in Files, q \in Peers :
                   Ready(q) \in Range(peers'[f]) => Ready(q) \in Range(peers[f])
  <2>1. /\ peers' = [f \in Files |-> Tracker!RemovePeer(peers[f], p)]
        /\ queue' = Tracker!Forget(queue, peers')
    BY <1>3 DEF Tracker!PeerDone
  <2>2. \A f \in Files : peers'[f] = RemovePeer(peers[f], p)
    BY <2>1, SameLists
  <2>3. peers' \in [Files -> Seq(PeerInfo)]
    BY <1>1, <2>1, <2>2
  <2> QED
    BY <1>1, <2>1, <2>2, <2>3, Forgotten DEF TrackerType
<1>4. CASE Tracker!Restart
  <2>1. queue' = <<>> /\ peers' = [f \in Files |-> <<>>]
    BY <1>4 DEF Tracker!Restart
  <2>2. Range(<<>>) = {} /\ <<>> \in Seq(PeerInfo) /\ <<>> \in Seq(Files)
    BY EmptySeq DEF Range
  <2> QED
    BY <2>1, <2>2 DEF TrackerType
<1> QED
  BY <1>2, <1>3, <1>4

-----------------------------------------------------------------------------
(* Types. *)

(* The process w of p goes on, and no other one. *)
Moves(p, w) ==
    /\ job' \in [Peers -> [Workers -> Job]]
    /\ \A q \in Peers, v \in Workers :
          ~ (q = p /\ v = w) => job'[q][v] = job[q][v]

(* What is in a datagram follows from its operation. *)
LEMMA Datagrams ==
    ASSUME NEW m \in Datagram
    PROVE  /\ m.op = "LOOKUP" =>
                 m.from \in Peers /\ m.worker \in Workers /\ m.seqno \in Nat /\ m.hash \in Files
           /\ m.op = "ANSWER" =>
                 /\ m.from \in Peers /\ m.peers \in Seq(PeerInfo)
                 /\ m.predicted \in SUBSET Predictions
           /\ m.op \in {"REGISTER", "UNREGISTER"} => m.peer \in Peers /\ m.hash \in Files
           /\ m.op = "PEER_DONE" => m.peer \in Peers
BY DEF Datagram, Predictions

(* A process that goes on changes no other one. *)
LEMMA Continued ==
    ASSUME job \in [Peers -> [Workers -> Job]], NEW p \in Peers, NEW w \in Workers,
           NEW next \in Job, Continue(p, w, next)
    PROVE  Moves(p, w) /\ job'[p][w] = next
BY DEF Continue, Moves

(* The source of a file has it, intact or not, or has none. *)
LEMMA Sources ==
    ASSUME TypeOK, NEW j \in Job, j.file \in Files, FromPeer(j)
    PROVE  /\ Head(j.left) \in PeerInfo /\ Head(j.left).ip \in Peers
           /\ Tail(j.left) \in Seq(PeerInfo)
           /\ Source(j) \in Content \cup {None}
<1>1. j.left \in Seq(PeerInfo) /\ j.left # <<>>
  BY DEF Job, FromPeer
<1>2. Head(j.left) \in PeerInfo /\ Tail(j.left) \in Seq(PeerInfo)
  BY <1>1, HeadTailProperties
<1>3. Head(j.left).ip \in Peers
  BY <1>2 DEF PeerInfo
<1> QED
  BY <1>2, <1>3 DEF Source, TypeOK

(* The requests a process may have are jobs. *)
LEMMA Jobs ==
    ASSUME TypeOK, NEW p \in Peers, NEW w \in Workers
    PROVE  /\ job[p][w] \in Job
           /\ \A outcome \in {None, "200", "404"} : [Idle EXCEPT !.outcome = outcome] \in Job
           /\ \A f \in Files, pc \in {"local", "waiting"} :
                 [Idle EXCEPT !.pc = pc, !.file = f, !.outcome = job[p][w].outcome] \in Job
           /\ \A f \in Files, e \in predictions[p][w] :
                 [Idle EXCEPT !.pc = "trying", !.left = e.peers, !.file = f,
                              !.outcome = job[p][w].outcome] \in Job
<1>1. job[p][w] \in Job /\ 0 \in 0..PkgServers /\ <<>> \in Seq(PeerInfo)
  BY AvalancheAssumption, EmptySeq DEF TypeOK
<1>2. \A e \in predictions[p][w] : e.peers \in Seq(PeerInfo)
  BY DEF TypeOK
<1> QED
  BY <1>1, <1>2 DEF Job, Idle

(* Whether trackfile asks the tracker or has a prediction. *)
LEMMA TrackEffect ==
    ASSUME TypeOK, NEW p \in Peers, NEW w \in Workers, NEW f \in Files, Track(p, w, f)
    PROVE  /\ Moves(p, w)
           /\ job'[p][w].pc \in {"waiting", "trying"} /\ job'[p][w].file = f
           /\ job'[p][w].pkg = 0 /\ job'[p][w].outcome = job[p][w].outcome
           /\ \/ job'[p][w].left = <<>>
              \/ /\ job'[p][w].pc = "trying"
                 /\ \E e \in predictions[p][w] : job'[p][w].left = e.peers
           /\ sent' \subseteq Datagram /\ seqno' \in [Peers -> [Workers -> Nat]]
           /\ \A d \in sent' \ sent : d.op = "LOOKUP"
<1>1. \/ \E e \in predictions[p][w] :
            Continue(p, w, [Idle EXCEPT !.pc = "trying", !.left = e.peers, !.file = f,
                                        !.outcome = job[p][w].outcome])
      \/ Continue(p, w, [Idle EXCEPT !.pc = "waiting", !.file = f,
                                     !.outcome = job[p][w].outcome])
  BY DEF Track, Predicted, Idle
<1>2. ASSUME Continue(p, w, [Idle EXCEPT !.pc = "waiting", !.file = f,
                                        !.outcome = job[p][w].outcome])
      PROVE  /\ Moves(p, w) /\ job'[p][w].pc = "waiting" /\ job'[p][w].file = f
             /\ job'[p][w].pkg = 0 /\ job'[p][w].outcome = job[p][w].outcome
             /\ job'[p][w].left = <<>>
  <2> DEFINE next == [Idle EXCEPT !.pc = "waiting", !.file = f, !.outcome = job[p][w].outcome]
  <2>1. next \in Job
    BY Jobs
  <2>2. next.pc = "waiting" /\ next.file = f /\ next.pkg = 0 /\ next.left = <<>>
        /\ next.outcome = job[p][w].outcome
    BY DEF Idle
  <2> HIDE DEF next
  <2>3. Moves(p, w) /\ job'[p][w] = next
    BY <1>2, <2>1, Continued DEF TypeOK, next
  <2> QED
    BY <2>2, <2>3
<1>3. ASSUME NEW e \in predictions[p][w],
             Continue(p, w, [Idle EXCEPT !.pc = "trying", !.left = e.peers, !.file = f,
                                         !.outcome = job[p][w].outcome])
      PROVE  /\ Moves(p, w) /\ job'[p][w].pc = "trying" /\ job'[p][w].file = f
             /\ job'[p][w].pkg = 0 /\ job'[p][w].outcome = job[p][w].outcome
             /\ job'[p][w].left = e.peers
  <2> DEFINE next == [Idle EXCEPT !.pc = "trying", !.left = e.peers, !.file = f,
                                  !.outcome = job[p][w].outcome]
  <2>1. next \in Job
    BY Jobs
  <2>2. next.pc = "trying" /\ next.file = f /\ next.pkg = 0 /\ next.left = e.peers
        /\ next.outcome = job[p][w].outcome
    BY DEF Idle
  <2> HIDE DEF next
  <2>3. Moves(p, w) /\ job'[p][w] = next
    BY <1>3, <2>1, Continued DEF TypeOK, next
  <2> QED
    BY <2>2, <2>3
<1> DEFINE m == [op |-> "LOOKUP", from |-> p, worker |-> w, seqno |-> seqno[p][w], hash |-> f]
<1>4. m \in Datagram /\ m.op = "LOOKUP"
  BY DEF Datagram, TypeOK
<1>5. /\ sent' = sent \/ sent' = sent \cup {m}
      /\ seqno' = seqno \/ seqno' = [seqno EXCEPT ![p][w] = seqno[p][w] + 1]
  BY Zenon DEF Track, Send
<1> HIDE DEF m
<1>6. sent' \subseteq Datagram /\ \A d \in sent' \ sent : d.op = "LOOKUP"
  BY <1>4, <1>5 DEF TypeOK
<1>7. seqno' \in [Peers -> [Workers -> Nat]]
  <2>1. /\ seqno \in [Peers -> [Workers -> Nat]]
        /\ seqno[p][w] + 1 \in Nat
    BY DEF TypeOK
  <2>2. [seqno EXCEPT ![p][w] = seqno[p][w] + 1] \in [Peers -> [Workers -> Nat]]
    BY <2>1
  <2> QED
    BY <1>5, <2>1, <2>2
<1> QED
  BY <1>1, <1>2, <1>3, <1>6, <1>7

(* Whoever the source was that failed, another one is tried. *)
LEMMA NextSourceEffect ==
    ASSUME TypeOK, NEW p \in Peers, NEW w \in Workers, job[p][w].file \in Files,
           NextSource(p, w)
    PROVE  /\ Moves(p, w)
           /\ job'[p][w].pc = "trying" /\ job'[p][w].file = job[p][w].file
           /\ job'[p][w].pkg = job[p][w].pkg /\ job'[p][w].outcome = job[p][w].outcome
           /\ job'[p][w].left = IF FromPeer(job[p][w]) THEN Tail(job[p][w].left) ELSE <<>>
           /\ sent' \subseteq Datagram
           /\ \A d \in sent' \ sent : d.op = "UNREGISTER"
<1> DEFINE j == job[p][w]
<1>1. j \in Job
  BY Jobs
<1>2. CASE FromPeer(j)
  <2> DEFINE next == [j EXCEPT !.pc = "trying", !.tmp = None, !.left = Tail(j.left)]
             m == [op |-> "UNREGISTER", peer |-> Head(j.left).ip, hash |-> j.file]
  <2>1. sent' = sent \cup {m} /\ Continue(p, w, next)
    BY <1>2 DEF NextSource, Send
  <2>2. next \in Job
    BY <1>1, <1>2, Sources DEF Job
  <2>3. m \in Datagram /\ m.op = "UNREGISTER"
    BY <1>1, <1>2, Sources DEF Datagram
  <2>4. /\ next.pc = "trying" /\ next.file = j.file /\ next.pkg = j.pkg
        /\ next.outcome = j.outcome /\ next.left = Tail(j.left)
    BY <1>1 DEF Job
  <2>5. sent' \subseteq Datagram /\ \A d \in sent' \ sent : d.op = "UNREGISTER"
    <3> HIDE DEF m
    <3> QED
      BY <2>1, <2>3 DEF TypeOK
  <2> HIDE DEF next
  <2> QED
    BY <1>2, <2>1, <2>2, <2>4, <2>5, Continued DEF TypeOK
<1>3. CASE ~ FromPeer(j)
  <2> DEFINE next == [j EXCEPT !.pc = "trying", !.tmp = None]
  <2>1. sent' = sent /\ Continue(p, w, next)
    BY <1>3 DEF NextSource
  <2>2. next \in Job
    BY <1>1 DEF Job
  <2>3. /\ next.pc = "trying" /\ next.file = j.file /\ next.pkg = j.pkg
        /\ next.outcome = j.outcome /\ next.left = <<>>
    BY <1>1, <1>3 DEF Job, FromPeer
  <2> HIDE DEF next
  <2> QED
    BY <1>3, <2>1, <2>2, <2>3, Continued DEF TypeOK
<1> QED
  BY <1>2, <1>3

(* An answer to the installer ends the request. *)
LEMMA AnsweredEffect ==
    ASSUME TypeOK, NEW p \in Peers, NEW w \in Workers, NEW outcome \in {"200", "404"},
           Answered(p, w, outcome)
    PROVE  /\ Moves(p, w)
           /\ job'[p][w].pc = "idle" /\ job'[p][w].left = <<>>
           /\ job'[p][w].outcome = outcome
<1> DEFINE next == [Idle EXCEPT !.outcome = outcome]
<1>1. next \in Job
  BY Jobs
<1>2. next.pc = "idle" /\ next.left = <<>> /\ next.outcome = outcome
  BY DEF Idle
<1>3. Continue(p, w, next)
  BY DEF Answered
<1> HIDE DEF next
<1> QED
  BY <1>1, <1>2, <1>3, Continued DEF TypeOK

(* The process w of p goes on with the same request: what it does next, the
   sources it has left and what is in its temporary file. *)
GoesTo(p, w, pc, left, pkg, tmp) ==
    /\ Moves(p, w)
    /\ job'[p][w].pc = pc /\ job'[p][w].left = left
    /\ job'[p][w].pkg = pkg /\ job'[p][w].tmp = tmp
    /\ job'[p][w].file = job[p][w].file
    /\ job'[p][w].outcome = job[p][w].outcome

LEMMA GoesOn ==
    ASSUME TypeOK, NEW p \in Peers, NEW w \in Workers,
           NEW pc \in {"trying", "downloading", "renaming", "output", "announcing"},
           NEW left \in Seq(PeerInfo), NEW pkg \in 0..PkgServers,
           NEW tmp \in Content \cup {None},
           Continue(p, w, [job[p][w] EXCEPT !.pc = pc, !.left = left, !.pkg = pkg,
                                            !.tmp = tmp])
    PROVE  GoesTo(p, w, pc, left, pkg, tmp)
<1> DEFINE j == job[p][w]
           next == [j EXCEPT !.pc = pc, !.left = left, !.pkg = pkg, !.tmp = tmp]
<1>1. j \in Job
  BY Jobs
<1>2. next \in Job
  BY <1>1 DEF Job
<1>3. /\ next.pc = pc /\ next.left = left /\ next.pkg = pkg /\ next.tmp = tmp
      /\ next.file = j.file /\ next.outcome = j.outcome
  BY <1>1 DEF Job
<1>4. Continue(p, w, next)
  OBVIOUS
<1> HIDE DEF next
<1> QED
  BY <1>2, <1>3, <1>4, Continued DEF TypeOK, GoesTo

(* The steps that leave the disk, the datagrams and the predictions alone. *)
LEMMA QuietEffect ==
    ASSUME TypeOK, NEW p \in Peers, NEW w \in Workers, job[p][w].file \in Files
    PROVE  LET j == job[p][w] IN
           /\ Timeout(p, w) => GoesTo(p, w, "trying", j.left, j.pkg, j.tmp)
           /\ Connect(p, w) =>
                 \/ /\ FromPeer(j)
                    /\ GoesTo(p, w, "downloading", j.left, j.pkg, Source(j))
                 \/ /\ ~ FromPeer(j) /\ j.pkg < PkgServers
                    /\ GoesTo(p, w, "downloading", j.left, j.pkg + 1, "good")
                 \/ /\ ~ FromPeer(j) /\ j.pkg = PkgServers
                    /\ Answered(p, w, "404")
           /\ Downloaded(p, w) =>
                 \E c \in Content :
                     /\ c = "bad" => j.tmp = "bad" \/ j.file \notin Checked
                     /\ GoesTo(p, w, "renaming", j.left, j.pkg, c)
<1> DEFINE j == job[p][w]
<1>1. j \in Job /\ j.left \in Seq(PeerInfo) /\ j.pkg \in 0..PkgServers
      /\ j.tmp \in Content \cup {None}
  <2>1. j \in Job
    BY Jobs
  <2> QED
    BY <2>1 DEF Job
<1>2. ASSUME Timeout(p, w) PROVE GoesTo(p, w, "trying", j.left, j.pkg, j.tmp)
  <2>1. Continue(p, w, [j EXCEPT !.pc = "trying", !.left = j.left, !.pkg = j.pkg,
                                 !.tmp = j.tmp])
    BY <1>1, <1>2 DEF Timeout, Job
  <2> QED
    BY <1>1, <2>1, GoesOn
<1>3. ASSUME Connect(p, w)
      PROVE  \/ FromPeer(j) /\ GoesTo(p, w, "downloading", j.left, j.pkg, Source(j))
             \/ /\ ~ FromPeer(j) /\ j.pkg < PkgServers
                /\ GoesTo(p, w, "downloading", j.left, j.pkg + 1, "good")
             \/ ~ FromPeer(j) /\ j.pkg = PkgServers /\ Answered(p, w, "404")
  <2>1. CASE FromPeer(j)
    <3>1. Source(j) \in Content \cup {None}
      BY <1>1, <2>1, Sources
    <3>2. Continue(p, w, [j EXCEPT !.pc = "downloading", !.left = j.left, !.pkg = j.pkg,
                                   !.tmp = Source(j)])
      BY <1>1, <1>3, <2>1 DEF Connect, Job
    <3> QED
      BY <1>1, <2>1, <3>1, <3>2, GoesOn
  <2>2. CASE ~ FromPeer(j) /\ j.pkg < PkgServers
    <3>1. j.pkg + 1 \in 0..PkgServers /\ "good" \in Content \cup {None}
      BY <1>1, <2>2, AvalancheAssumption DEF Content
    <3>2. Continue(p, w, [j EXCEPT !.pc = "downloading", !.left = j.left,
                                   !.pkg = j.pkg + 1, !.tmp = "good"])
      BY <1>1, <1>3, <2>2 DEF Connect, Job
    <3> QED
      BY <1>1, <2>2, <3>1, <3>2, GoesOn
  <2>3. CASE ~ FromPeer(j) /\ ~ (j.pkg < PkgServers)
    <3>1. j.pkg = PkgServers
      BY <1>1, <2>3, AvalancheAssumption
    <3> QED
      BY <1>3, <2>3, <3>1 DEF Connect
  <2> QED
    BY <2>1, <2>2, <2>3
<1>4. ASSUME Downloaded(p, w)
      PROVE  \E c \in Content :
                 /\ c = "bad" => j.tmp = "bad" \/ j.file \notin Checked
                 /\ GoesTo(p, w, "renaming", j.left, j.pkg, c)
  <2>1. PICK c \in {j.tmp, "bad"} :
            /\ c = "bad" => j.file \notin Checked
            /\ Continue(p, w, [j EXCEPT !.pc = "renaming", !.tmp = c])
    BY <1>4 DEF Downloaded
  <2>2. c \in Content
    BY <1>1, <1>4, <2>1 DEF Downloaded, Content
  <2>3. Continue(p, w, [j EXCEPT !.pc = "renaming", !.left = j.left, !.pkg = j.pkg,
                                 !.tmp = c])
    BY <1>1, <2>1 DEF Job
  <2>4. GoesTo(p, w, "renaming", j.left, j.pkg, c)
    BY <1>1, <2>2, <2>3, GoesOn
  <2> QED
    BY <2>1, <2>2, <2>4
<1> QED
  BY <1>2, <1>3, <1>4

(* The steps that hear an answer, keep the file and find it on the disk. *)
LEMMA FileEffect ==
    ASSUME TypeOK, NEW p \in Peers, NEW w \in Workers, job[p][w].file \in Files
    PROVE  LET j == job[p][w] IN
           /\ Receive(p, w) =>
                 \E m \in sent :
                     /\ m.op = "ANSWER" /\ m.from = p
                     /\ GoesTo(p, w, "trying", m.peers, j.pkg, j.tmp)
                     /\ \/ predictions' = predictions
                        \/ predictions' = [predictions EXCEPT ![p][w] = m.predicted]
           /\ Rename(p, w) => GoesTo(p, w, "output", j.left, j.pkg, None)
           /\ Output(p, w) =>
                 \/ /\ Has(p, j.file) /\ sent' = sent
                    /\ GoesTo(p, w, "announcing", j.left, j.pkg, j.tmp)
                 \/ ~ Has(p, j.file) /\ NextSource(p, w)
<1> DEFINE j == job[p][w]
<1>1. j \in Job /\ j.left \in Seq(PeerInfo) /\ j.pkg \in 0..PkgServers
      /\ j.tmp \in Content \cup {None}
  <2>1. j \in Job
    BY Jobs
  <2> QED
    BY <2>1 DEF Job
<1>2. ASSUME Receive(p, w)
      PROVE  \E m \in sent :
                 /\ m.op = "ANSWER" /\ m.from = p
                 /\ GoesTo(p, w, "trying", m.peers, j.pkg, j.tmp)
                 /\ \/ predictions' = predictions
                    \/ predictions' = [predictions EXCEPT ![p][w] = m.predicted]
  <2>1. PICK m \in sent :
            /\ m.op = "ANSWER" /\ m.from = p
            /\ Continue(p, w, [j EXCEPT !.pc = "trying", !.left = m.peers])
            /\ \/ predictions' = predictions
               \/ predictions' = [predictions EXCEPT ![p][w] = m.predicted]
    BY <1>2 DEF Receive
  <2>2. m.peers \in Seq(PeerInfo)
    BY <2>1, Datagrams DEF TypeOK
  <2>3. Continue(p, w, [j EXCEPT !.pc = "trying", !.left = m.peers, !.pkg = j.pkg,
                                 !.tmp = j.tmp])
    BY <1>1, <2>1 DEF Job
  <2>4. GoesTo(p, w, "trying", m.peers, j.pkg, j.tmp)
    BY <1>1, <2>2, <2>3, GoesOn
  <2> QED
    BY <2>1, <2>4
<1>3. ASSUME Rename(p, w) PROVE GoesTo(p, w, "output", j.left, j.pkg, None)
  <2>1. Continue(p, w, [j EXCEPT !.pc = "output", !.left = j.left, !.pkg = j.pkg,
                                 !.tmp = None])
    BY <1>1, <1>3 DEF Rename, Job
  <2> QED
    BY <1>1, <2>1, GoesOn
<1>4. ASSUME Output(p, w)
      PROVE  \/ /\ Has(p, j.file) /\ sent' = sent
                /\ GoesTo(p, w, "announcing", j.left, j.pkg, j.tmp)
             \/ ~ Has(p, j.file) /\ NextSource(p, w)
  <2>1. CASE Has(p, j.file)
    <3>1. sent' = sent /\ Continue(p, w, [j EXCEPT !.pc = "announcing"])
      BY <1>4, <2>1 DEF Output
    <3>2. Continue(p, w, [j EXCEPT !.pc = "announcing", !.left = j.left, !.pkg = j.pkg,
                                   !.tmp = j.tmp])
      BY <1>1, <3>1 DEF Job
    <3> QED
      BY <1>1, <2>1, <3>1, <3>2, GoesOn
  <2>2. CASE ~ Has(p, j.file)
    BY <1>4, <2>2 DEF Output
  <2> QED
    BY <2>1, <2>2
<1> QED
  BY <1>2, <1>3, <1>4

-----------------------------------------------------------------------------
(* What is so whatever the tracker and the other processes do.  A request
   that has its answer from the tracker may hold peers or be at the package
   servers, never both; a temporary file that check_md5 has let through, or
   that came from a source, is intact if packages.md5 lists it. *)
JobOK(p, j) ==
    /\ j.pc # "idle" => j.file \in Files
    /\ j.pc \in {"downloading", "renaming"} /\ j.file \in Checked => j.tmp # "bad"
    /\ j.pc = "renaming" => j.tmp # None
    /\ LeavesOut(j.left, p)
    /\ j.left # <<>> => j.pkg = 0
    /\ j.pc \in {"local", "waiting"} => j.left = <<>> /\ j.pkg = 0

AnswersLeaveOut ==
    \A m \in sent : m.op = "ANSWER" =>
        /\ LeavesOut(m.peers, m.from)
        /\ \A e \in m.predicted : LeavesOut(e.peers, m.from)

PredictionsLeaveOut ==
    \A p \in Peers, w \in Workers : \A e \in predictions[p][w] : LeavesOut(e.peers, p)

Inv ==
    /\ TypeOK /\ TrackerType
    /\ \A p \in Peers, w \in Workers : JobOK(p, job[p][w])
    /\ CheckedIsGood
    /\ AnswersLeaveOut
    /\ PredictionsLeaveOut

(* What a step of the process w of p establishes of them. *)
Effect(p, w) ==
    /\ Moves(p, w) /\ JobOK(p, job'[p][w])
    /\ disk' \in [Peers -> [Files -> Content \cup {None}]] /\ CheckedIsGood'
    /\ sent' \subseteq Datagram /\ \A m \in sent' \ sent : m.op # "ANSWER"
    /\ seqno' \in [Peers -> [Workers -> Nat]]
    /\ predictions' \in [Peers -> [Workers -> SUBSET Predictions]]
    /\ PredictionsLeaveOut'
    /\ tracker' = tracker /\ finished' = finished

(* Asking for a file, as a new request or as one whose file is gone. *)
LEMMA TrackStep ==
    ASSUME Inv, NEW p \in Peers, NEW w \in Workers, NEW f \in Files, Track(p, w, f),
           UNCHANGED <<tracker, disk, finished, predictions>>
    PROVE  Effect(p, w)
<1>1. /\ Moves(p, w)
      /\ job'[p][w].pc \in {"waiting", "trying"} /\ job'[p][w].file = f
      /\ job'[p][w].pkg = 0
      /\ \/ job'[p][w].left = <<>>
         \/ /\ job'[p][w].pc = "trying"
            /\ \E e \in predictions[p][w] : job'[p][w].left = e.peers
      /\ sent' \subseteq Datagram /\ seqno' \in [Peers -> [Workers -> Nat]]
      /\ \A d \in sent' \ sent : d.op = "LOOKUP"
  BY TrackEffect DEF Inv
<1>2. LeavesOut(job'[p][w].left, p)
  BY <1>1 DEF Inv, PredictionsLeaveOut, LeavesOut
<1>3. JobOK(p, job'[p][w])
  BY <1>1, <1>2 DEF JobOK
<1>4. CheckedIsGood' /\ PredictionsLeaveOut' /\ tracker' = tracker
  BY DEF Inv, CheckedIsGood, PredictionsLeaveOut, tracker
<1> QED
  BY <1>1, <1>3, <1>4 DEF Effect, Inv, TypeOK, Predictions

(* The steps that only tell the process what to do next. *)
LEMMA QuietStep ==
    ASSUME Inv, NEW p \in Peers, NEW w \in Workers,
           Timeout(p, w) \/ Connect(p, w) \/ Downloaded(p, w)
    PROVE  Effect(p, w)
<1> DEFINE j == job[p][w]
<1>1. /\ j.pc \in {"waiting", "trying", "downloading"}
      /\ UNCHANGED <<tracker, sent, disk, finished, seqno, predictions>>
  BY DEF Timeout, Connect, Downloaded, At
<1>2. /\ JobOK(p, j) /\ j.file \in Files
      /\ TypeOK /\ CheckedIsGood /\ PredictionsLeaveOut
  BY <1>1 DEF Inv, JobOK
<1>3. Moves(p, w) /\ JobOK(p, job'[p][w])
  <2>1. CASE Timeout(p, w)
    <3>1. GoesTo(p, w, "trying", j.left, j.pkg, j.tmp)
      BY <1>2, <2>1, QuietEffect
    <3> QED
      BY <1>2, <3>1 DEF GoesTo, JobOK
  <2>2. CASE Connect(p, w)
    <3>1. CASE FromPeer(j) /\ GoesTo(p, w, "downloading", j.left, j.pkg, Source(j))
      <4>1. j.file \in Checked => Source(j) # "bad"
        <5>1. Head(j.left).ip \in Peers
          BY <1>2, <3>1, Sources, Jobs
        <5> QED
          BY <1>2, <5>1 DEF Source, CheckedIsGood, None
      <4> QED
        BY <1>2, <3>1, <4>1 DEF GoesTo, JobOK
    <3>2. CASE ~ FromPeer(j) /\ GoesTo(p, w, "downloading", j.left, j.pkg + 1, "good")
      BY <1>2, <3>2 DEF GoesTo, JobOK, FromPeer
    <3>3. CASE Answered(p, w, "404")
      <4>1. Moves(p, w) /\ job'[p][w].pc = "idle" /\ job'[p][w].left = <<>>
        BY <1>2, <3>3, AnsweredEffect
      <4> QED
        BY <4>1 DEF JobOK, LeavesOut
    <3> QED
      BY <1>2, <2>2, <3>1, <3>2, <3>3, QuietEffect
  <2>3. CASE Downloaded(p, w)
    <3>1. PICK c \in Content :
              /\ c = "bad" => j.tmp = "bad" \/ j.file \notin Checked
              /\ GoesTo(p, w, "renaming", j.left, j.pkg, c)
      BY <1>2, <2>3, QuietEffect
    <3>2. j.pc = "downloading"
      BY <2>3 DEF Downloaded, At
    <3> QED
      BY <1>2, <3>1, <3>2 DEF GoesTo, JobOK, Content, None
  <2> QED
    BY <2>1, <2>2, <2>3
<1>4. CheckedIsGood' /\ PredictionsLeaveOut'
  BY <1>1, <1>2 DEF CheckedIsGood, PredictionsLeaveOut
<1> QED
  BY <1>1, <1>2, <1>3, <1>4 DEF Effect, TypeOK, Predictions

(* A source that failed, and what was under the name of the file perhaps
   gone. *)
LEMMA NextSourceStep ==
    ASSUME Inv, NEW p \in Peers, NEW w \in Workers,
           job[p][w].pc \in {"downloading", "output"}, NextSource(p, w),
           disk' = disk \/ disk' = [disk EXCEPT ![p][job[p][w].file] = None],
           UNCHANGED <<tracker, finished, seqno, predictions>>
    PROVE  Effect(p, w)
<1> DEFINE j == job[p][w]
<1>1. TypeOK /\ JobOK(p, j) /\ j.file \in Files
  BY DEF Inv, JobOK
<1>2. /\ Moves(p, w)
      /\ job'[p][w].pc = "trying" /\ job'[p][w].file = j.file
      /\ job'[p][w].pkg = j.pkg
      /\ job'[p][w].left = IF FromPeer(j) THEN Tail(j.left) ELSE <<>>
      /\ sent' \subseteq Datagram /\ \A d \in sent' \ sent : d.op = "UNREGISTER"
  BY <1>1, NextSourceEffect
<1>3. LeavesOut(job'[p][w].left, p)
  <2>1. CASE FromPeer(j)
    <3>1. j.left \in Seq(PeerInfo) /\ j.left # <<>>
      <4>1. j \in Job
        BY <1>1, Jobs
      <4> QED
        BY <2>1, <4>1 DEF Job, FromPeer
    <3>2. \A k \in DOMAIN Tail(j.left) : k + 1 \in DOMAIN j.left /\ Tail(j.left)[k] = j.left[k + 1]
      <4>1. /\ Tail(j.left) \in Seq(PeerInfo) /\ Len(Tail(j.left)) = Len(j.left) - 1
            /\ \A k \in 1..Len(Tail(j.left)) : Tail(j.left)[k] = j.left[k + 1]
        BY <3>1, HeadTailProperties
      <4>2. DOMAIN Tail(j.left) = 1..Len(Tail(j.left)) /\ DOMAIN j.left = 1..Len(j.left)
            /\ Len(j.left) \in Nat
        BY <3>1, <4>1, LenProperties
      <4> QED
        BY <4>1, <4>2
    <3> QED
      BY <1>1, <1>2, <2>1, <3>2 DEF JobOK, LeavesOut
  <2>2. CASE ~ FromPeer(j)
    BY <1>2, <2>2 DEF LeavesOut
  <2> QED
    BY <2>1, <2>2
<1>4. JobOK(p, job'[p][w])
  BY <1>1, <1>2, <1>3 DEF JobOK, FromPeer
<1>5. disk' \in [Peers -> [Files -> Content \cup {None}]] /\ CheckedIsGood'
  <2>1. disk \in [Peers -> [Files -> Content \cup {None}]] /\ CheckedIsGood
    BY <1>1 DEF TypeOK, Inv
  <2>2. \A q \in Peers, f \in Files : disk'[q][f] = disk[q][f] \/ disk'[q][f] = None
    BY <1>1, <2>1
  <2>3. [disk EXCEPT ![p][j.file] = None] \in [Peers -> [Files -> Content \cup {None}]]
    BY <1>1, <2>1
  <2>4. CheckedIsGood'
    BY <2>1, <2>2, AvalancheAssumption DEF CheckedIsGood, None
  <2> QED
    BY <2>1, <2>3, <2>4
<1>6. PredictionsLeaveOut' /\ predictions' \in [Peers -> [Workers -> SUBSET Predictions]]
  BY <1>1 DEF Inv, PredictionsLeaveOut, TypeOK, Predictions
<1> QED
  BY <1>1, <1>2, <1>4, <1>5, <1>6 DEF Effect, TypeOK

(* Whatever a process does, its request and the files stay as they should. *)
LEMMA ClientStep ==
    ASSUME Inv, NEW p \in Peers, NEW w \in Workers,
           Step(p, w) \/ \E f \in Files : Request(p, w, f)
    PROVE  Effect(p, w)
<1> DEFINE j == job[p][w]
<1>1. /\ TypeOK /\ JobOK(p, j)
      /\ CheckedIsGood /\ PredictionsLeaveOut /\ AnswersLeaveOut
  BY DEF Inv
<1>2. ASSUME NEW f \in Files, Request(p, w, f) PROVE Effect(p, w)
  <2>1. UNCHANGED <<tracker, disk, finished, predictions>>
    BY <1>2 DEF Request
  <2>2. CASE Has(p, f)
    <3> DEFINE next == [Idle EXCEPT !.pc = "local", !.file = f, !.outcome = j.outcome]
    <3>1. Continue(p, w, next) /\ UNCHANGED <<sent, seqno>>
      BY <1>2, <2>2 DEF Request
    <3>2. next \in Job
      BY <1>1, Jobs
    <3>3. next.pc = "local" /\ next.left = <<>> /\ next.file = f /\ next.pkg = 0
      BY DEF Idle
    <3> HIDE DEF next
    <3>4. Moves(p, w) /\ job'[p][w] = next
      BY <1>1, <3>1, <3>2, Continued DEF TypeOK
    <3>5. JobOK(p, job'[p][w])
      BY <3>3, <3>4 DEF JobOK, LeavesOut
    <3>6. CheckedIsGood' /\ PredictionsLeaveOut'
      BY <1>1, <2>1 DEF CheckedIsGood, PredictionsLeaveOut
    <3> QED
      BY <1>1, <2>1, <3>1, <3>4, <3>5, <3>6 DEF Effect, TypeOK, Predictions
  <2>3. CASE ~ Has(p, f)
    BY <1>2, <2>1, <2>3, TrackStep DEF Request
  <2> QED
    BY <2>2, <2>3
<1>3. CASE ServeLocal(p, w)
  <2>1. UNCHANGED <<tracker, disk, finished, predictions>> /\ j.file \in Files
    BY <1>1, <1>3 DEF ServeLocal, JobOK, At
  <2>2. CASE Has(p, j.file)
    <3>1. Answered(p, w, "200") /\ UNCHANGED <<sent, seqno>>
      BY <1>3, <2>2 DEF ServeLocal
    <3>2. Moves(p, w) /\ job'[p][w].pc = "idle" /\ job'[p][w].left = <<>>
      BY <1>1, <3>1, AnsweredEffect
    <3>3. JobOK(p, job'[p][w])
      BY <3>2 DEF JobOK, LeavesOut
    <3>4. CheckedIsGood' /\ PredictionsLeaveOut'
      BY <1>1, <2>1 DEF CheckedIsGood, PredictionsLeaveOut
    <3> QED
      BY <1>1, <2>1, <3>1, <3>2, <3>3, <3>4 DEF Effect, TypeOK, Predictions
  <2>3. CASE ~ Has(p, j.file)
    BY <1>3, <2>1, <2>3, TrackStep DEF ServeLocal
  <2> QED
    BY <2>2, <2>3
<1>4. CASE Receive(p, w)
  <2>1. /\ j.pc = "waiting" /\ j.file \in Files
        /\ UNCHANGED <<tracker, sent, disk, finished, seqno>>
    BY <1>1, <1>4 DEF Receive, At, JobOK
  <2>2. PICK m \in sent :
            /\ m.op = "ANSWER" /\ m.from = p
            /\ GoesTo(p, w, "trying", m.peers, j.pkg, j.tmp)
            /\ \/ predictions' = predictions
               \/ predictions' = [predictions EXCEPT ![p][w] = m.predicted]
    BY <1>1, <1>4, <2>1, FileEffect
  <2>3. LeavesOut(m.peers, p) /\ \A e \in m.predicted : LeavesOut(e.peers, p)
    BY <1>1, <2>2 DEF AnswersLeaveOut
  <2>4. JobOK(p, job'[p][w])
    BY <1>1, <2>1, <2>2, <2>3 DEF JobOK, GoesTo
  <2>5. m.predicted \in SUBSET Predictions
    BY <1>1, <2>2, Datagrams DEF TypeOK
  <2>6. /\ predictions' \in [Peers -> [Workers -> SUBSET Predictions]]
        /\ PredictionsLeaveOut'
    <3>1. predictions \in [Peers -> [Workers -> SUBSET Predictions]]
      BY <1>1 DEF TypeOK, Predictions
    <3>2. \A q \in Peers, v \in Workers :
             \/ predictions'[q][v] = predictions[q][v]
             \/ q = p /\ predictions'[q][v] = m.predicted
      BY <2>2, <3>1
    <3>3. predictions' \in [Peers -> [Workers -> SUBSET Predictions]]
      <4> HIDE DEF Predictions
      <4>1. [predictions EXCEPT ![p][w] = m.predicted] \in [Peers -> [Workers -> SUBSET Predictions]]
        BY <2>5, <3>1
      <4> QED
        BY <2>2, <3>1, <4>1
    <3>4. PredictionsLeaveOut'
      BY <1>1, <2>3, <3>2 DEF PredictionsLeaveOut
    <3> QED
      BY <3>3, <3>4
  <2>7. CheckedIsGood'
    BY <1>1, <2>1 DEF CheckedIsGood
  <2> QED
    BY <1>1, <2>1, <2>2, <2>4, <2>6, <2>7 DEF Effect, TypeOK, GoesTo
<1>5. CASE Timeout(p, w) \/ Connect(p, w) \/ Downloaded(p, w)
  BY <1>5, QuietStep
<1>6. CASE Failed(p, w)
  BY <1>6, NextSourceStep DEF Failed, At, tracker
<1>7. CASE Rename(p, w)
  <2>1. /\ j.pc = "renaming" /\ j.file \in Files /\ j.tmp \in Content
        /\ j.file \in Checked => j.tmp # "bad"
    <3>1. j.tmp \in Content \cup {None}
      <4>1. j \in Job
        BY <1>1, Jobs
      <4> QED
        BY <4>1 DEF Job
    <3> QED
      BY <1>1, <1>7, <3>1 DEF Rename, At, JobOK
  <2>2. GoesTo(p, w, "output", j.left, j.pkg, None)
    BY <1>1, <1>7, <2>1, FileEffect
  <2>3. JobOK(p, job'[p][w])
    BY <1>1, <2>1, <2>2 DEF JobOK, GoesTo
  <2>4. disk' \in [Peers -> [Files -> Content \cup {None}]] /\ CheckedIsGood'
    <3>1. disk' = [disk EXCEPT ![p][j.file] = j.tmp]
      BY <1>7 DEF Rename
    <3> QED
      BY <1>1, <2>1, <3>1, AvalancheAssumption DEF TypeOK, CheckedIsGood
  <2>5. UNCHANGED <<tracker, sent, finished, seqno, predictions>>
    BY <1>7 DEF Rename
  <2> QED
    BY <1>1, <2>2, <2>3, <2>4, <2>5 DEF Effect, TypeOK, Predictions, GoesTo, PredictionsLeaveOut
<1>8. CASE Output(p, w)
  <2>1. /\ j.pc = "output" /\ j.file \in Files
        /\ UNCHANGED <<tracker, disk, finished, seqno, predictions>>
    BY <1>1, <1>8 DEF Output, At, JobOK
  <2>2. CASE sent' = sent /\ GoesTo(p, w, "announcing", j.left, j.pkg, j.tmp)
    <3>1. JobOK(p, job'[p][w])
      BY <1>1, <2>1, <2>2 DEF JobOK, GoesTo
    <3>2. CheckedIsGood' /\ PredictionsLeaveOut'
      BY <1>1, <2>1 DEF CheckedIsGood, PredictionsLeaveOut
    <3> QED
      BY <1>1, <2>1, <2>2, <3>1, <3>2 DEF Effect, TypeOK, Predictions, GoesTo
  <2>3. CASE NextSource(p, w)
    BY <2>1, <2>3, NextSourceStep
  <2> QED
    BY <1>1, <1>8, <2>1, <2>2, <2>3, FileEffect
<1>9. CASE Announce(p, w)
  <2> DEFINE m == [op |-> "REGISTER", peer |-> p, hash |-> j.file]
  <2>1. /\ j.pc = "announcing" /\ j.file \in Files
        /\ sent' = sent \cup {m} /\ Answered(p, w, "200")
        /\ UNCHANGED <<tracker, disk, finished, seqno, predictions>>
    BY <1>1, <1>9 DEF Announce, At, JobOK, Send
  <2>2. Moves(p, w) /\ job'[p][w].pc = "idle" /\ job'[p][w].left = <<>>
    BY <1>1, <2>1, AnsweredEffect
  <2>3. JobOK(p, job'[p][w])
    BY <2>2 DEF JobOK, LeavesOut
  <2>4. m \in Datagram /\ m.op # "ANSWER"
    BY <2>1 DEF Datagram
  <2> HIDE DEF m
  <2>5. CheckedIsGood' /\ PredictionsLeaveOut'
    BY <1>1, <2>1 DEF CheckedIsGood, PredictionsLeaveOut
  <2> QED
    BY <1>1, <2>1, <2>2, <2>3, <2>4, <2>5 DEF Effect, TypeOK, Predictions
<1> QED
  BY <1>2, <1>3, <1>4, <1>5, <1>6, <1>7, <1>8, <1>9 DEF Step

(* Whatever the tracker hears, its lists stay lists of peers, its answer
   leaves the requestor out, and a new READY source has registered. *)
LEMMA TrackerStep ==
    ASSUME Inv,
           HearLookup \/ HearRegister \/ HearUnregister \/ HearDone \/ TrackerRestart
    PROVE  /\ UNCHANGED client
           /\ TrackerType'
           /\ \A f \in Files, q \in Peers :
                 Ready(q) \in Range(peers'[f]) =>
                     \/ Ready(q) \in Range(peers[f])
                     \/ \E m \in sent : m.op = "REGISTER" /\ m.peer = q /\ m.hash = f
           /\ sent' \subseteq Datagram /\ AnswersLeaveOut'
           /\ \A m \in sent' \ sent : m.op = "ANSWER"
<1>1. TypeOK /\ TrackerType /\ AnswersLeaveOut
  BY DEF Inv
<1>2. CASE HearLookup
  <2>1. PICK m \in sent :
          /\ m.op = "LOOKUP" /\ Tracker!Lookup(m.from, m.hash)
          /\ sent' = sent \cup {[op |-> "ANSWER", from |-> m.from, worker |-> m.worker,
                                 seqno |-> m.seqno, hash |-> m.hash,
                                 peers |-> reply'.peers, predicted |-> reply'.predicted]}
          /\ UNCHANGED client
    BY <1>2 DEF HearLookup, Send
  <2>2. m.from \in Peers /\ m.worker \in Workers /\ m.seqno \in Nat /\ m.hash \in Files
    BY <1>1, <2>1, Datagrams DEF TypeOK
  <2>3. /\ TrackerType'
        /\ \A f \in Files, q \in Peers :
              Ready(q) \in Range(peers'[f]) => Ready(q) \in Range(peers[f])
        /\ reply'.peers \in Seq(PeerInfo) /\ LeavesOut(reply'.peers, m.from)
        /\ reply'.predicted \in SUBSET Predictions
        /\ \A e \in reply'.predicted : LeavesOut(e.peers, m.from)
    BY <1>1, <2>1, <2>2, AfterHearLookup
  <2> DEFINE a == [op |-> "ANSWER", from |-> m.from, worker |-> m.worker,
                   seqno |-> m.seqno, hash |-> m.hash,
                   peers |-> reply'.peers, predicted |-> reply'.predicted]
  <2>4. a \in Datagram
    <3>1. a \in [op : {"ANSWER"}, from : Peers, worker : Workers, seqno : Nat, hash : Files,
                 peers : Seq(PeerInfo), predicted : SUBSET Predictions]
      BY <2>2, <2>3
    <3> QED
      BY <3>1 DEF Datagram, Predictions
  <2>5. /\ a.op = "ANSWER" /\ LeavesOut(a.peers, a.from)
        /\ \A e \in a.predicted : LeavesOut(e.peers, a.from)
    BY <2>3
  <2>6. sent' = sent \cup {a}
    BY <2>1
  <2> HIDE DEF a
  <2>7. AnswersLeaveOut'
    BY <1>1, <2>5, <2>6 DEF AnswersLeaveOut
  <2>8. sent' \subseteq Datagram /\ \A d \in sent' \ sent : d.op = "ANSWER"
    BY <1>1, <2>4, <2>5, <2>6 DEF TypeOK
  <2> QED
    BY <2>1, <2>3, <2>7, <2>8
<1>3. CASE HearRegister
  <2>1. PICK m \in sent : m.op = "REGISTER" /\ Tracker!Register(m.peer, m.hash)
                          /\ UNCHANGED <<client, sent>>
    BY <1>3 DEF HearRegister
  <2>2. m.peer \in Peers /\ m.hash \in Files
    BY <1>1, <2>1, Datagrams DEF TypeOK
  <2>3. /\ TrackerType'
        /\ \A f \in Files, q \in Peers :
              Ready(q) \in Range(peers'[f]) =>
                  (Ready(q) \in Range(peers[f]) \/ (q = m.peer /\ f = m.hash))
    BY <1>1, <2>1, <2>2, AfterRegister
  <2> QED
    BY <1>1, <2>1, <2>3 DEF AnswersLeaveOut, TypeOK
<1>4. CASE HearUnregister \/ HearDone \/ TrackerRestart
  <2>1. UNCHANGED <<client, sent>>
    BY <1>4 DEF HearUnregister, HearDone, TrackerRestart
  <2>2. /\ TrackerType'
        /\ \A f \in Files, q \in Peers :
              Ready(q) \in Range(peers'[f]) => Ready(q) \in Range(peers[f])
    <3>1. CASE HearUnregister
      <4>1. PICK m \in sent : m.op = "UNREGISTER" /\ Tracker!Unregister(m.peer, m.hash)
        BY <3>1 DEF HearUnregister
      <4>2. m.peer \in Peers /\ m.hash \in Files
        BY <1>1, <4>1, Datagrams DEF TypeOK
      <4> QED
        BY <1>1, <4>1, <4>2, AfterDrop
    <3>2. CASE HearDone
      <4>1. PICK m \in sent : m.op = "PEER_DONE" /\ Tracker!PeerDone(m.peer)
        BY <3>2 DEF HearDone
      <4>2. m.peer \in Peers
        BY <1>1, <4>1, Datagrams DEF TypeOK
      <4> QED
        BY <1>1, <4>1, <4>2, AfterDrop
    <3>3. CASE TrackerRestart
      BY <1>1, <3>3, AfterDrop DEF TrackerRestart
    <3> QED
      BY <1>4, <3>1, <3>2, <3>3
  <2> QED
    BY <1>1, <2>1, <2>2 DEF AnswersLeaveOut, TypeOK
<1> QED
  BY <1>2, <1>3, <1>4

LEMMA InitInv == Init => Inv
<1> SUFFICES ASSUME Init PROVE Inv
  OBVIOUS
<1>1. /\ queue = <<>> /\ peers = [f \in Files |-> <<>>]
      /\ sent = {} /\ disk = [p \in Peers |-> [f \in Files |-> None]] /\ finished = {}
      /\ job = [p \in Peers |-> [w \in Workers |-> Idle]]
      /\ seqno = [p \in Peers |-> [w \in Workers |-> 0]]
      /\ predictions = [p \in Peers |-> [w \in Workers |-> {}]]
  BY DEF Init, Tracker!Init
<1>2. <<>> \in Seq(PeerInfo) /\ <<>> \in Seq(Files)
  BY EmptySeq
<1>3. Idle \in Job
  BY <1>2, AvalancheAssumption DEF Idle, Job
<1>4. TypeOK
  BY <1>1, <1>3 DEF TypeOK
<1>5. TrackerType
  BY <1>1, <1>2 DEF TrackerType
<1>6. \A p \in Peers, w \in Workers : JobOK(p, job[p][w])
  <2>1. \A p \in Peers : JobOK(p, Idle)
    BY DEF JobOK, Idle, LeavesOut
  <2> QED
    BY <1>1, <2>1
<1>7. CheckedIsGood /\ AnswersLeaveOut /\ PredictionsLeaveOut
  BY <1>1, AvalancheAssumption DEF CheckedIsGood, AnswersLeaveOut, PredictionsLeaveOut, None
<1> QED
  BY <1>4, <1>5, <1>6, <1>7 DEF Inv

(* The next-state relation, by who acts. *)
LEMMA Actors ==
    Next => \/ \E p \in Peers, w \in Workers :
                  Step(p, w) \/ \E f \in Files : Request(p, w, f)
            \/ \E p \in Peers : Finish(p)
            \/ HearLookup \/ HearRegister \/ HearUnregister \/ HearDone \/ TrackerRestart
BY DEF Next

LEMMA NextInv == Inv /\ [Next]_vars => Inv'
<1> SUFFICES ASSUME Inv, [Next]_vars PROVE Inv'
  OBVIOUS
<1>1. /\ TypeOK /\ TrackerType /\ CheckedIsGood /\ AnswersLeaveOut /\ PredictionsLeaveOut
      /\ \A p \in Peers, w \in Workers : JobOK(p, job[p][w])
  BY DEF Inv
<1>2. ASSUME NEW p \in Peers, NEW w \in Workers,
             Step(p, w) \/ \E f \in Files : Request(p, w, f)
      PROVE  Inv'
  <2>1. Effect(p, w)
    BY <1>2, ClientStep
  <2>2. \A q \in Peers, v \in Workers : JobOK(q, job'[q][v])
    BY <1>1, <2>1 DEF Effect, Moves
  <2>3. AnswersLeaveOut'
    BY <1>1, <2>1 DEF Effect, AnswersLeaveOut
  <2>4. TypeOK' /\ TrackerType'
    BY <1>1, <2>1 DEF Effect, Moves, TypeOK, TrackerType, tracker, Predictions
  <2> QED
    BY <2>1, <2>2, <2>3, <2>4 DEF Effect, Inv
<1>3. ASSUME NEW p \in Peers, Finish(p) PROVE Inv'
  <2> DEFINE m == [op |-> "PEER_DONE", peer |-> p]
  <2>1. /\ finished' = finished \cup {p} /\ sent' = sent \cup {m}
        /\ UNCHANGED <<queue, peers, disk, job, seqno, predictions>>
    BY <1>3 DEF Finish, Send, tracker
  <2>2. m \in Datagram /\ m.op # "ANSWER"
    BY DEF Datagram
  <2> HIDE DEF m
  <2> QED
    BY <1>1, <2>1, <2>2
    DEF Inv, TypeOK, TrackerType, CheckedIsGood, AnswersLeaveOut, PredictionsLeaveOut
<1>4. CASE HearLookup \/ HearRegister \/ HearUnregister \/ HearDone \/ TrackerRestart
  <2>1. /\ UNCHANGED <<disk, finished, job, seqno, predictions>>
        /\ TrackerType' /\ sent' \subseteq Datagram /\ AnswersLeaveOut'
    BY <1>4, TrackerStep DEF client
  <2> QED
    BY <1>1, <2>1 DEF Inv, TypeOK, CheckedIsGood, PredictionsLeaveOut
<1>5. CASE UNCHANGED vars
  BY <1>1, <1>5
  DEF Inv, vars, tracker, TypeOK, TrackerType, CheckedIsGood, AnswersLeaveOut,
      PredictionsLeaveOut
<1> QED
  BY <1>2, <1>3, <1>4, <1>5, Actors

LEMMA Invariant == Spec => []Inv
<1> QED
  BY InitInv, NextInv, PTL DEF Spec

(* Every variable of the system keeps its type. *)
THEOREM TypeCorrect == Spec => []TypeOK
<1>1. Inv => TypeOK
  BY DEF Inv
<1> QED
  BY <1>1, Invariant, PTL

(* check_md5: whatever the sources deliver and the processes of a host do to
   each other's files, no file that packages.md5 lists is on a disk, under its
   own name, with the wrong content. *)
THEOREM ListedFilesAreIntact == Spec => []CheckedIsGood
<1>1. Inv => CheckedIsGood
  BY DEF Inv
<1> QED
  BY <1>1, Invariant, PTL

(* dolookup leaves the requestor out of answers and predictions, so no process
   is sent to its own host, by old answers and kept predictions either. *)
THEOREM NobodyAsksItself == Spec => []NotOwnSource
<1>1. Inv => NotOwnSource
  BY DEF Inv, JobOK, LeavesOut, NotOwnSource
<1> QED
  BY <1>1, Invariant, PTL

-----------------------------------------------------------------------------
(* What holds as long as no process removes a file that is complete: the     *)
(* comment in getremote says that only empty files are unlinked, and the two *)
(* theorems below are what rests on it.                                      *)

(* While the last package server delivers, a request is not answered 404,
   for there is always a package server left to try. *)
FoundOK(j) ==
    LastServerHolds => /\ j.outcome # "404"
                       /\ j.pc = "trying" => j.pkg < PkgServers

(* A file that is fetched is not there. *)
MissingOK(p, j) == j.pc \in {"waiting", "trying", "downloading"} => ~ Has(p, j.file)

(* What a step of the process w of p does to its request and to the disk. *)
Own(p, w) ==
    LET j == job[p][w]
        next == job'[p][w] IN
    /\ next.pc \in {"output", "announcing"} => disk'[p][next.file] # None
    /\ \A m \in sent' \ sent : m.op = "REGISTER" =>
          j.pc = "announcing" /\ m.peer = p /\ m.hash = j.file
    /\ FoundOK(j) /\ (j.pc = "output" => Has(p, j.file)) => FoundOK(next)
    /\ MissingOK(p, j) /\ next.pc \in {"waiting", "trying", "downloading"} =>
          disk'[p][next.file] = None
    /\ \A q \in Peers, f \in Files : Has(q, f) /\ disk'[q][f] = None =>
          q = p /\ f = j.file /\ j.pc = "downloading"
    /\ \A q \in Peers : q # p => disk'[q] = disk[q]

LEMMA OwnTrack ==
    ASSUME Inv, NEW p \in Peers, NEW w \in Workers, NEW f \in Files, Track(p, w, f),
           ~ Has(p, f), disk' = disk
    PROVE  Own(p, w)
<1>1. /\ job'[p][w].pc \in {"waiting", "trying"} /\ job'[p][w].file = f
      /\ job'[p][w].pkg = 0 /\ job'[p][w].outcome = job[p][w].outcome
      /\ \A d \in sent' \ sent : d.op = "LOOKUP"
  BY TrackEffect DEF Inv
<1>2. 0 < PkgServers
  BY AvalancheAssumption
<1> QED
  BY <1>1, <1>2 DEF Own, FoundOK, Has

LEMMA OwnNextSource ==
    ASSUME Inv, NEW p \in Peers, NEW w \in Workers,
           \/ Failed(p, w)
           \/ Output(p, w) /\ ~ Has(p, job[p][w].file)
    PROVE  Own(p, w)
<1> DEFINE j == job[p][w]
<1>1. /\ TypeOK /\ JobOK(p, j) /\ j.file \in Files
      /\ j.pc \in {"downloading", "output"} /\ NextSource(p, w)
      /\ j.pc = "downloading" => Failed(p, w)
  BY DEF Inv, JobOK, Failed, Output, At
<1>2. /\ job'[p][w].pc = "trying" /\ job'[p][w].file = j.file
      /\ job'[p][w].pkg = j.pkg /\ job'[p][w].outcome = j.outcome
      /\ \A d \in sent' \ sent : d.op = "UNREGISTER"
  BY <1>1, NextSourceEffect
<1>3. j.pkg \in 0..PkgServers
  <2>1. j \in Job
    BY <1>1, Jobs
  <2> QED
    BY <2>1 DEF Job
<1>4. /\ disk \in [Peers -> [Files -> Content \cup {None}]]
      /\ \/ disk' = [disk EXCEPT ![p][j.file] = None]
         \/ disk' = disk /\ ~ Has(p, j.file)
  BY <1>1 DEF TypeOK, Failed, Output
<1>5. /\ disk'[p][j.file] = None
      /\ \A q \in Peers : q # p => disk'[q] = disk[q]
  BY <1>1, <1>4 DEF Has
<1>6. \A q \in Peers, f \in Files : Has(q, f) /\ disk'[q][f] = None =>
          q = p /\ f = j.file /\ j.pc = "downloading"
  <2>1. CASE Failed(p, w)
    <3>1. j.pc = "downloading" /\ disk' = [disk EXCEPT ![p][j.file] = None]
      BY <2>1 DEF Failed, At
    <3> QED
      BY <1>1, <1>4, <3>1 DEF Has
  <2>2. CASE Output(p, w)
    BY <2>2 DEF Output, Has
  <2> QED
    BY <2>1, <2>2
<1>7. FoundOK(j) /\ (j.pc = "output" => Has(p, j.file)) => FoundOK(job'[p][w])
  <2>1. CASE Failed(p, w)
    <3>1. LastServerHolds => FromPeer(j) \/ j.pkg # PkgServers
      BY <2>1 DEF Failed, LastServer
    <3>2. LastServerHolds => j.pkg < PkgServers
      BY <1>1, <1>3, <3>1, AvalancheAssumption DEF JobOK, FromPeer
    <3> QED
      BY <1>2, <3>2 DEF FoundOK
  <2>2. CASE Output(p, w) /\ ~ Has(p, j.file)
    BY <2>2 DEF Output, At
  <2> QED
    BY <2>1, <2>2
<1> QED
  BY <1>2, <1>5, <1>6, <1>7 DEF Own

LEMMA OwnStep ==
    ASSUME Inv, NEW p \in Peers, NEW w \in Workers,
           Step(p, w) \/ \E f \in Files : Request(p, w, f)
    PROVE  Own(p, w)
<1> DEFINE j == job[p][w]
<1>1. TypeOK /\ JobOK(p, j)
  BY DEF Inv
<1>2. j.pkg \in 0..PkgServers /\ j.tmp \in Content \cup {None} /\ 0 < PkgServers
  <2>1. j \in Job
    BY <1>1, Jobs
  <2> QED
    BY <2>1, AvalancheAssumption DEF Job
<1>3. ASSUME NEW f \in Files, Request(p, w, f) PROVE Own(p, w)
  <2>1. CASE Has(p, f)
    <3> DEFINE next == [Idle EXCEPT !.pc = "local", !.file = f, !.outcome = j.outcome]
    <3>1. Continue(p, w, next) /\ UNCHANGED <<disk, sent>>
      BY <1>3, <2>1 DEF Request
    <3>2. next \in Job
      BY <1>1, Jobs
    <3>3. next.pc = "local" /\ next.outcome = j.outcome
      BY DEF Idle
    <3> HIDE DEF next
    <3>4. job'[p][w] = next
      BY <1>1, <3>1, <3>2, Continued DEF TypeOK
    <3> QED
      BY <3>1, <3>3, <3>4 DEF Own, FoundOK, Has
  <2>2. CASE ~ Has(p, f)
    BY <1>3, <2>2, OwnTrack DEF Request
  <2> QED
    BY <2>1, <2>2
<1>4. CASE ServeLocal(p, w)
  <2>1. CASE Has(p, j.file)
    <3>1. Answered(p, w, "200") /\ UNCHANGED <<disk, sent>>
      BY <1>4, <2>1 DEF ServeLocal
    <3>2. job'[p][w].pc = "idle" /\ job'[p][w].outcome = "200"
      BY <1>1, <3>1, AnsweredEffect
    <3> QED
      BY <3>1, <3>2 DEF Own, FoundOK, Has
  <2>2. CASE ~ Has(p, j.file)
    <3>1. j.file \in Files /\ disk' = disk /\ Track(p, w, j.file)
      BY <1>1, <1>4, <2>2 DEF JobOK, ServeLocal, At
    <3> QED
      BY <2>2, <3>1, OwnTrack
  <2> QED
    BY <2>1, <2>2
<1>5. CASE Receive(p, w) \/ Timeout(p, w)
  <2>1. j.pc = "waiting" /\ j.file \in Files /\ j.pkg = 0 /\ UNCHANGED <<disk, sent>>
    BY <1>1, <1>5 DEF Receive, Timeout, At, JobOK
  <2>2. /\ job'[p][w].pc = "trying" /\ job'[p][w].pkg = 0
        /\ job'[p][w].file = j.file /\ job'[p][w].outcome = j.outcome
    BY <1>1, <1>5, <2>1, QuietEffect, FileEffect DEF GoesTo
  <2> QED
    BY <1>2, <2>1, <2>2 DEF Own, FoundOK, MissingOK, Has
<1>6. CASE Connect(p, w)
  <2>1. j.pc = "trying" /\ j.file \in Files /\ UNCHANGED <<disk, sent>>
    BY <1>1, <1>6 DEF Connect, At, JobOK
  <2>2. \/ /\ job'[p][w].pc = "downloading"
           /\ job'[p][w].file = j.file /\ job'[p][w].outcome = j.outcome
        \/ j.pkg = PkgServers /\ Answered(p, w, "404")
    BY <1>1, <1>6, <2>1, QuietEffect DEF GoesTo
  <2>3. CASE j.pkg = PkgServers /\ Answered(p, w, "404")
    <3>1. job'[p][w].pc = "idle"
      BY <1>1, <2>3, AnsweredEffect
    <3>2. FoundOK(j) => FoundOK(job'[p][w])
      BY <1>2, <2>1, <2>3, AvalancheAssumption DEF FoundOK
    <3> QED
      BY <2>1, <3>1, <3>2 DEF Own, Has
  <2> QED
    BY <2>1, <2>2, <2>3 DEF Own, FoundOK, MissingOK, Has
<1>7. CASE Downloaded(p, w)
  <2>1. j.pc = "downloading" /\ j.file \in Files /\ UNCHANGED <<disk, sent>>
    BY <1>1, <1>7 DEF Downloaded, At, JobOK
  <2>2. job'[p][w].pc = "renaming" /\ job'[p][w].outcome = j.outcome
    BY <1>1, <1>7, <2>1, QuietEffect DEF GoesTo
  <2> QED
    BY <2>1, <2>2 DEF Own, FoundOK, Has
<1>8. CASE Failed(p, w)
  BY <1>8, OwnNextSource
<1>9. CASE Rename(p, w)
  <2>1. /\ j.pc = "renaming" /\ j.file \in Files /\ j.tmp # None
        /\ sent' = sent /\ disk' = [disk EXCEPT ![p][j.file] = j.tmp]
    BY <1>1, <1>9 DEF Rename, At, JobOK
  <2>2. /\ job'[p][w].pc = "output" /\ job'[p][w].file = j.file
        /\ job'[p][w].outcome = j.outcome
    BY <1>1, <1>9, <2>1, FileEffect DEF GoesTo
  <2>3. /\ disk'[p][j.file] # None
        /\ \A q \in Peers, f \in Files : Has(q, f) => disk'[q][f] # None
        /\ \A q \in Peers : q # p => disk'[q] = disk[q]
    BY <1>1, <2>1 DEF TypeOK, Has
  <2> QED
    BY <2>1, <2>2, <2>3 DEF Own, FoundOK
<1>10. CASE Output(p, w)
  <2>1. CASE Has(p, j.file)
    <3>1. j.file \in Files /\ disk' = disk
      BY <1>1, <1>10 DEF Output, At, JobOK
    <3>2. sent' = sent /\ GoesTo(p, w, "announcing", j.left, j.pkg, j.tmp)
      BY <1>1, <1>10, <2>1, <3>1, FileEffect
    <3> QED
      BY <2>1, <3>1, <3>2 DEF Own, FoundOK, Has, GoesTo
  <2>2. CASE ~ Has(p, j.file)
    BY <1>10, <2>2, OwnNextSource
  <2> QED
    BY <2>1, <2>2
<1>11. CASE Announce(p, w)
  <2> DEFINE d == [op |-> "REGISTER", peer |-> p, hash |-> j.file]
  <2>1. /\ j.pc = "announcing" /\ disk' = disk /\ Answered(p, w, "200")
        /\ sent' = sent \cup {d}
    BY <1>11 DEF Announce, At, Send
  <2>2. job'[p][w].pc = "idle" /\ job'[p][w].outcome = "200"
    BY <1>1, <2>1, AnsweredEffect
  <2>3. \A m \in sent' \ sent : m.peer = p /\ m.hash = j.file
    BY <2>1
  <2> QED
    BY <2>1, <2>2, <2>3 DEF Own, FoundOK, Has
<1> QED
  BY <1>3, <1>4, <1>5, <1>6, <1>7, <1>8, <1>9, <1>10, <1>11 DEF Step

(* No step removes a file that is there. *)
KeepsFiles == \A p \in Peers, f \in Files : Has(p, f) => disk'[p][f] # None

(* Whoever is about to announce a file, announced it or is READY for it at
   the tracker, has it. *)
AnnouncedIsThere ==
    /\ \A p \in Peers, w \in Workers :
          job[p][w].pc \in {"output", "announcing"} => Has(p, job[p][w].file)
    /\ \A m \in sent : m.op = "REGISTER" => Has(m.peer, m.hash)
    /\ \A f \in Files, p \in Peers : Ready(p) \in Range(peers[f]) => Has(p, f)

LEMMA AnnouncedStep ==
    Inv /\ AnnouncedIsThere /\ [Next]_vars /\ [KeepsFiles]_vars => AnnouncedIsThere'
<1> SUFFICES ASSUME Inv, AnnouncedIsThere, [Next]_vars, [KeepsFiles]_vars
             PROVE  AnnouncedIsThere'
  OBVIOUS
<1>1. /\ TypeOK
      /\ \A p \in Peers, w \in Workers : job[p][w].pc # "idle" => job[p][w].file \in Files
  BY DEF Inv, JobOK
<1>2. KeepsFiles
  BY DEF KeepsFiles, vars, Has
<1>3. \A m \in sent : m.op = "REGISTER" => disk'[m.peer][m.hash] # None
  <2> SUFFICES ASSUME NEW m \in sent, m.op = "REGISTER" PROVE disk'[m.peer][m.hash] # None
    OBVIOUS
  <2>1. m.peer \in Peers /\ m.hash \in Files
    BY <1>1, Datagrams DEF TypeOK
  <2> QED
    BY <1>2, <2>1 DEF AnnouncedIsThere, KeepsFiles
<1>4. \A p \in Peers, w \in Workers :
         job[p][w].pc \in {"output", "announcing"} => disk'[p][job[p][w].file] # None
  BY <1>1, <1>2 DEF AnnouncedIsThere, KeepsFiles
<1>5. \A f \in Files, p \in Peers : Ready(p) \in Range(peers[f]) => disk'[p][f] # None
  BY <1>2 DEF AnnouncedIsThere, KeepsFiles
<1>6. ASSUME NEW p \in Peers, NEW w \in Workers,
             Step(p, w) \/ \E f \in Files : Request(p, w, f)
      PROVE  AnnouncedIsThere'
  <2>1. Effect(p, w) /\ Own(p, w)
    BY <1>6, ClientStep, OwnStep
  <2>2. \A q \in Peers, v \in Workers :
           job'[q][v].pc \in {"output", "announcing"} => disk'[q][job'[q][v].file] # None
    <3>1. \A q \in Peers, v \in Workers : ~ (q = p /\ v = w) => job'[q][v] = job[q][v]
      BY <2>1 DEF Effect, Moves
    <3>2. job'[p][w].pc \in {"output", "announcing"} => disk'[p][job'[p][w].file] # None
      BY <2>1 DEF Own
    <3> QED
      BY <1>4, <3>1, <3>2
  <2>3. \A m \in sent' : m.op = "REGISTER" => disk'[m.peer][m.hash] # None
    BY <1>3, <1>4, <2>1 DEF Own
  <2>4. peers' = peers
    BY <2>1 DEF Effect, tracker
  <2> QED
    BY <1>5, <2>2, <2>3, <2>4 DEF AnnouncedIsThere, Has
<1>7. ASSUME NEW p \in Peers, Finish(p) PROVE AnnouncedIsThere'
  <2>1. /\ sent' = sent \cup {[op |-> "PEER_DONE", peer |-> p]}
        /\ UNCHANGED <<peers, disk, job>>
    BY <1>7 DEF Finish, Send, tracker
  <2>2. \A m \in sent' : m.op = "REGISTER" => m \in sent
    BY <2>1
  <2> QED
    BY <2>1, <2>2 DEF AnnouncedIsThere, Has
<1>8. CASE HearLookup \/ HearRegister \/ HearUnregister \/ HearDone \/ TrackerRestart
  <2>1. /\ UNCHANGED <<disk, job>>
        /\ \A f \in Files, q \in Peers :
              Ready(q) \in Range(peers'[f]) =>
                  \/ Ready(q) \in Range(peers[f])
                  \/ \E m \in sent : m.op = "REGISTER" /\ m.peer = q /\ m.hash = f
        /\ \A m \in sent' \ sent : m.op = "ANSWER"
    BY <1>8, TrackerStep DEF client
  <2>2. \A m \in sent' : m.op = "REGISTER" => m \in sent
    BY <2>1
  <2> QED
    BY <2>1, <2>2 DEF AnnouncedIsThere, Has
<1>9. CASE UNCHANGED vars
  BY <1>9 DEF AnnouncedIsThere, Has, vars, tracker
<1> QED
  BY <1>6, <1>7, <1>8, <1>9, Actors

LEMMA AnnouncedInvariant ==
    Spec /\ [][KeepsFiles]_vars => []AnnouncedIsThere
<1>1. Init => AnnouncedIsThere
  <2> SUFFICES ASSUME Init PROVE AnnouncedIsThere
    OBVIOUS
  <2>1. /\ peers = [f \in Files |-> <<>>] /\ sent = {}
        /\ job = [p \in Peers |-> [w \in Workers |-> Idle]]
    BY DEF Init, Tracker!Init
  <2>2. Range(<<>>) = {}
    BY DEF Range
  <2> QED
    BY <2>1, <2>2 DEF AnnouncedIsThere, Idle
<1> QED
  BY <1>1, AnnouncedStep, Invariant, PTL DEF Spec

(* The tracker's READY sources deliver: as long as no process removes a file
   that is complete, a host the tracker has as READY for a file, and that is
   still installing, has the file, whatever datagrams were lost, repeated or
   late and whoever unregistered whom. *)
THEOREM ReadySourcesDeliver == Spec /\ OnlyEmptyRemoved => []ReadyHasFile
<1>1. OnlyEmptyRemoved => [][KeepsFiles]_vars
  BY PTL DEF OnlyEmptyRemoved, KeepsFiles
<1>2. Inv /\ AnnouncedIsThere => ReadyHasFile
  <2> SUFFICES ASSUME Inv, AnnouncedIsThere, NEW f \in Files, NEW k \in DOMAIN peers[f],
                      peers[f][k].state = READY
               PROVE  Has(peers[f][k].ip, f)
    BY DEF ReadyHasFile
  <2>1. peers[f] \in Seq(PeerInfo)
    BY DEF Inv, TrackerType
  <2>2. peers[f][k] \in PeerInfo /\ k \in 1..Len(peers[f])
    BY <2>1, LenProperties, ElementOfSeq
  <2>3. peers[f][k].ip \in Peers /\ peers[f][k] = Ready(peers[f][k].ip)
    BY <2>2 DEF PeerInfo, Ready
  <2>4. peers[f][k] \in Range(peers[f])
    BY <2>1, <2>2, RangeOf
  <2> QED
    BY <2>3, <2>4 DEF AnnouncedIsThere
<1> QED
  BY <1>1, <1>2, AnnouncedInvariant, Invariant, PTL

LEMMA FoundStep ==
    /\ Inv /\ AnnouncedIsThere /\ [Next]_vars
    /\ \A p \in Peers, w \in Workers : FoundOK(job[p][w])
    => \A p \in Peers, w \in Workers : FoundOK(job'[p][w])
<1> SUFFICES ASSUME Inv, AnnouncedIsThere, [Next]_vars,
                    \A p \in Peers, w \in Workers : FoundOK(job[p][w]),
                    NEW q \in Peers, NEW v \in Workers
             PROVE  FoundOK(job'[q][v])
  OBVIOUS
<1>1. ASSUME NEW p \in Peers, NEW w \in Workers,
             Step(p, w) \/ \E f \in Files : Request(p, w, f)
      PROVE  FoundOK(job'[q][v])
  <2>1. Effect(p, w) /\ Own(p, w)
    BY <1>1, ClientStep, OwnStep
  <2>2. CASE q = p /\ v = w
    BY <2>1, <2>2 DEF Own, AnnouncedIsThere
  <2>3. CASE ~ (q = p /\ v = w)
    <3>1. job'[q][v] = job[q][v]
      BY <2>1, <2>3 DEF Effect, Moves
    <3> QED
      BY <3>1
  <2> QED
    BY <2>2, <2>3
<1>2. ASSUME job' = job PROVE FoundOK(job'[q][v])
  BY <1>2
<1>3. ASSUME NEW p \in Peers, Finish(p) PROVE job' = job
  BY <1>3 DEF Finish
<1>4. CASE HearLookup \/ HearRegister \/ HearUnregister \/ HearDone \/ TrackerRestart
  BY <1>2, <1>4, TrackerStep DEF client
<1>5. CASE UNCHANGED vars
  BY <1>2, <1>5 DEF vars
<1> QED
  BY <1>1, <1>2, <1>3, <1>4, <1>5, Actors

(* client.c, init: as long as the last package server delivers and no process
   removes a file that is complete, every request ends with the file and none
   is answered 404. *)
THEOREM FilesAreFound == Spec /\ OnlyEmptyRemoved => []NeverNotFound
<1> DEFINE Found == \A p \in Peers, w \in Workers : FoundOK(job[p][w])
<1>1. OnlyEmptyRemoved => [][KeepsFiles]_vars
  BY PTL DEF OnlyEmptyRemoved, KeepsFiles
<1>2. Init => Found
  BY DEF Init, Idle, FoundOK, None
<1>3. Found /\ Inv /\ AnnouncedIsThere /\ [Next]_vars => Found'
  <2> SUFFICES ASSUME Found, Inv, AnnouncedIsThere, [Next]_vars PROVE Found'
    OBVIOUS
  <2>1. \A p \in Peers, w \in Workers : FoundOK(job'[p][w])
    BY FoundStep
  <2> QED
    BY <2>1 DEF FoundOK
<1>4. Found => NeverNotFound
  BY DEF FoundOK, NeverNotFound
<1> QED
  BY <1>1, <1>2, <1>3, <1>4, AnnouncedInvariant, Invariant, PTL DEF Spec

-----------------------------------------------------------------------------
(* With one tracker-client process on each host. *)

LEMMA MissingStep ==
    ASSUME \A v, w \in Workers : v = w
    PROVE  /\ Inv /\ [Next]_vars
           /\ \A p \in Peers, w \in Workers : MissingOK(p, job[p][w])
           => /\ \A p \in Peers, w \in Workers :
                    job'[p][w].pc \in {"waiting", "trying", "downloading"} =>
                        disk'[p][job'[p][w].file] = None
              /\ KeepsFiles
<1> SUFFICES ASSUME Inv, [Next]_vars,
                    \A p \in Peers, w \in Workers : MissingOK(p, job[p][w])
             PROVE  /\ \A p \in Peers, w \in Workers :
                          job'[p][w].pc \in {"waiting", "trying", "downloading"} =>
                              disk'[p][job'[p][w].file] = None
                    /\ KeepsFiles
  OBVIOUS
<1>1. ASSUME NEW p \in Peers, NEW w \in Workers,
             Step(p, w) \/ \E f \in Files : Request(p, w, f)
      PROVE  /\ \A q \in Peers, v \in Workers :
                    job'[q][v].pc \in {"waiting", "trying", "downloading"} =>
                        disk'[q][job'[q][v].file] = None
             /\ KeepsFiles
  <2>1. Effect(p, w) /\ Own(p, w) /\ MissingOK(p, job[p][w])
    BY <1>1, ClientStep, OwnStep
  <2>2. KeepsFiles
    BY <2>1 DEF KeepsFiles, Own, MissingOK
  <2>3. ASSUME NEW q \in Peers, NEW v \in Workers,
               job'[q][v].pc \in {"waiting", "trying", "downloading"}
        PROVE  disk'[q][job'[q][v].file] = None
    <3>1. CASE q = p
      BY <2>1, <2>3, <3>1 DEF Own
    <3>2. CASE q # p
      <4>1. job'[q][v] = job[q][v] /\ disk'[q] = disk[q]
        BY <2>1, <3>2 DEF Effect, Moves, Own
      <4> QED
        BY <2>3, <4>1 DEF MissingOK, Has
    <3> QED
      BY <3>1, <3>2
  <2> QED
    BY <2>2, <2>3
<1>2. ASSUME job' = job, disk' = disk
      PROVE  /\ \A q \in Peers, v \in Workers :
                    job'[q][v].pc \in {"waiting", "trying", "downloading"} =>
                        disk'[q][job'[q][v].file] = None
             /\ KeepsFiles
  BY <1>2 DEF KeepsFiles, MissingOK, Has
<1>3. ASSUME NEW p \in Peers, Finish(p) PROVE job' = job /\ disk' = disk
  BY <1>3 DEF Finish
<1>4. CASE HearLookup \/ HearRegister \/ HearUnregister \/ HearDone \/ TrackerRestart
  BY <1>2, <1>4, TrackerStep DEF client
<1>5. CASE UNCHANGED vars
  BY <1>2, <1>5 DEF vars
<1> QED
  BY <1>1, <1>2, <1>3, <1>4, <1>5, Actors

(* A host with one tracker-client process removes, on a failure, nothing that
   is complete: the file it fetches was not there when it asked for it. *)
THEOREM OneProcessRemovesNothing ==
    ASSUME \A v, w \in Workers : v = w
    PROVE  Spec => OnlyEmptyRemoved
<1> DEFINE Missing == \A p \in Peers, w \in Workers : MissingOK(p, job[p][w])
<1>1. Init => Missing
  BY DEF Init, Idle, MissingOK
<1>2. Missing /\ Inv /\ [Next]_vars => Missing'
  <2> SUFFICES ASSUME Missing, Inv, [Next]_vars PROVE Missing'
    OBVIOUS
  <2>1. \A p \in Peers, w \in Workers :
           job'[p][w].pc \in {"waiting", "trying", "downloading"} =>
               disk'[p][job'[p][w].file] = None
    BY MissingStep
  <2> QED
    BY <2>1 DEF MissingOK, Has
<1>3. Missing /\ Inv /\ [Next]_vars => KeepsFiles
  BY MissingStep
<1> HIDE DEF Missing
<1>4. Spec => [][KeepsFiles]_vars
  BY <1>1, <1>2, <1>3, Invariant, PTL DEF Spec
<1> QED
  BY <1>4, PTL DEF OnlyEmptyRemoved, KeepsFiles

(* So with one process on each host both properties hold. *)
THEOREM OneProcessReady ==
    ASSUME \A v, w \in Workers : v = w
    PROVE  Spec => []ReadyHasFile
<1>1. Spec => OnlyEmptyRemoved
  BY OneProcessRemovesNothing
<1> QED
  BY <1>1, ReadySourcesDeliver, PTL

(* And so does every request that the last package server delivers: none is
   answered 404. *)
THEOREM OneProcessFinds ==
    ASSUME \A v, w \in Workers : v = w
    PROVE  Spec => []NeverNotFound
<1>1. Spec => OnlyEmptyRemoved
  BY OneProcessRemovesNothing
<1> QED
  BY <1>1, FilesAreFound, PTL

=============================================================================
