---------------------------- MODULE TrackerServer ---------------------------
(***************************************************************************)
(* The tracker: one process that takes UDP requests one at a time          *)
(* (src/src/stack/tracker/server.c, main) and keeps, for every file some   *)
(* installing host asked for, the list of hosts that hold or download it.  *)
(* Requests come from any host, in any order and any number of times:      *)
(* datagrams are lost, repeated and reordered before they get here.        *)
(***************************************************************************)
EXTENDS TrackerTable

CONSTANTS
    HeadMayMeetTail,  \* explore states in which head = tail
    MaxSize,          \* bound: the table does not grow beyond this size
    MaxPeers          \* bound: no list gets longer than this

ASSUME ServerAssumption ==
    /\ HeadMayMeetTail \in BOOLEAN
    /\ MaxSize \in Nat
    /\ MaxPeers \in Nat

VARIABLES
    table,   \* hash_table
    stamps,  \* dt_table: ranks of the download timestamps
    reply    \* the response the last request got, NoReply if it got none

vars == <<table, stamps, reply>>

NoReply == [to |-> "none"]

Info == [hash : Hashes \cup {NoHash}, peers : Seq(PeerInfo)]

Replies == [to : Peers, hash : Hashes, peers : Seq(PeerInfo), predicted : SUBSET Info]

TypeOK ==
    /\ table.size \in Nat \ {0}
    /\ table.head \in Slots(table)
    /\ table.tail \in Slots(table)
    /\ table \in [head : Nat, tail : Nat, size : Nat, entry : [Slots(table) -> Entry]]
    /\ stamps \in [Peers -> Nat]
    /\ reply \in Replies \cup {NoReply}

-----------------------------------------------------------------------------
Init ==
    /\ table = InitTable
    /\ stamps = [p \in Peers |-> 0]
    /\ reply = NoReply

(* Bounds, and the states left to the runs with HeadMayMeetTail. *)
WithinBounds ==
    /\ table'.size <= MaxSize
    /\ \A i \in Slots(table') : Len(table'.entry[i].peers) <= MaxPeers
    /\ HeadMayMeetTail \/ table'.head # table'.tail

(* dolookup for a hash in the table, at slot i. *)
LookupKnown(p, h, i) ==
    LET slot(k) == Above(table, i, k)
        lists == [k \in Answered(table, i) |-> table.entry[slot(k)].peers] IN
    \E ls \in Reorderings(lists, Coop[p], stamps) :
        /\ table' = [table EXCEPT !.entry = [j \in Slots(table) |->
               IF j = i
               THEN [hash |-> table.entry[j].hash, peers |-> AfterLookup(ls[0], p)]
               ELSE IF \E k \in Answered(table, i) : slot(k) = j
               THEN [hash |-> table.entry[j].hash,
                     peers |-> ls[CHOOSE k \in Answered(table, i) : slot(k) = j]]
               ELSE table.entry[j]]]
        /\ stamps' = StampsAfter(stamps, ls, DOMAIN ls)
        /\ reply' = [to |-> p, hash |-> h, peers |-> Offered(ls[0], p),
                     predicted |-> {[hash |-> table.entry[slot(k)].hash,
                                     peers |-> Offered(ls[k], p)] :
                                    k \in Answered(table, i) \ {0}}]

(* dolookup for a hash that is not in the table. *)
LookupNew(p, h) ==
    /\ table' = newentry(table, h, addpeer(<<>>, p, DOWNLOADING))
    /\ UNCHANGED stamps
    /\ reply' = [to |-> p, hash |-> h, peers |-> <<>>, predicted |-> {}]

Lookup(p, h) ==
    /\ IF getpeers(table, h) = {}
       THEN LookupNew(p, h)
       ELSE \E i \in getpeers(table, h) : LookupKnown(p, h, i)
    /\ WithinBounds

(* register_hash, as the clients send it: one hash and no peers, which
   stands for the sender. *)
Register(p, h) ==
    /\ table' = IF getpeers(table, h) = {}
                THEN newentry(table, h, addpeer(<<>>, p, READY))
                ELSE [table EXCEPT !.entry = [i \in Slots(table) |->
                        IF i \in getpeers(table, h)
                        THEN [hash |-> table.entry[i].hash,
                              peers |-> MarkReady(table.entry[i].peers, p)]
                        ELSE table.entry[i]]]
    /\ UNCHANGED stamps
    /\ reply' = NoReply
    /\ WithinBounds

(* unregister_hash, as the clients send it: one hash and one peer. *)
Unregister(p, h) ==
    /\ getpeers(table, h) # {}
    /\ LET t == PeerRemoved(table, getpeers(table, h), p)
           emptied == \E i \in getpeers(table, h) :
                         InUse(table, i) /\ ~ InUse(t, i) IN
       table' = IF emptied THEN reclaim_free_entries(compact_hash_table(t)) ELSE t
    /\ UNCHANGED stamps
    /\ reply' = NoReply
    /\ WithinBounds

(* unregister_all, for a host that has finished its installation. *)
PeerDone(p) ==
    /\ table' = reclaim_free_entries(compact_hash_table(
                    PeerRemoved(table, Walked(table), p)))
    /\ stamps' = [stamps EXCEPT ![p] = 0]
    /\ reply' = NoReply
    /\ WithinBounds

(* STOP_SERVER ends the process; a tracker started again knows nothing. *)
Restart ==
    /\ table' = InitTable
    /\ stamps' = [p \in Peers |-> 0]
    /\ reply' = NoReply

Next ==
    \/ \E p \in Peers, h \in Hashes :
          Lookup(p, h) \/ Register(p, h) \/ Unregister(p, h)
    \/ \E p \in Peers : PeerDone(p)
    \/ Restart

Spec == Init /\ [][Next]_vars

-----------------------------------------------------------------------------
(* No entry of a list but the first of its host is READY. *)
ReadyFirstIn(list) ==
    \A j, k \in DOMAIN list :
        (j < k /\ list[j].ip = list[k].ip) => list[k].state = DOWNLOADING

(* Whether the table lists p as a READY source of h. *)
HasReady(t, h, p) ==
    \E i \in Slots(t) : /\ t.entry[i].hash = h
                        /\ [ip |-> p, state |-> READY] \in Range(t.entry[i].peers)

(* However often a host got into a list -- a LOOKUP that does not meet the
   requestor among the first PeersPerPrediction peers lists it once more --
   only its first entry can be READY.  UNREGISTER and PEER_DONE remove the
   first entry, and rely on this to leave no READY one. *)
ReadyFirst == \A i \in Slots(table) : ReadyFirstIn(table.entry[i].peers)

(* A host becomes a READY source of a file by its own REGISTER and in no
   other way: no shuffling, compacting, growing or reuse of a slot gives a
   host a file it never announced. *)
ReadyOnlyByRegister ==
    [][\A p \in Peers, h \in Hashes :
         (HasReady(table', h, p) /\ ~ HasReady(table, h, p)) => Register(p, h)]_vars

(* After an UNREGISTER of p for h, or p's PEER_DONE, the tracker no longer
   has p as a READY source of h (of any file). *)
DroppedIsNotReady ==
    [][\A p \in Peers, h \in Hashes :
         (Unregister(p, h) \/ PeerDone(p)) => ~ HasReady(table', h, p)]_vars

(* dolookup, "don't copy in address of requestor": no host is sent to
   itself, for the file it asked for or for a predicted one. *)
NotSentToItself ==
    reply # NoReply =>
        \A list \in {reply.peers} \cup {e.peers : e \in reply.predicted} :
            \A k \in DOMAIN list : list[k].ip # reply.to

(* A peer of the requestor's coop group is offered before any other, and
   among peers alike in that a READY one before one that still downloads. *)
Local(p, q) == NoCoop # Coop[p] /\ Coop[p] = Coop[q]

BestSourceFirst ==
    (reply # NoReply /\ reply.peers # <<>>) =>
        LET best == reply.peers[1] IN
        \A i \in getpeers(table, reply.hash) : \A k \in DOMAIN table.entry[i].peers :
            LET other == table.entry[i].peers[k] IN
            other.ip # reply.to =>
                /\ Local(reply.to, other.ip) => Local(reply.to, best.ip)
                /\ (Local(reply.to, other.ip) <=> Local(reply.to, best.ip))
                     => (other.state = READY => best.state = READY)

(* The requestor's address is all that is left out: whoever else is among
   the first PeersPerPrediction peers of the file is offered. *)
OnlyRequestorLeftOut ==
    reply # NoReply =>
        \A i \in getpeers(table, reply.hash) : \A k \in DOMAIN table.entry[i].peers :
            LET other == table.entry[i].peers[k] IN
            (k <= PeersPerPrediction /\ other.ip # reply.to)
                => \E j \in DOMAIN reply.peers : reply.peers[j].ip = other.ip

(* A client can have a misbehaving peer taken off a file: after UNREGISTER
   the peer is not in the list of the file. *)
UnregisterRemovesPeer ==
    [][\A p \in Peers, h \in Hashes : Unregister(p, h) =>
         \A i \in getpeers(table', h) : Positions(table'.entry[i].peers, p) = {}]_vars

=============================================================================
