----------------------------- MODULE TrackerList ----------------------------
(***************************************************************************)
(* What the tracker promises, without its circular table: a queue of the   *)
(* hashes asked for, oldest first, and the peer list of each.  A LOOKUP is *)
(* answered with the peers of the hash and with those of the PREDICTIONS   *)
(* hashes that were first asked for right after it; a hash is forgotten    *)
(* when its last peer goes, and for no other reason.                       *)
(* TrackerRefinement states that TrackerServer implements this module.     *)
(***************************************************************************)
EXTENDS TrackerPeers

CONSTANTS Hashes, PREDICTIONS, MaxPeers

VARIABLES queue, peers, stamps, reply

vars == <<queue, peers, stamps, reply>>

NoReply == [to |-> "none"]

Known(h) == h \in ToSet(queue)

Init ==
    /\ queue = <<>>
    /\ peers = [h \in Hashes |-> <<>>]
    /\ stamps = [p \in Peers |-> 0]
    /\ reply = NoReply

(* Hashes without peers leave the queue. *)
Forget(q, lists) == Filtered(q, {k \in DOMAIN q : lists[q[k]] # <<>>})

WithinBounds == \A h \in Hashes : Len(peers'[h]) <= MaxPeers

-----------------------------------------------------------------------------
LookupKnown(p, h, at) ==
    LET last == IF at + PREDICTIONS < Len(queue) THEN at + PREDICTIONS ELSE Len(queue)
        lists == [k \in 0..(last - at) |-> peers[queue[at + k]]] IN
    \E ls \in Reorderings(lists, Coop[p], stamps) :
        /\ peers' = [g \in Hashes |->
               IF g = h THEN AfterLookup(ls[0], p)
               ELSE IF \E k \in DOMAIN ls : queue[at + k] = g
               THEN ls[CHOOSE k \in DOMAIN ls : queue[at + k] = g]
               ELSE peers[g]]
        /\ stamps' = StampsAfter(stamps, ls, DOMAIN ls)
        /\ reply' = [to |-> p, hash |-> h, peers |-> Offered(ls[0], p),
                     predicted |-> {[hash |-> queue[at + k],
                                     peers |-> Offered(ls[k], p)] :
                                    k \in DOMAIN ls \ {0}}]
        /\ UNCHANGED queue

LookupNew(p, h) ==
    /\ queue' = Append(queue, h)
    /\ peers' = [peers EXCEPT ![h] = addpeer(<<>>, p, DOWNLOADING)]
    /\ reply' = [to |-> p, hash |-> h, peers |-> <<>>, predicted |-> {}]
    /\ UNCHANGED stamps

Lookup(p, h) ==
    /\ IF Known(h)
       THEN \E at \in DOMAIN queue : queue[at] = h /\ LookupKnown(p, h, at)
       ELSE LookupNew(p, h)
    /\ WithinBounds

Register(p, h) ==
    /\ queue' = IF Known(h) THEN queue ELSE Append(queue, h)
    /\ peers' = [peers EXCEPT ![h] = MarkReady(@, p)]
    /\ reply' = NoReply
    /\ UNCHANGED stamps
    /\ WithinBounds

Unregister(p, h) ==
    /\ Known(h)
    /\ peers' = [peers EXCEPT ![h] = RemovePeer(@, p)]
    /\ queue' = Forget(queue, peers')
    /\ reply' = NoReply
    /\ UNCHANGED stamps

PeerDone(p) ==
    /\ peers' = [h \in Hashes |-> RemovePeer(peers[h], p)]
    /\ queue' = Forget(queue, peers')
    /\ stamps' = [stamps EXCEPT ![p] = 0]
    /\ reply' = NoReply

Restart ==
    /\ queue' = <<>>
    /\ peers' = [h \in Hashes |-> <<>>]
    /\ stamps' = [p \in Peers |-> 0]
    /\ reply' = NoReply

Next ==
    \/ \E p \in Peers, h \in Hashes :
          Lookup(p, h) \/ Register(p, h) \/ Unregister(p, h)
    \/ \E p \in Peers : PeerDone(p)
    \/ Restart

Spec == Init /\ [][Next]_vars

=============================================================================
