---------------------------- MODULE TrackerPeers ----------------------------
(***************************************************************************)
(* The peer list of one file and what the tracker does to it               *)
(* (src/src/stack/tracker/server.c: addpeer, prep_peers, register_hash,    *)
(* removepeer; src/src/stack/tracker/shuffle.c: shuffle,                   *)
(* timestamp_compare and the download timestamp table).                    *)
(*                                                                         *)
(* A list is a sequence of records [ip, state], in the order of the        *)
(* malloc'ed array `peers'.  Download timestamps are only ever compared,   *)
(* so `stamps' maps a host to the rank of its timestamp among all of them, *)
(* or to 0 for a host that was never assigned as a source.                 *)
(***************************************************************************)
EXTENDS Naturals, Sequences, FiniteSets, SequencesExt

CONSTANTS
    Peers,              \* IP addresses of the installing hosts
    Coop,               \* Coop[p]: the coop group getcoop() finds for p
    NoCoop,             \* getcoop() found none (NULL)
    PeersPerPrediction  \* PEERS_PER_PREDICTION, 3 in the code

ASSUME PeersAssumption ==
    /\ IsFiniteSet(Peers)
    /\ PeersPerPrediction \in Nat

DOWNLOADING == "downloading"
READY == "ready"

PeerInfo == [ip : Peers, state : {DOWNLOADING, READY}]

-----------------------------------------------------------------------------
(* Positions of p in a list; getpeers/register_hash/removepeer stop at the
   first one. *)
Positions(list, p) == {k \in DOMAIN list : list[k].ip = p}

FirstPosition(list, p) ==
    CHOOSE k \in Positions(list, p) : \A j \in Positions(list, p) : k <= j

addpeer(list, p, state) == Append(list, [ip |-> p, state |-> state])

(* A slip: the search does not end at the first entry. *)
MarkAllReady(list, p) ==
    IF Positions(list, p) = {}
    THEN addpeer(list, p, READY)
    ELSE [k \in DOMAIN list |->
            IF list[k].ip = p THEN [ip |-> p, state |-> READY] ELSE list[k]]

(* register_hash: the first entry of p becomes READY, or one is appended. *)
MarkReady(list, p) ==
    IF Positions(list, p) = {}
    THEN addpeer(list, p, READY)
    ELSE [list EXCEPT ![FirstPosition(list, p)] = [ip |-> p, state |-> READY]]

(* removepeer: only the first entry of p goes. *)
RemovePeer(list, p) ==
    IF Positions(list, p) = {}
    THEN list
    ELSE RemoveAt(list, FirstPosition(list, p))

(* The elements of s at the positions K, in their order. *)
Filtered(s, K) ==
    LET upto[n \in 0..Len(s)] ==
          IF n = 0 THEN <<>>
          ELSE IF n \in K THEN Append(upto[n - 1], s[n]) ELSE upto[n - 1] IN
    upto[Len(s)]

-----------------------------------------------------------------------------
(* Whether the coop groups alone order a and b: they differ and one of them
   is the requestor's. *)
CoopDecides(a, b, my) ==
    /\ NoCoop \notin {my, Coop[a.ip], Coop[b.ip]}
    /\ Coop[a.ip] # Coop[b.ip]
    /\ my \in {Coop[a.ip], Coop[b.ip]}

(* A slip of the comparison: the coop groups are not looked at. *)
BeforeIgnoringCoop(a, b, my, stamps) ==
    IF a.state = b.state THEN stamps[a.ip] < stamps[b.ip] ELSE a.state = READY

(* timestamp_compare(a, b) < 0. *)
Before(a, b, my, stamps) ==
    IF CoopDecides(a, b, my) THEN Coop[a.ip] = my
    ELSE IF a.state = b.state
         THEN stamps[a.ip] < stamps[b.ip]
         ELSE a.state = READY

(* Whether timestamp_compare orders the list at all.  It does when every
   host has a coop group or none has; the group of one host being unknown
   can make it go in circles, and qsort() may then leave any permutation. *)
ConsistentOrder(list, my, stamps) ==
    \A i, j, k \in DOMAIN list :
        Before(list[i], list[k], my, stamps) =>
            \/ Before(list[i], list[j], my, stamps)
            \/ Before(list[j], list[k], my, stamps)

Arrangements(list) ==
    {[k \in DOMAIN list |-> list[f[k]]] : f \in Bijection(DOMAIN list, DOMAIN list)}

(* The lists shuffle() may leave for a requestor of group `my'; equal keys
   may come out in either order. *)
Shuffles(list, my, stamps) ==
    IF ConsistentOrder(list, my, stamps)
    THEN {s \in Arrangements(list) :
            \A i, j \in DOMAIN s : i < j => ~ Before(s[j], s[i], my, stamps)}
    ELSE Arrangements(list)

(* One LOOKUP shuffles several lists, in turn: K is a set of turns (numbers)
   and lists a function on it.  shuffle() stamps the first peer of each
   sorted list, unless it is alone. *)
StampedAt(ls, k, p) == Len(ls[k]) > 1 /\ ls[k][1].ip = p

(* q's last stamp is later than p's, after the turns `done'. *)
StampedLater(stamps, ls, done, q, p) ==
    \/ \E k \in done : /\ StampedAt(ls, k, q)
                       /\ \A j \in done : j >= k => ~ StampedAt(ls, j, p)
    \/ /\ \A k \in done : ~ StampedAt(ls, k, q) /\ ~ StampedAt(ls, k, p)
       /\ stamps[p] < stamps[q]

HasStamp(stamps, ls, done, p) ==
    stamps[p] # 0 \/ \E k \in done : StampedAt(ls, k, p)

StampsAfter(stamps, ls, done) ==
    [p \in Peers |->
       IF ~ HasStamp(stamps, ls, done, p) THEN 0
       ELSE Cardinality({q \in Peers : /\ HasStamp(stamps, ls, done, q)
                                       /\ ~ StampedLater(stamps, ls, done, q, p)})]

(* The ways a LOOKUP by a host of group `my' may reorder the lists. *)
Reorderings(lists, my, stamps) ==
    LET K == DOMAIN lists IN
    {ls \in [K -> UNION {Arrangements(lists[k]) : k \in K}] :
       \A k \in K : ls[k] \in Shuffles(lists[k], my,
                                       StampsAfter(stamps, ls, {j \in K : j < k}))}

-----------------------------------------------------------------------------
(* prep_peers copies at most PeersPerPrediction peers and stops for good at
   the requestor's own entry: `i' is not advanced past it, so every further
   turn of the loop only lowers `numpeers'. *)
CopyLimit(list) ==
    IF Len(list) < PeersPerPrediction THEN Len(list) ELSE PeersPerPrediction

(* A slip: the last peer that is copied is not compared. *)
MeetsRequestorBeforeLast(list, p) ==
    /\ Positions(list, p) # {}
    /\ FirstPosition(list, p) < CopyLimit(list)

MeetsRequestor(list, p) ==
    /\ Positions(list, p) # {}
    /\ FirstPosition(list, p) <= CopyLimit(list)

(* A slip: the requestor is copied like the others. *)
OfferedWithRequestor(list, p) == SubSeq(list, 1, CopyLimit(list))

Offered(list, p) ==
    SubSeq(list, 1, IF MeetsRequestor(list, p)
                    THEN FirstPosition(list, p) - 1 ELSE CopyLimit(list))

(* What a LOOKUP by p leaves of the (sorted) list of the hash it asks for:
   p's entry becomes DOWNLOADING if prep_peers met it, else one is added. *)
AfterLookup(list, p) ==
    IF MeetsRequestor(list, p)
    THEN [list EXCEPT ![FirstPosition(list, p)] = [ip |-> p, state |-> DOWNLOADING]]
    ELSE addpeer(list, p, DOWNLOADING)

=============================================================================
