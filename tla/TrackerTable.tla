---------------------------- MODULE TrackerTable ----------------------------
(***************************************************************************)
(* The circular table of file hashes of the tracker                        *)
(* (src/src/stack/tracker/server.c).  A table is a record                  *)
(*   [head, tail, size, entry]                                             *)
(* `head' is the next slot to fill and `tail' a free slot just below the   *)
(* oldest entry, so the entries in use are tail+1 .. head-1, modulo size.  *)
(* A slot whose hash is NoHash (0 in the code) is free.                    *)
(*                                                                         *)
(* The loops of the code are given here in closed form; TrackerCompaction  *)
(* checks the closed form of compact_hash_table against its loop.          *)
(***************************************************************************)
EXTENDS TrackerPeers

CONSTANTS
    Hashes,      \* hashes of file names
    NoHash,      \* the hash of a free slot
    InitSize,    \* HASH_TABLE_ENTRIES at start, 1024 in the code
    GrowBy,      \* HASH_TABLE_ENTRIES in newentry, 1024 in the code
    PREDICTIONS  \* how many newer entries a reply may add, 10 in the code

ASSUME TableAssumption ==
    /\ NoHash \notin Hashes
    /\ InitSize \in Nat \ {0, 1}
    /\ GrowBy \in Nat \ {0, 1}
    /\ PREDICTIONS \in Nat

Entry == [hash : Hashes \cup {NoHash}, peers : Seq(PeerInfo)]
FreeEntry == [hash |-> NoHash, peers |-> <<>>]

Slots(t) == 0..(t.size - 1)
InUse(t, i) == t.entry[i].hash # NoHash

InitTable ==
    [head |-> 0, tail |-> InitSize - 1, size |-> InitSize,
     entry |-> [i \in 0..(InitSize - 1) |-> FreeEntry]]

(* The slot d places below the head, going round: 1 is the newest entry. *)
Below(t, d) == IF d <= t.head THEN t.head - d ELSE t.head + t.size - d

(* How many slots lie between head and tail, both excluded; the walks from
   head - 1 down to tail take head = tail for a table with every slot but
   the tail between them. *)
Span(t) ==
    IF t.tail < t.head THEN t.head - 1 - t.tail ELSE t.head + t.size - 1 - t.tail

-----------------------------------------------------------------------------
(* A slip: one slot too many is cleared. *)
GrownClearingOldest(t) ==
    [i \in 0..(t.size + GrowBy - 1) |->
       IF i \in t.head..(t.head + GrowBy + 1) THEN FreeEntry
       ELSE IF i > t.tail + GrowBy THEN t.entry[i - GrowBy]
       ELSE t.entry[i]]

(* grow_hash_table: the entries above the tail move to the top of the new
   table and GrowBy + 1 slots from the head on are cleared. *)
Grown(t) ==
    [i \in 0..(t.size + GrowBy - 1) |->
       IF i \in t.head..(t.head + GrowBy) THEN FreeEntry
       ELSE IF i > t.tail + GrowBy THEN t.entry[i - GrowBy]
       ELSE t.entry[i]]

grow_hash_table(t) ==
    [head |-> t.head,
     tail |-> t.tail + GrowBy,
     size |-> t.size + GrowBy,
     entry |-> Grown(t)]

(* newentry grows the table when head meets tail, and only then wraps head:
   a head that wraps onto a tail at 0 is not noticed. *)
NeedsGrowth(t) == t.head + 1 = t.tail

Advanced(t) ==
    LET u == [t EXCEPT !.head = t.head + 1]
        g == IF NeedsGrowth(t) THEN grow_hash_table(u) ELSE u IN
    IF g.head = g.size THEN [g EXCEPT !.head = 0] ELSE g

(* newentry, and its caller filling the slot it returns. *)
newentry(t, hash, peers) ==
    LET g == Advanced(t) IN
    [g EXCEPT !.entry = [g.entry EXCEPT ![t.head] = [hash |-> hash, peers |-> peers]]]

-----------------------------------------------------------------------------
(* getpeers: below the head down to 0, then from the top down to the tail;
   if the head is not below the tail, from the head down to the tail.  The
   slot it finds, as a set with at most one member. *)
Matches(t, hash, from, to) == {i \in from..to : t.entry[i].hash = hash}

getpeers(t, hash) ==
    LET low == IF t.head < t.tail THEN Matches(t, hash, 0, t.head - 1) ELSE {}
        high == Matches(t, hash, t.tail,
                        IF t.head < t.tail THEN t.size - 1 ELSE t.head)
        found == IF low # {} THEN low ELSE high IN
    {i \in found : \A j \in found : j <= i}

(* Calling getnextpeers again and again from slot i meets the slots in use
   above i up to the end of the table and from 0 up to the head, or up to
   the head if that comes first.  Their distances from i: *)
Above(t, i, d) == (i + d) % t.size

HeadDistance(t, i) == IF i < t.head THEN t.head - i ELSE t.head + t.size - i

NewerThan(t, i) == {d \in 1..(HeadDistance(t, i) - 1) : InUse(t, Above(t, i, d))}

(* dolookup answers with the entry asked for, at distance 0, and with the
   next PREDICTIONS. *)
Answered(t, i) ==
    {0} \cup {d \in NewerThan(t, i) :
               Cardinality({e \in NewerThan(t, i) : e <= d}) <= PREDICTIONS}

-----------------------------------------------------------------------------
(* compact_hash_table: the entries between head and tail slide up to the
   head in their order, and the free slots gather next to the tail. *)
UsedWithin(t, d) == {e \in 1..d : InUse(t, Below(t, e))}

(* A slip: nothing is moved. *)
CompactNothing(t) == t

compact_hash_table(t) ==
    LET ranked(k) == {d \in UsedWithin(t, Span(t)) :
                        Cardinality(UsedWithin(t, d)) = k}
        at(k) == IF ranked(k) = {} THEN FreeEntry
                 ELSE t.entry[Below(t, CHOOSE d \in ranked(k) : TRUE)] IN
    [t EXCEPT !.entry =
        [i \in Slots(t) |->
           IF i = t.tail \/ ~ \E d \in 1..Span(t) : Below(t, d) = i THEN t.entry[i]
           ELSE at(CHOOSE d \in 1..Span(t) : Below(t, d) = i)]]

(* reclaim_free_entries.  A run of free slots just above the tail. *)
FreeRun(t, top) ==
    {i \in (t.tail + 1)..top : \A j \in (t.tail + 1)..i : ~ InUse(t, j)}

AfterRun(t, run) == IF run = {} THEN t.tail ELSE Max(run)

(* First the tail moves over free slots up to the end of the table, and
   from the end to slot 0 ... *)
TailUp(t) ==
    IF t.tail <= t.head THEN t
    ELSE LET up == AfterRun(t, FreeRun(t, t.size - 1)) IN
         [t EXCEPT !.tail = IF up = t.size - 1 /\ ~ InUse(t, 0) /\ t.head # 0
                            THEN 0 ELSE up]

(* ... then over free slots up to the head ... *)
TailToHead(t) ==
    IF t.tail >= t.head THEN t
    ELSE [t EXCEPT !.tail = AfterRun(t, FreeRun(t, t.head - 1))]

(* ... and last a head below the tail moves down over free slots, and from
   0 to the last slot of the table, even if that one is the tail.  The loop
   for a head above the tail never runs: its condition is i < tail with
   i = head - 1. *)
HeadDown(t) ==
    IF t.head >= t.tail THEN t
    ELSE LET used == {i \in 0..(t.head - 1) : InUse(t, i)}
             down == IF used = {} THEN 0 ELSE Max(used) + 1 IN
         [t EXCEPT !.head = IF down = 0 /\ ~ InUse(t, t.size - 1)
                            THEN t.size - 1 ELSE down]

reclaim_free_entries(t) == HeadDown(TailToHead(TailUp(t)))

-----------------------------------------------------------------------------
(* removepeer: an entry that loses its last peer becomes free. *)
WithoutPeer(entry, p) ==
    IF Positions(entry.peers, p) = {} THEN entry
    ELSE IF Len(entry.peers) = 1 THEN FreeEntry
    ELSE [entry EXCEPT !.peers = RemovePeer(entry.peers, p)]

(* unregister_all walks the slots strictly between tail and head. *)
Walked(t) ==
    IF t.head >= t.tail THEN (t.tail + 1)..(t.head - 1)
    ELSE 0..(t.head - 1) \cup (t.tail + 1)..(t.size - 1)

(* The table without p as a peer of the slots in `slots'. *)
PeerRemoved(t, slots, p) ==
    [t EXCEPT !.entry = [i \in Slots(t) |->
        IF i \in slots THEN WithoutPeer(t.entry[i], p) ELSE t.entry[i]]]

=============================================================================
