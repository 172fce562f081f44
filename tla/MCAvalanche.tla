----------------------------- MODULE MCAvalanche ----------------------------
(* Values for TLC: the cfg files MCAvalanche*.cfg choose among them. *)
EXTENDS Avalanche, TLC

CONSTANTS p1, p2, f1, f2, w1, w2

NoCoops == [p \in Peers |-> NoCoop]

OneLookup == [p \in Peers |-> [w \in Workers |-> 1]]
OneByTwoProcesses == [p \in Peers |-> [w \in Workers |-> IF p = p2 /\ w = w2 THEN 0 ELSE 1]]

(* Files are not told apart where both are in packages.md5. *)
FileSymmetry == Permutations({f1, f2})

(* A view that leaves out the tracker's last reply, which no later step and
   no property reads: the answer is in `sent'. *)
WithoutReply == <<queue, peers, stamps, sent, disk, finished, job, seqno, predictions>>

=============================================================================
