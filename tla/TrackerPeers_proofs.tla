------------------------ MODULE TrackerPeers_proofs -------------------------
(***************************************************************************)
(* Facts about the tracker's peer lists, for lists of any length: what the *)
(* operators of TrackerPeers return, keep and leave out.                   *)
(***************************************************************************)
EXTENDS TrackerPeers, NaturalsInduction, WellFoundedInduction, SequenceTheorems,
        FiniteSetTheorems, TLAPS

(* A set of naturals that is not empty has a least member. *)
LEMMA LeastExists ==
    ASSUME NEW T \in SUBSET Nat, T # {}
    PROVE  \E x \in T : \A y \in T : x <= y
<1> DEFINE less == OpToRel(<, Nat)
<1>1. \A x, y \in Nat : y < x => <<y, x>> \in less
  BY DEF OpToRel
<1> HIDE DEF less
<1>2. \E x \in T : \A y \in T : ~ (<<y, x>> \in less)
  BY NatLessThanWellFounded, WFMin DEF less
<1>3. PICK x \in T : \A y \in T : ~ (<<y, x>> \in less)
  BY <1>2
<1>4. \A y \in T : x <= y
  <2> TAKE y \in T
  <2>1. x \in Nat /\ y \in Nat
    BY <1>3
  <2>2. ~ (y < x)
    BY <1>1, <1>3, <2>1
  <2> QED
    BY <2>1, <2>2
<1> QED
  BY <1>3, <1>4

(* A set of naturals with an upper bound, not empty, has a greatest one. *)
LEMMA GreatestExists ==
    ASSUME NEW n \in Nat, NEW T \in SUBSET (0..n), T # {}
    PROVE  \E x \in T : \A y \in T : y <= x
<1> DEFINE U == {n - y : y \in T}
<1>1. U \in SUBSET Nat /\ U # {}
  <2>1. \A y \in T : n - y \in Nat
    OBVIOUS
  <2> QED
    BY <2>1
<1>2. PICK u \in U : \A v \in U : u <= v
  BY <1>1, LeastExists
<1>3. PICK x \in T : u = n - x
  OBVIOUS
<1>4. \A y \in T : y <= x
  <2> TAKE y \in T
  <2>1. n - y \in U
    OBVIOUS
  <2>2. x \in 0..n /\ y \in 0..n
    OBVIOUS
  <2> HIDE DEF U
  <2> QED
    BY <1>2, <1>3, <2>1, <2>2
<1> QED
  BY <1>4

(* Induction up to N: a set that has 0, and n whenever it has n - 1. *)
LEMMA SetInduction ==
    ASSUME NEW N \in Nat, NEW P, 0 \in P, \A n \in 1..N : n - 1 \in P => n \in P
    PROVE  0..N \subseteq P
<1> DEFINE T == (0..N) \ P
<1>1. CASE T = {}
  BY <1>1
<1>2. CASE T # {}
  <2>1. T \in SUBSET Nat
    OBVIOUS
  <2>2. PICK n \in T : \A m \in T : n <= m
    <3> HIDE DEF T
    <3> QED
      BY <1>2, <2>1, LeastExists
  <2>3. n \in 1..N /\ n - 1 \in 0..N
    BY <2>2
  <2> QED
    BY <2>2, <2>3
<1> QED
  BY <1>1, <1>2

Recursion(f, N, start, step) ==
    f[0] = start /\ \A n \in 1..N : f[n] = step[n][f[n - 1]]

(* A recursive definition over 0..N whose n-th step is the function step[n] *)
(* has a solution.                                                         *)
LEMMA BoundedRecursion ==
    ASSUME NEW S, NEW start \in S, NEW N \in Nat, NEW step \in [1..N -> [S -> S]]
    PROVE  \E f \in [0..N -> S] : Recursion(f, N, start, step)
<1> DEFINE Upto(n, f) == f[0] = start /\ \A k \in 1..n : f[k] = step[k][f[k - 1]]
           P == {n \in 0..N : \E f \in [0..n -> S] : Upto(n, f)}
<1>1. 0 \in P
  <2> DEFINE f == [k \in 0..0 |-> start]
  <2>1. f \in [0..0 -> S] /\ Upto(0, f)
    OBVIOUS
  <2> HIDE DEF f, Upto
  <2> QED
    BY <2>1
<1>2. ASSUME NEW n \in 1..N, n - 1 \in P
      PROVE  n \in P
  <2>1. PICK f \in [0..(n - 1) -> S] : Upto(n - 1, f)
    BY <1>2
  <2> DEFINE g == [k \in 0..n |-> IF k = n THEN step[n][f[n - 1]] ELSE f[k]]
  <2>2. g \in [0..n -> S]
    OBVIOUS
  <2>3. Upto(n, g)
    BY <2>1
  <2> HIDE DEF g, Upto
  <2> QED
    BY <2>2, <2>3
<1> HIDE DEF P
<1>3. N \in P
  <2>1. N \in 0..N
    OBVIOUS
  <2>2. 0..N \subseteq P
    BY <1>1, <1>2, SetInduction
  <2> QED
    BY <2>1, <2>2
<1> QED
  BY <1>3 DEF P, Recursion

-----------------------------------------------------------------------------
(* Subsequences. *)

(* What Filtered has of s is built up element by element. *)
LEMMA FilteredSteps ==
    ASSUME NEW S, NEW s \in Seq(S), NEW K
    PROVE  \E f \in [0..Len(s) -> Seq(S)] :
              /\ f[0] = <<>> /\ f[Len(s)] = Filtered(s, K)
              /\ \A n \in 1..Len(s) :
                    f[n] = IF n \in K THEN Append(f[n - 1], s[n]) ELSE f[n - 1]
<1> DEFINE N == Len(s)
           T == Seq(S)
           empty == <<>>
           after(n, r) == IF n \in K THEN Append(r, s[n]) ELSE r
           step == [n \in 1..N |-> [r \in T |-> after(n, r)]]
           body(g) == [n \in 0..N |-> IF n = 0 THEN empty ELSE after(n, g[n - 1])]
           upto == CHOOSE g : g = body(g)
<1>1. N \in Nat /\ empty \in T /\ \A n \in 1..N : s[n] \in S
  BY EmptySeq, LenProperties, ElementOfSeq
<1>2. \A n \in 1..N : \A r \in T : after(n, r) \in T
  BY <1>1, AppendProperties
<1>3. Filtered(s, K) = upto[N]
  BY DEF Filtered
<1> SUFFICES \E f \in [0..N -> T] : /\ f[0] = empty /\ f[N] = Filtered(s, K)
                                    /\ \A n \in 1..N : f[n] = after(n, f[n - 1])
  OBVIOUS
<1> HIDE DEF N, T, empty, after
<1>4. PICK f \in [0..N -> T] : Recursion(f, N, empty, step)
  <2>1. step \in [1..N -> [T -> T]]
    BY <1>2
  <2> HIDE DEF step
  <2> QED
    BY <1>1, <2>1, BoundedRecursion
<1>5. f = body(f)
  <2>1. ASSUME NEW n \in 1..N
        PROVE  f[n] = after(n, f[n - 1])
    <3>1. n - 1 \in 0..N
      BY <1>1
    <3>2. f[n - 1] \in T
      BY <3>1
    <3> QED
      BY <1>4, <3>2 DEF Recursion
  <2>2. f = [n \in 0..N |-> f[n]]
    OBVIOUS
  <2> QED
    BY <1>1, <1>4, <2>1, <2>2 DEF Recursion
<1>6. upto = body(upto)
  <2> HIDE DEF body
  <2> QED
    BY <1>5
<1> HIDE DEF upto
<1> DEFINE P == {n \in 0..N : upto[n] \in T}
<1>7. 0 \in P
  BY <1>1, <1>6
<1>8. ASSUME NEW n \in 1..N, n - 1 \in P
      PROVE  n \in P
  <2>1. upto[n] = after(n, upto[n - 1])
    BY <1>1, <1>6
  <2> QED
    BY <1>2, <1>8, <2>1
<1>9. \A n \in 0..N : upto[n] \in T
  <2> HIDE DEF P
  <2>1. 0..N \subseteq P
    BY <1>1, <1>7, <1>8, SetInduction
  <2> QED
    BY <2>1 DEF P
<1>10. upto[0] = empty /\ \A n \in 1..N : upto[n] = after(n, upto[n - 1])
  BY <1>1, <1>6
<1>11. upto = [n \in 0..N |-> upto[n]]
  BY <1>6
<1>12. upto \in [0..N -> T]
  BY <1>9, <1>11
<1> QED
  BY <1>3, <1>10, <1>12

(* It is a sequence of elements of s. *)
LEMMA FilteredType ==
    ASSUME NEW S, NEW s \in Seq(S), NEW K
    PROVE  Filtered(s, K) \in Seq(S)
<1>1. PICK f \in [0..Len(s) -> Seq(S)] : f[Len(s)] = Filtered(s, K)
  BY FilteredSteps
<1>2. Len(s) \in 0..Len(s)
  BY LenProperties
<1> QED
  BY <1>1, <1>2

(* How many of the numbers 1 to d are in U. *)
CountTo(U, d) == Cardinality({e \in 1..d : e \in U})

(* It grows by one at every member of U. *)
LEMMA Counting ==
    ASSUME NEW N \in Nat, NEW U \in SUBSET (1..N)
    PROVE  /\ CountTo(U, 0) = 0
           /\ \A d \in 0..N : CountTo(U, d) \in 0..d /\ CountTo(U, d) \in Nat
           /\ \A d \in 1..N :
                 CountTo(U, d) = CountTo(U, d - 1) + (IF d \in U THEN 1 ELSE 0)
           /\ \A d, e \in 0..N : d <= e => CountTo(U, d) <= CountTo(U, e)
<1> DEFINE C(d) == {e \in 1..d : e \in U}
<1>1. \A d \in 0..N : IsFiniteSet(C(d)) /\ Cardinality(C(d)) \in 0..d
  <2>1. ASSUME NEW d \in 0..N
        PROVE  IsFiniteSet(C(d)) /\ Cardinality(C(d)) \in 0..d
    <3>1. IsFiniteSet(1..d) /\ Cardinality(1..d) = d
      BY FS_Interval
    <3>2. C(d) \in SUBSET (1..d)
      OBVIOUS
    <3>3. IsFiniteSet(C(d)) /\ Cardinality(C(d)) <= d
      BY <3>1, <3>2, FS_Subset
    <3> QED
      BY <3>3, FS_CardinalityType
  <2> QED
    BY <2>1
<1>2. C(0) = {}
  OBVIOUS
<1>3. ASSUME NEW d \in 1..N
      PROVE  Cardinality(C(d)) = Cardinality(C(d - 1)) + (IF d \in U THEN 1 ELSE 0)
  <2>1. d - 1 \in 0..N /\ d \notin C(d - 1)
    OBVIOUS
  <2>2. C(d) = IF d \in U THEN C(d - 1) \cup {d} ELSE C(d - 1)
    OBVIOUS
  <2>3. IsFiniteSet(C(d - 1)) /\ Cardinality(C(d - 1)) \in Nat
    BY <1>1, <2>1
  <2>4. Cardinality(C(d - 1) \cup {d}) = Cardinality(C(d - 1)) + 1
    BY <2>1, <2>3, FS_AddElement
  <2> HIDE DEF C
  <2> QED
    BY <2>2, <2>3, <2>4
<1>4. ASSUME NEW d \in 0..N, NEW e \in 0..N, d <= e
      PROVE  Cardinality(C(d)) <= Cardinality(C(e))
  <2>1. C(d) \in SUBSET C(e)
    BY <1>4
  <2>2. IsFiniteSet(C(e))
    BY <1>1
  <2> HIDE DEF C
  <2> QED
    BY <2>1, <2>2, FS_Subset
<1>5. \A d : CountTo(U, d) = Cardinality(C(d))
  BY DEF CountTo
<1>6. Cardinality(C(0)) = 0
  BY <1>2, FS_EmptySet
<1> HIDE DEF C
<1> QED
  BY <1>1, <1>3, <1>4, <1>5, <1>6

(* The members of U one after the other. *)
LEMMA Enumerated ==
    ASSUME NEW N \in Nat, NEW U \in SUBSET (1..N)
    PROVE  \E f \in [1..CountTo(U, N) -> U] :
              /\ \A k \in 1..CountTo(U, N) : CountTo(U, f[k]) = k
              /\ \A d \in U : CountTo(U, d) \in 1..CountTo(U, N) /\ f[CountTo(U, d)] = d
              /\ \A j, k \in 1..CountTo(U, N) : j < k => f[j] < f[k]
<1> DEFINE n == CountTo(U, N)
<1>1. /\ CountTo(U, 0) = 0
      /\ \A d \in 0..N : CountTo(U, d) \in Nat
      /\ \A d \in 1..N :
            CountTo(U, d) = CountTo(U, d - 1) + (IF d \in U THEN 1 ELSE 0)
      /\ \A d, e \in 0..N : d <= e => CountTo(U, d) <= CountTo(U, e)
  BY Counting
<1>2. n \in Nat
  BY <1>1
<1>3. \A d \in U : CountTo(U, d) \in 1..n
  <2>1. ASSUME NEW d \in U
        PROVE  CountTo(U, d) \in 1..n
    <3>1. /\ d \in 1..N /\ d \in 0..N /\ d - 1 \in 0..N /\ N \in 0..N /\ d <= N
      OBVIOUS
    <3>2. /\ CountTo(U, d) = CountTo(U, d - 1) + 1 /\ CountTo(U, d - 1) \in Nat
          /\ CountTo(U, d) <= n
      BY <1>1, <3>1
    <3> QED
      BY <1>2, <3>2
  <2> QED
    BY <2>1
<1>4. \A d, e \in U : d < e => CountTo(U, d) < CountTo(U, e)
  <2>1. ASSUME NEW d \in U, NEW e \in U, d < e
        PROVE  CountTo(U, d) < CountTo(U, e)
    <3>1. d \in 0..N /\ e \in 1..N /\ e - 1 \in 0..N /\ d <= e - 1
      BY <2>1
    <3>2. CountTo(U, d) <= CountTo(U, e - 1) /\ CountTo(U, e) = CountTo(U, e - 1) + 1
      BY <1>1, <3>1
    <3>3. CountTo(U, d) \in Nat /\ CountTo(U, e - 1) \in Nat
      BY <1>1, <3>1
    <3> QED
      BY <3>2, <3>3
  <2> QED
    BY <2>1
<1>5. \A k \in 1..n : \E d \in U : CountTo(U, d) = k
  <2> DEFINE P == {m \in 0..N : \A k \in 1..CountTo(U, m) : \E d \in U : CountTo(U, d) = k}
  <2>1. 0 \in P
    BY <1>1
  <2>2. ASSUME NEW m \in 1..N, m - 1 \in P
        PROVE  m \in P
    <3>1. m - 1 \in 0..N /\ CountTo(U, m - 1) \in Nat
      BY <1>1
    <3>2. CASE m \in U
      <4>1. CountTo(U, m) = CountTo(U, m - 1) + 1
        BY <1>1, <3>2
      <4>2. \A k \in 1..CountTo(U, m) : k \in 1..CountTo(U, m - 1) \/ k = CountTo(U, m)
        BY <3>1, <4>1
      <4> QED
        BY <2>2, <3>2, <4>2
    <3>3. CASE m \notin U
      <4>1. CountTo(U, m) = CountTo(U, m - 1)
        BY <1>1, <3>1, <3>3
      <4> QED
        BY <2>2, <4>1
    <3> QED
      BY <3>2, <3>3
  <2> HIDE DEF P
  <2>3. N \in P
    <3>1. N \in 0..N
      OBVIOUS
    <3>2. 0..N \subseteq P
      BY <2>1, <2>2, SetInduction
    <3> QED
      BY <3>1, <3>2
  <2> QED
    BY <2>3 DEF P
<1> DEFINE f == [k \in 1..n |-> CHOOSE d \in U : CountTo(U, d) = k]
<1>6. \A k \in 1..n : f[k] \in U /\ CountTo(U, f[k]) = k
  BY <1>5
<1>7. f \in [1..n -> U]
  BY <1>6
<1> HIDE DEF f
<1>8. \A d, e \in U : CountTo(U, d) = CountTo(U, e) => d = e
  <2>1. \A d, e \in U : d < e \/ e < d \/ d = e
    OBVIOUS
  <2>2. \A d \in U : CountTo(U, d) \in Nat
    BY <1>1
  <2> QED
    BY <1>4, <2>1, <2>2
<1>9. \A d \in U : f[CountTo(U, d)] = d
  BY <1>3, <1>6, <1>8
<1>10. ASSUME NEW j \in 1..n, NEW k \in 1..n, j < k
       PROVE  f[j] < f[k]
  <2>1. f[j] \in U /\ f[k] \in U /\ f[j] \in Nat /\ f[k] \in Nat
    <3>1. \A d \in U : d \in Nat
      OBVIOUS
    <3> QED
      BY <1>6, <3>1
  <2>2. CountTo(U, f[j]) = j /\ CountTo(U, f[k]) = k /\ j \in Nat /\ k \in Nat
    BY <1>6
  <2>3. f[k] < f[j] => k < j
    BY <1>4, <2>1, <2>2
  <2>4. f[k] # f[j]
    BY <1>10, <2>2
  <2> QED
    BY <1>10, <2>1, <2>2, <2>3, <2>4
<1> QED
  BY <1>3, <1>6, <1>7, <1>9, <1>10

(* Filtered has the elements of s at the positions of K, in their order. *)
LEMMA FilteredElements ==
    ASSUME NEW S, NEW s \in Seq(S), NEW K \in SUBSET (1..Len(s))
    PROVE  /\ Len(Filtered(s, K)) = CountTo(K, Len(s))
           /\ \A d \in K : Filtered(s, K)[CountTo(K, d)] = s[d]
<1> DEFINE N == Len(s)
<1>1. N \in Nat /\ \A n \in 1..N : s[n] \in S
  BY LenProperties, ElementOfSeq
<1>2. PICK f \in [0..N -> Seq(S)] :
              /\ f[0] = <<>> /\ f[N] = Filtered(s, K)
              /\ \A n \in 1..N : f[n] = IF n \in K THEN Append(f[n - 1], s[n]) ELSE f[n - 1]
  BY FilteredSteps
<1>3. /\ CountTo(K, 0) = 0
      /\ \A d \in 0..N : CountTo(K, d) \in Nat
      /\ \A d \in 1..N : CountTo(K, d) = CountTo(K, d - 1) + (IF d \in K THEN 1 ELSE 0)
      /\ \A d, e \in 0..N : d <= e => CountTo(K, d) <= CountTo(K, e)
  BY <1>1, Counting
<1> DEFINE P == {n \in 0..N : /\ Len(f[n]) = CountTo(K, n)
                              /\ \A d \in K : d <= n => f[n][CountTo(K, d)] = s[d]}
<1> HIDE DEF N
<1>4. 0 \in P
  <2>1. \A d \in K : ~ (d <= 0)
    BY DEF N
  <2>2. Len(f[0]) = 0
    BY <1>2
  <2> QED
    BY <1>1, <1>3, <2>1, <2>2
<1>5. ASSUME NEW n \in 1..N, n - 1 \in P
      PROVE  n \in P
  <2>1. n - 1 \in 0..N /\ n \in 0..N /\ f[n - 1] \in Seq(S) /\ Len(f[n - 1]) = CountTo(K, n - 1)
    BY <1>1, <1>2, <1>5
  <2>2. CASE n \notin K
    <3>1. f[n] = f[n - 1] /\ CountTo(K, n) = CountTo(K, n - 1)
      BY <1>2, <1>3, <2>1, <2>2
    <3>2. \A d \in K : d <= n => d <= n - 1
      BY <1>1, <2>2 DEF N
    <3> QED
      BY <1>5, <2>1, <3>1, <3>2
  <2>3. CASE n \in K
    <3>1. f[n] = Append(f[n - 1], s[n]) /\ CountTo(K, n) = CountTo(K, n - 1) + 1
      BY <1>2, <1>3, <2>3
    <3>2. /\ Len(f[n]) = CountTo(K, n)
          /\ f[n][CountTo(K, n)] = s[n]
          /\ \A k \in 1..CountTo(K, n - 1) : f[n][k] = f[n - 1][k]
      <4>1. /\ Len(Append(f[n - 1], s[n])) = Len(f[n - 1]) + 1
            /\ Append(f[n - 1], s[n])[Len(f[n - 1]) + 1] = s[n]
            /\ \A k \in 1..Len(f[n - 1]) : Append(f[n - 1], s[n])[k] = f[n - 1][k]
        BY <1>1, <2>1, AppendProperties
      <4> QED
        BY <2>1, <3>1, <4>1
    <3>3. ASSUME NEW d \in K, d <= n, d # n
          PROVE  f[n][CountTo(K, d)] = s[d]
      <4>1. d \in 1..N /\ d \in 0..N /\ d - 1 \in 0..N /\ d <= n - 1
        BY <1>1, <3>3 DEF N
      <4>2. /\ CountTo(K, d) = CountTo(K, d - 1) + 1 /\ CountTo(K, d - 1) \in Nat
            /\ CountTo(K, d) <= CountTo(K, n - 1) /\ CountTo(K, n - 1) \in Nat
        BY <1>3, <2>1, <4>1
      <4>3. CountTo(K, d) \in 1..CountTo(K, n - 1)
        BY <4>2
      <4> QED
        BY <1>5, <3>2, <4>1, <4>3
    <3> QED
      BY <2>1, <3>2, <3>3
  <2> QED
    BY <2>2, <2>3
<1>6. N \in P
  <2> HIDE DEF P
  <2>1. N \in 0..N
    BY <1>1
  <2>2. 0..N \subseteq P
    BY <1>1, <1>4, <1>5, SetInduction
  <2> QED
    BY <2>1, <2>2
<1>7. \A d \in K : d <= N
  BY <1>1 DEF N
<1> QED
  BY <1>2, <1>6, <1>7 DEF N

-----------------------------------------------------------------------------
(* Peer lists. *)

(* The first entry of a host is one of its entries, and none is before it. *)
LEMMA LeastPosition ==
    ASSUME NEW list \in Seq(PeerInfo), NEW p, Positions(list, p) # {}
    PROVE  /\ FirstPosition(list, p) \in 1..Len(list)
           /\ list[FirstPosition(list, p)].ip = p
           /\ \A j \in 1..Len(list) : list[j].ip = p => FirstPosition(list, p) <= j
<1>1. Positions(list, p) \in SUBSET Nat
  BY DEF Positions
<1>2. \E k \in Positions(list, p) : \A j \in Positions(list, p) : k <= j
  BY <1>1, LeastExists
<1>3. /\ FirstPosition(list, p) \in Positions(list, p)
      /\ \A j \in Positions(list, p) : FirstPosition(list, p) <= j
  BY <1>2 DEF FirstPosition
<1> QED
  BY <1>3 DEF Positions

(* A list without the first entry of a host. *)
LEMMA TakenOut ==
    ASSUME NEW list \in Seq(PeerInfo), NEW p, Positions(list, p) # {}
    PROVE  /\ RemovePeer(list, p) \in Seq(PeerInfo)
           /\ Len(RemovePeer(list, p)) = Len(list) - 1
           /\ \A i \in 1..(Len(list) - 1) :
                RemovePeer(list, p)[i] =
                  IF i < FirstPosition(list, p) THEN list[i] ELSE list[i + 1]
<1> DEFINE n == FirstPosition(list, p)
           s == SubSeq(list, 1, n - 1)
           t == SubSeq(list, n + 1, Len(list))
<1>1. n \in 1..Len(list) /\ Len(list) \in Nat
  BY LeastPosition
<1>2. RemovePeer(list, p) = s \o t
  BY DEF RemovePeer, RemoveAt
<1> HIDE DEF n
<1>3. \A i \in 1..Len(list) : list[i] \in PeerInfo
  BY ElementOfSeq
<1>4. /\ s \in Seq(PeerInfo) /\ Len(s) = n - 1
      /\ \A i \in 1..(n - 1) : s[i] = list[i]
  BY <1>1, <1>3
<1>5. /\ t \in Seq(PeerInfo) /\ Len(t) = Len(list) - n
      /\ \A i \in 1..(Len(list) - n) : t[i] = list[n + i]
  BY <1>1, <1>3
<1> HIDE DEF s, t
<1>6. /\ s \o t \in Seq(PeerInfo) /\ Len(s \o t) = Len(list) - 1
      /\ \A i \in 1..(Len(list) - 1) :
           (s \o t)[i] = IF i < n THEN list[i] ELSE list[i + 1]
  <2>1. /\ s \o t \in Seq(PeerInfo) /\ Len(s \o t) = Len(s) + Len(t)
        /\ \A i \in 1..(Len(s) + Len(t)) :
             (s \o t)[i] = IF i <= Len(s) THEN s[i] ELSE t[i - Len(s)]
    BY <1>4, <1>5, ConcatProperties
  <2>2. ASSUME NEW i \in 1..(Len(list) - 1)
        PROVE  (s \o t)[i] = IF i < n THEN list[i] ELSE list[i + 1]
    <3>1. CASE i < n
      <4>1. i \in 1..(n - 1) /\ i \in 1..(Len(s) + Len(t)) /\ i <= Len(s)
        BY <1>1, <1>4, <1>5, <3>1
      <4> QED
        BY <1>4, <2>1, <3>1, <4>1
    <3>2. CASE ~ (i < n)
      <4>1. /\ i - (n - 1) \in 1..(Len(list) - n) /\ n + (i - (n - 1)) = i + 1
            /\ i \in 1..(Len(s) + Len(t)) /\ ~ (i <= Len(s))
        BY <1>1, <1>4, <1>5, <3>2
      <4> QED
        BY <1>4, <1>5, <2>1, <3>2, <4>1
    <3> QED
      BY <3>1, <3>2
  <2> QED
    BY <1>1, <1>4, <1>5, <2>1, <2>2
<1> DEFINE r == RemovePeer(list, p)
<1>7. /\ r \in Seq(PeerInfo) /\ Len(r) = Len(list) - 1
      /\ \A i \in 1..(Len(list) - 1) :
           r[i] = IF i < n THEN list[i] ELSE list[i + 1]
  BY <1>2, <1>6
<1> HIDE DEF r
<1> QED
  BY <1>7 DEF r, n

(* Removing a host from a list makes up no entry and keeps the order of the rest. *)
LEMMA RemovedPeers ==
    ASSUME NEW list \in Seq(PeerInfo), NEW p
    PROVE  /\ RemovePeer(list, p) \in Seq(PeerInfo)
           /\ \A k \in 1..Len(RemovePeer(list, p)) :
                \E m \in 1..Len(list) : RemovePeer(list, p)[k] = list[m]
           /\ \A j, k \in 1..Len(RemovePeer(list, p)) : j < k =>
                \E i, m \in 1..Len(list) : /\ i < m
                                          /\ RemovePeer(list, p)[j] = list[i]
                                          /\ RemovePeer(list, p)[k] = list[m]
<1>1. CASE Positions(list, p) = {}
  BY <1>1 DEF RemovePeer
<1>2. CASE Positions(list, p) # {}
  <2> DEFINE n == FirstPosition(list, p)
             r == RemovePeer(list, p)
  <2>1. n \in 1..Len(list) /\ Len(list) \in Nat
    BY <1>2, LeastPosition
  <2>2. /\ r \in Seq(PeerInfo) /\ Len(r) = Len(list) - 1
        /\ \A i \in 1..(Len(list) - 1) :
             r[i] = IF i < n THEN list[i] ELSE list[i + 1]
    BY <1>2, TakenOut
  <2> HIDE DEF n, r
  <2>3. ASSUME NEW j \in 1..Len(r), NEW k \in 1..Len(r), j < k
        PROVE  \E i, m \in 1..Len(list) : i < m /\ r[j] = list[i] /\ r[k] = list[m]
    <3> DEFINE i == IF j < n THEN j ELSE j + 1
               m == IF k < n THEN k ELSE k + 1
    <3>1. i \in 1..Len(list) /\ m \in 1..Len(list) /\ i < m
      BY <2>1, <2>2, <2>3
    <3>2. r[j] = list[i] /\ r[k] = list[m]
      BY <2>2
    <3> QED
      BY <3>1, <3>2
  <2>4. ASSUME NEW k \in 1..Len(r)
        PROVE  \E m \in 1..Len(list) : r[k] = list[m]
    <3> DEFINE m == IF k < n THEN k ELSE k + 1
    <3>1. m \in 1..Len(list) /\ r[k] = list[m]
      BY <2>1, <2>2
    <3> QED
      BY <3>1
  <2> QED
    BY <2>2, <2>3, <2>4 DEF r
<1> QED
  BY <1>1, <1>2

(* Everything the server does to a peer list leaves a peer list. *)
LEMMA MarkedPeers ==
    ASSUME NEW list \in Seq(PeerInfo), NEW p \in Peers
    PROVE  /\ addpeer(list, p, READY) \in Seq(PeerInfo)
           /\ addpeer(list, p, DOWNLOADING) \in Seq(PeerInfo)
           /\ MarkReady(list, p) \in Seq(PeerInfo)
           /\ AfterLookup(list, p) \in Seq(PeerInfo)
           /\ Offered(list, p) \in Seq(PeerInfo)
<1>1. [ip |-> p, state |-> READY] \in PeerInfo /\ [ip |-> p, state |-> DOWNLOADING] \in PeerInfo
  BY DEF PeerInfo
<1>2. addpeer(list, p, READY) \in Seq(PeerInfo) /\ addpeer(list, p, DOWNLOADING) \in Seq(PeerInfo)
  BY <1>1, AppendProperties DEF addpeer
<1>3. ASSUME Positions(list, p) # {}, NEW e \in PeerInfo
      PROVE  [list EXCEPT ![FirstPosition(list, p)] = e] \in Seq(PeerInfo)
  BY <1>3, LeastPosition, ExceptSeq
<1>4. MarkReady(list, p) \in Seq(PeerInfo)
  BY <1>1, <1>2, <1>3 DEF MarkReady
<1>5. AfterLookup(list, p) \in Seq(PeerInfo)
  BY <1>1, <1>2, <1>3 DEF AfterLookup, MeetsRequestor
<1>6. Offered(list, p) \in Seq(PeerInfo)
  <2>1. CopyLimit(list) \in 0..Len(list) /\ Len(list) \in Nat
    BY PeersAssumption, LenProperties DEF CopyLimit
  <2>2. MeetsRequestor(list, p) => FirstPosition(list, p) - 1 \in 0..Len(list)
    BY <2>1, LeastPosition DEF MeetsRequestor
  <2>3. ASSUME NEW n \in 0..Len(list)
        PROVE  SubSeq(list, 1, n) \in Seq(PeerInfo)
    BY <2>1, ElementOfSeq, SubSeqProperties
  <2> QED
    BY <2>1, <2>2, <2>3 DEF Offered
<1> QED
  BY <1>2, <1>4, <1>5, <1>6

(* Arranging a list makes up no entry and takes none twice. *)
LEMMA ArrangedPeers ==
    ASSUME NEW list \in Seq(PeerInfo), NEW s \in Arrangements(list)
    PROVE  /\ s \in Seq(PeerInfo)
           /\ \A k \in 1..Len(s) : \E m \in 1..Len(list) : s[k] = list[m]
           /\ \A j, k \in 1..Len(s) : j # k =>
                \E i, m \in 1..Len(list) : i # m /\ s[j] = list[i] /\ s[k] = list[m]
<1>1. DOMAIN list = 1..Len(list) /\ Len(list) \in Nat
  BY LenProperties
<1>2. PICK f \in Bijection(1..Len(list), 1..Len(list)) :
             s = [k \in 1..Len(list) |-> list[f[k]]]
  BY <1>1 DEF Arrangements
<1>3. /\ f \in [1..Len(list) -> 1..Len(list)]
      /\ \A j, k \in 1..Len(list) : f[j] = f[k] => j = k
  BY DEF Bijection, Injection, IsInjective
<1>4. \A k \in 1..Len(list) : list[f[k]] \in PeerInfo
  BY <1>3, ElementOfSeq
<1>5. s \in Seq(PeerInfo) /\ Len(s) = Len(list)
  BY <1>1, <1>2, <1>4
<1>6. \A j, k \in 1..Len(s) : j # k =>
        f[j] \in 1..Len(list) /\ f[k] \in 1..Len(list) /\ f[j] # f[k]
        /\ s[j] = list[f[j]] /\ s[k] = list[f[k]]
  BY <1>2, <1>3, <1>5
<1>7. \A k \in 1..Len(s) : f[k] \in 1..Len(list) /\ s[k] = list[f[k]]
  BY <1>2, <1>3, <1>5
<1> QED
  BY <1>5, <1>6, <1>7

(* getcoop() finds a coop group for every host or for none. *)
CoopsAlike == (\A p \in Peers : Coop[p] # NoCoop) \/ (\A p \in Peers : Coop[p] = NoCoop)

(* Then timestamp_compare is an order. *)
LEMMA ComparesConsistently ==
    ASSUME CoopsAlike, NEW list \in Seq(PeerInfo), NEW q \in Peers,
           NEW st \in [Peers -> Nat]
    PROVE  ConsistentOrder(list, Coop[q], st)
<1>1. DOMAIN list = 1..Len(list) /\ \A k \in 1..Len(list) : list[k] \in PeerInfo
  BY LenProperties, ElementOfSeq
<1>2. ASSUME NEW a \in PeerInfo, NEW b \in PeerInfo, NEW c \in PeerInfo,
             Before(a, c, Coop[q], st)
      PROVE  Before(a, b, Coop[q], st) \/ Before(b, c, Coop[q], st)
  <2>1. /\ a.ip \in Peers /\ b.ip \in Peers /\ c.ip \in Peers
        /\ a.state \in {DOWNLOADING, READY} /\ b.state \in {DOWNLOADING, READY}
        /\ c.state \in {DOWNLOADING, READY}
        /\ DOWNLOADING # READY
    BY DEF PeerInfo, DOWNLOADING, READY
  <2>2. st[a.ip] \in Nat /\ st[b.ip] \in Nat /\ st[c.ip] \in Nat
    BY <2>1
  <2> QED
    BY <1>2, <2>1, <2>2 DEF CoopsAlike, Before, CoopDecides
<1> QED
  BY <1>1, <1>2 DEF ConsistentOrder

(* The send counters stay numbers. *)
LEMMA StampsType ==
    ASSUME NEW st, NEW ls, NEW done
    PROVE  StampsAfter(st, ls, done) \in [Peers -> Nat]
<1>1. ASSUME NEW p \in Peers
      PROVE  Cardinality({q \in Peers : /\ HasStamp(st, ls, done, q)
                                        /\ ~ StampedLater(st, ls, done, q, p)}) \in Nat
  BY PeersAssumption, FS_Subset, FS_CardinalityType
<1> QED
  BY <1>1 DEF StampsAfter

-----------------------------------------------------------------------------
(* Where READY entries come from. *)

Ready(p) == [ip |-> p, state |-> READY]

(* What a list contains is what it has at its positions. *)
LEMMA RangeOf ==
    ASSUME NEW list \in Seq(PeerInfo), NEW e
    PROVE  e \in Range(list) <=> \E k \in 1..Len(list) : e = list[k]
<1>1. DOMAIN list = 1..Len(list)
  BY LenProperties
<1> QED
  BY <1>1 DEF Range

(* Nothing but REGISTER puts a READY entry into a list, and only its sender's. *)
LEMMA NoNewReady ==
    ASSUME NEW list \in Seq(PeerInfo), NEW q \in Peers, NEW p,
           NEW my, NEW st
    PROVE  /\ Ready(p) \in Range(RemovePeer(list, q)) => Ready(p) \in Range(list)
           /\ Ready(p) \in Range(AfterLookup(list, q)) => Ready(p) \in Range(list)
           /\ Ready(p) \in Range(MarkReady(list, q)) => (Ready(p) \in Range(list) \/ p = q)
           /\ \A s \in Shuffles(list, my, st) :
                 Ready(p) \in Range(s) => Ready(p) \in Range(list)
<1>1. /\ DOMAIN list = 1..Len(list) /\ Len(list) \in Nat
      /\ DOWNLOADING # READY
  BY LenProperties DEF DOWNLOADING, READY
<1>2. Ready(p) \in Range(RemovePeer(list, q)) => Ready(p) \in Range(list)
  <2>1. /\ RemovePeer(list, q) \in Seq(PeerInfo)
        /\ \A k \in 1..Len(RemovePeer(list, q)) :
             \E m \in 1..Len(list) : RemovePeer(list, q)[k] = list[m]
    BY RemovedPeers
  <2> QED
    BY <2>1, RangeOf
<1>3. ASSUME NEW s \in Shuffles(list, my, st), Ready(p) \in Range(s)
      PROVE  Ready(p) \in Range(list)
  <2>1. s \in Arrangements(list)
    BY DEF Shuffles
  <2>2. /\ s \in Seq(PeerInfo)
        /\ \A k \in 1..Len(s) : \E m \in 1..Len(list) : s[k] = list[m]
    BY <2>1, ArrangedPeers
  <2> QED
    BY <1>3, <2>2, RangeOf
<1>4. ASSUME NEW state \in {DOWNLOADING, READY}, Positions(list, q) # {},
             Ready(p) \in Range([list EXCEPT ![FirstPosition(list, q)] =
                                   [ip |-> q, state |-> state]])
      PROVE  Ready(p) \in Range(list) \/ (p = q /\ state = READY)
  <2> DEFINE n == FirstPosition(list, q)
             s == [list EXCEPT ![n] = [ip |-> q, state |-> state]]
  <2>1. n \in 1..Len(list)
    BY <1>4, LeastPosition
  <2> HIDE DEF n
  <2>2. /\ DOMAIN s = 1..Len(list)
        /\ s[n] = [ip |-> q, state |-> state]
        /\ \A k \in 1..Len(list) : k # n => s[k] = list[k]
    BY <1>1, <2>1
  <2> HIDE DEF s
  <2>3. PICK k \in 1..Len(list) : Ready(p) = s[k]
    BY <1>4, <2>2 DEF Range, s, n
  <2>4. CASE k = n
    BY <2>2, <2>3, <2>4 DEF Ready
  <2>5. CASE k # n
    BY <2>2, <2>3, <2>5, RangeOf
  <2> QED
    BY <2>4, <2>5
<1>5. ASSUME NEW state \in {DOWNLOADING, READY}, Ready(p) \in Range(addpeer(list, q, state))
      PROVE  Ready(p) \in Range(list) \/ (p = q /\ state = READY)
  <2> DEFINE s == addpeer(list, q, state)
             n == Len(list) + 1
  <2>1. /\ s \in Seq(PeerInfo) /\ Len(s) = n
        /\ s[n] = [ip |-> q, state |-> state]
        /\ \A k \in 1..Len(list) : s[k] = list[k]
    <3>1. [ip |-> q, state |-> state] \in PeerInfo
      BY DEF PeerInfo
    <3> QED
      BY <3>1, AppendProperties DEF addpeer
  <2> HIDE DEF s
  <2>2. PICK k \in 1..n : Ready(p) = s[k]
    BY <1>5, <2>1, RangeOf DEF s
  <2>3. CASE k = n
    BY <2>1, <2>2, <2>3 DEF Ready
  <2>4. CASE k # n
    <3>1. k \in 1..Len(list)
      BY <1>1, <2>4
    <3> QED
      BY <2>1, <2>2, <3>1, RangeOf
  <2> QED
    BY <2>3, <2>4
<1>6. Ready(p) \in Range(AfterLookup(list, q)) => Ready(p) \in Range(list)
  BY <1>1, <1>4, <1>5 DEF AfterLookup, MeetsRequestor
<1>7. Ready(p) \in Range(MarkReady(list, q)) => (Ready(p) \in Range(list) \/ p = q)
  BY <1>4, <1>5 DEF MarkReady
<1> QED
  BY <1>2, <1>3, <1>6, <1>7

-----------------------------------------------------------------------------
(* The peers offered to a host do not include it. *)
LEMMA RequestorLeftOut ==
    ASSUME NEW list \in Seq(PeerInfo), NEW p \in Peers
    PROVE  \A k \in DOMAIN Offered(list, p) : Offered(list, p)[k].ip # p
<1> DEFINE n == IF MeetsRequestor(list, p) THEN FirstPosition(list, p) - 1 ELSE CopyLimit(list)
<1>1. Len(list) \in Nat /\ DOMAIN list = 1..Len(list)
  BY LenProperties
<1>2. CopyLimit(list) \in 0..Len(list)
  BY <1>1, PeersAssumption DEF CopyLimit
<1>3. Positions(list, p) # {} =>
        /\ FirstPosition(list, p) \in 1..Len(list)
        /\ \A j \in 1..Len(list) : list[j].ip = p => FirstPosition(list, p) <= j
  BY LeastPosition
<1>4. n \in 0..Len(list) /\ \A k \in 1..n : k \in 1..Len(list) /\ list[k].ip # p
  <2>1. CASE MeetsRequestor(list, p)
    BY <1>1, <1>3, <2>1 DEF MeetsRequestor
  <2>2. CASE Positions(list, p) = {}
    BY <1>1, <1>2, <2>2 DEF MeetsRequestor, Positions
  <2>3. CASE ~ MeetsRequestor(list, p) /\ Positions(list, p) # {}
    BY <1>1, <1>2, <1>3, <2>3 DEF MeetsRequestor
  <2> QED
    BY <2>1, <2>2, <2>3
<1>5. Offered(list, p) = SubSeq(list, 1, n)
  BY DEF Offered
<1> HIDE DEF n
<1>6. DOMAIN Offered(list, p) = 1..n /\ \A k \in 1..n : Offered(list, p)[k] = list[k]
  BY <1>1, <1>4, <1>5
<1> QED
  BY <1>4, <1>6
-----------------------------------------------------------------------------
(* A list that is not empty stays so, whatever is done to it but a removal. *)
LEMMA NeverEmptied ==
    ASSUME NEW list \in Seq(PeerInfo), NEW p \in Peers
    PROVE  /\ AfterLookup(list, p) # <<>>
           /\ MarkReady(list, p) # <<>>
           /\ \A state \in {DOWNLOADING, READY} : addpeer(list, p, state) # <<>>
           /\ \A s \in Arrangements(list) : list # <<>> => s # <<>>
           /\ Len(list) # 1 /\ Positions(list, p) # {} => RemovePeer(list, p) # <<>>
<1>1. Len(list) \in Nat /\ DOMAIN list = 1..Len(list)
  BY LenProperties
<1>2. ASSUME NEW state \in {DOWNLOADING, READY}
      PROVE  addpeer(list, p, state) # <<>>
  <2>1. [ip |-> p, state |-> state] \in PeerInfo
    BY DEF PeerInfo
  <2>2. Len(addpeer(list, p, state)) = Len(list) + 1
    BY <2>1, AppendProperties DEF addpeer
  <2> QED
    BY <1>1, <2>2, EmptySeq
<1>3. ASSUME Positions(list, p) # {}, NEW e
      PROVE  [list EXCEPT ![FirstPosition(list, p)] = e] # <<>>
  <2>1. FirstPosition(list, p) \in DOMAIN [list EXCEPT ![FirstPosition(list, p)] = e]
    BY <1>1, <1>3, LeastPosition
  <2>2. DOMAIN <<>> = {}
    OBVIOUS
  <2> QED
    BY <2>1, <2>2
<1>4. AfterLookup(list, p) # <<>> /\ MarkReady(list, p) # <<>>
  BY <1>2, <1>3 DEF AfterLookup, MeetsRequestor, MarkReady
<1>5. ASSUME NEW s \in Arrangements(list), list # <<>>
      PROVE  s # <<>>
  <2>1. DOMAIN s = DOMAIN list
    BY DEF Arrangements
  <2>2. 1 \in DOMAIN list
    BY <1>1, <1>5, EmptySeq
  <2> QED
    BY <2>1, <2>2
<1>6. ASSUME Len(list) # 1, Positions(list, p) # {}
      PROVE  RemovePeer(list, p) # <<>>
  <2>1. Len(RemovePeer(list, p)) = Len(list) - 1
    BY <1>6, TakenOut
  <2> QED
    BY <1>1, <1>6, <2>1, EmptySeq
<1> QED
  BY <1>2, <1>4, <1>5, <1>6

-----------------------------------------------------------------------------
(* More about counting and filtering. *)

(* Counting from the other end. *)
LEMMA CountReversed ==
    ASSUME NEW N \in Nat, NEW U \in SUBSET (1..N), NEW K \in SUBSET (1..N),
           \A k \in 1..N : k \in K <=> N + 1 - k \in U
    PROVE  \A k \in 0..N : CountTo(K, k) = CountTo(U, N) - CountTo(U, N - k)
<1> DEFINE P == {k \in 0..N : CountTo(K, k) = CountTo(U, N) - CountTo(U, N - k)}
<1>1. /\ CountTo(K, 0) = 0
      /\ \A k \in 0..N : CountTo(K, k) \in Nat /\ CountTo(U, k) \in Nat
      /\ \A k \in 1..N : /\ CountTo(K, k) = CountTo(K, k - 1) + (IF k \in K THEN 1 ELSE 0)
                         /\ CountTo(U, k) = CountTo(U, k - 1) + (IF k \in U THEN 1 ELSE 0)
  BY Counting
<1>2. 0 \in P
  <2>1. N \in 0..N /\ N - 0 = N /\ 0 \in 0..N
    OBVIOUS
  <2>2. CountTo(U, N) \in Nat
    BY <1>1, <2>1
  <2> QED
    BY <1>1, <2>1, <2>2
<1>3. ASSUME NEW k \in 1..N, k - 1 \in P
      PROVE  k \in P
  <2> DEFINE d == N + 1 - k
  <2>1. d \in 1..N /\ d - 1 = N - k /\ d = N - (k - 1) /\ k \in 0..N /\ k - 1 \in 0..N
        /\ N - k \in 0..N /\ N \in 0..N /\ d \in 0..N
    OBVIOUS
  <2>2. /\ CountTo(K, k) = CountTo(K, k - 1) + (IF k \in K THEN 1 ELSE 0)
        /\ CountTo(U, d) = CountTo(U, N - k) + (IF d \in U THEN 1 ELSE 0)
    BY <1>1, <2>1
  <2>3. CountTo(K, k - 1) = CountTo(U, N) - CountTo(U, d)
    BY <1>3, <2>1
  <2>4. k \in K <=> d \in U
    OBVIOUS
  <2>5. /\ CountTo(K, k) \in Nat /\ CountTo(K, k - 1) \in Nat /\ CountTo(U, N) \in Nat
        /\ CountTo(U, d) \in Nat /\ CountTo(U, N - k) \in Nat
    BY <1>1, <2>1
  <2> HIDE DEF d
  <2>6. CountTo(K, k) = CountTo(U, N) - CountTo(U, N - k)
    BY <2>2, <2>3, <2>4, <2>5
  <2> QED
    BY <2>1, <2>6
<1> HIDE DEF P
<1>4. 0..N \subseteq P
  BY <1>2, <1>3, SetInduction
<1> QED
  BY <1>4 DEF P

(* Every member counts. *)
LEMMA CountAll ==
    ASSUME NEW N \in Nat, NEW K, 1..N \subseteq K
    PROVE  \A d \in 0..N : CountTo(K, d) = d
<1>1. ASSUME NEW d \in 0..N
      PROVE  CountTo(K, d) = d
  <2>1. {e \in 1..d : e \in K} = 1..d
    OBVIOUS
  <2>2. Cardinality(1..d) = d
    BY FS_Interval
  <2> QED
    BY <2>1, <2>2 DEF CountTo
<1> QED
  BY <1>1

(* Filtering with every position changes nothing. *)
LEMMA FilteredAll ==
    ASSUME NEW S, NEW s \in Seq(S), NEW K \in SUBSET (1..Len(s)), 1..Len(s) \subseteq K
    PROVE  Filtered(s, K) = s
<1> DEFINE f == Filtered(s, K)
<1>1. Len(s) \in Nat /\ \A d \in 0..Len(s) : CountTo(K, d) = d
  BY LenProperties, CountAll
<1>2. Len(f) = CountTo(K, Len(s)) /\ \A d \in K : f[CountTo(K, d)] = s[d]
  BY FilteredElements
<1>3. f \in Seq(S)
  BY FilteredType
<1> HIDE DEF f
<1>4. Len(f) = Len(s) /\ \A d \in 1..Len(s) : f[d] = s[d]
  BY <1>1, <1>2
<1>5. f = s
  BY <1>1, <1>3, <1>4, SeqEqual
<1> QED
  BY <1>5 DEF f

=============================================================================
