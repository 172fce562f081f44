-------------------------- MODULE Attributes_proofs -------------------------
(***************************************************************************)
(* Proofs about the commands that write attributes, for any number of      *)
(* processes, hosts and attributes and any commands: an attribute nobody   *)
(* removes for good is not lost, and rows do not pile up; a load           *)
(* that is not disturbed leaves what the spreadsheet says; and a reader    *)
(* that is not disturbed gives every host what its most specific level     *)
(* says.                                                                   *)
(***************************************************************************)
EXTENDS AttributeReads, NaturalsInduction, WellFoundedInduction, FiniteSetTheorems, TLAPS

(* The processes that removed the attribute x and have not inserted it. *)
Midway(x) == {p \in Processes : \E r \in mid[p] : Pair(r) = x}

(* A process has one row at a time between its remove and its insert, and  *)
(* while it still removes what its command says it has set nothing yet.    *)
OneMidway ==
    /\ \A p \in Processes : \A r \in mid[p], o \in mid[p] : r = o
    /\ \A p \in Processes : clear[p] # {} =>
          /\ command[p] \in Commands /\ clear[p] \subseteq ToClear(command[p])
          /\ put[p] = ToPut(command[p])
    /\ \A p \in Processes : state[p] = "idle" => mid[p] = {} /\ put[p] = {} /\ clear[p] = {}

Bounded ==
    \A x \in Pairs : /\ IsFiniteSet(RowsOf(x))
                     /\ Cardinality(RowsOf(x)) + Cardinality(Midway(x)) <= Cardinality(Processes)

AttrInv == AttributesTypeOK /\ OneMidway /\ MissingOnlyMidway /\ Bounded

(* Processes are finitely many, and there is one. *)
LEMMA ProcessesFinite ==
    /\ \A S \in SUBSET Processes :
          /\ IsFiniteSet(S) /\ Cardinality(S) \in Nat
          /\ Cardinality(S) <= Cardinality(Processes)
    /\ Cardinality(Processes) \in Nat \ {0}
<1>1. IsFiniteSet(Processes) /\ Processes # {} BY AttributesAssumption
<1>2. Cardinality(Processes) \in Nat \ {0} BY <1>1, FS_CardinalityType, FS_EmptySet
<1>3. QED BY <1>1, <1>2, FS_Subset, FS_CardinalityType

(* To begin with there is at most one row of an attribute, and none midway. *)
LEMMA AttrInit == AttributesInit => AttrInv
<1> SUFFICES ASSUME AttributesInit PROVE AttrInv OBVIOUS
<1>1. AttributesTypeOK BY AttributesAssumption DEF AttributesInit, AttributesTypeOK
<1>2. OneMidway BY DEF AttributesInit, OneMidway
<1>3. MissingOnlyMidway
  BY DEF AttributesInit, MissingOnlyMidway, Lasting, RowsOf
<1>4. ASSUME NEW x \in Pairs
      PROVE  /\ IsFiniteSet(RowsOf(x))
             /\ Cardinality(RowsOf(x)) + Cardinality(Midway(x)) <= Cardinality(Processes)
  <2>1. Midway(x) = {} BY DEF Midway, AttributesInit
  <2>2. CASE RowsOf(x) = {} BY <2>1, <2>2, FS_EmptySet, ProcessesFinite
  <2>3. CASE RowsOf(x) # {}
    <3>1. PICK r : r \in RowsOf(x) BY <2>3
    <3>2. RowsOf(x) = {r} BY <3>1, AttributesAssumption DEF RowsOf, AttributesInit
    <3>3. IsFiniteSet({r}) /\ Cardinality({r}) = 1 BY FS_Singleton
    <3>4. Cardinality(Midway(x)) = 0 BY <2>1, FS_EmptySet
    <3>5. QED BY <3>2, <3>3, <3>4, ProcessesFinite
  <2>4. QED BY <2>2, <2>3
<1>5. QED BY <1>1, <1>2, <1>3, <1>4 DEF AttrInv, Bounded

(* A step that leaves the rows and what is midway alone. *)
LEMMA AttrFrame ==
    ASSUME AttrInv, AttributesTypeOK', OneMidway', UNCHANGED <<rows, mid>>,
           \A p \in Processes : \A x \in Lasting : Owes(p, x) => Owes(p, x)'
    PROVE  AttrInv'
<1>1. \A x : RowsOf(x)' = RowsOf(x) /\ Midway(x)' = Midway(x)
  BY DEF RowsOf, Midway
<1>2. MissingOnlyMidway'
  BY <1>1 DEF AttrInv, MissingOnlyMidway
<1>3. Bounded'
  BY <1>1 DEF AttrInv, Bounded
<1>4. QED BY <1>2, <1>3 DEF AttrInv

(* A command begins with what it says it does. *)
LEMMA StartStep ==
    ASSUME AttrInv, NEW p \in Processes, NEW c \in Commands, Start(p, c)
    PROVE  AttrInv'
<1>1. AttributesTypeOK'
  BY CommandsAssumption DEF AttrInv, AttributesTypeOK, Start
<1>2. OneMidway'
  BY DEF AttrInv, OneMidway, AttributesTypeOK, Start
<1>3. \A q \in Processes : \A x : Owes(q, x) => q # p /\ Owes(q, x)'
  BY DEF AttrInv, OneMidway, AttributesTypeOK, Start, Owes
<1>4. QED BY <1>1, <1>2, <1>3, AttrFrame DEF Start

(* What is disturbed are flags. *)
LEMMA DisturbType ==
    ASSUME AttributesTypeOK, NEW p, NEW x, Disturb(p, x)
    PROVE  undisturbed' \in [Processes -> BOOLEAN]
BY DEF AttributesTypeOK, Disturb

(* Listing, refusing, failing, ending and dying write nothing. *)
LEMMA QuietStep ==
    ASSUME AttrInv, NEW p \in Processes,
           (\E x \in test[p] : Test(p, x)) \/ Refuse(p) \/ Raise(p) \/ Finish(p) \/ Die(p)
    PROVE  AttrInv'
<1>1. CASE \E x \in test[p] : Test(p, x) /\ ~ Fails(x)
  <2>1. PICK x \in test[p] : Test(p, x) /\ ~ Fails(x) BY <1>1
  <2>2. /\ test' = [test EXCEPT ![p] = @ \ {x}]
        /\ found' \in [Processes -> SUBSET Pairs]
        /\ UNCHANGED <<rows, command, state, clear, put, mid, undisturbed>>
    BY <2>1 DEF Test, AttrInv, AttributesTypeOK
  <2>3. AttributesTypeOK' BY <2>2 DEF AttrInv, AttributesTypeOK
  <2>4. QED BY <2>2, <2>3, AttrFrame DEF AttrInv, OneMidway, Owes
<1>2. CASE Raise(p) \/ Finish(p) \/ Die(p)
  <2>1. /\ AttributesTypeOK' /\ UNCHANGED <<rows, mid, clear, put, command>>
        /\ \A q \in Processes : state'[q] = "idle" => state[q] = "idle"
    BY <1>2 DEF AttrInv, AttributesTypeOK, Raise, Finish, Die, todo
  <2>2. QED BY <2>1, AttrFrame DEF AttrInv, OneMidway, Owes
<1>3. QED BY <1>1, <1>2 DEF Test, Refuse

(* What is removed is owed, unless the command removes it for good. *)
LEMMA ClearStep ==
    ASSUME AttrInv, NEW p \in Processes, NEW y \in clear[p], Clear(p, y)
    PROVE  AttrInv'
<1>1. CASE Fails(y) BY <1>1, QuietStep DEF Clear
<1>2. CASE ~ Fails(y)
  <2>1. /\ rows' = rows \ RowsOf(y)
        /\ clear' = [clear EXCEPT ![p] = @ \ {y}]
        /\ Disturb(p, y)
        /\ UNCHANGED <<command, state, test, found, put, mid>>
    BY <1>2 DEF Clear
  <2>2. AttributesTypeOK'
    BY <2>1, DisturbType DEF AttrInv, AttributesTypeOK, RowsOf
  <2>3. OneMidway' BY <2>1 DEF AttrInv, AttributesTypeOK, OneMidway
  <2>4. y \in Lasting => Owes(p, y)'
    <3>1. /\ command'[p] = command[p] /\ command[p] \in Commands /\ y \in ToClear(command[p])
          /\ put'[p] = ToPut(command[p]) /\ y \notin clear'[p]
      BY <2>1 DEF AttrInv, OneMidway, AttributesTypeOK
    <3>2. command[p] # None BY <3>1, AttributesAssumption
    <3>3. QED BY <3>1, <3>2 DEF Lasting, Owes
  <2>9. \A q \in Processes : \A x : Owes(q, x) => Owes(q, x)'
    BY <2>1 DEF AttrInv, AttributesTypeOK, Owes
  <2>5. ASSUME NEW x \in Pairs
        PROVE  RowsOf(x)' = IF x = y THEN {} ELSE RowsOf(x)
    BY <2>1 DEF RowsOf
  <2>6. MissingOnlyMidway'
    <3> SUFFICES ASSUME NEW x \in Lasting, RowsOf(x)' = {}
                 PROVE  \E q \in Processes : Owes(q, x)'
      BY DEF MissingOnlyMidway, Lasting
    <3>1. x \in Pairs BY DEF Lasting
    <3>2. CASE x = y BY <2>4, <3>2
    <3>3. CASE x # y BY <2>5, <2>9, <3>1, <3>3 DEF AttrInv, MissingOnlyMidway
    <3>4. QED BY <3>2, <3>3
  <2>7. ASSUME NEW x \in Pairs
        PROVE  /\ IsFiniteSet(RowsOf(x)')
               /\ Cardinality(RowsOf(x)') + Cardinality(Midway(x)') <= Cardinality(Processes)
    <3>1. Midway(x)' = Midway(x) /\ Midway(x) \in SUBSET Processes
      BY <2>1 DEF Midway
    <3>2. CASE x = y BY <2>5, <3>1, <3>2, FS_EmptySet, ProcessesFinite
    <3>3. CASE x # y BY <2>5, <3>1, <3>3 DEF AttrInv, Bounded
    <3>4. QED BY <3>2, <3>3
  <2>8. QED BY <2>2, <2>3, <2>6, <2>7 DEF AttrInv, Bounded
<1>3. QED BY <1>1, <1>2

(* All rows of the attribute are removed, and the process is midway. *)
LEMMA DeleteStep ==
    ASSUME AttrInv, NEW p \in Processes, NEW r \in put[p], Delete(p, r)
    PROVE  AttrInv'
<1> DEFINE y == Pair(r)
<1>1. CASE Fails(y) BY <1>1, QuietStep DEF Delete
<1>2. CASE ~ Fails(y)
  <2>1. /\ rows' = rows \ RowsOf(y)
        /\ put' = [put EXCEPT ![p] = @ \ {r}]
        /\ mid' = [mid EXCEPT ![p] = {r}]
        /\ mid[p] = {} /\ clear[p] = {} /\ state[p] = "running"
        /\ Disturb(p, y)
        /\ UNCHANGED <<command, state, test, found, clear>>
    BY <1>2 DEF Delete, Writing
  <2>2. AttributesTypeOK'
    BY <2>1, DisturbType DEF AttrInv, AttributesTypeOK, RowsOf
  <2>3. OneMidway' BY <2>1 DEF AttrInv, AttributesTypeOK, OneMidway
  <2>4. ASSUME NEW x \in Pairs
        PROVE  /\ RowsOf(x)' = IF x = y THEN {} ELSE RowsOf(x)
               /\ Midway(x)' = IF x = y THEN Midway(x) \cup {p} ELSE Midway(x)
    <3>1. RowsOf(x)' = IF x = y THEN {} ELSE RowsOf(x) BY <2>1 DEF RowsOf
    <3>2. \A q \in Processes : mid'[q] = IF q = p THEN {r} ELSE mid[q]
      BY <2>1 DEF AttrInv, AttributesTypeOK
    <3>3. \A q \in Processes :
             (\E o \in mid'[q] : Pair(o) = x)
                 <=> ((q = p /\ x = Pair(r)) \/ (q # p /\ (\E o \in mid[q] : Pair(o) = x)))
      BY <3>2
    <3>4. p \notin Midway(x) BY <2>1 DEF Midway
    <3>5. Midway(x)' = IF x = Pair(r) THEN Midway(x) \cup {p} ELSE Midway(x)
      BY <3>3, <3>4 DEF Midway
    <3>6. QED BY <3>1, <3>5
  <2>5. MissingOnlyMidway'
    <3> SUFFICES ASSUME NEW x \in Lasting, RowsOf(x)' = {}
                 PROVE  \E q \in Processes : Owes(q, x)'
      BY DEF MissingOnlyMidway, Lasting
    <3>1. x \in Pairs BY DEF Lasting
    <3>2. CASE x = y
      <4>1. Midway(x)' # {} BY <2>4, <3>1, <3>2
      <4>2. QED BY <4>1 DEF Midway, Owes
    <3>3. CASE x # y
      <4>1. PICK q \in Processes : Owes(q, x)
        BY <2>4, <3>1, <3>3 DEF AttrInv, MissingOnlyMidway
      <4>2. Owes(q, x)'
        <5>1. \A o \in put[q] : Pair(o) = x => o \in put'[q]
          BY <2>1, <3>3 DEF AttrInv, AttributesTypeOK
        <5>2. \A o \in mid[q] : o \in mid'[q]
          BY <2>1 DEF AttrInv, AttributesTypeOK
        <5>3. QED BY <2>1, <4>1, <5>1, <5>2 DEF Owes
      <4>3. QED BY <4>2
    <3>4. QED BY <3>2, <3>3
  <2>6. ASSUME NEW x \in Pairs
        PROVE  /\ IsFiniteSet(RowsOf(x)')
               /\ Cardinality(RowsOf(x)') + Cardinality(Midway(x)') <= Cardinality(Processes)
    <3>1. Midway(x)' \in SUBSET Processes BY DEF Midway
    <3>2. CASE x = y BY <2>4, <3>1, <3>2, FS_EmptySet, ProcessesFinite
    <3>3. CASE x # y BY <2>4, <3>3 DEF AttrInv, Bounded
    <3>4. QED BY <3>2, <3>3
  <2>7. QED BY <2>2, <2>3, <2>5, <2>6 DEF AttrInv, Bounded
<1>3. QED BY <1>1, <1>2

(* The new row takes the place of the process among those midway. *)
LEMMA InsertStep ==
    ASSUME AttrInv, NEW p \in Processes, NEW r \in mid[p], Insert(p, r)
    PROVE  AttrInv'
<1> DEFINE y == Pair(r)
<1>1. /\ rows' = rows \cup {r}
      /\ mid' = [mid EXCEPT ![p] = {}]
      /\ Disturb(p, y)
      /\ UNCHANGED <<command, state, test, found, clear, put>>
  BY DEF Insert
<1>2. AttributesTypeOK'
  BY <1>1, DisturbType DEF AttrInv, AttributesTypeOK
<1>3. OneMidway' BY <1>1 DEF AttrInv, AttributesTypeOK, OneMidway
<1>4. \A q \in Processes : mid'[q] = IF q = p THEN {} ELSE mid[q]
  BY <1>1 DEF AttrInv, AttributesTypeOK
<1>5. ASSUME NEW x \in Pairs
      PROVE  /\ RowsOf(x)' = IF x = y THEN RowsOf(x) \cup {r} ELSE RowsOf(x)
             /\ Midway(x)' = IF x = y THEN Midway(x) \ {p} ELSE Midway(x)
             /\ x = y => p \in Midway(x)
  <2>1. RowsOf(x)' = IF x = y THEN RowsOf(x) \cup {r} ELSE RowsOf(x)
    BY <1>1 DEF RowsOf
  <2>2. p \in Midway(x) <=> x = y BY DEF Midway, AttrInv, OneMidway
  <2>3. Midway(x)' = Midway(x) \ {p} BY <1>4 DEF Midway
  <2>4. QED BY <2>1, <2>2, <2>3
<1>6. MissingOnlyMidway'
  <2> SUFFICES ASSUME NEW x \in Lasting, RowsOf(x)' = {}
               PROVE  \E q \in Processes : Owes(q, x)'
    BY DEF MissingOnlyMidway, Lasting
  <2>1. x \in Pairs BY DEF Lasting
  <2>2. x # y /\ RowsOf(x) = {} BY <1>5, <2>1
  <2>3. PICK q \in Processes : Owes(q, x) BY <2>2 DEF AttrInv, MissingOnlyMidway
  <2>4. \A o \in mid[q] : Pair(o) = x => o \in mid'[q]
    BY <1>4, <2>2 DEF AttrInv, OneMidway
  <2>5. QED BY <1>1, <2>3, <2>4 DEF Owes
<1>7. ASSUME NEW x \in Pairs
      PROVE  /\ IsFiniteSet(RowsOf(x)')
             /\ Cardinality(RowsOf(x)') + Cardinality(Midway(x)') <= Cardinality(Processes)
  <2>1. /\ IsFiniteSet(RowsOf(x))
        /\ Cardinality(RowsOf(x)) + Cardinality(Midway(x)) <= Cardinality(Processes)
    BY DEF AttrInv, Bounded
  <2>2. CASE x = y
    <3>1. /\ IsFiniteSet(RowsOf(x) \cup {r})
          /\ Cardinality(RowsOf(x) \cup {r}) <= Cardinality(RowsOf(x)) + 1
          /\ Cardinality(RowsOf(x)) \in Nat /\ Cardinality(RowsOf(x) \cup {r}) \in Nat
      <4>1. /\ IsFiniteSet(RowsOf(x) \cup {r})
            /\ Cardinality(RowsOf(x) \cup {r})
                  = IF r \in RowsOf(x) THEN Cardinality(RowsOf(x)) ELSE Cardinality(RowsOf(x)) + 1
        BY <2>1, FS_AddElement
      <4>2. Cardinality(RowsOf(x)) \in Nat BY <2>1, FS_CardinalityType
      <4>3. QED BY <4>1, <4>2
    <3>2. Midway(x) \in SUBSET Processes BY DEF Midway
    <3>3. Cardinality(Midway(x) \ {p}) = Cardinality(Midway(x)) - 1
      BY <1>5, <2>2, <3>2, ProcessesFinite, FS_RemoveElement
    <3>4. Cardinality(Midway(x)) \in Nat /\ Cardinality(Processes) \in Nat
      BY <3>2, ProcessesFinite
    <3>5. RowsOf(x)' = RowsOf(x) \cup {r} /\ Midway(x)' = Midway(x) \ {p}
      BY <1>5, <2>2
    <3>6. QED BY <2>1, <3>1, <3>3, <3>4, <3>5
  <2>3. CASE x # y BY <1>5, <2>1, <2>3
  <2>4. QED BY <2>2, <2>3
<1>8. QED BY <1>2, <1>3, <1>6, <1>7 DEF AttrInv, Bounded

(* The invariant holds, however the commands are mixed. *)
LEMMA AttrInvariant == AttributesSpec => []AttrInv
<1>1. ASSUME AttrInv, [AttributesNext]_attrVars PROVE AttrInv'
  <2>1. CASE AttributesNext
    <3>1. PICK p \in Processes : Write(p) BY <2>1 DEF AttributesNext
    <3>2. QED BY <1>1, <3>1, StartStep, QuietStep, ClearStep, DeleteStep, InsertStep DEF Write
  <2>2. CASE UNCHANGED attrVars
    <3>1. AttributesTypeOK' /\ UNCHANGED <<rows, mid, clear, put, command, state>>
      BY <1>1, <2>2 DEF AttrInv, AttributesTypeOK, attrVars, todo
    <3>2. QED BY <1>1, <3>1, AttrFrame DEF AttrInv, OneMidway, Owes
  <2>3. QED BY <1>1, <2>1, <2>2
<1>2. QED BY <1>1, AttrInit, PTL DEF AttributesSpec
-----------------------------------------------------------------------------
(* The state has its types. *)
THEOREM AttributesTypeCorrect == AttributesSpec => []AttributesTypeOK
BY AttrInvariant, PTL DEF AttrInv

(* An attribute that is set, and that nobody removes for good, is missing    *)
(* only while, or because, a process stopped between its remove and its      *)
(* insert, or between the removes and the inserts of a spreadsheet.          *)
THEOREM MissingOnlyMidwayCorrect == AttributesSpec => []MissingOnlyMidway
BY AttrInvariant, PTL DEF AttrInv

(* Never more rows of an attribute than processes that may set it. *)
THEOREM RowsBoundedCorrect == AttributesSpec => []RowsBounded
<1>1. AttrInv => RowsBounded BY DEF AttrInv, Bounded, RowsBounded, Midway
<1>2. QED BY <1>1, AttrInvariant, PTL

-----------------------------------------------------------------------------
(* Spreadsheets. *)

(* A set of naturals with an upper bound, not empty, has a greatest member. *)
LEMMA GreatestExists ==
    ASSUME NEW n \in Nat, NEW T \in SUBSET (0 .. n), T # {}
    PROVE  \E x \in T : \A y \in T : y <= x
<1> DEFINE U == {n - y : y \in T}
           less == OpToRel(<, Nat)
<1>1. U \in SUBSET Nat /\ U # {}
  <2>1. \A y \in T : n - y \in Nat OBVIOUS
  <2>2. QED BY <2>1
<1>2. \A u, v \in Nat : v < u => <<v, u>> \in less BY DEF OpToRel
<1> HIDE DEF less
<1>3. \E u \in U : \A v \in U : ~ (<<v, u>> \in less)
  BY <1>1, NatLessThanWellFounded, WFMin DEF less
<1>4. PICK x \in T : \A v \in U : ~ (<<v, n - x>> \in less)
  BY <1>3
<1>5. \A y \in T : y <= x
  <2> TAKE y \in T
  <2>1. n - y \in U /\ n - y \in Nat /\ n - x \in Nat OBVIOUS
  <2>2. ~ (n - y < n - x) BY <1>2, <1>4, <2>1
  <2>3. x \in 0 .. n /\ y \in 0 .. n OBVIOUS
  <2>4. QED BY <2>2, <2>3
<1>6. QED BY <1>5

(* A target has one line of its own. *)
LEMMA OneLine ==
    ASSUME NEW sheet, Len(sheet) \in Nat, NEW i \in Lines(sheet), NEW j \in Lines(sheet),
           sheet[i].target = sheet[j].target
    PROVE  i = j
<1>1. i \in 1 .. Len(sheet) /\ j \in 1 .. Len(sheet) BY DEF Lines
<1>2. ~ (i < j) /\ ~ (j < i) BY <1>1 DEF Lines
<1>3. QED BY <1>1, <1>2

(* And an empty cell of the line is filled with what the spreadsheet says. *)
LEMMA FilledSays ==
    ASSUME NEW sheet, Len(sheet) \in Nat, NEW i \in Lines(sheet),
           NEW k \in DOMAIN sheet[i].cells
    PROVE  Says(sheet, <<sheet[i].target, k>>) = {Filled(sheet, i)[k]} \ {None}
<1> DEFINE x == <<sheet[i].target, k>>
           own == {j \in 1 .. Len(sheet) : sheet[j].target = x[1]}
           last == CHOOSE a \in own : \A b \in own : b <= a
           above == {a \in 1 .. last : /\ sheet[a].target = None
                                       /\ \A b \in a + 1 .. last : sheet[b].target # None}
           defaults == {j \in 1 .. i - 1 : sheet[j].target = None}
           default == CHOOSE a \in defaults : \A b \in defaults : b <= a
<1>1. /\ i \in 1 .. Len(sheet) /\ sheet[i].target # None
      /\ \A j \in i + 1 .. Len(sheet) : sheet[j].target # sheet[i].target
  BY DEF Lines
<1>2. x[1] = sheet[i].target /\ x[2] = k OBVIOUS
<1>3. last = i
  <2>1. i \in own /\ \A j \in own : j <= i BY <1>1, <1>2
  <2>2. \A j \in own : j \in Nat OBVIOUS
  <2>3. \A j \in own : (\A b \in own : b <= j) => j = i
    <3> HIDE DEF own
    <3>1. QED BY <2>1, <2>2
  <2> HIDE DEF own
  <2>4. QED BY <2>1, <2>3
<1>4. Says(sheet, x) = IF sheet[i].cells[k] # None THEN {sheet[i].cells[k]}
                       ELSE {sheet[j].cells[k] : j \in above} \ {None}
  BY <1>2, <1>3 DEF Says
<1>5. Filled(sheet, i)[k] = IF sheet[i].cells[k] = None /\ defaults # {}
                            THEN sheet[default].cells[k] ELSE sheet[i].cells[k]
  BY DEF Filled
<1>6. CASE sheet[i].cells[k] # None BY <1>4, <1>5, <1>6
<1>7. CASE sheet[i].cells[k] = None /\ defaults = {}
  <2>1. above = {} BY <1>1, <1>3, <1>7
  <2>2. QED BY <1>4, <1>5, <1>7, <2>1
<1>8. CASE sheet[i].cells[k] = None /\ defaults # {}
  <2>1. defaults \in SUBSET (0 .. Len(sheet)) BY <1>1
  <2>2. PICK d \in defaults : \A j \in defaults : j <= d BY <1>8, <2>1, GreatestExists
  <2>3. \A j \in defaults : j \in Nat BY <2>1
  <2>4. default = d
    <3> HIDE DEF defaults
    <3>1. QED BY <2>2, <2>3
  <2>5. above = {d}
    <3>1. d \in above BY <1>1, <1>3, <2>2
    <3>2. \A j \in above : j = d
      <4> TAKE j \in above
      <4>1. j \in 1 .. i /\ sheet[j].target = None BY <1>3
      <4>2. j \in defaults BY <1>1, <4>1
      <4>3. j <= d BY <2>2, <4>2
      <4>4. ASSUME j < d PROVE FALSE
        <5>1. i \in Nat /\ j \in Nat /\ d \in 1 .. i - 1 /\ sheet[d].target = None
          BY <1>1, <4>1
        <5>2. \A b \in j + 1 .. i : sheet[b].target # None BY <1>3
        <5> HIDE DEF above, last, defaults
        <5>3. d \in j + 1 .. i BY <4>4, <5>1
        <5>4. QED BY <5>1, <5>2, <5>3
      <4>5. j \in Nat /\ d \in Nat BY <2>3, <4>2
      <4>6. QED BY <4>3, <4>4, <4>5
    <3>3. QED BY <3>1, <3>2
  <2>6. {sheet[j].cells[k] : j \in above} = {sheet[d].cells[k]} BY <2>5
  <2>7. Filled(sheet, i)[k] = sheet[d].cells[k] BY <1>5, <1>8, <2>4
  <2> HIDE DEF above, defaults, default
  <2>8. QED BY <1>4, <1>8, <2>6, <2>7
<1>9. QED BY <1>6, <1>7, <1>8

(* The rows a command sets of the attribute x. *)
SetBy(c, x) == {r \in ToPut(c) : Pair(r) = x}

(* A load sets at most one row of an attribute, which is what the *)
(* spreadsheet says, and removes whatever it sets.                *)
LEMMA LoadSets ==
    ASSUME NEW c \in Commands, c.op = "load"
    PROVE  /\ \A r, o \in ToPut(c) : Pair(r) = Pair(o) => r = o
           /\ Touched(c) = ToClear(c)
           /\ \A x \in ToClear(c) :
                 {<<r.value, r.shadow>> : r \in SetBy(c, x)} = Says(c.sheet, x) \X {None}
<1> DEFINE s == c.sheet
           cell(i, k) == [target |-> s[i].target, key |-> k,
                          value |-> Filled(s, i)[k], shadow |-> None]
<1>1. Len(s) \in Nat BY CommandsAssumption
<1>2. /\ ToPut(c) = {r \in Cells(s) : r.value # None}
      /\ ToClear(c) = {Pair(r) : r \in Cells(s)}
  BY DEF ToPut, ToClear
<1>3. \A r \in Cells(s) :
         \E i \in Lines(s) : \E k \in DOMAIN s[i].cells : r = cell(i, k)
  BY DEF Cells
<1>4. \A i \in Lines(s) : \A k \in DOMAIN s[i].cells : cell(i, k) \in Cells(s)
  BY DEF Cells
<1>5. \A i, k : /\ Pair(cell(i, k)) = <<s[i].target, k>>
                /\ cell(i, k).value = Filled(s, i)[k] /\ cell(i, k).shadow = None
  BY DEF Pair
<1> HIDE DEF cell
<1>6. ASSUME NEW r \in Cells(s), NEW o \in Cells(s), Pair(r) = Pair(o) PROVE r = o
  <2>1. PICK i \in Lines(s) : \E k \in DOMAIN s[i].cells : r = cell(i, k) BY <1>3
  <2>2. PICK j \in Lines(s) : \E l \in DOMAIN s[j].cells : o = cell(j, l) BY <1>3
  <2>3. PICK k \in DOMAIN s[i].cells : r = cell(i, k) BY <2>1
  <2>4. PICK l \in DOMAIN s[j].cells : o = cell(j, l) BY <2>2
  <2>5. s[i].target = s[j].target /\ k = l BY <1>5, <1>6, <2>3, <2>4
  <2>6. i = j BY <1>1, <2>5, OneLine
  <2>7. QED BY <2>3, <2>4, <2>5, <2>6
<1>7. ASSUME NEW x \in ToClear(c)
      PROVE  {<<r.value, r.shadow>> : r \in SetBy(c, x)} = Says(s, x) \X {None}
  <2>1. PICK one \in Cells(s) : x = Pair(one) BY <1>2
  <2>2. \E i \in Lines(s) : \E k \in DOMAIN s[i].cells : one = cell(i, k) BY <1>3
  <2>3. \A r \in Cells(s) : Pair(r) = x => r = one BY <1>6, <2>1
  <2>4. \E v : /\ Says(s, x) = {v} \ {None} /\ one.value = v /\ one.shadow = None
    <3>1. PICK i \in Lines(s) : \E k \in DOMAIN s[i].cells : one = cell(i, k) BY <2>2
    <3>2. PICK k \in DOMAIN s[i].cells : one = cell(i, k) BY <3>1
    <3>3. Says(s, x) = {Filled(s, i)[k]} \ {None} BY <1>1, <1>5, <2>1, <3>2, FilledSays
    <3>4. QED BY <1>5, <3>2, <3>3
  <2>8. PICK v : Says(s, x) = {v} \ {None} /\ one.value = v /\ one.shadow = None BY <2>4
  <2>5. CASE v = None
    <3>1. SetBy(c, x) = {} BY <1>2, <2>3, <2>5, <2>8 DEF SetBy
    <3>2. Says(s, x) = {} BY <2>5, <2>8
    <3>3. QED BY <3>1, <3>2
  <2>6. CASE v # None
    <3>1. SetBy(c, x) = {one} BY <1>2, <2>1, <2>3, <2>6, <2>8 DEF SetBy
    <3>2. Says(s, x) = {v} BY <2>6, <2>8
    <3>3. {<<r.value, r.shadow>> : r \in {one}} = {<<v, None>>} BY <2>8
    <3>4. {v} \X {None} = {<<v, None>>} OBVIOUS
    <3>5. QED BY <3>1, <3>2, <3>3, <3>4
  <2>9. QED BY <2>5, <2>6
<1>8. Touched(c) = ToClear(c) BY <1>2 DEF Touched
<1>9. QED BY <1>2, <1>6, <1>7, <1>8
-----------------------------------------------------------------------------
(* Loads. *)

(* As long as no other command wrote the attributes of a load, those that it *)
(* has removed and does not have to set any more are as it set them, but for *)
(* the one it is midway with.                                                *)
LoadSoFar(p) ==
    LET c == command[p] IN
    /\ clear[p] \subseteq ToClear(c) /\ put[p] \subseteq ToPut(c) /\ mid[p] \subseteq ToPut(c)
    /\ clear[p] # {} => put[p] = ToPut(c)
    /\ undisturbed[p] =>
          \A x \in ToClear(c) \ clear[p] :
              (\A r \in put[p] : Pair(r) # x) =>
                  RowsOf(x) \cup {r \in mid[p] : Pair(r) = x} = SetBy(c, x)

LoadOK(p) ==
    /\ state[p] = "idle" => mid[p] = {}
    /\ state[p] # "idle" => command[p] \in Commands
    /\ state[p] # "idle" /\ command[p].op = "load" => LoadSoFar(p)
    /\ state[p] = "done" => clear[p] = {} /\ put[p] = {} /\ mid[p] = {}

Loads == \A p \in Processes : LoadOK(p)

(* A process whose own state is left alone, or only ends. *)
LEMMA LoadFrame ==
    ASSUME NEW q \in Processes, LoadOK(q), AttributesTypeOK,
           clear'[q] = clear[q], put'[q] = put[q], mid'[q] = mid[q],
           command'[q] = command[q],
           \/ state'[q] = state[q]
           \/ state[q] = "running" /\ state'[q] \in {"running", "raised", "dead"},
           undisturbed'[q] => undisturbed[q],
           \/ rows' = rows
           \/ undisturbed'[q] /\ command[q] \in Commands =>
                 \A x \in ToClear(command[q]) : RowsOf(x)' = RowsOf(x)
    PROVE  LoadOK(q)'
<1>1. state'[q] # "idle" <=> state[q] # "idle" OBVIOUS
<1>2. \A x : rows' = rows => RowsOf(x)' = RowsOf(x) BY DEF RowsOf
<1>3. state'[q] # "idle" /\ undisturbed'[q] =>
         \A x \in ToClear(command[q]) : RowsOf(x)' = RowsOf(x)
  BY <1>1, <1>2 DEF LoadOK
<1>4. state'[q] # "idle" /\ command'[q].op = "load" => LoadSoFar(q)'
  BY <1>1, <1>3 DEF LoadOK, LoadSoFar
<1>5. QED BY <1>1, <1>4 DEF LoadOK

(* A write by another process leaves the attributes of a load alone, or *)
(* disturbs it.                                                         *)
LEMMA OthersWrite ==
    ASSUME AttributesTypeOK, NEW p \in Processes, NEW q \in Processes, q # p,
           NEW y, Disturb(p, y), command[q] \in Commands, undisturbed'[q],
           \A x : x # y => RowsOf(x)' = RowsOf(x)
    PROVE  /\ undisturbed[q]
           /\ \A x \in ToClear(command[q]) : RowsOf(x)' = RowsOf(x)
<1>1. command[q] # None BY AttributesAssumption
<1>2. undisturbed'[q] = (undisturbed[q] /\ (q # p /\ command[q] # None
                                              => y \notin Touched(command[q])))
  BY DEF Disturb
<1>3. undisturbed[q] /\ y \notin Touched(command[q]) BY <1>1, <1>2
<1>4. QED BY <1>3 DEF Touched

(* Beginning and ending. *)
Quiet(p) ==
    \/ \E c \in Commands : Start(p, c)
    \/ \E x \in test[p] : Test(p, x)
    \/ Refuse(p)
    \/ Raise(p) /\ state[p] = "running"
    \/ Finish(p)
    \/ Die(p)

LEMMA LoadQuiet ==
    ASSUME AttrInv, Loads, NEW p \in Processes, Quiet(p)
    PROVE  Loads'
<1> SUFFICES ASSUME NEW q \in Processes PROVE LoadOK(q)' BY DEF Loads
<1>1. AttributesTypeOK /\ LoadOK(q) /\ LoadOK(p) BY DEF AttrInv, Loads
<1>2. ASSUME NEW c \in Commands, Start(p, c) PROVE LoadOK(q)'
  <2>1. /\ state[p] = "idle" /\ UNCHANGED <<rows, mid, undisturbed>>
        /\ state' = [state EXCEPT ![p] = "running"]
        /\ command' = [command EXCEPT ![p] = c]
        /\ clear' = [clear EXCEPT ![p] = ToClear(c)]
        /\ put' = [put EXCEPT ![p] = ToPut(c)]
    BY <1>2 DEF Start
  <2>2. CASE q = p
    <3>1. /\ state'[q] = "running" /\ command'[q] = c /\ clear'[q] = ToClear(c)
          /\ put'[q] = ToPut(c) /\ mid'[q] = {}
      BY <1>1, <2>1, <2>2 DEF LoadOK, AttributesTypeOK
    <3>2. LoadSoFar(q)' BY <3>1 DEF LoadSoFar
    <3>3. QED BY <3>1, <3>2 DEF LoadOK
  <2>3. CASE q # p
    <3>1. /\ clear'[q] = clear[q] /\ put'[q] = put[q] /\ mid'[q] = mid[q]
          /\ command'[q] = command[q] /\ state'[q] = state[q]
          /\ undisturbed' = undisturbed /\ rows' = rows
      BY <1>1, <2>1, <2>3 DEF AttributesTypeOK
    <3>2. QED BY <1>1, <3>1, LoadFrame
  <2>4. QED BY <2>2, <2>3
<1>3. CASE \/ \E x \in test[p] : Test(p, x)
           \/ Refuse(p) \/ (Raise(p) /\ state[p] = "running") \/ Die(p)
  <2>1. /\ UNCHANGED <<rows, command, clear, put, mid, undisturbed>>
        /\ \/ state' = state
           \/ state[p] = "running" /\ state' = [state EXCEPT ![p] = "raised"]
           \/ state[p] = "running" /\ state' = [state EXCEPT ![p] = "dead"]
    BY <1>3 DEF Test, Refuse, Raise, Die, todo
  <2>2. \/ state'[q] = state[q]
        \/ state[q] = "running" /\ state'[q] \in {"running", "raised", "dead"}
    BY <1>1, <2>1 DEF AttributesTypeOK
  <2>3. QED BY <1>1, <2>1, <2>2, LoadFrame
<1>4. CASE Finish(p)
  <2>1. /\ clear[p] = {} /\ put[p] = {} /\ mid[p] = {} /\ state[p] = "running"
        /\ state' = [state EXCEPT ![p] = "done"]
        /\ UNCHANGED <<rows, command, clear, put, mid, undisturbed>>
    BY <1>4 DEF Finish, Writing, todo
  <2>2. CASE q = p
    <3>1. state'[q] = "done" BY <1>1, <2>1, <2>2 DEF AttributesTypeOK
    <3>2. LoadSoFar(q) => LoadSoFar(q)' BY <2>1 DEF LoadSoFar, RowsOf
    <3>3. QED BY <1>1, <2>1, <2>2, <3>1, <3>2 DEF LoadOK
  <2>3. CASE q # p
    <3>1. state'[q] = state[q] BY <1>1, <2>1, <2>3 DEF AttributesTypeOK
    <3>2. QED BY <1>1, <2>1, <3>1, LoadFrame
  <2>4. QED BY <2>2, <2>3
<1>5. \/ \E c \in Commands : Start(p, c)
      \/ \E x \in test[p] : Test(p, x)
      \/ Refuse(p) \/ (Raise(p) /\ state[p] = "running") \/ Finish(p) \/ Die(p)
  BY DEF Quiet
<1>6. QED BY <1>2, <1>3, <1>4, <1>5

(* The steps that write, for the other processes. *)
LEMMA LoadOthers ==
    ASSUME AttrInv, Loads, NEW p \in Processes, NEW q \in Processes, q # p, NEW y, Disturb(p, y),
           \A x : x # y => RowsOf(x)' = RowsOf(x),
           UNCHANGED <<command, state>>,
           clear'[q] = clear[q], put'[q] = put[q], mid'[q] = mid[q]
    PROVE  LoadOK(q)'
<1>1. AttributesTypeOK /\ LoadOK(q) BY DEF AttrInv, Loads
<1>2. undisturbed'[q] => undisturbed[q] BY DEF Disturb
<1>3. undisturbed'[q] /\ command[q] \in Commands =>
         \A x \in ToClear(command[q]) : RowsOf(x)' = RowsOf(x)
  BY <1>1, OthersWrite
<1>4. QED BY <1>1, <1>2, <1>3, LoadFrame

(* And for the one that writes. *)
LEMMA LoadWrites ==
    ASSUME AttrInv, Loads, NEW p \in Processes,
           \/ \E x \in clear[p] : Clear(p, x)
           \/ \E r \in put[p] : Delete(p, r)
           \/ \E r \in mid[p] : Insert(p, r)
    PROVE  Loads'
<1> SUFFICES ASSUME NEW q \in Processes PROVE LoadOK(q)' BY DEF Loads
<1>1. AttributesTypeOK /\ LoadOK(p) BY DEF AttrInv, Loads
<1> DEFINE c == command[p]
<1>2. c \in Commands /\ c.op = "load" =>
         /\ Touched(c) = ToClear(c)
         /\ \A r, o \in ToPut(c) : Pair(r) = Pair(o) => r = o
  BY LoadSets
<1>3. ASSUME NEW y, Disturb(p, y) PROVE undisturbed'[p] = undisturbed[p]
  BY <1>1, <1>3 DEF Disturb, AttributesTypeOK
<1>4. ASSUME NEW y \in clear[p], Clear(p, y) PROVE LoadOK(q)'
  <2>1. state[p] = "running" /\ mid[p] = {} BY <1>4 DEF Clear, Writing
  <2>2. CASE Fails(y)
    <3>1. Raise(p) BY <1>4, <2>2 DEF Clear
    <3>2. Quiet(p) BY <2>1, <3>1 DEF Quiet
    <3>3. Loads' BY <3>2, LoadQuiet
    <3>4. QED BY <3>3 DEF Loads
  <2>3. CASE ~ Fails(y)
    <3>1. /\ rows' = rows \ RowsOf(y)
          /\ clear' = [clear EXCEPT ![p] = @ \ {y}] /\ Disturb(p, y)
          /\ UNCHANGED <<command, state, put, mid>>
      BY <1>4, <2>3 DEF Clear
    <3>2. \A x : RowsOf(x)' = IF x = y THEN {} ELSE RowsOf(x) BY <3>1 DEF RowsOf
    <3>3. CASE q # p
      <4>1. clear'[q] = clear[q] BY <1>1, <3>1, <3>3 DEF AttributesTypeOK
      <4>2. QED BY <3>1, <3>2, <3>3, <4>1, LoadOthers
    <3>4. CASE q = p
      <4>1. clear'[p] = clear[p] \ {y} BY <1>1, <3>1 DEF AttributesTypeOK
      <4>2. ASSUME c.op = "load" PROVE LoadSoFar(p)'
        <5>1. LoadSoFar(p) /\ c \in Commands BY <1>1, <2>1, <4>2 DEF LoadOK
        <5>2. ASSUME undisturbed'[p], NEW x \in ToClear(c) \ clear'[p],
                     \A r \in put[p] : Pair(r) # x
              PROVE  RowsOf(x)' \cup {r \in mid[p] : Pair(r) = x} = SetBy(c, x)
          <6>1. CASE x = y
            <7>1. put[p] = ToPut(c) BY <5>1 DEF LoadSoFar
            <7>2. QED BY <2>1, <3>2, <5>2, <6>1, <7>1 DEF SetBy
          <6>2. CASE x # y
            BY <1>3, <3>1, <3>2, <4>1, <5>1, <5>2, <6>2 DEF LoadSoFar
          <6>3. QED BY <6>1, <6>2
        <5>3. QED BY <3>1, <4>1, <5>1, <5>2 DEF LoadSoFar
      <4>3. QED BY <1>1, <2>1, <3>1, <3>4, <4>2 DEF LoadOK
    <3>5. QED BY <3>3, <3>4
  <2>4. QED BY <2>2, <2>3
<1>5. ASSUME NEW r \in put[p], Delete(p, r) PROVE LoadOK(q)'
  <2> DEFINE y == Pair(r)
  <2>1. state[p] = "running" /\ mid[p] = {} /\ clear[p] = {} BY <1>5 DEF Delete, Writing
  <2>2. CASE Fails(y)
    <3>1. Raise(p) BY <1>5, <2>2 DEF Delete
    <3>2. Quiet(p) BY <2>1, <3>1 DEF Quiet
    <3>3. Loads' BY <3>2, LoadQuiet
    <3>4. QED BY <3>3 DEF Loads
  <2>3. CASE ~ Fails(y)
    <3>1. /\ rows' = rows \ RowsOf(y)
          /\ put' = [put EXCEPT ![p] = @ \ {r}] /\ mid' = [mid EXCEPT ![p] = {r}]
          /\ Disturb(p, y)
          /\ UNCHANGED <<command, state, clear>>
      BY <1>5, <2>3 DEF Delete
    <3>2. \A x : RowsOf(x)' = IF x = y THEN {} ELSE RowsOf(x) BY <3>1 DEF RowsOf
    <3>3. CASE q # p
      <4>1. put'[q] = put[q] /\ mid'[q] = mid[q]
        BY <1>1, <3>1, <3>3 DEF AttributesTypeOK
      <4>2. QED BY <3>1, <3>2, <3>3, <4>1, LoadOthers
    <3>4. CASE q = p
      <4>1. put'[p] = put[p] \ {r} /\ mid'[p] = {r} BY <1>1, <3>1 DEF AttributesTypeOK
      <4>2. ASSUME c.op = "load" PROVE LoadSoFar(p)'
        <5>1. LoadSoFar(p) /\ c \in Commands BY <1>1, <2>1, <4>2 DEF LoadOK
        <5>2. r \in ToPut(c) BY <5>1 DEF LoadSoFar
        <5>3. ASSUME undisturbed'[p], NEW x \in ToClear(c),
                     \A o \in put[p] \ {r} : Pair(o) # x
              PROVE  RowsOf(x)' \cup {o \in mid'[p] : Pair(o) = x} = SetBy(c, x)
          <6>1. CASE x = y
            <7>1. SetBy(c, x) = {r} BY <1>2, <4>2, <5>1, <5>2, <6>1 DEF SetBy
            <7>2. {o \in mid'[p] : Pair(o) = x} = {r} BY <4>1, <6>1
            <7>3. QED BY <3>2, <6>1, <7>1, <7>2
          <6>2. CASE x # y
            <7>1. RowsOf(x) \cup {o \in mid[p] : Pair(o) = x} = SetBy(c, x)
              BY <1>3, <2>1, <3>1, <5>1, <5>3, <6>2 DEF LoadSoFar
            <7>2. {o \in mid'[p] : Pair(o) = x} = {} BY <4>1, <6>2
            <7>3. QED BY <2>1, <3>2, <6>2, <7>1, <7>2
          <6>3. QED BY <6>1, <6>2
        <5>4. QED BY <2>1, <3>1, <4>1, <5>1, <5>2, <5>3 DEF LoadSoFar
      <4>3. QED BY <1>1, <2>1, <3>1, <3>4, <4>2 DEF LoadOK
    <3>5. QED BY <3>3, <3>4
  <2>4. QED BY <2>2, <2>3
<1>6. ASSUME NEW r \in mid[p], Insert(p, r) PROVE LoadOK(q)'
  <2> DEFINE y == Pair(r)
  <2>1. /\ state[p] = "running"
        /\ rows' = rows \cup {r} /\ mid' = [mid EXCEPT ![p] = {}]
        /\ Disturb(p, y)
        /\ UNCHANGED <<command, state, clear, put>>
    BY <1>6 DEF Insert
  <2>2. \A x : RowsOf(x)' = IF x = y THEN RowsOf(x) \cup {r} ELSE RowsOf(x)
    BY <2>1 DEF RowsOf
  <2>3. CASE q # p
    <3>1. mid'[q] = mid[q] BY <1>1, <2>1, <2>3 DEF AttributesTypeOK
    <3>2. QED BY <2>1, <2>2, <2>3, <3>1, LoadOthers
  <2>4. CASE q = p
    <3>1. mid'[p] = {} /\ mid[p] = {r}
      BY <1>1, <1>6, <2>1 DEF AttributesTypeOK, AttrInv, OneMidway
    <3>2. ASSUME c.op = "load" PROVE LoadSoFar(p)'
      <4>1. LoadSoFar(p) /\ c \in Commands BY <1>1, <2>1, <3>2 DEF LoadOK
      <4>2. ASSUME undisturbed'[p], NEW x \in ToClear(c) \ clear[p],
                   \A o \in put[p] : Pair(o) # x
            PROVE  RowsOf(x)' \cup {o \in mid'[p] : Pair(o) = x} = SetBy(c, x)
        <5>1. RowsOf(x) \cup {o \in mid[p] : Pair(o) = x} = SetBy(c, x)
          BY <1>3, <2>1, <4>1, <4>2 DEF LoadSoFar
        <5>2. RowsOf(x)' = RowsOf(x) \cup {o \in mid[p] : Pair(o) = x}
          BY <2>2, <3>1
        <5>3. QED BY <3>1, <5>1, <5>2
      <4>3. QED BY <2>1, <3>1, <4>1, <4>2 DEF LoadSoFar
    <3>3. QED BY <1>1, <2>1, <2>4, <3>1, <3>2 DEF LoadOK
  <2>5. QED BY <2>3, <2>4
<1>7. QED BY <1>4, <1>5, <1>6

LEMMA LoadsInvariant == AttributesSpec => []Loads
<1>1. AttributesInit => Loads
  BY DEF AttributesInit, Loads, LoadOK
<1>2. ASSUME AttrInv, Loads, [AttributesNext]_attrVars PROVE Loads'
  <2>1. CASE AttributesNext
    <3>1. PICK p \in Processes : Write(p) BY <2>1 DEF AttributesNext
    <3>2. CASE \E x \in clear[p] : Clear(p, x) BY <1>2, <3>2, LoadWrites
    <3>3. CASE \E r \in put[p] : Delete(p, r) BY <1>2, <3>3, LoadWrites
    <3>4. CASE \E r \in mid[p] : Insert(p, r) BY <1>2, <3>4, LoadWrites
    <3>5. CASE (\E c \in Commands : Start(p, c)) \/ (\E x \in test[p] : Test(p, x))
                  \/ Refuse(p) \/ Finish(p) \/ Die(p)
      <4>1. Quiet(p) BY <3>5 DEF Quiet
      <4>2. QED BY <1>2, <4>1, LoadQuiet
    <3>6. QED BY <3>1, <3>2, <3>3, <3>4, <3>5 DEF Write
  <2>2. CASE UNCHANGED attrVars
    BY <1>2, <2>2 DEF Loads, LoadOK, LoadSoFar, RowsOf, attrVars, todo
  <2>3. QED BY <1>2, <2>1, <2>2
<1>3. QED BY <1>1, <1>2, AttrInvariant, PTL DEF AttributesSpec

(* A load that is done, and whose attributes no other command wrote, leaves *)
(* of each of them what the spreadsheet says, default rows included, and    *)
(* nothing else: whatever else it set, and whatever was written of others.  *)
THEOREM LoadExactCorrect == AttributesSpec => []LoadExact
<1>1. ASSUME Loads PROVE LoadExact
  <2> SUFFICES ASSUME NEW p \in Processes, state[p] = "done", undisturbed[p],
                      command[p].op = "load", NEW x \in Touched(command[p])
               PROVE  {<<r.value, r.shadow>> : r \in RowsOf(x)}
                          = Says(command[p].sheet, x) \X {None}
    BY DEF LoadExact
  <2> DEFINE c == command[p]
  <2>1. /\ c \in Commands /\ LoadSoFar(p)
        /\ clear[p] = {} /\ put[p] = {} /\ mid[p] = {}
    BY <1>1 DEF Loads, LoadOK
  <2>2. x \in ToClear(c) BY <2>1, LoadSets
  <2>3. RowsOf(x) = SetBy(c, x) BY <2>1, <2>2 DEF LoadSoFar
  <2>4. QED BY <2>1, <2>2, <2>3, LoadSets
<1>2. QED BY <1>1, LoadsInvariant, PTL
-----------------------------------------------------------------------------
(* Readers. *)

(* Readers write nothing. *)
LEMMA ReadersWriteNothing == Spec => AttributesSpec
<1>1. Init => AttributesInit BY DEF Init
<1>2. [Next]_vars => [AttributesNext]_attrVars
  BY DEF Next, vars, Read, Select, SelectPlain, Build
<1>3. QED BY <1>1, <1>2, PTL DEF Spec, AttributesSpec

(* The levels, from the first table that is read to the last. *)
LEMMA Levels ==
    /\ Len(ReadOrder) = 5
    /\ ReadOrder[1] = "G" /\ ReadOrder[2] = "O" /\ ReadOrder[3] = "E"
    /\ ReadOrder[4] = "A" /\ ReadOrder[5] = "H"
BY DEF ReadOrder

(* A row is of one of the levels. *)
LEMMA RowLevel ==
    ASSUME NEW o \in Row
    PROVE  /\ o.target[1] \in {"G", "O", "A", "E", "H"}
           /\ o.target = <<o.target[1], o.target[2]>>
BY DEF Row, Targets

(* Of rows of one table a dictionary keeps one for every attribute. *)
LEMMA OneOfEachKeeps ==
    ASSUME NEW S, NEW s \in OneOfEach(S)
    PROVE  s \subseteq S /\ \A y \in S : \E o \in s : Pair(o) = Pair(y)
<1>1. ASSUME NEW y \in S PROVE \E o \in s : Pair(o) = Pair(y)
  <2>1. Cardinality({o \in s : Pair(o) = Pair(y)}) = 1 BY DEF OneOfEach
  <2>2. {o \in s : Pair(o) = Pair(y)} # {} BY <2>1, FS_EmptySet
  <2>3. QED BY <2>2
<1>2. QED BY <1>1 DEF OneOfEach

(* What a reader got of a row: the row, or the row without its shadow value. *)
Version(o, y) ==
    /\ o.target = y.target /\ o.key = y.key /\ o.value = y.value
    /\ o.shadow \in {y.shadow, None}

(* A reader that met only the tables T has of each table it read the rows of *)
(* T, as it may see them, and one at least of every attribute.               *)
Exact(r, T) ==
    /\ \A o \in got[r] : IF r \in privileged THEN o \in T
                         ELSE \E y \in T : o = [y EXCEPT !.shadow = None]
    /\ \A i \in 1 .. next[r] - 1 : \A y \in T :
          y.target[1] = ReadOrder[i] => \E o \in got[r] : Pair(o) = Pair(y)
    /\ again[r] /\ r \in privileged => \A y \in T : y.target[1] # ReadOrder[next[r]]

ReaderType ==
    /\ rows \subseteq Row
    /\ next \in [Readers -> 1 .. 7] /\ again \in [Readers -> BOOLEAN]
    /\ got \in [Readers -> SUBSET Row]
    /\ DOMAIN seen = Readers /\ DOMAIN attrs = Readers
    /\ \A r \in Readers : seen[r] \subseteq SUBSET Row /\ IsFiniteSet(seen[r])

Watching(r) ==
    /\ next[r] > 1 \/ again[r] => seen[r] # {}
    /\ again[r] => next[r] <= 5
    /\ seen[r] # {} /\ next[r] <= 5 => rows \in seen[r]

Reading(r) ==
    /\ \A o \in got[r] : \E T \in seen[r] : \E y \in T : Version(o, y)
    /\ next[r] <= 6 => \A T : seen[r] = {T} => Exact(r, T)
    /\ attrs[r] # <<>> => next[r] = 7

ReaderInv ==
    /\ ReaderType /\ \A r \in Readers : Watching(r) /\ Reading(r)
    /\ ReadIsEffective /\ ReadInventsNothing

(* What a reader has is true of as many tables as before when the tables are *)
(* written, or when another one reads.                                       *)
LEMMA ReadFrame ==
    ASSUME ReaderType, NEW r \in Readers, Watching(r), Reading(r),
           UNCHANGED <<privileged, next[r], again[r], got[r], attrs[r]>>,
           \/ rows' = rows /\ seen'[r] = seen[r]
           \/ seen'[r] = IF seen[r] # {} /\ next[r] <= 5 THEN seen[r] \cup {rows'} ELSE seen[r]
    PROVE  Watching(r)' /\ Reading(r)'
<1>1. next[r] \in 1 .. 7 BY DEF ReaderType
<1>2. seen[r] \subseteq seen'[r] OBVIOUS
<1>3. Watching(r)' BY <1>1 DEF Watching
<1>4. \A o \in got'[r] : \E T \in seen'[r] : \E y \in T : Version(o, y)
  BY <1>2 DEF Reading
<1>5. ASSUME next[r] <= 6, NEW T, seen'[r] = {T} PROVE Exact(r, T)'
  <2>1. seen[r] = {T}
    <3>1. CASE seen'[r] = seen[r] BY <1>5, <3>1
    <3>2. CASE seen[r] # {} BY <1>2, <1>5, <3>2
    <3>3. QED BY <3>1, <3>2
  <2>2. Exact(r, T) BY <1>5, <2>1 DEF Reading
  <2>3. QED BY <2>2 DEF Exact
<1>6. QED BY <1>3, <1>4, <1>5 DEF Reading

LEMMA ReadSelect ==
    ASSUME ReaderType, NEW r \in Readers, Watching(r), Reading(r), Select(r)
    PROVE  /\ Watching(r)' /\ Reading(r)'
           /\ got'[r] \subseteq Row /\ next'[r] \in 1 .. 7 /\ attrs'[r] = <<>>
<1> DEFINE l == ReadOrder[next[r]]
           S == IF r \in privileged THEN Table(l) ELSE {}
<1>1. /\ next[r] \in 1 .. 5 /\ again[r] = FALSE /\ rows \subseteq Row
      /\ UNCHANGED <<rows, privileged, attrs>>
      /\ seen'[r] = seen[r] \cup {rows}
  BY Levels DEF Select, ReaderType, attrVars
<1>2. attrs[r] = <<>> BY <1>1 DEF Reading
<1>3. ASSUME NEW T, seen'[r] = {T} PROVE T = rows /\ Exact(r, rows)
  <2>1. T = rows /\ (seen[r] = {} \/ seen[r] = {rows}) BY <1>1, <1>3
  <2>2. CASE seen[r] = {rows} BY <1>1, <2>1, <2>2 DEF Reading
  <2>3. CASE seen[r] = {}
    <3>1. next[r] = 1 BY <1>1, <2>3 DEF Watching
    <3>2. got[r] = {} BY <2>3 DEF Reading
    <3>3. QED BY <1>1, <2>1, <3>1, <3>2 DEF Exact
  <2>4. QED BY <2>1, <2>2, <2>3
<1>4. CASE S = {}
  <2>1. again'[r] = TRUE /\ UNCHANGED <<next, got>>
    BY <1>4, <1>1 DEF Select, ReaderType
  <2>2. Watching(r)' BY <1>1, <2>1 DEF Watching
  <2>3. \A T : seen'[r] = {T} => Exact(r, T)'
    <3>1. r \in privileged => \A y \in rows : y.target[1] # l BY <1>4 DEF Table
    <3>2. QED BY <1>1, <1>3, <2>1, <3>1 DEF Exact
  <2>4. Reading(r)' BY <1>1, <1>2, <2>1, <2>3 DEF Reading
  <2>5. QED BY <1>1, <1>2, <2>1, <2>2, <2>4 DEF ReaderType
<1>5. CASE S # {}
  <2>1. PICK s \in OneOfEach(S) : got' = [got EXCEPT ![r] = @ \cup s]
    BY <1>5 DEF Select
  <2>2. /\ next' = [next EXCEPT ![r] = @ + 1] /\ UNCHANGED again
    BY <1>5 DEF Select
  <2>3. /\ r \in privileged /\ got'[r] = got[r] \cup s
        /\ next'[r] = next[r] + 1 /\ again'[r] = FALSE
    BY <1>1, <1>5, <2>1, <2>2 DEF ReaderType
  <2>4. s \subseteq rows /\ \A y \in rows : y.target[1] = l => \E o \in s : Pair(o) = Pair(y)
    BY <1>5, <2>3, OneOfEachKeeps DEF Table
  <2>5. Watching(r)' BY <1>1, <2>3 DEF Watching
  <2>6. \A o \in got'[r] : \E T \in seen'[r] : \E y \in T : Version(o, y)
    <3>1. \A o \in s : Version(o, o) BY DEF Version
    <3>2. QED BY <1>1, <2>3, <2>4, <3>1 DEF Reading
  <2>7. ASSUME NEW T, seen'[r] = {T} PROVE Exact(r, T)'
    <3>1. T = rows /\ Exact(r, rows) BY <1>3, <2>7
    <3>2. \A i \in 1 .. next'[r] - 1 : i \in 1 .. next[r] - 1 \/ i = next[r]
      BY <1>1, <2>3
    <3>3. \A i \in 1 .. next'[r] - 1 : \A y \in rows :
             y.target[1] = ReadOrder[i] => \E o \in got'[r] : Pair(o) = Pair(y)
      BY <2>3, <2>4, <3>1, <3>2 DEF Exact
    <3>4. \A o \in got'[r] : o \in rows BY <2>3, <2>4, <3>1 DEF Exact
    <3>5. QED BY <1>1, <2>3, <3>1, <3>3, <3>4 DEF Exact
  <2>8. Reading(r)' BY <1>1, <1>2, <2>6, <2>7 DEF Reading
  <2>9. QED BY <1>1, <1>2, <2>3, <2>4, <2>5, <2>8 DEF ReaderType
<1>6. QED BY <1>4, <1>5

LEMMA ReadSelectPlain ==
    ASSUME ReaderType, NEW r \in Readers, Watching(r), Reading(r), SelectPlain(r)
    PROVE  /\ Watching(r)' /\ Reading(r)'
           /\ got'[r] \subseteq Row /\ next'[r] \in 1 .. 7 /\ attrs'[r] = <<>>
<1> DEFINE l == ReadOrder[next[r]]
           S == Plain(Table(l))
<1>1. /\ next[r] \in 1 .. 5 /\ again[r] = TRUE /\ rows \subseteq Row
      /\ UNCHANGED <<rows, privileged, attrs, seen>>
      /\ next'[r] = next[r] + 1 /\ again'[r] = FALSE
  BY Levels DEF SelectPlain, ReaderType, attrVars
<1>2. attrs[r] = <<>> BY <1>1 DEF Reading
<1>3. PICK s \in OneOfEach(S) : got' = [got EXCEPT ![r] = @ \cup s]
  BY DEF SelectPlain
<1>4. got'[r] = got[r] \cup s BY <1>3 DEF ReaderType
<1>5. /\ \A o \in s : \E y \in rows : y.target[1] = l /\ o = [y EXCEPT !.shadow = None]
      /\ \A y \in rows : y.target[1] = l => \E o \in s : Pair(o) = Pair([y EXCEPT !.shadow = None])
  BY OneOfEachKeeps DEF Plain, Table
<1>6. rows \in seen[r] BY <1>1 DEF Watching
<1>7. \A y \in rows : LET o == [y EXCEPT !.shadow = None] IN
         Version(o, y) /\ Pair(o) = Pair(y) /\ o \in Row
  BY <1>1 DEF Version, Pair, Row
<1>8. Watching(r)' BY <1>1, <1>6 DEF Watching
<1>9. \A o \in got'[r] : \E T \in seen'[r] : \E y \in T : Version(o, y)
  <2>1. \A o \in s : \E y \in rows : Version(o, y) BY <1>5, <1>7
  <2>2. QED BY <1>1, <1>4, <1>6, <2>1 DEF Reading
<1>10. ASSUME NEW T, seen'[r] = {T} PROVE Exact(r, T)'
  <2>1. T = rows BY <1>1, <1>6, <1>10
  <2>2. Exact(r, rows) BY <1>1, <1>10, <2>1 DEF Reading
  <2>3. \A i \in 1 .. next'[r] - 1 : i \in 1 .. next[r] - 1 \/ i = next[r] BY <1>1
  <2>4. \A y \in rows : y.target[1] = l => \E o \in s : Pair(o) = Pair(y) BY <1>5, <1>7
  <2>5. \A i \in 1 .. next'[r] - 1 : \A y \in rows :
           y.target[1] = ReadOrder[i] => \E o \in got'[r] : Pair(o) = Pair(y)
    BY <1>4, <2>2, <2>3, <2>4 DEF Exact
  <2>6. r \in privileged => s = {}
    BY <1>1, <1>5, <2>2 DEF Exact
  <2>7. \A o \in got'[r] : IF r \in privileged THEN o \in rows
                           ELSE \E y \in rows : o = [y EXCEPT !.shadow = None]
    BY <1>4, <1>5, <2>2, <2>6 DEF Exact
  <2>8. QED BY <1>1, <2>1, <2>5, <2>7 DEF Exact
<1>11. Reading(r)' BY <1>1, <1>2, <1>9, <1>10 DEF Reading
<1>12. got'[r] \subseteq Row
  <2>1. s \subseteq Row BY <1>5, <1>7
  <2>2. QED BY <1>4, <2>1 DEF ReaderType
<1>13. QED BY <1>1, <1>2, <1>8, <1>11, <1>12

(* The rows a reader got of the level l of a host. *)
LEMMA LayerHas ==
    ASSUME NEW r \in Readers, NEW h, NEW l
    PROVE  /\ \A k \in DOMAIN Layer(r, h, l) :
                 /\ Layer(r, h, l)[k] \in got[r] /\ Layer(r, h, l)[k].key = k
                 /\ Layer(r, h, l)[k].target = <<l, Owner(h, l)>>
           /\ \A o \in got[r] :
                 o.target = <<l, Owner(h, l)>> => o.key \in DOMAIN Layer(r, h, l)
<1> DEFINE own == {o \in got[r] : o.target = <<l, Owner(h, l)>>}
           keys == {o.key : o \in own}
<1>1. Layer(r, h, l) = [k \in keys |-> CHOOSE o \in own : o.key = k] BY DEF Layer
<1>2. DOMAIN Layer(r, h, l) = keys BY <1>1
<1>3. ASSUME NEW k \in keys
      PROVE  Layer(r, h, l)[k] \in own /\ Layer(r, h, l)[k].key = k
  <2>1. \E o \in own : o.key = k OBVIOUS
  <2>2. Layer(r, h, l)[k] = CHOOSE o \in own : o.key = k BY <1>1
  <2>3. QED BY <2>1, <2>2
<1>4. QED BY <1>2, <1>3

(* In a dictionary written over another its own entries go first. *)
LEMMA OverHas ==
    ASSUME NEW f, NEW g, NEW k
    PROVE  /\ k \in DOMAIN Over(f, g) <=> k \in DOMAIN f \/ k \in DOMAIN g
           /\ k \in DOMAIN Over(f, g) =>
                 Over(f, g)[k] = IF k \in DOMAIN f THEN f[k] ELSE g[k]
BY DEF Over

Level == {"G", "O", "A", "E", "H"}

LEMMA RankIs ==
    /\ Rank["G"] = 1 /\ Rank["O"] = 2 /\ Rank["A"] = 3 /\ Rank["E"] = 4 /\ Rank["H"] = 5
BY DEF Rank

(* The dictionary of a host has what its most specific level has. *)
LEMMA DictionaryHas ==
    ASSUME NEW r \in Readers, NEW h, NEW k
    PROVE  LET D == Dictionary(r, h) IN
           /\ k \in Intrinsic => k \in DOMAIN D /\ D[k] = [value |-> "I", shadow |-> None]
           /\ k \notin Intrinsic /\ k \in DOMAIN D =>
                 \E l \in Level :
                     /\ k \in DOMAIN Layer(r, h, l) /\ D[k] = Layer(r, h, l)[k]
                     /\ \A m \in Level : k \in DOMAIN Layer(r, h, m) => Rank[m] <= Rank[l]
           /\ \A l \in Level : k \in DOMAIN Layer(r, h, l) => k \in DOMAIN D
<1> DEFINE G == Layer(r, h, "G")
           O == Over(Layer(r, h, "O"), G)
           A == Over(Layer(r, h, "A"), O)
           E == Over(Layer(r, h, "E"), A)
           H == Over(Layer(r, h, "H"), E)
           D == Over(Intrinsics, H)
<1>1. Dictionary(r, h) = D BY DEF Dictionary
<1>2. /\ k \in DOMAIN O <=> k \in DOMAIN Layer(r, h, "O") \/ k \in DOMAIN G
      /\ k \in DOMAIN O => O[k] = IF k \in DOMAIN Layer(r, h, "O") THEN Layer(r, h, "O")[k] ELSE G[k]
  BY OverHas
<1>3. /\ k \in DOMAIN A <=> k \in DOMAIN Layer(r, h, "A") \/ k \in DOMAIN O
      /\ k \in DOMAIN A => A[k] = IF k \in DOMAIN Layer(r, h, "A") THEN Layer(r, h, "A")[k] ELSE O[k]
  <2> HIDE DEF O
  <2>1. QED BY OverHas
<1>4. /\ k \in DOMAIN E <=> k \in DOMAIN Layer(r, h, "E") \/ k \in DOMAIN A
      /\ k \in DOMAIN E => E[k] = IF k \in DOMAIN Layer(r, h, "E") THEN Layer(r, h, "E")[k] ELSE A[k]
  <2> HIDE DEF A
  <2>1. QED BY OverHas
<1>5. /\ k \in DOMAIN H <=> k \in DOMAIN Layer(r, h, "H") \/ k \in DOMAIN E
      /\ k \in DOMAIN H => H[k] = IF k \in DOMAIN Layer(r, h, "H") THEN Layer(r, h, "H")[k] ELSE E[k]
  <2> HIDE DEF E
  <2>1. QED BY OverHas
<1>6. /\ k \in DOMAIN D <=> k \in DOMAIN Intrinsics \/ k \in DOMAIN H
      /\ k \in DOMAIN D => D[k] = IF k \in DOMAIN Intrinsics THEN Intrinsics[k] ELSE H[k]
  <2> HIDE DEF H
  <2>1. QED BY OverHas
<1>7. DOMAIN Intrinsics = Intrinsic /\ (k \in Intrinsic => Intrinsics[k] = [value |-> "I", shadow |-> None])
  BY DEF Intrinsics
<1> HIDE DEF G, O, A, E, H, D
<1>8. k \in Intrinsic => k \in DOMAIN D /\ D[k] = [value |-> "I", shadow |-> None]
  BY <1>6, <1>7
<1>9. \A l \in Level : k \in DOMAIN Layer(r, h, l) => k \in DOMAIN D
  BY <1>2, <1>3, <1>4, <1>5, <1>6 DEF Level, G
<1>10. ASSUME k \notin Intrinsic, k \in DOMAIN D
       PROVE  \E l \in Level :
                 /\ k \in DOMAIN Layer(r, h, l) /\ D[k] = Layer(r, h, l)[k]
                 /\ \A m \in Level : k \in DOMAIN Layer(r, h, m) => Rank[m] <= Rank[l]
  <2>1. k \in DOMAIN H /\ D[k] = H[k] BY <1>6, <1>7, <1>10
  <2>2. CASE k \in DOMAIN Layer(r, h, "H")
    BY <1>5, <2>1, <2>2, RankIs DEF Level
  <2>3. CASE k \notin DOMAIN Layer(r, h, "H") /\ k \in DOMAIN Layer(r, h, "E")
    BY <1>4, <1>5, <2>1, <2>3, RankIs DEF Level
  <2>4. CASE /\ k \notin DOMAIN Layer(r, h, "H") /\ k \notin DOMAIN Layer(r, h, "E")
             /\ k \in DOMAIN Layer(r, h, "A")
    BY <1>3, <1>4, <1>5, <2>1, <2>4, RankIs DEF Level
  <2>5. CASE /\ k \notin DOMAIN Layer(r, h, "H") /\ k \notin DOMAIN Layer(r, h, "E")
             /\ k \notin DOMAIN Layer(r, h, "A") /\ k \in DOMAIN Layer(r, h, "O")
    BY <1>2, <1>3, <1>4, <1>5, <2>1, <2>5, RankIs DEF Level
  <2>6. CASE /\ k \notin DOMAIN Layer(r, h, "H") /\ k \notin DOMAIN Layer(r, h, "E")
             /\ k \notin DOMAIN Layer(r, h, "A") /\ k \notin DOMAIN Layer(r, h, "O")
    BY <1>2, <1>3, <1>4, <1>5, <2>1, <2>6, RankIs DEF Level, G
  <2>7. QED BY <2>2, <2>3, <2>4, <2>5, <2>6
<1>11. QED BY <1>1, <1>8, <1>9, <1>10

(* What a reader shows of a host once it has built its dictionary. *)
LEMMA BuildShows ==
    ASSUME ReaderType, NEW r \in Readers, Build(r), NEW h \in Hosts
    PROVE  /\ DOMAIN attrs'[r][h] = DOMAIN Dictionary(r, h)
           /\ \A k \in DOMAIN Dictionary(r, h) :
                 attrs'[r][h][k] = Shown(Dictionary(r, h)[k])
BY DEF ReaderType, Build

(* No row a host was given is of another host, or of no table that was met. *)
LEMMA BuildInventsNothing ==
    ASSUME ReaderType, NEW r \in Readers, Reading(r), Build(r), NEW h \in Hosts,
           NEW k \in DOMAIN attrs'[r][h] \ Intrinsic
    PROVE  \E T \in seen'[r] : \E o \in T :
              /\ o.key = k /\ o.target[2] = Owner(h, o.target[1])
              /\ attrs'[r][h][k] \in {o.value, o.shadow}
<1> DEFINE D == Dictionary(r, h)
<1>1. k \in DOMAIN D /\ attrs'[r][h][k] = Shown(D[k]) BY BuildShows
<1>2. PICK l \in Level : k \in DOMAIN Layer(r, h, l) /\ D[k] = Layer(r, h, l)[k]
  BY <1>1, DictionaryHas
<1>3. D[k] \in got[r] /\ D[k].key = k /\ D[k].target = <<l, Owner(h, l)>>
  BY <1>2, LayerHas
<1>4. PICK T \in seen[r] : \E y \in T : Version(D[k], y) BY <1>3 DEF Reading
<1>5. PICK y \in T : /\ y.key = k /\ y.target[2] = Owner(h, y.target[1])
                    /\ Shown(D[k]) \in {y.value, y.shadow}
  BY <1>3, <1>4 DEF Version, Shown
<1>6. seen'[r] = seen[r] BY DEF Build
<1>7. QED BY <1>1, <1>4, <1>5, <1>6

(* If it met one contents of the tables only, it shows what that says. *)
LEMMA BuildIsEffective ==
    ASSUME ReaderType, NEW r \in Readers, Reading(r), Build(r),
           NEW T, seen[r] = {T}, NEW h \in Hosts, NEW k
    PROVE  LET e == Effective(T, h, k, r \in privileged) IN
           Answer(r, h, k)' \subseteq e /\ (e # {} => Answer(r, h, k)' # {})
<1> DEFINE D == Dictionary(r, h)
           rel == {o \in T : o.key = k /\ o.target[2] = Owner(h, o.target[1])}
           most == {o \in rel : \A q \in rel : Rank[q.target[1]] <= Rank[o.target[1]]}
           priv == r \in privileged
<1>1. next[r] = 6 /\ T \subseteq Row
  <2>1. next[r] = 6 BY Levels DEF Build
  <2>2. T \in seen[r] /\ seen[r] \subseteq SUBSET Row BY DEF ReaderType
  <2>3. QED BY <2>1, <2>2
<1>2. Exact(r, T) BY <1>1 DEF Reading
<1>3. /\ DOMAIN attrs'[r][h] = DOMAIN D
      /\ \A j \in DOMAIN D : attrs'[r][h][j] = Shown(D[j])
  BY BuildShows
<1>4. Answer(r, h, k)' = IF k \in DOMAIN D THEN {Shown(D[k])} ELSE {}
  BY <1>3 DEF Answer
<1>5. CASE k \in Intrinsic
  <2>1. k \in DOMAIN D /\ Shown(D[k]) = "I" BY <1>5, DictionaryHas DEF Shown
  <2>2. Effective(T, h, k, priv) = {"I"} BY <1>5 DEF Effective
  <2>3. QED BY <1>4, <2>1, <2>2
<1>6. CASE k \notin Intrinsic
  <2>1. Effective(T, h, k, priv) =
           {IF priv /\ o.shadow # None THEN o.shadow ELSE o.value : o \in most}
    BY <1>6 DEF Effective
  <2>2. ASSUME NEW y \in rel
        PROVE  y.target[1] \in Level /\ k \in DOMAIN Layer(r, h, y.target[1])
    <3>1. y \in Row /\ y.target[1] \in Level /\ y.target = <<y.target[1], Owner(h, y.target[1])>>
      BY <1>1, RowLevel DEF Level
    <3>2. PICK i \in 1 .. 5 : ReadOrder[i] = y.target[1] BY <3>1, Levels DEF Level
    <3>3. PICK o \in got[r] : Pair(o) = Pair(y) BY <1>1, <1>2, <3>2 DEF Exact
    <3>4. o.key = k /\ o.target = <<y.target[1], Owner(h, y.target[1])>>
      BY <3>1, <3>3 DEF Pair
    <3>5. QED BY <3>1, <3>4, LayerHas
  <2>3. ASSUME k \in DOMAIN D
        PROVE  Shown(D[k]) \in Effective(T, h, k, priv)
    <3>1. PICK l \in Level :
             /\ k \in DOMAIN Layer(r, h, l) /\ D[k] = Layer(r, h, l)[k]
             /\ \A m \in Level : k \in DOMAIN Layer(r, h, m) => Rank[m] <= Rank[l]
      BY <1>6, <2>3, DictionaryHas
    <3>2. D[k] \in got[r] /\ D[k].key = k /\ D[k].target = <<l, Owner(h, l)>>
      BY <3>1, LayerHas
    <3>3. PICK y \in T : IF priv THEN D[k] = y ELSE D[k] = [y EXCEPT !.shadow = None]
      BY <1>2, <3>2 DEF Exact
    <3>4. y \in Row BY <1>1
    <3>5. y.target = <<l, Owner(h, l)>> /\ y.key = k BY <3>2, <3>3, <3>4 DEF Row
    <3>6. y \in most BY <2>2, <3>1, <3>5
    <3>7. Shown(D[k]) = IF priv /\ y.shadow # None THEN y.shadow ELSE y.value
      BY <3>3, <3>4 DEF Shown, Row
    <3>8. QED BY <2>1, <3>6, <3>7
  <2>4. ASSUME Effective(T, h, k, priv) # {} PROVE k \in DOMAIN D
    <3>1. PICK y \in rel : TRUE BY <2>1, <2>4
    <3>2. QED BY <2>2, <3>1, DictionaryHas
  <2>5. QED BY <1>4, <2>3, <2>4
<1>7. QED BY <1>5, <1>6

(* What a reader shows stays right: only its own steps change it, and it is *)
(* done when it shows something.                                            *)
LEMMA ShownStays ==
    ASSUME ReaderInv, NEW r \in Readers,
           UNCHANGED <<privileged, attrs[r]>>, seen[r] \subseteq seen'[r],
           attrs[r] # <<>> => seen'[r] = seen[r]
    PROVE  /\ attrs'[r] # <<>> /\ Cardinality(seen'[r]) = 1 =>
                 \A h \in Hosts, k \in Keys, T \in seen'[r] :
                     LET e == Effective(T, h, k, r \in privileged') IN
                     Answer(r, h, k)' \subseteq e /\ (e # {} => Answer(r, h, k)' # {})
           /\ attrs'[r] # <<>> =>
                 \A h \in Hosts : \A k \in DOMAIN attrs'[r][h] \ Intrinsic :
                     \/ attrs'[r][h][k] = None
                     \/ \E T \in seen'[r] : \E o \in T :
                           /\ o.key = k /\ o.target[2] = Owner(h, o.target[1])
                           /\ attrs'[r][h][k] \in {o.value, o.shadow}
<1>1. \A h, k : Answer(r, h, k)' = Answer(r, h, k) BY DEF Answer
<1>2. QED BY <1>1 DEF ReaderInv, ReadIsEffective, ReadInventsNothing

(* The same of what it shows first. *)
LEMMA ShownFirst ==
    ASSUME ReaderInv, NEW r \in Readers, Build(r)
    PROVE  /\ Cardinality(seen'[r]) = 1 =>
                 \A h \in Hosts, k \in Keys, T \in seen'[r] :
                     LET e == Effective(T, h, k, r \in privileged') IN
                     Answer(r, h, k)' \subseteq e /\ (e # {} => Answer(r, h, k)' # {})
           /\ \A h \in Hosts : \A k \in DOMAIN attrs'[r][h] \ Intrinsic :
                 \E T \in seen'[r] : \E o \in T :
                     /\ o.key = k /\ o.target[2] = Owner(h, o.target[1])
                     /\ attrs'[r][h][k] \in {o.value, o.shadow}
<1>1. ReaderType /\ Reading(r) /\ UNCHANGED <<privileged, seen>>
  BY DEF ReaderInv, Build
<1>2. ASSUME Cardinality(seen[r]) = 1, NEW h \in Hosts, NEW k \in Keys, NEW T \in seen[r]
      PROVE  LET e == Effective(T, h, k, r \in privileged) IN
             Answer(r, h, k)' \subseteq e /\ (e # {} => Answer(r, h, k)' # {})
  <2>1. IsFiniteSet(seen[r]) BY <1>1 DEF ReaderType
  <2>2. \E x : seen[r] = {x} BY <1>2, <2>1, FS_Singleton
  <2>3. seen[r] = {T} BY <1>2, <2>2
  <2>4. QED BY <1>1, <2>3, BuildIsEffective
<1>3. QED BY <1>1, <1>2, BuildInventsNothing

LEMMA ReaderFirst == Init => ReaderInv
<1> SUFFICES ASSUME Init PROVE ReaderInv OBVIOUS
<1>1. rows \subseteq Row
  BY AttributesAssumption DEF Init, AttributesInit
<1>2. ReaderType BY <1>1, FS_EmptySet DEF Init, ReadInit, ReaderType
<1>3. \A r \in Readers : Watching(r) /\ Reading(r)
  BY DEF Init, ReadInit, Watching, Reading
<1>4. \A r \in Readers : attrs[r] = <<>> BY DEF Init, ReadInit
<1>5. QED BY <1>2, <1>3, <1>4 DEF ReaderInv, ReadIsEffective, ReadInventsNothing

LEMMA ReaderStep ==
    ASSUME AttributesTypeOK', ReaderInv, [Next]_vars
    PROVE  ReaderInv'
<1>1. ReaderType /\ rows' \subseteq Row BY DEF ReaderInv, AttributesTypeOK
<1>2. \A r \in Readers : Watching(r) /\ Reading(r) BY DEF ReaderInv
<1>3. CASE AttributesNext /\ Watched /\ UNCHANGED <<privileged, next, again, got, attrs>>
  <2>1. \A r \in Readers :
           seen'[r] = IF seen[r] # {} /\ next[r] <= 5 THEN seen[r] \cup {rows'} ELSE seen[r]
    BY <1>3, Levels DEF Watched
  <2>2. ReaderType'
    <3>1. \A r \in Readers : seen'[r] \subseteq SUBSET Row /\ IsFiniteSet(seen'[r])
      <4>1. ASSUME NEW r \in Readers
            PROVE  seen'[r] \subseteq SUBSET Row /\ IsFiniteSet(seen'[r])
        <5>1. seen[r] \subseteq SUBSET Row /\ IsFiniteSet(seen[r]) BY <1>1 DEF ReaderType
        <5>2. IsFiniteSet(seen[r] \cup {rows'}) BY <5>1, FS_AddElement
        <5>3. seen'[r] = seen[r] \/ seen'[r] = seen[r] \cup {rows'} BY <2>1
        <5>4. QED BY <1>1, <5>1, <5>2, <5>3
      <4>2. QED BY <4>1
    <3>2. QED BY <1>1, <1>3, <3>1 DEF ReaderType, Watched
  <2>3. \A r \in Readers : Watching(r)' /\ Reading(r)'
    BY <1>1, <1>2, <1>3, <2>1, ReadFrame
  <2>4. \A r \in Readers : /\ seen[r] \subseteq seen'[r]
                           /\ attrs[r] # <<>> => seen'[r] = seen[r]
    <3>1. \A r \in Readers : attrs[r] # <<>> => next[r] = 7 BY <1>2 DEF Reading
    <3>2. \A r \in Readers : seen[r] \subseteq seen'[r] BY <2>1
    <3>3. \A r \in Readers : next[r] = 7 => ~ (next[r] <= 5) OBVIOUS
    <3>4. QED BY <2>1, <3>1, <3>2, <3>3
  <2>5. ReadIsEffective' /\ ReadInventsNothing'
    BY <1>3, <2>4, ShownStays DEF ReadIsEffective, ReadInventsNothing
  <2>6. QED BY <2>2, <2>3, <2>5 DEF ReaderInv
<1>4. ASSUME NEW q \in Readers, Read(q) PROVE ReaderInv'
  <2>1. \A r \in Readers \ {q} :
           UNCHANGED <<next[r], again[r], got[r], attrs[r], seen[r]>>
    BY <1>1, <1>4 DEF Read, Select, SelectPlain, Build, ReaderType
  <2>2. rows' = rows /\ privileged' = privileged
    BY <1>4 DEF Read, Select, SelectPlain, Build, attrVars
  <2>3. \A r \in Readers \ {q} : Watching(r)' /\ Reading(r)'
    BY <1>1, <1>2, <2>1, <2>2, ReadFrame
  <2>4. /\ Watching(q)' /\ Reading(q)'
        /\ got'[q] \subseteq Row /\ next'[q] \in 1 .. 7
        /\ attrs'[q] = <<>> \/ Build(q)
    <3>1. CASE Select(q) BY <1>1, <1>2, <3>1, ReadSelect
    <3>2. CASE SelectPlain(q) BY <1>1, <1>2, <3>2, ReadSelectPlain
    <3>3. CASE Build(q)
      <4>1. next[q] = 6 /\ next'[q] = 7 /\ got'[q] = {} /\ UNCHANGED <<again, seen>>
        BY <1>1, <3>3, Levels DEF Build, ReaderType
      <4>2. Watching(q)' /\ Reading(q)'
        BY <1>1, <1>2, <4>1 DEF Watching, Reading, ReaderType
      <4>3. QED BY <3>3, <4>1, <4>2
    <3>4. QED BY <1>4, <3>1, <3>2, <3>3 DEF Read
  <2>5. ReaderType'
    <3>1. /\ next' \in [Readers -> 1 .. 7] /\ again' \in [Readers -> BOOLEAN]
          /\ got' \in [Readers -> SUBSET Row]
          /\ DOMAIN seen' = Readers /\ DOMAIN attrs' = Readers
      <4>1. DOMAIN seen' = Readers /\ DOMAIN attrs' = Readers
        BY <1>1, <1>4 DEF Read, Select, SelectPlain, Build, ReaderType
      <4>2. again' \in [Readers -> BOOLEAN]
        BY <1>1, <1>4 DEF Read, Select, SelectPlain, Build, ReaderType
      <4>3. next' = [next EXCEPT ![q] = next'[q]] /\ got' = [got EXCEPT ![q] = got'[q]]
        BY <1>1, <1>4 DEF Read, Select, SelectPlain, Build, ReaderType
      <4>4. QED BY <1>1, <2>4, <4>1, <4>2, <4>3 DEF ReaderType
    <3>2. seen'[q] \subseteq seen[q] \cup {rows} /\ IsFiniteSet(seen'[q])
      <4>1. seen'[q] = seen[q] \/ seen'[q] = seen[q] \cup {rows}
        BY <1>1, <1>4 DEF Read, Select, SelectPlain, Build, ReaderType
      <4>2. IsFiniteSet(seen[q]) BY <1>1 DEF ReaderType
      <4>3. IsFiniteSet(seen[q] \cup {rows}) BY <4>2, FS_AddElement
      <4>4. QED BY <4>1, <4>2, <4>3
    <3>3. \A r \in Readers : seen'[r] \subseteq SUBSET Row /\ IsFiniteSet(seen'[r])
      BY <1>1, <2>1, <3>2 DEF ReaderType
    <3>4. QED BY <1>1, <3>1, <3>3 DEF ReaderType
  <2>6. ReadIsEffective' /\ ReadInventsNothing'
    <3>1. \A r \in Readers \ {q} : /\ UNCHANGED <<privileged, attrs[r]>>
                                   /\ seen[r] \subseteq seen'[r]
                                   /\ attrs[r] # <<>> => seen'[r] = seen[r]
      BY <2>1, <2>2
    <3>2. QED BY <2>4, <3>1, ShownStays, ShownFirst DEF ReadIsEffective, ReadInventsNothing
  <2>7. QED BY <2>3, <2>4, <2>5, <2>6 DEF ReaderInv
<1>5. CASE UNCHANGED vars
  <2>1. ReaderType' BY <1>1, <1>5 DEF vars, readVars, ReaderType, attrVars
  <2>2. \A r \in Readers : UNCHANGED <<rows, privileged, next[r], again[r], got[r], attrs[r], seen[r]>>
    BY <1>5 DEF vars, readVars, attrVars
  <2>3. \A r \in Readers : Watching(r)' /\ Reading(r)'
    BY <1>1, <1>2, <2>2, ReadFrame
  <2>4. ReadIsEffective' /\ ReadInventsNothing'
    BY <2>2, ShownStays DEF ReadIsEffective, ReadInventsNothing
  <2>5. QED BY <2>1, <2>3, <2>4 DEF ReaderInv
<1>6. QED BY <1>3, <1>4, <1>5 DEF Next

LEMMA ReaderInvariant == Spec => [](AttributesTypeOK /\ ReaderInv)
<1>1. Spec => []AttributesTypeOK
  <2>1. AttrInv => AttributesTypeOK BY DEF AttrInv
  <2>2. QED BY <2>1, AttrInvariant, ReadersWriteNothing, PTL
<1>2. QED BY <1>1, ReaderFirst, ReaderStep, PTL DEF Spec

(* Readers and writers keep the types of what they have. *)
THEOREM ReadersTypeCorrect == Spec => []TypeOK
<1>1. Spec => [](privileged \subseteq Readers)
  <2>1. Init => privileged \subseteq Readers BY DEF Init, ReadInit
  <2>2. privileged \subseteq Readers /\ [Next]_vars => (privileged \subseteq Readers)'
    BY DEF Next, vars, readVars, Read, Select, SelectPlain, Build
  <2>3. QED BY <2>1, <2>2, PTL DEF Spec
<1>2. AttributesTypeOK /\ ReaderInv /\ privileged \subseteq Readers => TypeOK
  BY Levels DEF ReaderInv, ReaderType, TypeOK
<1>3. QED BY <1>1, <1>2, ReaderInvariant, PTL

(* A reader that met the tables in one state only has, of every attribute of *)
(* every host, what the most specific level says of it, with the shadow      *)
(* values if it may see those.                                               *)
THEOREM ReadsAreEffective == Spec => []ReadIsEffective
<1>1. ReaderInv => ReadIsEffective BY DEF ReaderInv
<1>2. QED BY <1>1, ReaderInvariant, PTL

(* And whatever is written between its selects, it has nothing that was not  *)
(* said of the host while it read.                                           *)
THEOREM ReadsInventNothing == Spec => []ReadInventsNothing
<1>1. ReaderInv => ReadInventsNothing BY DEF ReaderInv
<1>2. QED BY <1>1, ReaderInvariant, PTL

=============================================================================
