--------------------------- MODULE AttributeReads ---------------------------
(***************************************************************************)
(* Reading the attributes of the hosts while commands write them           *)
(* (getHostAttrs of pylib's DatabaseConnection): a select for each table,  *)
(* and a dictionary for each host of the least specific level first, over  *)
(* which the next ones go.  The result is kept for all hosts, until the    *)
(* process ends.                                                           *)
(***************************************************************************)
EXTENDS Attributes

CONSTANTS
    Readers,       \* processes that read
    Member         \* Member[h][l]: the name of the group of host h at level l

VARIABLES
    privileged,    \* the readers that may read the column of shadow values
    next,          \* the table each reader reads next
    again,         \* whether it has to ask for it without the shadow values
    got,           \* what it has of each table
    attrs,         \* host-attrs-dict: none, or the attributes of each host
    seen           \* the contents of the tables since it began

readVars == <<privileged, next, again, got, attrs, seen>>
vars == <<attrVars, readVars>>

(* The order the tables are read in, and the one they go over each other in. *)
ReadOrder == <<"G", "O", "E", "A", "H">>

Owner(h, l) == CASE l = "G" -> None [] l = "H" -> h [] OTHER -> Member[h][l]

ReadInit ==
    /\ privileged \in SUBSET Readers
    /\ next = [r \in Readers |-> 1]
    /\ again = [r \in Readers |-> FALSE]
    /\ got = [r \in Readers |-> {}]
    /\ attrs = [r \in Readers |-> <<>>]
    /\ seen = [r \in Readers |-> {}]

Table(l) == {r \in rows : r.target[1] = l}

Plain(S) == {[r EXCEPT !.shadow = None] : r \in S}

(* The first of the two selects fails for others than root and apache; where *)
(* it fails, or finds nothing, the second is tried.                          *)
Select(r) ==
    /\ next[r] <= Len(ReadOrder) /\ ~ again[r]
    /\ LET S == IF r \in privileged THEN Table(ReadOrder[next[r]]) ELSE {} IN
       IF S = {}
       THEN again' = [again EXCEPT ![r] = TRUE] /\ UNCHANGED <<next, got>>
       ELSE /\ \E s \in OneOfEach(S) : got' = [got EXCEPT ![r] = @ \cup s]
            /\ next' = [next EXCEPT ![r] = @ + 1]
            /\ UNCHANGED again
    /\ seen' = [seen EXCEPT ![r] = @ \cup {rows}]
    /\ UNCHANGED <<attrVars, privileged, attrs>>

SelectPlain(r) ==
    /\ next[r] <= Len(ReadOrder) /\ again[r]
    /\ \E s \in OneOfEach(Plain(Table(ReadOrder[next[r]]))) :
           got' = [got EXCEPT ![r] = @ \cup s]
    /\ next' = [next EXCEPT ![r] = @ + 1]
    /\ again' = [again EXCEPT ![r] = FALSE]
    /\ UNCHANGED <<attrVars, privileged, attrs, seen>>

(* A slip: of one level, whoever's they are. *)
LayerOfAll(r, h, l) ==
    LET own == {o \in got[r] : o.target[1] = l} IN
    [k \in {o.key : o \in own} |-> CHOOSE o \in own : o.key = k]

(* The attributes of one level, as a dictionary. *)
Layer(r, h, l) ==
    LET own == {o \in got[r] : o.target = <<l, Owner(h, l)>>} IN
    [k \in {o.key : o \in own} |-> CHOOSE o \in own : o.key = k]

(* What a dictionary g is once f has been written over it. *)
Over(f, g) ==
    [k \in DOMAIN f \cup DOMAIN g |-> IF k \in DOMAIN f THEN f[k] ELSE g[k]]

Intrinsics == [k \in Intrinsic |-> [value |-> "I", shadow |-> None]]

(* A slip: what is set for an appliance goes over what is set for an *)
(* environment, in the order the tables are read.                     *)
DictionaryAsRead(r, h) ==
    Over(Intrinsics, Over(Layer(r, h, "H"), Over(Layer(r, h, "A"),
        Over(Layer(r, h, "E"), Over(Layer(r, h, "O"), Layer(r, h, "G"))))))

Dictionary(r, h) ==
    Over(Intrinsics, Over(Layer(r, h, "H"), Over(Layer(r, h, "E"),
        Over(Layer(r, h, "A"), Over(Layer(r, h, "O"), Layer(r, h, "G"))))))

(* The shadow value goes before the other. *)
Shown(o) == IF o.shadow # None THEN o.shadow ELSE o.value

Build(r) ==
    /\ next[r] = Len(ReadOrder) + 1
    /\ next' = [next EXCEPT ![r] = @ + 1]
    /\ attrs' = [attrs EXCEPT ![r] =
           [h \in Hosts |-> [k \in DOMAIN Dictionary(r, h) |-> Shown(Dictionary(r, h)[k])]]]
    /\ got' = [got EXCEPT ![r] = {}]
    /\ UNCHANGED <<attrVars, privileged, again, seen>>

Read(r) == Select(r) \/ SelectPlain(r) \/ Build(r)

(* The tables a reader met: each of its selects, and each write in between. *)
Watched ==
    seen' = [r \in Readers |->
                IF seen[r] # {} /\ next[r] <= Len(ReadOrder)
                THEN seen[r] \cup {rows'} ELSE seen[r]]

Next ==
    \/ AttributesNext /\ Watched /\ UNCHANGED <<privileged, next, again, got, attrs>>
    \/ \E r \in Readers : Read(r)

Init == AttributesInit /\ ReadInit

Spec == Init /\ [][Next]_vars
-----------------------------------------------------------------------------
TypeOK ==
    /\ AttributesTypeOK
    /\ privileged \subseteq Readers
    /\ next \in [Readers -> 1 .. Len(ReadOrder) + 2]
    /\ again \in [Readers -> BOOLEAN]
    /\ got \in [Readers -> SUBSET Row]
    /\ \A r \in Readers : seen[r] \subseteq SUBSET Row

(* The more specific level decides. *)
Rank == [G |-> 1, O |-> 2, A |-> 3, E |-> 4, H |-> 5]

(* What the attribute k is for the host h, in tables T, and may be where *)
(* several rows of it are left; none, where it is not set.               *)
Effective(T, h, k, shadows) ==
    LET rel == {o \in T : o.key = k /\ o.target[2] = Owner(h, o.target[1])}
        most == {o \in rel : \A q \in rel : Rank[q.target[1]] <= Rank[o.target[1]]}
    IN  IF k \in Intrinsic THEN {"I"}
        ELSE {IF shadows /\ o.shadow # None THEN o.shadow ELSE o.value : o \in most}

Answer(r, h, k) == IF k \in DOMAIN attrs[r][h] THEN {attrs[r][h][k]} ELSE {}

(* If nobody wrote the tables while they were read one after the other, a    *)
(* host has of every attribute what its most specific level says: the host   *)
(* before the environment, the appliance, the OS and the global one, and an  *)
(* intrinsic one before all (commands/__init__.py:1668-1722).                *)
ReadIsEffective ==
    \A r \in Readers : attrs[r] # <<>> /\ Cardinality(seen[r]) = 1 =>
        \A h \in Hosts, k \in Keys, T \in seen[r] :
            LET e == Effective(T, h, k, r \in privileged) IN
            Answer(r, h, k) \subseteq e /\ (e # {} => Answer(r, h, k) # {})

(* Whatever was written meanwhile, a host gets no value that no row of its   *)
(* own levels had while the tables were read; NULL it may get, where only a  *)
(* shadow value was set (commands/__init__.py:1540-1655).                    *)
ReadInventsNothing ==
    \A r \in Readers : attrs[r] # <<>> =>
        \A h \in Hosts : \A k \in DOMAIN attrs[r][h] \ Intrinsic :
            \/ attrs[r][h][k] = None
            \/ \E T \in seen[r] : \E o \in T :
                  /\ o.key = k /\ o.target[2] = Owner(h, o.target[1])
                  /\ attrs[r][h][k] \in {o.value, o.shadow}
=============================================================================
