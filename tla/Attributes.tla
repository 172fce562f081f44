----------------------------- MODULE Attributes -----------------------------
(***************************************************************************)
(* The tables of attributes and the commands that write them: add, set and *)
(* remove of a global attribute or one of an OS, an appliance, an          *)
(* environment or a host, and load attrfile, which calls the others for    *)
(* every cell of a spreadsheet.  The tables have no keys and a command is  *)
(* no transaction: its statements are mixed with those of other processes. *)
(*                                                                         *)
(* What a command has still to do are sets, because it goes through Python *)
(* dictionaries, or through names whose order makes no difference.         *)
(***************************************************************************)
EXTENDS Naturals, FiniteSets, Sequences

CONSTANTS
    Groups,            \* the names of OSes, appliances and environments
    Hosts,
    Keys,              \* the names of attributes
    Values,
    None,              \* NULL, or an empty cell
    Intrinsic,         \* attributes every host has anyhow (rack, os, ...)
    GlobalIntrinsic,   \* those of them that are no host's own (version, ...)
    Extends,           \* the pairs <<k, l>> where l begins with k, and goes on
    Commands,          \* what a process may be asked to do
    Processes,
    MayDie,            \* processes that may be killed
    Initially          \* the contents of the tables to begin with

(* Whose attribute it is: of the level G (global), O (an OS), A (an         *)
(* appliance), E (an environment) or H (a host), and of that name.          *)
Targets == {<<"G", None>>} \cup ({"O", "A", "E"} \X Groups) \cup ({"H"} \X Hosts)

Pairs == Targets \X Keys

Row == [target : Targets, key : Keys,
        value : Values \cup {None}, shadow : Values \cup {None}]

Pair(r) == <<r.target, r.key>>

ASSUME AttributesAssumption ==
    /\ IsFiniteSet(Processes) /\ Processes # {} /\ MayDie \subseteq Processes
    /\ Initially \subseteq SUBSET Row
    /\ None \notin Values /\ None \notin Commands
    /\ GlobalIntrinsic \subseteq Intrinsic /\ Intrinsic \subseteq Keys
    /\ \A S \in Initially : \A r \in S, o \in S : Pair(r) = Pair(o) => r = o

VARIABLES
    rows,          \* the tables
    command,       \* what each process was asked to do
    state,         \* how far it is
    test, found,   \* attributes to be listed first, and those that were there
    clear,         \* attributes to be removed
    put,           \* rows to be set
    mid,           \* the row of which the old one is removed already, if any
    undisturbed    \* whether others left the attributes of the command alone

todo == <<test, found, clear, put, mid>>
attrVars == <<rows, command, state, todo, undisturbed>>

RowsOf(x) == {r \in rows : Pair(r) = x}

AttributesTypeOK ==
    /\ rows \subseteq Row
    /\ command \in [Processes -> Commands \cup {None}]
    /\ state \in [Processes -> {"idle", "running", "done", "raised", "dead"}]
    /\ test \in [Processes -> SUBSET Pairs] /\ found \in [Processes -> SUBSET Pairs]
    /\ clear \in [Processes -> SUBSET Pairs]
    /\ put \in [Processes -> SUBSET Row] /\ mid \in [Processes -> SUBSET Row]
    /\ undisturbed \in [Processes -> BOOLEAN]

AttributesInit ==
    /\ rows \in Initially
    /\ command = [p \in Processes |-> None]
    /\ state = [p \in Processes |-> "idle"]
    /\ test = [p \in Processes |-> {}] /\ found = [p \in Processes |-> {}]
    /\ clear = [p \in Processes |-> {}]
    /\ put = [p \in Processes |-> {}] /\ mid = [p \in Processes |-> {}]
    /\ undisturbed = [p \in Processes |-> TRUE]
-----------------------------------------------------------------------------
(* A spreadsheet is a sequence of rows, each of them a target, or None for  *)
(* `default', and a cell for every attribute of the header. An empty cell   *)
(* takes the value of the default row, if that came before.                 *)

(* A slip: of a default row below, too. *)
FilledFromBelow(sheet, i) ==
    LET defaults == {j \in 1 .. Len(sheet) : sheet[j].target = None}
        default == CHOOSE j \in defaults : \A o \in defaults : o <= j
        own == sheet[i].cells
    IN  [k \in DOMAIN own |->
            IF own[k] = None /\ defaults # {} THEN sheet[default].cells[k] ELSE own[k]]

Filled(sheet, i) ==
    LET defaults == {j \in 1 .. i - 1 : sheet[j].target = None}
        default == CHOOSE j \in defaults : \A o \in defaults : o <= j
        own == sheet[i].cells
    IN  [k \in DOMAIN own |->
            IF own[k] = None /\ defaults # {} THEN sheet[default].cells[k] ELSE own[k]]

(* A later row of the same target replaces the earlier one. *)
Lines(sheet) ==
    {i \in 1 .. Len(sheet) :
        /\ sheet[i].target # None
        /\ \A j \in i + 1 .. Len(sheet) : sheet[j].target # sheet[i].target}

Cells(sheet) ==
    UNION {{[target |-> sheet[i].target, key |-> k,
             value |-> Filled(sheet, i)[k], shadow |-> None] :
                k \in DOMAIN sheet[i].cells} : i \in Lines(sheet)}

(* The rows a command sets, the attributes it removes before it sets any, *)
(* and those it looks at before it does anything.                         *)
ToPut(c) ==
    CASE c.op \in {"set", "add"} ->
            {[target |-> t, key |-> c.key,
              value |-> IF c.shadow THEN None ELSE c.value,
              shadow |-> IF c.shadow THEN c.value ELSE None] : t \in c.targets}
      [] c.op = "remove" -> {}
      [] c.op = "load" -> {r \in Cells(c.sheet) : r.value # None}

ToClear(c) ==
    CASE c.op \in {"set", "add"} -> {}
      [] c.op = "remove" -> c.targets \X {c.key}
      [] c.op = "load" -> {Pair(r) : r \in Cells(c.sheet)}

ToTest(c) == IF c.op = "add" THEN c.targets \X {c.key} ELSE {}

(* What a command names are rows and attributes of the tables, and a *)
(* spreadsheet has finitely many rows.                                *)
ASSUME CommandsAssumption ==
    \A c \in Commands :
        /\ ToPut(c) \subseteq Row /\ ToClear(c) \subseteq Pairs /\ ToTest(c) \subseteq Pairs
        /\ c.op = "load" => Len(c.sheet) \in Nat

Touched(c) == ToClear(c) \cup {Pair(r) : r \in ToPut(c)}
-----------------------------------------------------------------------------
(* The commands of an environment end in a NameError: list environment attr *)
(* when it compiles the attribute, remove environment attr when it splits it.*)
Fails(x) == x[1][1] = "E"

(* The rows of which a dictionary keeps the last, in an order nobody gave. *)
OneOfEach(S) ==
    {s \in SUBSET S : \A r \in S : Cardinality({o \in s : Pair(o) = Pair(r)}) = 1}

(* What list X attr prints for an attribute, so that add takes it for set.  *)
(* For a global one it prints only those the name is a beginning of. For an *)
(* OS or an appliance it prints those without a shadow value, and for a     *)
(* host those that no intrinsic one hides.                                  *)
Listed(x, seen) ==
    LET level == x[1][1]
        key == x[2]
    IN  \/ /\ level = "G"
           /\ \E l \in Keys :
                  /\ <<key, l>> \in Extends
                  /\ \/ l \in GlobalIntrinsic
                     \/ \E r \in seen : Pair(r) = <<x[1], l>> /\ r.value # None
        \/ level \in {"O", "A"} /\ \E r \in RowsOf(x) : r.shadow = None
        \/ level = "H" /\ key \notin Intrinsic /\ RowsOf(x) # {}

Start(p, c) ==
    /\ state[p] = "idle"
    /\ state' = [state EXCEPT ![p] = "running"]
    /\ command' = [command EXCEPT ![p] = c]
    /\ test' = [test EXCEPT ![p] = ToTest(c)]
    /\ clear' = [clear EXCEPT ![p] = ToClear(c)]
    /\ put' = [put EXCEPT ![p] = ToPut(c)]
    /\ UNCHANGED <<rows, found, mid, undisturbed>>

Raise(p) ==
    /\ state' = [state EXCEPT ![p] = "raised"]
    /\ UNCHANGED <<rows, command, todo, undisturbed>>

(* Every other command on the attribute is disturbed by this one. *)
Disturb(p, x) ==
    undisturbed' = [q \in Processes |->
        undisturbed[q] /\ (q # p /\ command[q] # None => x \notin Touched(command[q]))]

Test(p, x) ==
    /\ state[p] = "running" /\ x \in test[p]
    /\ IF Fails(x) THEN Raise(p)
       ELSE /\ test' = [test EXCEPT ![p] = @ \ {x}]
            /\ \E seen \in OneOfEach(rows) :
                   found' = [found EXCEPT ![p] = IF Listed(x, seen) THEN @ \cup {x} ELSE @]
            /\ UNCHANGED <<rows, command, state, clear, put, mid, undisturbed>>

Refuse(p) == state[p] = "running" /\ test[p] = {} /\ found[p] # {} /\ Raise(p)

(* May write: the tests are over, and no row is removed but not inserted. *)
Writing(p) == state[p] = "running" /\ test[p] = {} /\ found[p] = {} /\ mid[p] = {}

Clear(p, x) ==
    /\ Writing(p) /\ x \in clear[p]
    /\ IF Fails(x) THEN Raise(p)
       ELSE /\ rows' = rows \ RowsOf(x)
            /\ clear' = [clear EXCEPT ![p] = @ \ {x}]
            /\ Disturb(p, x)
            /\ UNCHANGED <<command, state, test, found, put, mid>>

(* A slip: the name of the host is not passed on, and that means all hosts. *)
DeleteOfAll(p, r) ==
    /\ Writing(p) /\ clear[p] = {} /\ r \in put[p]
    /\ IF Fails(Pair(r)) THEN Raise(p)
       ELSE /\ rows' = {o \in rows : o.key # r.key \/ o.target[1] # r.target[1]}
            /\ put' = [put EXCEPT ![p] = @ \ {r}]
            /\ mid' = [mid EXCEPT ![p] = {r}]
            /\ Disturb(p, Pair(r))
            /\ UNCHANGED <<command, state, test, found, clear>>

(* A row is set by remove X attr and an insert. *)
Delete(p, r) ==
    /\ Writing(p) /\ clear[p] = {} /\ r \in put[p]
    /\ IF Fails(Pair(r)) THEN Raise(p)
       ELSE /\ rows' = rows \ RowsOf(Pair(r))
            /\ put' = [put EXCEPT ![p] = @ \ {r}]
            /\ mid' = [mid EXCEPT ![p] = {r}]
            /\ Disturb(p, Pair(r))
            /\ UNCHANGED <<command, state, test, found, clear>>

Insert(p, r) ==
    /\ state[p] = "running" /\ r \in mid[p]
    /\ rows' = rows \cup {r}
    /\ mid' = [mid EXCEPT ![p] = {}]
    /\ Disturb(p, Pair(r))
    /\ UNCHANGED <<command, state, test, found, clear, put>>

Finish(p) ==
    /\ Writing(p) /\ clear[p] = {} /\ put[p] = {}
    /\ state' = [state EXCEPT ![p] = "done"]
    /\ UNCHANGED <<rows, command, todo, undisturbed>>

Die(p) ==
    /\ p \in MayDie /\ state[p] = "running"
    /\ state' = [state EXCEPT ![p] = "dead"]
    /\ UNCHANGED <<rows, command, todo, undisturbed>>

Write(p) ==
    \/ \E c \in Commands : Start(p, c)
    \/ \E x \in test[p] : Test(p, x)
    \/ Refuse(p)
    \/ \E x \in clear[p] : Clear(p, x)
    \/ \E r \in put[p] : Delete(p, r)
    \/ \E r \in mid[p] : Insert(p, r)
    \/ Finish(p)
    \/ Die(p)

AttributesNext == \E p \in Processes : Write(p)

AttributesSpec == AttributesInit /\ [][AttributesNext]_attrVars
-----------------------------------------------------------------------------
(* The attributes that are set to begin with, and that every command that    *)
(* removes them sets again.                                                  *)
Lasting ==
    {x \in Pairs : /\ \A S \in Initially : \E r \in S : Pair(r) = x
                   /\ \A c \in Commands :
                          x \in ToClear(c) => \E r \in ToPut(c) : Pair(r) = x}

(* The process has removed the attribute, and was to set it afterwards. *)
Owes(p, x) ==
    \/ \E r \in mid[p] : Pair(r) = x
    \/ /\ command[p] # None /\ x \in ToClear(command[p]) \ clear[p]
       /\ \E r \in put[p] : Pair(r) = x

(* However many commands set and load such an attribute at a time, refuse to *)
(* or fail, it is missing only while, or because, one of them stopped        *)
(* between its remove and its insert (set/host/attr/__init__.py:157-167,     *)
(* load/attrfile/plugin_load_default.py:57-119).                             *)
MissingOnlyMidway ==
    \A x \in Lasting : RowsOf(x) = {} => \E p \in Processes : Owes(p, x)

(* Commands that set an attribute at the same time leave several rows of it, *)
(* but no more than there are processes: each removes all before it adds its *)
(* own, and no row is left over for ever.                                    *)
RowsBounded ==
    \A x \in Pairs :
        Cardinality(RowsOf(x)) + Cardinality({p \in Processes : \E r \in mid[p] : Pair(r) = x})
            <= Cardinality(Processes)

(* What a spreadsheet says of an attribute: the last row of the target, or  *)
(* where that is empty the last default row above it.                       *)
Says(sheet, x) ==
    LET own == {i \in 1 .. Len(sheet) : sheet[i].target = x[1]}
        last == CHOOSE i \in own : \A j \in own : j <= i
        above == {i \in 1 .. last : /\ sheet[i].target = None
                                    /\ \A j \in i + 1 .. last : sheet[j].target # None}
    IN  IF sheet[last].cells[x[2]] # None THEN {sheet[last].cells[x[2]]}
        ELSE {sheet[i].cells[x[2]] : i \in above} \ {None}

(* A load that is done leaves the tables with what the spreadsheet says of  *)
(* its attributes, and nothing else of them, for as long as no other command *)
(* writes them (load/attrfile/plugin_load_default.py:57-119).                *)
LoadExact ==
    \A p \in Processes :
        state[p] = "done" /\ undisturbed[p] /\ command[p].op = "load" =>
            \A x \in Touched(command[p]) :
                {<<r.value, r.shadow>> : r \in RowsOf(x)}
                    = Says(command[p].sheet, x) \X {None}
=============================================================================
