------------------------------ MODULE HostFile ------------------------------
(***************************************************************************)
(* load hostfile: a spreadsheet of hosts and their interfaces is checked,  *)
(* and then put into the tables by add host, set host, remove and add host *)
(* interface and the group commands, which it calls one after the other.   *)
(* Nothing is a transaction and no table has a key but its ids: an error   *)
(* or a kill leaves what was done, and loads that run at a time mix.       *)
(*                                                                         *)
(* Box, rank, actions and notes are stored like appliance and rack; the    *)
(* network, VLAN, channel and options of an interface like its address. Of *)
(* the name of an interface it counts whether it is the name of its host.  *)
(* Two rows of networks that agree in everything are one here.             *)
(***************************************************************************)
EXTENDS Naturals, FiniteSets, Sequences

CONSTANTS
    Hosts, Appliances, Places, Devices, MACs, IPs, Groups,
    None,          \* NULL, or an empty cell
    Boss,          \* the name of this frontend
    Named,         \* Named[h]: the rack and rank in the name of h, or None
    Within,        \* the pairs <<g, k>> where the name g is part of the name k
    Loaders,       \* runs of load hostfile
    MayDie,        \* those that may be killed
    Sheets,        \* what they may be given
    Initially      \* the contents of the tables to begin with

Lists == [host : Hosts, appliance : Appliances \cup {None, "unknown"},
          place : Places \cup {None}, device : Devices \cup {None},
          mac : MACs \cup {None}, ip : IPs \cup {None}, default : BOOLEAN,
          boss : {Boss, "other", None}, groups : SUBSET Groups]

(* Group names have more than one letter, and the end of one group and the *)
(* beginning of the next do not make the name of a third.                  *)
ASSUME HostFileAssumption ==
    /\ None \notin Hosts \cup Appliances \cup Places \cup Devices \cup MACs \cup IPs
    /\ None \notin Nat \cup {Boss, "other"} /\ MayDie \subseteq Loaders
    /\ Named \in [Hosts -> Places \cup {None}]
    /\ Within \subseteq Groups \X Groups /\ \A g \in Groups : <<g, g>> \in Within
    /\ \A s \in Sheets : s \in Seq(Lists)

NodeRow == [id : Nat, name : Hosts, appliance : Appliances \cup {None, "unknown"},
            place : Places \cup {None}]
NetworkRow == [node : Nat \cup {None}, device : Devices \cup {None}, mac : MACs \cup {None},
               ip : IPs \cup {None}, main : BOOLEAN, named : BOOLEAN]

(* An id that was given out is below the next one, and names one host. *)
ASSUME InitialAssumption ==
    \A t \in Initially :
        /\ IsFiniteSet(t.nodes) /\ t.nodes \subseteq NodeRow
        /\ IsFiniteSet(t.networks) /\ t.networks \subseteq NetworkRow
        /\ t.groups \subseteq Groups /\ t.members \subseteq Nat \X Groups
        /\ t.serial \in Nat
        /\ \A i \in {n.id : n \in t.nodes} \cup ({n.node : n \in t.networks} \ {None})
                    \cup {m[1] : m \in t.members} : i < t.serial
        /\ \A m, n \in t.nodes : m.id = n.id => m = n

VARIABLES
    nodes, networks, groups, members,     \* the tables
    serial,        \* the next id of nodes
    load,          \* what each run has read, and how far it is
    undisturbed    \* whether others left its hosts alone

tables == <<nodes, networks, groups, members, serial>>
vars == <<tables, load, undisturbed>>

(* A step that has begun, of its commands or of its loops. *)
Applying == {"host", "add", "insert", "group", "join", "member", "set", "clear", "wipe"}
Connecting == {"devices", "put", "ip", "name", "main", "only", "boot"}
Running == {"boss", "remove", "unnode", "read", "groups", "prune"} \cup Applying \cup Connecting

Idle == [step |-> "idle", sheet |-> <<>>, hosts |-> {}, listed |-> [h \in Hosts |-> 0],
         existing |-> {}, known |-> {}, old |-> {},
         left |-> {}, host |-> None, todo |-> {}, item |-> None]

Ids(h) == {n.id : n \in {m \in nodes : m.name = h}}
Id(h) == IF Ids(h) = {} THEN None ELSE CHOOSE i \in Ids(h) : TRUE
Ambiguous(h) == Cardinality(Ids(h)) > 1   \* a subselect that has two rows
NodeNames == {n.name : n \in nodes}
RowsOf(h) == {n \in networks : n.node \in Ids(h)}
MembersOf(h) == {m[2] : m \in {k \in members : k[1] \in Ids(h)}}
-----------------------------------------------------------------------------
(* The spreadsheet, as the dictionaries hosts and interfaces have it. *)
Names(s) == {s[i].host : i \in DOMAIN s}
Lines(s, h) == {i \in DOMAIN s : s[i].host = h /\ s[i].device # None}
Cabled(s) == {h \in Names(s) : Lines(s, h) # {}}
Given(s, h, f) == {s[i][f] : i \in {j \in DOMAIN s : s[j].host = h}} \ {None}
Value(S) == IF S = {} THEN None ELSE CHOOSE v \in S : TRUE

(* Only lines with an interface are read to their end; the last one counts. *)
LastOf(s, h, f, empty) ==
    LET set == {i \in Lines(s, h) : s[i][f] # empty}
        last == CHOOSE i \in set : \A j \in set : j <= i
    IN  IF set = {} THEN empty ELSE s[last][f]

BossOf(s, h) == LastOf(s, h, "boss", None)
GroupsOf(s, h) == LastOf(s, h, "groups", {})
Bossed(s) == \E h \in Names(s) : BossOf(s, h) = Boss

Malformed(s) ==
    \E h \in Names(s) :
        \/ \E f \in {"appliance", "place"} : Cardinality(Given(s, h, f)) > 1
        \/ \E i, j \in Lines(s, h) : i # j /\ s[i].device = s[j].device

(* The sanity checks. A host without an interface ends in a KeyError. *)
Inconsistent(s, hs) ==
    \/ \E h \in hs :
        \/ Given(s, h, "appliance") = {} \/ ~ (Given(s, h, "appliance") \subseteq Appliances)
        \/ Lines(s, h) = {}
        \/ /\ Cardinality(Lines(s, h)) > 1
           /\ Cardinality({i \in Lines(s, h) : s[i].default}) # 1
    \/ LET all == UNION {Lines(s, h) : h \in hs} IN
       \E i, j \in all : i # j /\ \/ s[i].mac = s[j].mac /\ s[i].mac # None
                                  \/ s[i].ip = s[j].ip /\ s[i].ip # None

IsDefault(s, i) == s[i].default \/ Lines(s, s[i].host) = {i}
-----------------------------------------------------------------------------
Init ==
    /\ \E t \in Initially :
           /\ nodes = t.nodes /\ networks = t.networks
           /\ groups = t.groups /\ members = t.members
           /\ serial = t.serial
    /\ load = [l \in Loaders |-> Idle]
    /\ undisturbed = [l \in Loaders |-> TRUE]

Do(l, r) == load' = [load EXCEPT ![l] = r]
To(l, step) == [load[l] EXCEPT !.step = step]
End(l, step) == [load[l] EXCEPT !.step = step, !.left = {}, !.todo = {},
                                !.known = {}, !.host = None, !.item = None]
Raise(l) == Do(l, End(l, "raised")) /\ UNCHANGED tables
At(l, step) == load[l].step = step

Begin(l, s) ==
    /\ At(l, "idle")
    /\ Do(l, [Idle EXCEPT
           !.step = IF Malformed(s) THEN "rejected" ELSE "boss",
           !.sheet = s, !.hosts = Names(s),
           !.listed = [h \in Hosts |-> IF Bossed(s) THEN Cardinality({n \in RowsOf(h) : n.named})
                                        ELSE 0],
           !.left = IF Bossed(s) /\ ~ Malformed(s) THEN Names(s) ELSE {}])
    /\ UNCHANGED tables

(* Hosts of another frontend are removed, once for every interface that was *)
(* listed under the name of the host.                                       *)
NotOurs(l) ==
    /\ At(l, "boss")
    /\ \E h \in load[l].left :
          CASE BossOf(load[l].sheet, h) = None -> Raise(l)
            [] BossOf(load[l].sheet, h) = Boss ->
                  Do(l, [load[l] EXCEPT !.left = @ \ {h}]) /\ UNCHANGED tables
            [] OTHER -> /\ Do(l, [To(l, "remove") EXCEPT
                                    !.left = @ \ {h}, !.hosts = @ \ {h}, !.host = h])
                        /\ UNCHANGED tables

(* remove host: its plugins, of which those for groups and interfaces count *)
(* here, and the row of the host last.                                      *)
Remove(l) ==
    LET h == load[l].host IN
    /\ At(l, "remove")
    /\ CASE load[l].listed[h] = 0 ->
               Do(l, [To(l, "boss") EXCEPT !.host = None]) /\ UNCHANGED tables
         [] load[l].listed[h] > 0 /\ Cardinality(Ids(h)) # 1 -> Raise(l)
         [] OTHER ->
               /\ networks' = networks \ RowsOf(h)
               /\ members' = {m \in members : m[1] \notin Ids(h)}
               /\ Do(l, [To(l, "unnode") EXCEPT !.listed[h] = @ - 1])
               /\ UNCHANGED <<nodes, groups, serial>>

Unnode(l) ==
    /\ At(l, "unnode")
    /\ nodes' = {n \in nodes : n.name # load[l].host}
    /\ Do(l, To(l, "remove"))
    /\ UNCHANGED <<networks, groups, members, serial>>

Check(l) ==
    /\ At(l, "boss") /\ load[l].left = {}
    /\ Do(l, IF Inconsistent(load[l].sheet, load[l].hosts)
             THEN End(l, "rejected") ELSE To(l, "read"))
    /\ UNCHANGED tables

(* The hosts there are, by which it is decided below what is added. *)
Read(l) ==
    /\ At(l, "read")
    /\ Do(l, [To(l, "groups") EXCEPT !.existing = NodeNames])
    /\ UNCHANGED tables

ReadGroups(l) ==
    LET mine == load[l].hosts \cap load[l].existing IN
    /\ At(l, "groups")
    /\ IF ~ (mine \subseteq NodeNames) THEN Raise(l)
       ELSE /\ Do(l, [To(l, "prune") EXCEPT !.known = groups,
                        !.old = UNION {{h} \X MembersOf(h) : h \in mine}])
            /\ UNCHANGED tables

(* remove host group is called for every letter of the names of the groups  *)
(* of a host, and finds each in them, as long as they are still its groups. *)
Prune(l) ==
    LET lost == {x \in load[l].old : x[2] \notin MembersOf(x[1]) \/ Ambiguous(x[1])} IN
    /\ At(l, "prune")
    /\ \/ /\ \A x \in load[l].old : Cardinality(Ids(x[1])) = 1
          /\ Do(l, [To(l, "host") EXCEPT !.left = load[l].hosts])
          /\ UNCHANGED tables
       \/ lost # {} /\ Raise(l)

(* A slip: every host of the spreadsheet is added. *)
NextHostAlways(l) ==
    /\ At(l, "host") /\ load[l].left # {}
    /\ \E h \in load[l].left :
          Do(l, [To(l, "add") EXCEPT !.left = @ \ {h}, !.host = h,
                                     !.todo = GroupsOf(load[l].sheet, h)])
    /\ UNCHANGED tables

NextHost(l) ==
    /\ At(l, "host") /\ load[l].left # {}
    /\ \E h \in load[l].left :
          Do(l, [To(l, IF h \in load[l].existing THEN "group" ELSE "add") EXCEPT
                    !.left = @ \ {h}, !.host = h, !.todo = GroupsOf(load[l].sheet, h)])
    /\ UNCHANGED tables

(* add host: rack and rank come from the spreadsheet, or from the name. *)
PlaceOf(s, h) == IF Given(s, h, "place") = {} THEN Named[h] ELSE Value(Given(s, h, "place"))

AddHost(l) ==
    LET h == load[l].host IN
    /\ At(l, "add")
    /\ IF h \in NodeNames \/ PlaceOf(load[l].sheet, h) = None THEN Raise(l)
       ELSE Do(l, To(l, "insert")) /\ UNCHANGED tables

(* A slip: an insert whose answer is lost is made again. *)
InsertHostAgain(l) ==
    LET h == load[l].host IN
    /\ At(l, "insert")
    /\ nodes' = nodes \cup {[id |-> serial, name |-> h,
                             appliance |-> Value(Given(load[l].sheet, h, "appliance")),
                             place |-> PlaceOf(load[l].sheet, h)]}
    /\ serial' = serial + 1
    /\ \E step \in {"insert", "group"} : Do(l, To(l, step))
    /\ UNCHANGED <<networks, groups, members>>

InsertHost(l) ==
    LET h == load[l].host IN
    /\ At(l, "insert")
    /\ nodes' = nodes \cup {[id |-> serial, name |-> h,
                             appliance |-> Value(Given(load[l].sheet, h, "appliance")),
                             place |-> PlaceOf(load[l].sheet, h)]}
    /\ serial' = serial + 1
    /\ Do(l, To(l, "group"))
    /\ UNCHANGED <<networks, groups, members>>

(* add group, where the group is not among those that were listed. *)
AddGroup(l) ==
    /\ At(l, "group")
    /\ \E g \in load[l].todo :
          IF g \notin load[l].known /\ g \in groups THEN Raise(l)
          ELSE /\ groups' = groups \cup ({g} \ load[l].known)
               /\ Do(l, [To(l, "join") EXCEPT !.known = @ \cup {g},
                                              !.todo = @ \ {g}, !.item = g])
               /\ UNCHANGED <<nodes, networks, members, serial>>

(* add host group: `in' looks for the name in a string of all names. *)
Join(l) ==
    LET h == load[l].host
        g == load[l].item
    IN  /\ At(l, "join")
        /\ IF \/ Cardinality(Ids(h)) # 1 \/ g \notin groups
              \/ \E k \in MembersOf(h) : <<g, k>> \in Within
           THEN Raise(l) ELSE Do(l, To(l, "member")) /\ UNCHANGED tables

Member(l) ==
    LET h == load[l].host IN
    /\ At(l, "member")
    /\ IF Cardinality(Ids(h)) # 1 THEN Raise(l)
       ELSE /\ members' = members \cup {<<Id(h), load[l].item>>}
            /\ Do(l, [To(l, "group") EXCEPT !.item = None])
            /\ UNCHANGED <<nodes, networks, groups, serial>>

(* What add host was given is set no more. *)
GroupsEnd(l) ==
    LET h == load[l].host IN
    /\ At(l, "group") /\ load[l].todo = {}
    /\ Do(l, [To(l, "set") EXCEPT
                 !.todo = IF h \notin load[l].existing THEN {}
                          ELSE {f \in {"appliance", "place"} :
                                    Given(load[l].sheet, h, f) # {}}])
    /\ UNCHANGED tables

SetHost(l) ==
    LET h == load[l].host IN
    /\ At(l, "set")
    /\ \E f \in load[l].todo :
          IF h \notin NodeNames THEN Raise(l)
          ELSE /\ nodes' = {IF n.name = h
                            THEN [n EXCEPT ![f] = Value(Given(load[l].sheet, h, f))]
                            ELSE n : n \in nodes}
               /\ Do(l, [load[l] EXCEPT !.todo = @ \ {f}])
               /\ UNCHANGED <<networks, groups, members, serial>>

HostEnds(l) ==
    /\ At(l, "set") /\ load[l].todo = {}
    /\ Do(l, [To(l, "host") EXCEPT !.host = None])
    /\ UNCHANGED tables

(* The interfaces of all hosts are removed before the first is added. The   *)
(* dictionary of interfaces still has the hosts that are not ours.          *)
HostsEnd(l) ==
    /\ At(l, "host") /\ load[l].left = {}
    /\ Do(l, [To(l, "clear") EXCEPT !.left = Cabled(load[l].sheet)])
    /\ UNCHANGED tables

(* A slip: the call is made without a name, too, and means all hosts then. *)
ClearAll(l) ==
    /\ At(l, "clear")
    /\ IF ~ (load[l].left \subseteq NodeNames) THEN Raise(l)
       ELSE /\ Do(l, [To(l, "wipe") EXCEPT
                         !.left = IF load[l].left = {} THEN NodeNames ELSE @])
            /\ UNCHANGED tables

(* remove host interface all=true looks up all names first.  It is called   *)
(* only with names: for an empty spreadsheet there is nothing to wipe.      *)
Clear(l) ==
    /\ At(l, "clear")
    /\ IF ~ (load[l].left \subseteq NodeNames) THEN Raise(l)
       ELSE Do(l, To(l, "wipe")) /\ UNCHANGED tables

(* A slip: the list has the last of the hosts only. *)
WipeOne(l) ==
    /\ At(l, "wipe")
    /\ \E h \in load[l].left :
          IF Ambiguous(h) THEN Raise(l)
          ELSE /\ networks' = networks \ RowsOf(h)
               /\ Do(l, [load[l] EXCEPT !.left = {}])
               /\ UNCHANGED <<nodes, groups, members, serial>>

Wipe(l) ==
    /\ At(l, "wipe")
    /\ \E h \in load[l].left :
          IF Ambiguous(h) THEN Raise(l)
          ELSE /\ networks' = networks \ RowsOf(h)
               /\ Do(l, [load[l] EXCEPT !.left = @ \ {h}])
               /\ UNCHANGED <<nodes, groups, members, serial>>

WipeEnds(l) ==
    /\ At(l, "wipe") /\ load[l].left = {}
    /\ Do(l, [To(l, "devices") EXCEPT !.left = Cabled(load[l].sheet)])
    /\ UNCHANGED tables

NextInterfaces(l) ==
    /\ At(l, "devices") /\ load[l].todo = {}
    /\ \E h \in load[l].left :
          Do(l, [load[l] EXCEPT !.left = @ \ {h}, !.host = h,
                                !.todo = Lines(load[l].sheet, h)])
    /\ UNCHANGED tables

(* add host interface, unsafe: no look at the interfaces there are. *)
AddInterface(l) ==
    /\ At(l, "devices")
    /\ \E i \in load[l].todo :
          IF Cardinality(Ids(load[l].host)) # 1 THEN Raise(l)
          ELSE /\ Do(l, [To(l, "put") EXCEPT !.todo = @ \ {i}, !.item = i])
               /\ UNCHANGED tables

Line(l) == load[l].sheet[load[l].item]
Default(l) == IsDefault(load[l].sheet, load[l].item)

(* An interface is named after its host if it is the default one. *)
Unnamed(l) == IF Default(l) THEN "name" ELSE "main"

(* With a MAC address all goes into one insert, else each into an update. *)
Put(l) ==
    LET h == load[l].host
        x == Line(l)
        known == x.mac # None
    IN  /\ At(l, "put")
        /\ IF Ambiguous(h) THEN Raise(l)
           ELSE /\ networks' = networks \cup
                      {[node |-> Id(h), device |-> x.device, mac |-> x.mac,
                        ip |-> IF known THEN x.ip ELSE None,
                        main |-> known /\ Default(l), named |-> known /\ Default(l)]}
                /\ Do(l, To(l, CASE known -> "devices"
                                 [] ~ known /\ x.ip # None -> "ip"
                                 [] OTHER -> Unnamed(l)))
                /\ UNCHANGED <<nodes, groups, members, serial>>

Update(l, f, S, v) ==
    /\ networks' = (networks \ S) \cup {[n EXCEPT ![f] = v] : n \in S}
    /\ UNCHANGED <<nodes, groups, members, serial>>

Same(l) == {n \in RowsOf(load[l].host) : n.device = Line(l).device}

SetIP(l) ==
    /\ At(l, "ip")
    /\ IF Cardinality(Ids(load[l].host)) # 1 THEN Raise(l)
       ELSE Update(l, "ip", Same(l), Line(l).ip) /\ Do(l, To(l, Unnamed(l)))

SetName(l) ==
    /\ At(l, "name")
    /\ IF Cardinality(Ids(load[l].host)) # 1 THEN Raise(l)
       ELSE Update(l, "named", Same(l), TRUE) /\ Do(l, To(l, "main"))

(* A slip: the default interface is cleared, although this one is not. *)
SetDefaultClearing(l) ==
    /\ At(l, "main")
    /\ IF Same(l) = {} THEN Raise(l)
       ELSE /\ Update(l, "main", RowsOf(load[l].host), FALSE)
            /\ Do(l, To(l, "only"))

(* set host interface default: the others are cleared, then this one is set. *)
SetDefault(l) ==
    /\ At(l, "main")
    /\ IF Same(l) = {} THEN Raise(l)
       ELSE /\ Update(l, "main", IF Default(l) THEN RowsOf(load[l].host) ELSE {}, FALSE)
            /\ Do(l, To(l, "only"))

SetMain(l) ==
    /\ At(l, "only")
    /\ Update(l, "main", Same(l), Default(l))
    /\ Do(l, To(l, "devices"))

InterfacesEnd(l) ==
    /\ At(l, "devices") /\ load[l].left = {} /\ load[l].todo = {}
    /\ Do(l, To(l, "boot"))
    /\ UNCHANGED tables

(* set host boot action=os (HostBoot), and the reports, for the hosts left. *)
(* Without a host set host boot is refused.                                 *)
Finish(l) ==
    /\ At(l, "boot")
    /\ IF load[l].hosts = {} \/ ~ (load[l].hosts \subseteq NodeNames) THEN Raise(l)
       ELSE Do(l, End(l, "done")) /\ UNCHANGED tables

Die(l) ==
    /\ l \in MayDie /\ load[l].step \in Running
    /\ Do(l, End(l, "dead")) /\ UNCHANGED tables

Step(l) ==
    \/ \E s \in Sheets : Begin(l, s)
    \/ NotOurs(l) \/ Remove(l) \/ Unnode(l) \/ Check(l)
    \/ Read(l) \/ ReadGroups(l) \/ Prune(l)
    \/ NextHost(l) \/ AddHost(l) \/ InsertHost(l)
    \/ AddGroup(l) \/ Join(l) \/ Member(l) \/ GroupsEnd(l)
    \/ SetHost(l) \/ HostEnds(l) \/ HostsEnd(l)
    \/ Clear(l) \/ Wipe(l) \/ WipeEnds(l)
    \/ NextInterfaces(l) \/ AddInterface(l) \/ Put(l)
    \/ SetIP(l) \/ SetName(l) \/ SetDefault(l) \/ SetMain(l) \/ InterfacesEnd(l)
    \/ Finish(l) \/ Die(l)

(* What the hosts and groups of a spreadsheet have in the tables. *)
View(l) ==
    LET s == load[l].sheet IN
    <<{n \in nodes : n.name \in Names(s)}, [h \in Names(s) |-> RowsOf(h)],
      [h \in Names(s) |-> MembersOf(h)], groups \cap UNION {GroupsOf(s, h) : h \in Names(s)}>>

Next ==
    \E l \in Loaders :
        /\ Step(l)
        /\ undisturbed' = [k \in Loaders |->
               undisturbed[k] /\ (k = l \/ View(k)' = View(k))]

Spec == Init /\ [][Next]_vars
-----------------------------------------------------------------------------
(* A load that is done, and that nobody disturbed, leaves of each of its     *)
(* hosts one row, in the appliance and rack of the spreadsheet, exactly its  *)
(* interfaces with exactly one default, and its groups; whatever an earlier  *)
(* load that failed or was killed had left of them                           *)
(* (load/hostfile/plugin_load_default.py:81-210).                            *)
HostsAsInSheet ==
    \A l \in Loaders : At(l, "done") /\ undisturbed[l] =>
        LET s == load[l].sheet IN \A h \in load[l].hosts :
            /\ Cardinality(Ids(h)) = 1
            /\ \A n \in nodes : n.name = h =>
                  \A f \in {"appliance", "place"} : Given(s, h, f) \subseteq {n[f]}
            /\ RowsOf(h) = {[node |-> Id(h), device |-> s[i].device, mac |-> s[i].mac,
                             ip |-> s[i].ip, main |-> IsDefault(s, i),
                             named |-> IsDefault(s, i)] : i \in Lines(s, h)}
            /\ Cardinality({n \in RowsOf(h) : n.main}) = 1
            /\ GroupsOf(s, h) \subseteq MembersOf(h)

(* From the first interface it adds on, also when hosts swap their           *)
(* addresses, no address is at two interfaces of the hosts of a load, as     *)
(* long as nobody disturbs it (plugin_load_default.py:149-210).              *)
NoSharedAddress ==
    \A l \in Loaders : load[l].step \in Connecting \cup {"done"} /\ undisturbed[l] =>
        \A n, m \in UNION {RowsOf(h) : h \in load[l].hosts} :
            n # m => /\ n.ip = None \/ n.ip # m.ip
                     /\ n.mac = None \/ n.mac # m.mac

(* Whatever it is given, a load changes no host that its spreadsheet does    *)
(* not name, and takes away none but those of another frontend               *)
(* (plugin_load_default.py:149-155, imp_load_default.py:305-317).            *)
OthersKept ==
    [][\A h \in Hosts :
          /\ RowsOf(h)' # RowsOf(h) \/ MembersOf(h)' # MembersOf(h) =>
                \E l \in Loaders : h \in Names(load[l].sheet) /\ load[l].step \in Running
          /\ ~ (Ids(h) \subseteq Ids(h)') =>
                \E l \in Loaders : Bossed(load[l].sheet) /\
                    BossOf(load[l].sheet, h) \notin {None, Boss}]_vars

(* Two rows of a host are two loads that ran at a time: the names are read,  *)
(* looked up and inserted by statements of their own, and however loads      *)
(* fail, are killed and are repeated one after the other, a host stays one   *)
(* (add/host/__init__.py:168-206, plugin_load_default.py:85-100). Tables in  *)
(* which it is twice to begin with are not meant.                            *)
TwiceOnlyAtATime ==
    \A h \in Hosts : Ambiguous(h) =>
        \E l \in Loaders : h \in Names(load[l].sheet) /\ ~ undisturbed[l]

(* A spreadsheet that passed the checks fails midway, where nobody disturbs  *)
(* the load, for these reasons only: it names no host, or hosts of several   *)
(* frontends; a new host has no rack and rank; a host is in one of its       *)
(* groups already, or in one whose name contains it; or a host is in the     *)
(* tables twice, after two loads that added it at a time                     *)
(* (add/host/__init__.py:166-212, add/host/group/__init__.py:86-93).         *)
FailsForAReason ==
    \A l \in Loaders : At(l, "raised") /\ undisturbed[l] =>
        LET s == load[l].sheet
            old(h) == {x[2] : x \in {y \in load[l].old : y[1] = h}}
        IN  \/ s = <<>>
            \/ Bossed(s) /\ \E h \in Names(s) : BossOf(s, h) # Boss
            \/ \E h \in Names(s) : h \notin load[l].existing /\ PlaceOf(s, h) = None
            \/ \E h \in Names(s) : \E g \in GroupsOf(s, h) :
                  \E k \in (GroupsOf(s, h) \ {g}) \cup old(h) : <<g, k>> \in Within
            \/ \E h \in Names(s) : Ambiguous(h)
=============================================================================
