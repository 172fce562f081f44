----------------------------- MODULE InsertEthers ----------------------------
(***************************************************************************)
(* insert-ethers (src/src/stack/sql/insert-ethers.py) watches two logs of  *)
(* the frontend while the machines of a rack are switched on: it adds a    *)
(* host for every new MAC address whose DHCPDISCOVER it reads, and ticks   *)
(* the host off when it reads that the machine got its kickstart file.     *)
(*                                                                         *)
(* `stack add host' and `stack add host interface' are commands of their   *)
(* own that insert into different tables, either may fail, and another     *)
(* administrator may remove hosts at any moment.  Hosts are named          *)
(* appliance-rack-rank; appliance and rack stay the same here, so a rank   *)
(* stands for the name.  --hostname gives another name, of a host that     *)
(* does not exist; it is not combined with --rank here.                    *)
(***************************************************************************)
EXTENDS Integers, Sequences, FiniteSets

CONSTANTS
    Macs,        \* the machines, by their MAC address
    Pool,        \* the addresses getnextIP goes through, the highest number
                 \* first: --baseip and --inc say which and in which order
    Named,       \* the addresses --ipaddr may name
    BaseRank,    \* the rank of the first host of a rack
    Ranks,       \* the ranks --rank may name
    Stranger,    \* the address of a client that is no host
    MaxRank,     \* bound: no host beyond this rank is added
    MaxLog       \* bound: lines of a log that are not read yet

ASSUME InsertEthersAssumption ==
    /\ Pool \subseteq Nat /\ IsFiniteSet(Pool) /\ Named \subseteq Nat
    /\ Stranger \notin Pool \cup Named
    /\ BaseRank \in Nat /\ MaxRank \in 0 .. 8 /\ Ranks \subseteq 0 .. MaxRank
    /\ MaxLog \in Nat

Addresses == Pool \cup Named

VARIABLES
    nodes,        \* the ranks in table nodes
    networks,     \* the rows of table networks; history in `doubles': whether
                  \* --ipaddr named an address that was a host's already
    syslog,       \* unread DHCPDISCOVER lines, each a MAC address
    access,       \* unread kickstart requests: [from, mac, status]
    pc,           \* what insert-ethers is at
    rank, mac, ip,      \* self.rank, and what discover() found
    ipaddr,       \* self.ipaddr: empty, or the address --ipaddr names
    maxNew,       \* self.maxNew: hosts still to be added, or -1 for any number
    inserted,     \* the hosts inserted since the start, by rank
    kickstarted,  \* kickstarted[r]: status of the last request, 0 for none
    suggest_done,
    ended,        \* how the last insert-ethers ended
    removing,     \* ranks whose interfaces `remove host' has removed so far
    served,       \* history: machines that got a kickstart file since inserted
    removed       \* history: a host was removed since the start, or left rows

vars == <<nodes, networks, syslog, access, pc, rank, mac, ip, ipaddr, maxNew, inserted,
          kickstarted, suggest_done, ended, removing, served, removed>>

database == <<nodes, networks, removing, removed>>
logs == <<syslog, access>>
held == <<rank, mac, ip, inserted, ipaddr, maxNew>>

Status == {200, 500}
Given == {{}} \cup {{a} : a \in Named}
None == "none"
Orphan == -1
Interface == [rank : Nat \cup {Orphan}, mac : Macs, ip : Addresses, doubles : BOOLEAN]

TypeOK ==
    /\ nodes \subseteq Nat
    /\ networks \subseteq Interface
    /\ syslog \in Seq(Macs)
    /\ access \in Seq([from : Addresses \cup {Stranger}, mac : Macs \cup {None},
                       status : Status])
    /\ pc \in {"off", "loop", "adding", "linking", "checking"}
    /\ rank \in Nat /\ ipaddr \in Given /\ maxNew \in {-1, 0, 1}
    /\ inserted \subseteq Nat
    /\ kickstarted \in [inserted -> Status \cup {0}]
    /\ suggest_done \in BOOLEAN
    /\ ended \in {None, "keys", "exception"}

Init ==
    /\ nodes = {} /\ networks = {} /\ removing = {}
    /\ syslog = <<>> /\ access = <<>>
    /\ pc = "off" /\ rank = BaseRank /\ mac = None /\ ip = None
    /\ ipaddr = {} /\ maxNew = -1
    /\ inserted = {} /\ kickstarted = <<>>
    /\ suggest_done = FALSE /\ ended = None
    /\ served = {} /\ removed = FALSE

-----------------------------------------------------------------------------
(* The machines, which send DHCPDISCOVER again and again until they are
   answered, and ask for a kickstart file from the address they were given. *)
Discovering(m) ==
    /\ Len(syslog) < MaxLog
    /\ syslog' = Append(syslog, m)
    /\ UNCHANGED <<database, access, pc, held, kickstarted, suggest_done, ended, served>>

Requesting(row, status) ==
    /\ Len(access) < MaxLog
    /\ access' = Append(access, [from |-> row.ip, mac |-> row.mac, status |-> status])
    /\ served' = IF status = 200 THEN served \cup {row.mac} ELSE served
    /\ UNCHANGED <<database, syslog, pc, held, kickstarted, suggest_done, ended>>

StrangerRequesting(status) ==
    /\ Len(access) < MaxLog
    /\ access' = Append(access, [from |-> Stranger, mac |-> None, status |-> status])
    /\ UNCHANGED <<database, syslog, pc, held, kickstarted, suggest_done, ended, served>>

(* `stack remove host': its interfaces first, the host last.  An interface
   that was added in between stays, and belongs to no host. *)
RemoveInterfaces(r) ==
    /\ r \in nodes \ removing
    /\ networks' = {row \in networks : row.rank # r}
    /\ removing' = removing \cup {r}
    /\ removed' = TRUE
    /\ UNCHANGED <<nodes, logs, pc, held, kickstarted, suggest_done, ended, served>>

RemoveHost(r) ==
    /\ r \in removing
    /\ nodes' = nodes \ {r}
    /\ networks' = {IF row.rank = r THEN [row EXCEPT !.rank = Orphan] ELSE row :
                       row \in networks}
    /\ removing' = removing \ {r}
    /\ UNCHANGED <<removed, logs, pc, held, kickstarted, suggest_done, ended, served>>

-----------------------------------------------------------------------------
(* initializeRank: one more than the highest rank.  The column is text and
   so is its maximum, which is the numeric one while every rank has the same
   number of digits.  MaxRank keeps the ranks below 10. *)
InitialRank ==
    IF nodes = {} THEN BaseRank ELSE 1 + CHOOSE r \in nodes : \A q \in nodes : q <= r

(* run: the logs are read from their ends on.  --rank names a rank, used or
   not; --ipaddr and --hostname also say that one host is to be added. *)
Start ==
    /\ pc = "off"
    /\ pc' = "loop"
    /\ rank' \in {InitialRank} \cup Ranks
    /\ ipaddr' \in Given
    /\ maxNew' \in IF ipaddr' # {} THEN {1} ELSE {-1, 1}
    /\ mac' = None /\ ip' = None
    /\ inserted' = {} /\ kickstarted' = <<>> /\ suggest_done' = FALSE
    /\ syslog' = <<>> /\ access' = <<>>
    /\ removed' = (removing # {} \/ \E row \in networks : row.rank = Orphan)
    /\ UNCHANGED <<nodes, networks, removing, ended, served>>

(* A slip: only the hosts of this run are looked through. *)
KnownSinceStart(m) == \E row \in networks : row.mac = m /\ row.rank \in inserted

(* The query of discover for a MAC address.  addit repeats it, to the same
   end: nobody else adds interfaces here. *)
Known(m) == \E row \in networks : row.mac = m

(* No interface of a host has this address. *)
Free(a) == \A row \in networks : row.ip = a => row.rank \notin nodes

(* A slip: the interfaces are counted. *)
NextAddressByCount ==
    IF ipaddr # {} THEN ipaddr
    ELSE {a \in Pool : Cardinality({b \in Pool : b > a}) = Cardinality(networks)}

(* getnextIP: the address of --ipaddr, which nobody looks up in the tables, or
   the first free one the generator comes to. *)
NextAddress ==
    IF ipaddr # {} THEN ipaddr
    ELSE {a \in Pool : Free(a) /\ \A b \in Pool : Free(b) => b <= a}

(* What the exceptions that run() does not catch do: the program ends. *)
Raise ==
    /\ pc' = "off" /\ ended' = "exception"
    /\ UNCHANGED <<database, held, kickstarted, suggest_done, served>>

(* listenDhcp and discover.  Without a free address the generator raises
   IPError. *)
Discover ==
    /\ pc = "loop" /\ syslog # <<>> /\ ~ suggest_done
    /\ syslog' = Tail(syslog)
    /\ \/ /\ Known(Head(syslog)) \/ rank > MaxRank    \* the bound
          /\ UNCHANGED <<pc, held, ended, database, kickstarted, suggest_done, served>>
       \/ /\ ~ Known(Head(syslog))
          /\ NextAddress = {}
          /\ Raise
       \/ /\ ~ Known(Head(syslog))
          /\ rank <= MaxRank
          /\ ip' \in NextAddress
          /\ mac' = Head(syslog)
          /\ pc' = "adding"
          /\ UNCHANGED <<rank, ipaddr, maxNew, inserted, ended, database, kickstarted, suggest_done, served>>
    /\ UNCHANGED access

(* addit, first half: `stack add host', which refuses a name that exists.
   After InsertError the loop goes on with the same rank. *)
AddHost ==
    /\ pc = "adding"
    /\ IF rank \in nodes
       THEN pc' = "loop" /\ UNCHANGED nodes
       ELSE \/ pc' = "linking" /\ nodes' = nodes \cup {rank}
            \/ pc' = "loop" /\ UNCHANGED nodes
    /\ UNCHANGED <<networks, removing, removed, logs, held, kickstarted, suggest_done,
                   ended, served>>

NewRow == [rank |-> rank, mac |-> mac, ip |-> ip,
           doubles |-> ipaddr # {} /\ ~ Free(ip)]

(* addit, second half: `stack add host interface', which needs the host, and
   takes any address. *)
AddInterface ==
    /\ pc = "linking"
    /\ \/ /\ rank \in nodes
          /\ networks' = networks \cup {NewRow}
          /\ served' = served \ {mac}
          /\ pc' = "checking"
       \/ UNCHANGED <<networks, served>> /\ pc' = "loop"
    /\ UNCHANGED <<nodes, removing, removed, logs, held, kickstarted, suggest_done, ended>>

(* The rest of addit and of listenDhcp: InsertError if the host is gone
   already.  A run for one host then waits to be done; others move on to the
   next rank. *)
Inserted ==
    /\ pc = "checking"
    /\ pc' = "loop"
    /\ \/ /\ rank \in nodes
          /\ inserted' = inserted \cup {rank}
          /\ kickstarted' = [r \in inserted' |->
                               IF r = rank THEN 0 ELSE kickstarted[r]]
          /\ \/ /\ maxNew = 1
                /\ maxNew' = 0 /\ suggest_done' = TRUE /\ UNCHANGED rank
             \/ /\ maxNew = -1
                /\ rank' = rank + 1 /\ UNCHANGED <<maxNew, suggest_done>>
       \/ /\ rank \notin nodes
          /\ UNCHANGED <<inserted, kickstarted, maxNew, suggest_done, rank>>
    /\ UNCHANGED <<database, logs, mac, ip, ipaddr, ended, served>>

(* Once done is suggested the lines of syslog are read and dropped. *)
SkipLine ==
    /\ pc = "loop" /\ suggest_done /\ syslog # <<>>
    /\ syslog' = Tail(syslog)
    /\ UNCHANGED <<database, access, pc, held, kickstarted, suggest_done, ended, served>>

(* listenKs: int(None) for a client that is no host. *)
Owner(a) == {row.rank : row \in {r \in networks : r.ip = a /\ r.rank \in nodes}}

Kickstart ==
    /\ pc = "loop" /\ access # <<>> /\ (syslog = <<>> \/ suggest_done)
    /\ access' = Tail(access)
    /\ IF Owner(Head(access).from) = {}
       THEN Raise
       ELSE \E r \in Owner(Head(access).from) :
              /\ kickstarted' = IF r \in inserted
                                THEN [kickstarted EXCEPT ![r] = Head(access).status]
                                ELSE kickstarted
              /\ UNCHANGED <<database, pc, held, suggest_done, ended, served>>
    /\ UNCHANGED syslog

(* A slip: one host with a kickstart file is enough. *)
SomeReady == inserted = {} \/ \E r \in inserted : kickstarted[r] = 200

AllReady == \A r \in inserted : kickstarted[r] = 200

(* checkDone, when there is no line to work on: F9 ends the loop at once, F8 (and the
   timer, when done is suggested) once every host has its kickstart file. *)
Quit(key) ==
    /\ pc = "loop" /\ access = <<>> /\ (syslog = <<>> \/ suggest_done)
    /\ \/ key = "F9"
       \/ key = "F8" /\ AllReady
       \/ key = "TIMER" /\ suggest_done /\ AllReady
    /\ pc' = "off" /\ ended' = IF key = "F9" THEN None ELSE "keys"
    /\ UNCHANGED <<database, logs, held, kickstarted, suggest_done, served>>

Next ==
    \/ \E m \in Macs : Discovering(m)
    \/ \E row \in networks, status \in Status : Requesting(row, status)
    \/ \E status \in Status : StrangerRequesting(status)
    \/ \E r \in nodes : RemoveInterfaces(r) \/ RemoveHost(r)
    \/ Start \/ Discover \/ AddHost \/ AddInterface \/ Inserted \/ SkipLine \/ Kickstart
    \/ \E key \in {"F8", "F9", "TIMER"} : Quit(key)

Spec == Init /\ [][Next]_vars

-----------------------------------------------------------------------------
(* However often a machine sends DHCPDISCOVER, and however an earlier
   insert-ethers ended, it becomes an interface of one host only: the tables
   have no unique keys that would see to it. *)
MacOnce ==
    \A a, b \in networks : a.mac = b.mac => a = b

(* No two interfaces of hosts share an address, while hosts are removed step
   by step and their addresses are given away again; but for those that were
   added with an --ipaddr that a host had already, which getnextIP returns as
   it is (insert-ethers.py:542-543). *)
AddressOnce ==
    \A a, b \in networks :
        /\ a.ip = b.ip /\ {a.rank, b.rank} \subseteq nodes
        /\ ~ a.doubles /\ ~ b.doubles
        => a = b

(* Nobody else has the address of this interface. *)
Alone(row) == \A r \in networks : r.ip = row.ip => r = row

(* checkDone, "false if some nodes have been discovered but not yet requested
   their kickstart file": an insert-ethers that ends on its own or by F8
   leaves no host behind whose machine did not get one, as long as no host
   was removed meanwhile, and none left a row of table networks behind: an
   address of such a host may be another machine's by now.  Nor does it of
   hosts whose address --ipaddr gave to another one, too: requests are looked
   up by address. *)
DoneMeansKickstarted ==
    (pc = "off" /\ ended = "keys" /\ ~ removed) =>
        \A row \in networks :
            row.rank \in inserted /\ Alone(row) => row.mac \in served

(* listenKs, "Unknown node %s got a kickstart file!": a client that is no
   host is worth a warning, and does not end the program. *)
NeverRaises == ended # "exception"

=============================================================================
