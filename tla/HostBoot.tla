------------------------------ MODULE HostBoot ------------------------------
(***************************************************************************)
(* What a machine does when it boots: the boot table, the PXE files, the   *)
(* commands that write them (set host boot, sync host config, add and      *)
(* remove host), each a process of its own, and the machines that read the *)
(* files, install, and ask for os when they have (setPxeboot.cgi).         *)
(***************************************************************************)
EXTENDS PluginOrder

CONSTANTS
    Hosts, Addresses, Processes,
    First,         \* the host there is at the start, with its address
    Bare,          \* hosts of which another interface, without an address,
                   \* comes first
    None,
    MaxCommands,   \* how many commands people run
    MaxLost        \* how many calls of setPxeboot.cgi do not get through

ASSUME HostAssumption ==
    /\ First \in Hosts /\ Bare \subseteq Hosts /\ None \notin Hosts \cup Addresses
    /\ Processes \cap Hosts = {} /\ MaxCommands \in Nat /\ MaxLost \in Nat

(* Of the plugins of remove host: host is the last of all, and interface    *)
(* comes after boot, which looks for the address.                           *)
ASSUME RemoveHostPlugins ==
    /\ \E p \in Plugins : p.provides = "boot"
    /\ \E p \in Plugins : p.provides = "interface" /\ "boot" \in p.requires
    /\ \E p \in Plugins : p.provides = "host"
    /\ \A p \in Plugins : TAIL \in p.requires <=> p.provides = "host"

VARIABLES
    nodes,       \* the rows of the nodes table
    ip,          \* the address in the networks table of a host that boots
    rows,        \* a host's rows of the boot table, by their id
    files,       \* what a file of pxelinux.cfg holds: for whom, and what
    mach,        \* what a machine is doing
    proc,        \* the commands that run; a host's is its setPxeboot.cgi
    commands, lost,
    asked,       \* hosts somebody wants to be installed
    mixed,       \* hosts that several commands have worked on at a time
    stray,       \* ... one of which was to remove the host
    orphans      \* hosts whose rows of the boot table outlived them

hostVars == <<nodes, ip, rows, files, mach, proc, commands, lost, asked, mixed,
              stray, orphans>>
bootVars == <<edges, position, plugins, hostVars>>

Slots == Processes \cup Hosts    \* CGI programs run beside the commands
Actions == {"install", "os", "none"}
Kind(action) == IF action = "install" THEN "install" ELSE "run"
File == [host : Hosts, kind : {"install", "run"}]

Steps == {"idle", "next", "insert", "update", "report", "shell",
          "sync", "interface", "plugin", "unlink"}

Idle == [step |-> "idle", left |-> {}, host |-> None, action |-> "none",
         addr |-> None, k |-> 0]

HostTypeOK ==
    /\ nodes \subseteq Hosts
    /\ ip \in [Hosts -> Addresses \cup {None}]
    /\ rows \in [Hosts -> Seq({"install", "os"})]
    /\ files \in [Addresses -> File \cup {None}]
    /\ mach \in [Hosts -> {"down", "up", "installing", "calling"}]
    /\ proc \in [Slots -> [step : Steps, left : SUBSET Hosts,
                           host : Hosts \cup {None}, action : Actions,
                           addr : Addresses \cup {None}, k : Nat]]
    /\ commands \in 0 .. MaxCommands /\ lost \in 0 .. MaxLost
    /\ asked \subseteq Hosts /\ mixed \subseteq Hosts /\ orphans \subseteq Hosts
    /\ stray \in BOOLEAN

HostInit ==
    \E a \in Addresses :
        /\ nodes = {First}
        /\ ip = [h \in Hosts |-> IF h = First THEN a ELSE None]
        /\ rows = [h \in Hosts |-> IF h = First THEN <<"os">> ELSE <<>>]
        /\ files = [x \in Addresses |->
                       IF x = a THEN [host |-> First, kind |-> "run"] ELSE None]
        /\ mach = [h \in Hosts |-> IF h = First THEN "up" ELSE "down"]
        /\ proc = [s \in Slots |-> Idle]
        /\ commands = 0 /\ lost = 0
        /\ asked = {} /\ mixed = {} /\ orphans = {} /\ stray = FALSE
-----------------------------------------------------------------------------
WorksOn(p) == IF proc[p].step = "idle" THEN {}
              ELSE proc[p].left \cup ({proc[p].host} \cap Hosts)
Removing(p) == proc[p].step \in {"plugin", "unlink"}
ToInstall(p) == proc[p].step # "idle" /\
    (proc[p].action = "install" \/ proc[p].step \in {"sync", "interface"})

(* A command starts on the hosts that it finds in the database. *)
Begin(p, hs, c, removes) ==
    LET busy == {q \in Slots : WorksOn(q) \cap hs # {}}
    IN  /\ proc[p].step = "idle" /\ plugins # <<>>
        /\ proc' = [proc EXCEPT ![p] = c]
        /\ mixed' = mixed \cup {h \in hs : \E q \in busy : h \in WorksOn(q)}
        /\ stray' = (stray \/ \E q \in busy : removes \/ Removing(q))

Person == commands < MaxCommands /\ commands' = commands + 1

(* set host boot, with an action or, as add and remove bootaction call it, *)
(* for all hosts and without one.                                          *)
SetBoot(p, hs, action) ==
    /\ Person
    /\ Begin(p, hs, [Idle EXCEPT !.step = "next", !.left = hs, !.action = action], FALSE)
    /\ asked' = IF action = "install" THEN asked \cup hs ELSE asked
    /\ UNCHANGED <<nodes, ip, rows, files, mach, lost, orphans>>

RemoveHost(p, h) ==
    /\ Person
    /\ Begin(p, {h}, [Idle EXCEPT !.step = "plugin", !.host = h, !.k = 1], TRUE)
    /\ UNCHANGED <<nodes, ip, rows, files, mach, lost, asked, orphans>>

(* One program at a time adds hosts (InsertEthers), at free addresses. *)
AddHost(p, h) ==
    /\ Person
    /\ h \notin nodes /\ \A q \in Slots : proc[q].step # "interface"
    /\ Begin(p, {h}, [Idle EXCEPT !.step = "interface", !.host = h], FALSE)
    /\ nodes' = nodes \cup {h}
    /\ asked' = asked \cup {h}
    /\ UNCHANGED <<ip, rows, files, mach, lost, orphans>>

SyncHost(p, h) ==
    /\ Person
    /\ Begin(p, {h}, [Idle EXCEPT !.step = "sync", !.host = h], FALSE)
    /\ asked' = IF rows[h] = <<>> THEN asked \cup {h} ELSE asked
    /\ UNCHANGED <<nodes, ip, rows, files, mach, lost, orphans>>

Commands == \E p \in Processes :
    \/ \E h \in nodes, action \in {"install", "os"} : SetBoot(p, {h}, action)
    \/ nodes # {} /\ SetBoot(p, nodes, "none")
    \/ \E h \in nodes : RemoveHost(p, h) \/ SyncHost(p, h)
    \/ \E h \in Hosts : AddHost(p, h)
-----------------------------------------------------------------------------
Quiet == UNCHANGED <<mach, commands, lost, mixed, stray>>

Go(p, step) == proc' = [proc EXCEPT ![p].step = step]
End(p) == proc' = [proc EXCEPT ![p] = Idle]

(* The next host of the loop, if there is one. *)
Onward(p) == IF proc[p].left = {} THEN End(p) ELSE Go(p, "next")

(* A slip: every action gets a row of its own. *)
NextHostAnew(p) ==
    /\ proc[p].step = "next"
    /\ \E h \in proc[p].left :
           proc' = [proc EXCEPT ![p].left = @ \ {h}, ![p].host = h,
               ![p].step = IF proc[p].action = "none" THEN "report" ELSE "insert"]
    /\ UNCHANGED <<nodes, ip, rows, files, asked, orphans>> /\ Quiet

(* updateBoot() looks for a row, and then makes or changes one; without an *)
(* action nothing is stored.                                               *)
NextHost(p) ==
    /\ proc[p].step = "next"
    /\ \E h \in proc[p].left :
           proc' = [proc EXCEPT ![p].left = @ \ {h}, ![p].host = h,
               ![p].step = CASE proc[p].action = "none" -> "report"
                             [] proc[p].action # "none" /\ rows[h] = <<>> -> "insert"
                             [] OTHER -> "update"]
    /\ UNCHANGED <<nodes, ip, rows, files, asked, orphans>> /\ Quiet

(* A host without a row in nodes has no id that could be inserted. *)
Insert(p) ==
    /\ proc[p].step = "insert"
    /\ IF proc[p].host \in nodes
       THEN /\ rows' = [rows EXCEPT ![proc[p].host] = Append(@, proc[p].action)]
            /\ Go(p, "report")
       ELSE rows' = rows /\ End(p)
    /\ UNCHANGED <<nodes, ip, files, asked, orphans>> /\ Quiet

(* The row is named by its id: one that was deleted is not missed. *)
Update(p) ==
    /\ proc[p].step = "update"
    /\ rows' = IF rows[proc[p].host] = <<>> THEN rows
               ELSE [rows EXCEPT ![proc[p].host][1] = proc[p].action]
    /\ Go(p, "report")
    /\ UNCHANGED <<nodes, ip, files, asked, orphans>> /\ Quiet

(* A slip: no file is made to boot the disk, which is the default. *)
ReportInstall(p) ==
    /\ proc[p].step = "report"
    /\ IF proc[p].host \notin nodes \/ ip[proc[p].host] = None \/ proc[p].action # "install"
       THEN Onward(p)
       ELSE proc' = [proc EXCEPT ![p].step = "shell", ![p].addr = ip[proc[p].host]]
    /\ UNCHANGED <<nodes, ip, rows, files, asked, orphans>> /\ Quiet

(* report host pxefile, which fails for a host that is gone and has nothing *)
(* to say of one without an address. No action reaches it as the word None, *)
(* which is an action other than install.                                   *)
Report(p) ==
    /\ proc[p].step = "report"
    /\ CASE proc[p].host \notin nodes -> End(p)
         [] proc[p].host \in nodes /\ ip[proc[p].host] = None -> Onward(p)
         [] OTHER -> proc' = [proc EXCEPT ![p].step = "shell",
                                          ![p].addr = ip[proc[p].host]]
    /\ UNCHANGED <<nodes, ip, rows, files, asked, orphans>> /\ Quiet

Shell(p) ==
    /\ proc[p].step = "shell"
    /\ files' = [files EXCEPT ![proc[p].addr] =
                    [host |-> proc[p].host, kind |-> Kind(proc[p].action)]]
    /\ Onward(p)
    /\ UNCHANGED <<nodes, ip, rows, asked, orphans>> /\ Quiet

(* sync host config sets a host that has no action to install. *)
Sync(p) ==
    /\ proc[p].step = "sync"
    /\ IF proc[p].host \in nodes /\ rows[proc[p].host] = <<>>
       THEN /\ proc' = [proc EXCEPT ![p].step = "next",
                            ![p].left = {proc[p].host}, ![p].action = "install"]
            /\ asked' = asked \cup {proc[p].host}
       ELSE End(p) /\ asked' = asked
    /\ UNCHANGED <<nodes, ip, rows, files, orphans>> /\ Quiet

Interface(p) ==
    /\ proc[p].step = "interface"
    /\ IF proc[p].host \in nodes
       THEN /\ \E a \in Addresses \ {ip[h] : h \in Hosts} :
                   ip' = [ip EXCEPT ![proc[p].host] = a]
            /\ Go(p, "sync")
       ELSE ip' = ip /\ End(p)
    /\ UNCHANGED <<nodes, rows, files, asked, orphans>> /\ Quiet

NextPlugin(p) ==
    IF proc[p].k = Len(plugins) THEN End(p)
    ELSE proc' = [proc EXCEPT ![p].step = "plugin", ![p].k = @ + 1]

(* remove host: the plugins one after the other. Boot deletes the rows of   *)
(* the boot table and goes on to remove the file.                           *)
Plugin(p) ==
    LET h == proc[p].host
        this == plugins[proc[p].k]
    IN  /\ proc[p].step = "plugin"
        /\ rows' = IF this \in {"boot", "host"} THEN [rows EXCEPT ![h] = <<>>] ELSE rows
        /\ orphans' = IF this = "host" /\ rows[h] # <<>> THEN orphans \cup {h} ELSE orphans
        /\ ip' = IF this = "interface" THEN [ip EXCEPT ![h] = None] ELSE ip
        /\ nodes' = IF this = "host" THEN nodes \ {h} ELSE nodes
        /\ IF this = "boot" THEN Go(p, "unlink") ELSE NextPlugin(p)
        /\ UNCHANGED <<files, asked>> /\ Quiet

(* An interface without an address ends the command before the file of *)
(* another one is removed.                                             *)
Unlink(p) ==
    LET h == proc[p].host
    IN  /\ proc[p].step = "unlink"
        /\ files' = IF h \in Bare \/ ip[h] = None THEN files
                    ELSE [files EXCEPT ![ip[h]] = None]
        /\ NextPlugin(p)
        /\ UNCHANGED <<nodes, ip, rows, asked, orphans>> /\ Quiet

Work(p) ==
    \/ NextHost(p) \/ Insert(p) \/ Update(p) \/ Report(p) \/ Shell(p)
    \/ Sync(p) \/ Interface(p) \/ Plugin(p) \/ Unlink(p)
-----------------------------------------------------------------------------
Same == UNCHANGED <<nodes, ip, rows, files, commands, orphans>>

HasAddress(h) == h \in nodes /\ ip[h] # None

(* DHCP tells a host of the database its address; a machine without one, or *)
(* without a file of its own, takes the default file, and boots its disk.   *)
Boot(h) ==
    /\ mach[h] = "down"
    /\ mach' = [mach EXCEPT ![h] =
                   IF HasAddress(h) /\ files[ip[h]] # None /\ files[ip[h]].kind = "install"
                   THEN "installing" ELSE "up"]
    /\ UNCHANGED <<proc, lost, asked, mixed, stray>> /\ Same

Restart(h) ==
    /\ mach[h] = "up"
    /\ mach' = [mach EXCEPT ![h] = "down"]
    /\ UNCHANGED <<proc, lost, asked, mixed, stray>> /\ Same

(* A slip: the machine does not wait for the answer. *)
CallInBackground(h) ==
    /\ mach[h] = "installing" /\ HasAddress(h)
    /\ Begin(h, {h}, [Idle EXCEPT !.step = "next", !.left = {h}, !.action = "os"], FALSE)
    /\ mach' = [mach EXCEPT ![h] = "down"]
    /\ asked' = IF \E p \in Slots : ToInstall(p) /\ h \in WorksOn(p)
                THEN asked ELSE asked \ {h}
    /\ UNCHANGED lost /\ Same

(* The end of an installation: curl calls setPxeboot.cgi, which takes the   *)
(* host from the address it is called from, and waits for it.               *)
Call(h) ==
    /\ mach[h] = "installing" /\ HasAddress(h)
    /\ Begin(h, {h}, [Idle EXCEPT !.step = "next", !.left = {h}, !.action = "os"], FALSE)
    /\ mach' = [mach EXCEPT ![h] = "calling"]
    /\ asked' = IF \E p \in Slots : ToInstall(p) /\ h \in WorksOn(p)
                THEN asked ELSE asked \ {h}
    /\ UNCHANGED lost /\ Same

Answered(h) ==
    /\ mach[h] = "calling" /\ proc[h].step = "idle"
    /\ mach' = [mach EXCEPT ![h] = "down"]
    /\ UNCHANGED <<proc, lost, asked, mixed, stray>> /\ Same

CallLost(h) ==
    /\ mach[h] = "installing"
    /\ \/ lost < MaxLost /\ lost' = lost + 1
       \/ ~ HasAddress(h) /\ lost' = lost
    /\ mach' = [mach EXCEPT ![h] = "down"]
    /\ UNCHANGED <<proc, asked, mixed, stray>> /\ Same

Machine(h) == Boot(h) \/ Call(h) \/ Answered(h) \/ CallLost(h)

BootInit == PluginInit /\ HostInit

BootNext ==
    \/ LoadPlugins /\ UNCHANGED hostVars
    \/ /\ Commands \/ (\E p \in Slots : Work(p)) \/ (\E h \in Hosts : Machine(h) \/ Restart(h))
       /\ UNCHANGED <<edges, position, plugins>>

(* A command that runs goes on; a machine that is down is started, and one  *)
(* that has been installed restarts. Nobody need ever run a command.        *)
BootSpec ==
    /\ BootInit /\ [][BootNext]_bootVars
    /\ WF_bootVars(LoadPlugins /\ UNCHANGED hostVars)
    /\ \A p \in Slots : WF_bootVars(Work(p) /\ UNCHANGED <<edges, position, plugins>>)
    /\ \A h \in Hosts : WF_bootVars(Machine(h) /\ UNCHANGED <<edges, position, plugins>>)
-----------------------------------------------------------------------------
Calm(h) == \A p \in Slots : h \notin WorksOn(p)

(* A host has one row in the boot table, and none after it was removed,     *)
(* unless commands worked on it at the same time: updateBoot() selects      *)
(* before it inserts, and the table has no unique key                       *)
(* (set/host/boot/__init__.py:130-147, database-schema.xml:328).            *)
OneRow ==
    \A h \in Hosts \ mixed :
        /\ Len(rows[h]) <= 1
        /\ h \notin orphans
        /\ h \notin nodes => rows[h] = <<>>

(* When no command is at work on it, and none worked on it together with    *)
(* another, a host whose row says os or that has no row is not told to      *)
(* install by its file, and every file is that of the host that has its     *)
(* address: a removed host leaves none (set/host/boot/__init__.py:161-174,  *)
(* remove/host/boot/__init__.py:118-146).                                   *)
FilesMatch ==
    \A h \in Hosts \ mixed : Calm(h) =>
        /\ ip[h] # None /\ files[ip[h]] # None /\ rows[h] \in {<<>>, <<"os">>} =>
               files[ip[h]].kind = "run" \/ files[ip[h]].host # h
        /\ h \notin Bare =>
               \A a \in Addresses :
                   files[a] # None /\ files[a].host = h => ip[h] = a

(* What set host boot says of a call without an action: the files are       *)
(* rewritten, so that a host that has to install still does                 *)
(* (set/host/boot/__init__.py:114-115).                                     *)
RewriteKeepsInstall ==
    \A h \in Hosts \ mixed :
        Calm(h) /\ h \in nodes /\ ip[h] # None /\ rows[h] = <<"install">> =>
            files[ip[h]] = [host |-> h, kind |-> "install"]

(* A machine begins an installation only if somebody asked for it since its *)
(* last one reported its end: neither an old file, nor another host's, nor  *)
(* a command that is late installs it again, as long as nobody works on a   *)
(* host while it is removed (setPxeboot.cgi:141-142, pxeboot.xml:26-27).    *)
NoUnaskedInstall ==
    [][~ stray =>
        \A h \in Hosts : mach[h] # "installing" /\ mach'[h] = "installing" =>
            h \in asked]_bootVars

(* A machine that installs boots its disk in the end, whatever commands run *)
(* at the same time: it does not install for ever.                          *)
InstallEnds == \A h \in Hosts : mach[h] = "installing" ~> mach[h] = "up"
=============================================================================
