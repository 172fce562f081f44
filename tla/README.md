# Stacki, specified in TLA+

Stacki installs clusters: a frontend keeps a database of hosts, hands every
machine that boots an installation profile, and lets the machines fetch the
packages from each other instead of all from the frontend.  This directory
holds TLA+ models of the parts of Stacki in which several programs act at the
same time, the TLC runs that check them, and TLAPS proofs about them.

Source paths are those of the repository, e.g. `src/stack/tracker/server.c`.

| module | models | checked by |
|---|---|---|
| `TrackerPeers`       | peer lists, their sorting and what is offered of them (`server.c`, `shuffle.c`) | through the modules below |
| `TrackerTable`       | the circular hash table (`server.c`) | through the modules below |
| `TrackerServer`      | the tracker process, on the circular table | `tracker_server` |
| `TrackerList`        | what the tracker promises: a queue of hashes | `tracker_list` |
| `TrackerRefinement`  | the mapping from the table to the queue | `tracker_list` |
| `TrackerCompaction`  | the loop of `compact_hash_table`, step by step | `tracker_compaction` |
| `Avalanche`          | the clients, the network, the web servers and the tracker | `avalanche*` |
| `InsertEthers`       | insert-ethers, its database and its logs | `insert_ethers` |
| `Permits`            | what the semaphore of `profile.cgi` promises: a stock of permits | `profile` |
| `ProfileServer`      | `profile.cgi`, its lock and semaphore file, and the installers that ask it | `profile` |
| `GraphIterator`      | the traversal of a graph (`graph.py`) | through the two below |
| `NodeOrder`          | `list node xml`: which node files are in a profile, and in which order | `node_graph` |
| `PluginOrder`        | the order in which a command runs its plugins | `host_boot` |
| `HostBoot`           | the boot table, the PXE files, the commands that write them and the machines that boot | `host_boot` |
| `RunHost`            | `run host`: the main thread and a thread for each host | `run_host` |
| `Attributes`         | the tables of attributes and the commands that write them | `attributes` |
| `AttributeReads`     | reading them for all hosts meanwhile | `attributes` |
| `HostFile`           | `load hostfile` and the commands it calls | `load_hostfile` |
| `TrackerPeers_proofs` | lemmas on peer lists, sorting, counting and filtering, used by the next two | TLAPS |
| `TrackerServer_proofs` | theorems about `TrackerServer`, `TrackerRefinement` and `TrackerCompaction` | TLAPS |
| `Avalanche_proofs`, `InsertEthers_proofs`, `HostFile_proofs` | theorems about the module of that name | TLAPS |
| `ProfileServer_proofs` | theorems about `ProfileServer` and `RunHost` | TLAPS |
| `GraphIterator_proofs` | theorems about `GraphIterator`, `NodeOrder`, `PluginOrder` and `HostBoot` | TLAPS |
| `Attributes_proofs`  | theorems about `Attributes` and `AttributeReads` | TLAPS |

`MC*.tla` give TLC its values, and each `.cfg` says in its first line what it
instantiates.  In the modules, a definition whose comment begins with "A
slip" is a plausible mistake in the code it stands next to; nothing uses it
but the mutation runs `PROJECT.json` lists, which put it in the place of the
right one to see that the property notices.

## 1. Inventory

### The tracker (`src/stack/tracker/server.c`, `shuffle.c`, `tracker.h`)

*State*: `hash_table`, a circular array of file hashes, each with the list of
the hosts that hold (READY) or fetch (DOWNLOADING) the file; `dt_table`, when
each host was last proposed as a source, and its coop group.
*Operations*: LOOKUP (sorts the list, adds the requestor, answers with up to 3
peers of the file and of each of the next 10 files in the table, the
"predictions"), REGISTER, UNREGISTER, PEER_DONE, STOP_SERVER.
*Interaction*: one process, UDP datagrams from every installing host; no
answer to anything but LOOKUP.
*Hard*: the table grows, wraps, is compacted and shrinks; head and tail may
meet; a host may be listed twice; datagrams arrive late, twice or never.
*Correct means*: the table is a queue of hashes, whatever its indices do; only
a host that registered a file is a READY source; no host is sent to itself;
near and complete sources come first.

### The tracker client (`tracker-client.c`, `client.c`, `lib.c`, `checkmd5.c`, `peer-done.c`)

*State*: the files under `/install` of the host, shared by several FastCGI
processes (`lighttpd.conf`, `max-procs`), and per process the sequence number
of its last LOOKUP and the predictions it has kept.
*Operations*: answer the installer's request from the disk, or ask the tracker,
try its peers and then the package servers, check the MD5 sum, rename the
temporary file, hand the file out, REGISTER; UNREGISTER a peer that failed;
PEER_DONE at the end of the installation.
*Interaction*: datagrams to the tracker, HTTP to the web servers of other hosts
and of the frontend, the disk with the other processes of the host.
*Hard*: late answers and stale predictions, processes that unlink, rename and
read the same file, sources that reboot in the middle.
*Correct means*: every request ends, and not in 404 while a package server
holds the file; a file listed in `packages.md5` is never wrong under its own
name; who is READY has the file.

### insert-ethers (`src/stack/sql/insert-ethers.py`, `pylib/stack/sql.py`)

*State*: tables `nodes` and `networks`; the unread ends of `/var/log/messages`
and the web server's log; rank of the next host, hosts inserted, status of
their last kickstart request.
*Operations*: add a host for an unknown MAC address (two commands, `stack add
host` and `stack add host interface`), note kickstart requests, end when every
host got its file or by F8/F9; start again.
*Interaction*: dhcpd and httpd through their logs, other administrators through
the database (`stack remove host`, one plugin per table).
*Hard*: repeated DHCPDISCOVERs, one command of two failing, tables without
unique keys, hosts removed in several steps meanwhile.
*Correct means*: a machine becomes one host; an address that insert-ethers chooses
belongs to one host (one that `--ipaddr` names may be in use already);
"done" means every machine got its kickstart file.

### The profile server (`src/stack/kickstart/profile.py`, `pylib/stack/lock.py`, the patched loader under `src/stack/images`)

*State*: the number in `/var/tmp/profile.semaphore`, the flock on its mutex
file, and per installer two counters of failed requests.
*Operations*: `pre` (push a permit, or answer 503), `main` (generate), `post`
(pop); the loader asks again after a 503, and starts again after a failure.
*Interaction*: one CGI process per request; httpd may kill any of them.
*Hard*: a process that raises or is killed between push and pop; one that dies
after `open(path, 'w')` emptied the file; the count read by two processes.
*Correct means*: no more generators than processors; no permit given out
twice; "busy" is true when it is said; every installer ends.

### Graphs, node files and plugins (`pylib/stack/graph.py`, `profile.py`, `commands/list/node/xml`, `commands/__init__.py`)

*State*: a graph of nodes and labelled edges; the marks of a traversal; the
framework graph and the order graph of a distribution.
*Operations*: depth-first traversal from all roots or from one; adding edges
for HEAD and TAIL between three traversals of the order graph; merging both
lists; loading and sorting the plugins of a command.
*Interaction*: `list host profile` and kickstart generation go through `list
node xml`; every command with plugins goes through `loadPlugins`.
*Hard*: cycles; the order of nodes and edges, which is that of a dictionary
and of a directory; edges added to a graph that is being traversed; plugins
that require TAIL, which is on a cycle with them by construction.
*Correct means*: a node file once, if the edges to it apply to the host, after
what the order tags put before it; a plugin once, after what it requires.

### Booting (`commands/set/host/boot`, `remove/host`, `remove/host/boot`, `add/host`, `sync/host/config`, `report/host/pxefile`, `pxeboot/setPxeboot.cgi`)

*State*: tables `nodes`, `networks` and `boot`; the files of
`/tftpboot/pxelinux/pxelinux.cfg`, named by address; the machines.
*Operations*: set (select, insert or update, report, shell), remove host (its
plugins in order), add host and its interface, sync, and the call an
installed host makes.
*Interaction*: every command is a process; table and file are written one
after the other; `setPxeboot.cgi` runs `set host boot` for the caller.
*Hard*: two commands on one host; lost calls; an address given away again
while the file of its last owner is there.
*Correct means*: one row per host; the file says what the row says; no host
installs unasked or for ever.

### run host (`commands/run/host/__init__.py`, `imp_ssh.py`)

*State*: the list of threads, counters `running_threads` and `work`, a
dictionary of outputs.
*Operations*: start threads up to the limit, collect those that ended, sleep,
print; each thread connects, runs ssh and waits for it.
*Hard*: the list is changed by the loop that goes through it; ssh that hangs,
cannot be started, or blocks on a full pipe; ^C.
*Correct means*: never more connections than asked for; the outputs are
printed when all hosts have ended, and the command ends.

### Attributes (`commands/{add,set,remove}/*/attr`, `load/attrfile`, `commands/__init__.py`)

*State*: five tables (global, OS, appliance, environment, host) without keys,
each row with a value and a shadow value.
*Operations*: add (list, then set), set (remove, then insert), remove, load
attrfile (clear everything, then set), and `getHostAttrs`, which selects the
five tables and lays them over each other.
*Interaction*: commands of several administrators statement by statement,
readers in between.
*Hard*: no transactions; a load that stops in the middle; a reader between a
delete and an insert; precedence and shadow values.
*Correct means*: no row is lost but by a command in the middle of its two
statements, none is left over, a load leaves what the spreadsheet says, the
most specific level wins, and a reader invents nothing.

### load hostfile (`commands/load/hostfile`, `add/host`, `add/host/interface`, `remove/host/interface`, `set/host`, `set/host/interface`, `add/group`, `add/host/group`)

*State*: tables `nodes`, `networks`, `groups` and `memberships`, without unique
keys; the dictionaries `hosts` and `interfaces` of a run.
*Operations*: read a spreadsheet, remove hosts of other frontends, check what is
left, then add or set every host and its groups, remove the interfaces of all
of them, and add the interfaces of the spreadsheet.
*Interaction*: it calls some fifteen other commands; another load, or any
command, may run at a time.
*Hard*: no transaction; an error or a kill in the middle; decisions by names
and groups that were read at the beginning; addresses that move between hosts.
*Correct means*: a load that ends has put its hosts right whatever was there;
one that fails midway does so for few, known reasons; no address is given out
twice by a load; hosts that are not in the spreadsheet stay as they are.

### Parts that are not modelled

| part | state and operations | why not |
|---|---|---|
| pallets, boxes, carts | relations in the database; directories of packages | the commands write one relation in one statement each, or copy files |
| the other host database commands (`swap`, routes, firewalls, partitions, ...) | tables around `nodes`, one plugin each | one statement each; adding, setting and removing hosts and interfaces is in `HostBoot`, `InsertEthers` and `HostFile` |
| arguments (`fillParams`), groups of hosts in `getHostnames` | pure functions of the database | parsing; a plain name is looked up as in `HostFile` |
| `cond.py` | evaluates a Python expression over attributes | the evaluation is Python's; a conditional is a label that holds or not |
| `load hostfile` from Google, RCS, `unload` | copies of a file | I/O |
| the cache of `DatabaseConnection` (`commands/__init__.py:1215`) | the answers of earlier selects | a statement with the word select in it does not clear the cache, so that a process goes on with what it has read; the processes modelled here read once |
| the move of `/install` to the disk (`tracker-client.c:604`) | directories | file I/O, although two processes may start it at the same time |
| IP addresses (`ip.py`) | bit arithmetic | the generator appears in `InsertEthers` as the addresses it goes through |
| sync and report commands | database to text | text generation; what the report of PXE files decides is in `HostBoot` |
| distribution builder (`dist.py`, `file.py`, `build.py`) | directory trees | file I/O |
| wizard, ekv, piece-pipe, images, build system, foundation | - | user interface, I/O, patched copies of third-party installers (anaconda) and packaged software; most of the repository's lines are here |

## 2. How the modules correspond to the code

### Tracker

`TrackerPeers` has the operators on one peer list under the names of the C
functions (`addpeer`, ...).  A list is a sequence of `[ip, state]`; download
timestamps are only compared, so `stamps` keeps their ranks.
`timestamp_compare` is `Before`; `qsort` of equal keys, or of keys the
comparison does not order, may leave any permutation the comparison allows
(`Shuffles`).  A LOOKUP sorts several lists one after the other, each sort
stamping the first peer of its list, so that the order of one list depends on
the ones before (`Reorderings`).

`TrackerTable` has the circular array as a record `[head, tail, size, entry]`.
The loops of `grow_hash_table`, `compact_hash_table` and
`reclaim_free_entries` are in closed form; `TrackerCompaction` runs the
hardest of them, index by index, against its closed form.  What the code does
when the head meets the tail is kept: `newentry` tests for growth before it
wraps the head, `reclaim_free_entries` moves the head onto the tail.

`TrackerServer` has one action per message: the whole handler, with the
compaction and the reclaiming at its end.  `Restart` is STOP_SERVER and a new
process.  `reply` is the last answer, with the predictions as a set.

`TrackerList` promises the same without the array.  `TrackerRefinement` maps
the slots between tail and head to the queue: the property `ImplementsList` is
`TrackerList`'s specification under that mapping.

### Clients

`Avalanche` puts the queue of `TrackerList` (which `TrackerServer` implements
as long as head and tail do not meet) on one side of a network, and clients on
the other.  A process goes through the values of `pc`: `local` is `getlocal`
after its `stat()`, `waiting` is `lookup()` in `select()`, `trying` the loop
of `trackfile` over its sources, `downloading`, `renaming` and `output` the
parts of `getremote` between which another process may act on the disk, and
`announcing` is `register_hash`.  Datagrams stay in `sent` for ever: never
delivering one is its loss, delivering one twice its duplication, and any may
come before any other.  An answer is taken by its sequence number only, as in
`client.c`.

The retries of a DOWNLOADING peer appear as one failure: `status` stays
`HTTP_NOT_FOUND` through them, so that none can succeed.

### insert-ethers

`InsertEthers` has the loop of `run()` with `pc` at the places where another
program can act: before `add host`, before `add host interface` and before the
query that follows.  The two logs are queues of lines that are not read yet.
Appliance and rack do not change, so a rank stands for a name.  An address is
a number; `getnextIP` counts down through the `Pool`, or returns what
`--ipaddr` names (`Named`) without looking whether it is free: such a row
`doubles` an address that was in use.  A run with `--ipaddr` or `--hostname`
adds one host (`maxNew`) and then only waits.  `remove host`
is its two steps that matter here, the plugins `interface` and `host`.  An
interface whose host is removed after it was added becomes an `Orphan` row, as
it does in a table without foreign keys.  Appliances are kickstartable ones.

### Profiles

`ProfileServer` follows one CGI process per installer through `pc`.  Acquiring
the mutex and reading the file is one step, as nothing else can happen under
the lock; opening for writing and writing are two, because `open(path, 'w')`
truncates and a process may die in between.  `Die` is an exception anywhere or
the end by httpd: the kernel gives up the lock, nobody gives up the permit.
`Deny` is the 401 of a request from an unprivileged port.  `tries` and `retry`
are the loader's two loops.  `Permits` is the abstract stock; the mapping takes
`Free` from the file, or from the count of a process that is rewriting it.

### Graphs

`GraphIterator` is `visit` and `run` of `graph.py` with the Python stack as
`top` and `caller`; the children of a node come in any order.  `Before` is the
order of the result: sorted by finishing time, reversed.  `NodeOrder` is four
traversals and a merge.  A conditional or a generator is a label on an edge,
`Dropped` when it is false for the host; a node keeps the label of the edge it
was first reached by, as `FrameworkIterator` does.  Edges written as `<edge>`
with both ends are always added, `<to>` and `<from>` only if they apply
(`Added`).  `PluginOrder` is the graph `loadPlugins` makes of `provides`,
`requires` and `precedes`, with an edge from every plugin to TAIL.

### Booting

`HostBoot` has one record per process, `proc`: the hosts left in its loop, the
host and action it is at, and the step, one per statement, file or plugin.
`MCHostBoot` takes the plugins of `remove host` that change something the boot
commands read, in the order `PluginOrder` finds first.  A person runs
`MaxCommands` commands; `setPxeboot.cgi` runs beside them in the slot of the
host that calls.  `mach` is what a machine does: down, up, installing, or
waiting for the answer of its call.  `asked`, `mixed`, `stray` and `orphans`
are history: who was meant to install, and which hosts several commands worked
on at a time.

### run host

`RunHost`: `place` is where the main thread is, `thread` where each other one is.
`Collect` removes the ended threads the loop meets, which is any non-empty part
of them, as removing one makes the loop skip the next.  `running` starts at -1
and stays below the limit if there is none, as in the code.  `fate` fixes what
becomes of each remote command: it ends, waits (for ever, or for a reader of
its full pipe), or cannot be started.

### Attributes

`Attributes` has all five tables in one set of `rows`, each with its target,
`<<level, name>>`.  A command becomes sets of what it has still to test, clear
and put, since the code goes through dictionaries; every statement is a step.
The environment commands fail as they do (`Fails`).  `Listed` says what the
list commands print, on which add decides, with what the code makes of it at
each level.  A spreadsheet is a sequence of rows; `Filled` takes empty cells
from the default row above.  `AttributeReads` has the selects one by one, the
second try without the shadow column where the first fails or finds nothing,
and the dictionary of a host with the levels over each other.

### load hostfile

`HostFile` has one record per run in `load`: the spreadsheet, what was read of
the tables and when (`listed`, `existing`, `known`, `old`), and `step` with the
host and line the loops are at.  A spreadsheet is a sequence of lines.  The
dictionaries are functions of it: the last line of a host counts for its boss
and groups, only lines with an interface are read that far (`LastOf`), and two
values of a column that must agree are an error (`Malformed`).  Every command is
a step, or as many as it has statements between which another run matters:
`AddHost` looks for the name and `InsertHost` inserts; `Put`, `SetIP`,
`SetName`, `SetDefault` and `SetMain` are `add host interface`, which with a MAC
address is a single insert and without one an insert and updates.  A name that
is in `nodes` twice makes `select id` a subselect of two rows, and every
statement with it fails (`Ambiguous`).  An empty spreadsheet removes no interface and fails in
`set host boot` at the end, which is not given a host.  `rejected` is a
spreadsheet that a check refuses, `raised` an error of one of the commands; `Die` is a kill.
`undisturbed` is history: whether another run changed anything of the hosts and
groups of a spreadsheet, under which no load promises anything.

Box, rank and actions go the way of appliance and rack; network, VLAN, channel
and options that of the address; notes are an attribute.  Names of groups have
several letters; adding a group is one step, so that no two rows of `groups`
have one name; hosts are named plainly, and not like an appliance.

## 3. The runs

| run | instance | shows |
|---|---|---|
| `tracker_server` | 3 hosts of two racks, 1 file, 1 peer per answer, lists of up to 3 entries, head may meet tail | `ReadyFirst`, `NotSentToItself`, `BestSourceFirst` |
| `tracker_list` | 2 hosts, 2 files, table of 3 slots growing to 5 | the table implements the queue (`ImplementsList`) and uses exactly the slots between tail and head, no hash twice (`WindowExact`) |
| `tracker_compaction` | every head, tail and set of used slots of a table of 5 | the loop returns (`CallReturns`), and computes the closed form (`LoopIsClosedForm`) |
| `avalanche` | 2 hosts, 1 file, 1 LOOKUP each, LOOKUPs duplicated, tracker restarted | `ReadyHasFile`, `NeverNotFound`; `RequestAnswered` |
| `avalanche_processes` | 2 hosts with 2 processes each, 2 files, kept predictions, a package server that may fail, so that a file is asked for again | `CheckedIsGood`, `NotOwnSource` |
| `insert_ethers` | 2 machines, 2 addresses, of which `--ipaddr` may name one, free or not; up to 3 hosts, `--rank` 1 or none | `MacOnce`, `AddressOnce`, `DoneMeansKickstarted` |
| `profile` | 3 installers, 2 processors, 1 repeated request, 2 transfers | the file implements a stock of permits (`PermitsImplemented`); `AtMostCPUs`, `PermitsAccounted`; `EveryLoaderEnds` |
| `node_graph` | 7 nodes; every subset of 8 framework tags and 6 order tags, with cycles and conditionals | `EdgesRespected` in each traversal, `TagsHeld` after the added edges, `OrderHonoured` and `Selected` in the list |
| `host_boot` | 2 hosts that share 1 address, 3 commands of which 2 at a time, 1 lost call; the plugins of `remove host` | `PluginsOrdered`, `OneRow`, `FilesMatch`, `NoUnaskedInstall`; `InstallEnds` |
| `run_host` | 3 hosts, limits 0, 1 and 2, with and without timeout and collation, every fate of every remote command, ^C | `ThreadsBounded`, `EveryHostEnded`; `CommandEnds` |
| `attributes` | 2 hosts of different appliances, 2 attributes, one of them intrinsic, 2 writers with 7 commands (one writer may be killed), 1 reader with or without privileges | `MissingOnlyMidway`, `LoadExact`; `ReadIsEffective`, `ReadInventsNothing` |
| `load_hostfile` | a frontend and 3 hosts, none or 2 of them there with interfaces and a group, 12 spreadsheets, 2 runs of which one may be killed | `HostsAsInSheet`, `NoSharedAddress`, `TwiceOnlyAtATime`, `FailsForAReason`; `OthersKept` |

`TypeOK`, `ReadyOnlyByRegister` and `DroppedIsNotReady` of `TrackerServer`,
`TypeOK` of `InsertEthers`, `BusyIsTrue` and `RowsBounded` are proved for all constants
(section 4) and are in no run.

Eight further configurations are not among the runs: TLC finds a
counterexample with each, where the code does something else than it says
(section 5).

| configuration (`tlc -config <it> <module>`) | violates | because |
|---|---|---|
| `MCTrackerServerUnregister.cfg`, `MCTrackerServer` | `UnregisterRemovesPeer` | UNREGISTER does not take off a host that is listed twice |
| `MCTrackerServerStarved.cfg`, `MCTrackerServer` | `OnlyRequestorLeftOut` | a requestor is not offered the peers behind its own entry |
| `MCTrackerRefinementLost.cfg`, `MCTrackerRefinement` | `MissMeansAbsent` | once head and tail have met, `getpeers` misses hashes |
| `MCAvalancheUnlink.cfg`, `MCAvalanche` | `OnlyEmptyRemoved` | a failed download removes a complete file |
| `MCInsertEthersRaise.cfg`, `MCInsertEthers` | `NeverRaises` | a kickstart request of an unknown client ends insert-ethers |
| `MCNodeOrderTail.cfg`, `MCNodeOrder` | `TailLast` | a node TAIL does not lead to may come after it |
| `MCHostBootRewrite.cfg`, `MCHostBoot` | `RewriteKeepsInstall` | rewriting the files without an action turns installing hosts to their disk |
| `MCRunHostDefault.cfg`, `MCRunHost` | `EndsByDefault` | there is no default timeout |

### Bounds, and why they are enough

* `MaxSize`, `GrowBy`, `InitSize`: 1024 slots become 3 that grow once, to 5.
  Every relative position of head, tail, free and used slots occurs, wrapped
  or not.  A second growth, whose `memcpy` may overlap itself, is outside.
* `MaxPeers`, `PeersPerPrediction`: answers of 1 peer and lists of 3 (2 and 4
  in the two counterexamples), so that a host behind the
  ones offered is listed twice, which needs another host of its rack before
  it; lists of 2 where order is not the question.
* `HeadMayMeetTail = FALSE` leaves out the steps after which head = tail; from
  them on the table is not a queue (`MissMeansAbsent`).  `tracker_server`
  goes through them.
* `MaxLookups` bounds the LOOKUPs of each process, and with them the requests
  that are not answered from the disk or from a prediction.
* `Disturbed` turns duplicated LOOKUPs and restarts of the tracker on; they
  multiply the states, and `avalanche` has them on the smaller instance.
* `MaxRank`, `MaxLog`: three hosts, one unread line in each log; with two
  machines and two addresses one is given away again, and `--ipaddr` meets it in
  use, free, or with an orphan row.  `--rank` 1 names a rank that is used or not.  Ranks stay
  below 10, where the maximum of a text column is the numeric one.
* The view of `avalanche_processes` leaves out `reply`, which the answer in
  `sent` repeats; its symmetry permutes the files.  The symmetry of `insert_ethers` permutes the machines.
* `CPUs = 2` and 3 clients: two may generate while the third is told to wait.
  `TRIES` and `RETRIES` are 50 and 60 in the code; 1 and 2 have each loop go
  round, and end.  They also bound how often a process can die.
* The tags of `node_graph`: `a` and `b` may be on a cycle of either graph, `b`
  is reached over edges that apply and edges that do not, one node is before
  HEAD and one after TAIL in every graph, order tags lead to nodes the
  framework leaves out, `d` has none, and tags may put TAIL before HEAD.  2^8
  framework graphs by 2^6 order graphs.
* `host_boot`: one address, so that it is given away again; one host has
  another interface without an address (`Bare`); two commands at a time beside
  the calls of both machines.  `MaxLost` = 1 call is lost: with none left to
  lose, an installation ends.
* `run_host`: limits below the number of hosts, and none; three hosts, so that
  the loop passes over one of two that have ended.  Times are not counted.
* `attributes`: each level occurs in a command or in the first contents, two
  commands set one attribute of one host, which a load clears and sets, too, the
  spreadsheet has a default row
  above and one below the row it fills.  A process runs one command.
* `load_hostfile`: spreadsheets that add hosts, change them, swap the addresses
  of two, have several interfaces and groups, name another frontend, and one
  for every check that can reject.  Two runs are enough for one to change what
  the other has read, and one that was killed or failed for the next to mend.
  One of the first tables has lost the host with the highest id, so that the
  next one is not the number of hosts.

Deadlock is checked in the tracker, client, insert-ethers and `host_boot` runs,
where requests, log lines or machines can always come.  The other systems stop:
every installer has ended (`profile`), the command is done (`node_graph`,
`run_host`), every process has run its command (`attributes`), both
loads have ended (`load_hostfile`).

### Fairness

`FairSpec` of `Avalanche` assumes that each client process keeps running:
`curl_easy_perform` returns, `select` times out after two seconds, and the
file system answers.  Nothing makes a datagram arrive, the tracker act or a
host finish.  (`CURLOPT_CONNECTTIMEOUT` bounds the connection only; a peer
that stops sending in the middle of a file stalls a request for good, which
the assumption excludes.)  `TrackerCompaction` assumes that a loop that is
running goes on.

`ProfileServer`: weak fairness of each process, whose step waits for the flock
only; no fairness of dying or being denied.  A process that waits for the lock
needs no strong fairness here, since the lock is taken a bounded number of
times by the others.  `NodeOrder`: one process that nothing holds up.
`HostBoot`: a command that runs goes on, a machine that is down is switched on,
one that installs calls, or its call is lost; no fairness of people.  `RunHost`:
the main thread and each thread go on; a remote command that ends does, and
a timeout comes, but nothing makes a `waits` one end.  `Attributes` and
`HostFile` have no liveness property, and no fairness.

## 4. What is proved

`TrackerServer_proofs`, for any finite set of hosts, any files, any table
size, growth and answer length, and any coop groups unless stated:

* `TypeCorrect`: `Spec => []TypeOK`.  The point is that head and tail stay
  inside a table whose every slot is an entry, through `newentry` (wrap and
  growth), `compact_hash_table` and `reclaim_free_entries`, including when
  head and tail meet.  One lemma per table operation says it maps tables to
  tables, with bounds on `Below`, `Span` and the runs of free slots; `NextType`
  combines them, action by action.
* `ReadyFirstCorrect`: `Spec => []ReadyFirst`, if all hosts have a coop group
  or none has (`CoopsAlike`).  Without that `timestamp_compare` is not an
  order.  `ReadyFirst` is not inductive slot by slot without types; the
  strengthening says that the peer lists of all slots belong to a set that is
  closed under everything the tracker does to a list (`Closed`): appending a
  DOWNLOADING peer, marking the first entry of a host, removing it, sorting.
  `EntriesClosed` lifts a closed set of lists to the table once and for all,
  so that `TypeCorrect` and this theorem share one case analysis.  Sorting is
  the hard case: the first READY entry of a host must stay before its others,
  which follows as `Before` puts READY before DOWNLOADING for equal hosts
  (`ReadyFirstShuffled`).
* `ReadyByRegister`: `Spec => ReadyOnlyByRegister`.  Each step but REGISTER
  is traced (`NoNewReady`, `ReadyTraced`, `LookupTraced`): a READY entry after
  it was one before, in some slot with the same hash, although slots are moved,
  cleared and sorted.
* `NotSentToItselfCorrect`: `Spec => []NotSentToItself`.  What is offered to a
  host is the list up to its own entry (`RequestorLeftOut`), for the file asked
  for and for every predicted one (`LookupAnswer`); no other step writes an
  answer.
* `BestSourceFirstCorrect`: `Spec => []BestSourceFirst`, under `CoopsAlike`.
  Sorting puts an entry first that no other is to come before
  (`SortedFirst`), and the first that is offered is that one unless it is the
  requestor's (`OfferedFirst`).
* `WindowExactCorrect`: `Spec => []WindowExact`, under `HeadMayMeetTail =
  FALSE`.  The invariant is `Exact` of the table and its type.  `Geometry` says
  once what going down from the head to the tail is, wrapped or not, so that
  slots become distances; `CompactedEntries` numbers the entries that are left
  and says where each comes to lie, `Reclaimed` what is left of the window when
  the head and the tail have moved over free slots, and `NewEntry` what
  wrapping and growing do to distances.  In between, removing a host makes
  holes in the window, and `Sparse` is what still holds.
* `DroppedNotReady`: `Spec => DroppedIsNotReady`, under both conditions:
  removing one entry is enough, as only the first is READY and the hash has one
  slot.  Where head and tail may meet it is not: TLC finds that in the instance
  of `tracker_server`.
* `TableImplementsList`: `Spec => ImplementsList`, under `HeadMayMeetTail =
  FALSE`, from `Exact` and `Peopled` (an entry in use has a peer).  The queue is
  the window read from its far end (`QueueOfWindow`).  `RefinedStep` goes
  through the requests: a known hash is found where the queue has it
  (`QueuedIsFound`), and the slots answered with it are the next ones of the
  queue (`AnsweredWindow`, where counting up from a slot and counting down from
  the head have to meet); a new one is appended (`NewQueued`); what is left
  after compacting and reclaiming is the queue without the hashes that lost
  their peers (`CompactedQueued`).  `Filtered` is a recursive function over
  positions; what it gives is proved from `FilteredSteps` by an induction on
  sets of numbers (`SetInduction`) that needs no operator parameter.
* `CompactionLoop`: `LoopSpec => []LoopIsClosedForm` of `TrackerCompaction`, for
  any size of table.  `Sliding` says what the indices
  have done with: the entries in use above `allocated_index` fill the slots
  above `free_index` in their order, the slots between are free, and the rest is
  as it was.  Head and tail may be equal here and the tail may be in use, which
  is why it has its own geometry (`Round`).

`Avalanche_proofs`, for any hosts, files and processes per host:

* `TypeCorrect`, `ListedFilesAreIntact` (`CheckedIsGood`) and `NobodyAsksItself`
  (`NotOwnSource`), from one invariant `Inv`.  It says of every datagram ever
  sent what an answer may hold (`LeavesOut`), since any of them may come at any
  time, of kept predictions the same, and of a job what its place in the code
  implies about its file and its sources (`JobOK`).
* `ReadySourcesDeliver` (`ReadyHasFile`) and `FilesAreFound` (`NeverNotFound`),
  for behaviours in which no process removes a complete file
  (`OnlyEmptyRemoved`, which the code does not keep with several processes:
  section 5).  `AnnouncedIsThere` says that whoever is about to announce a
  file, has sent a REGISTER for it, delivered or not, or is READY for it at the
  tracker, has it on its disk.
* `OneProcessRemovesNothing`, and with it `OneProcessReady` and
  `OneProcessFinds`: with one process on each host the condition holds, and so
  do both properties.

`InsertEthers_proofs`, for any machines and addresses and any bound on ranks
that the text comparison of `max(rank)` allows:

* `TypeCorrect`, `MacOnceCorrect` and `AddressOnceCorrect`, from one inductive
  invariant `Inv`.  `MacOnce` alone is not inductive: `discover()` looks at the
  tables, `add host` and `add host interface` write them later, and hosts are
  removed in between.  `Pending` says what carries over: until the interface is
  added the machine is in no row and the address is free unless `--ipaddr` named
  it, because insert-ethers is the only one that adds rows.  `AddressOnce` makes
  an exception for rows that were added with an address in use, as the code does
  not look at that of `--ipaddr`; all others it gives out stay apart from each
  other.  It also says that a row belongs to a host of
  the table or is an orphan, so that removing a host makes rows of that host
  orphans and no others.  `Bounded` keeps the ranks below the bound, so that a
  highest one exists (`GreatestExists`) and the next rank is a number.
* `DoneIsKickstarted`: `Spec => []DoneMeansKickstarted`.  While no host was
  removed, every line of the web server's log is of the machine that has the
  address (`LogIsTrue`), and a host ticked off is one whose machine got its file
  (`TickedOff`), if nobody else has its address (`Alone`): a request is looked up
  by its address, and one that two hosts share may tick off the other.
  `OneInterface` gives the host one machine.

`ProfileServer_proofs`, for any finite set of clients, any number of processors,
tries and retries:

* `PermitsCorrect`: `Spec => PermitsImplemented`, the refinement.  `SafeKept`
  is what it needs of the processes: the mutex belongs to exactly the process
  inside (`MutexInv`), and what that one has in `count` is one off what the
  file says (`CountInv`).  `StepSimulates` goes through the actions: a permit
  changes hands when the number is written; from the time the file is opened
  until then it is empty, which is why `Free` looks into the writer.
* `AtMostCPUsCorrect`, `PermitsAccountedCorrect`, `BusyIsTrueCorrect`: from the
  refinement, `Balance` bounds permits in stock, with holders and lost, and it
  is kept because every abstract step keeps it (`BalanceKept`).

`GraphIterator_proofs`, on `GraphIterator`, for any finite or infinite graph
whatever:

* `EdgesRespectedCorrect`: the finishing times satisfy every edge on no cycle.
  The strengthening is that of depth-first search: the open nodes are a chain
  that ends in `top`, each called by the one before (`Stack`); the children of
  a finished node are all seen (`ChildrenSeen`); a child that is still open
  when its parent finishes leads back to it, so that the edge is on a cycle.
* `ReachableOnlyCorrect`: what is seen at the end is what is reachable from the
  roots, stated with closed sets to do without induction over paths.

On `NodeOrder`, for any framework and order tags, any names and any order of
roots and children:

* `PassesRespectEdges`, the same in each of the four traversals, and
  `TagsHeldCorrect`: an edge added from HEAD leads out of the set of HEAD's
  unmarked nodes, one to TAIL out of the marked ones, so that the added edges
  close no cycle around an order tag (`HeadKept`, `TailKept`).
* `SelectedCorrect` and `OrderHonouredCorrect`, from `PassInv`: which graph each
  pass goes through, in terms of the order tags alone (`Shape`); that what is
  seen is led to from where the pass began, and its label is that of an edge
  from a seen node (`Marked`); what the first pass found (`FoundFrom`); that
  times are different (`FinishOnce`), and the list is what `Merge` made of the
  last pass (`Put`).  From times to files it is `MergedListed`: sorting,
  reversing and joining the lists of all places keeps whoever finished later in
  front (`SortedCorrect`, `ReverseSorted`, `Flattened`, `Joined`; the recursive
  functions of the library are unfolded by `UpTo`, an induction on the set of
  numbers for which the claim holds).  For the two ends, `AddedStraight` says
  the added edges are on no cycle, so that without a cycle of order tags the
  last pass orders every node (`AllOrdered`); then the first one of all that
  lead to a node (`FirstOne`) has an edge from HEAD unless it leads there
  (`BeforeHead`), and the last one of all that it leads to an edge to TAIL
  (`AfterTail`).

  `EndsPlaced`, the second half of `OrderHonoured`, had a wider claim at first:
  that whatever TAIL's successors do not follow comes before TAIL.  It could not
  be proved, and TLC showed why once an instance had the tag: where tags put
  TAIL before HEAD, the edge from HEAD to a root makes that root a successor of
  TAIL.  The case is now excluded, by `~ Leads(orders, TAIL, HEAD)` and `m #
  HEAD`, and the instance has it.

On `PluginOrder`, `PluginsOrderedCorrect` (`PluginsOrdered`): in the order of
finishing times, plugins run after what they require and before what they
precede, those that require TAIL last.  `Late` is what it takes for TAIL: what
finishes between the two ends of an edge whose child is the later one is led to
by that child.

On `HostBoot`, for any hosts, addresses and processes, any number of commands
and of lost calls, and crashes anywhere:

* `HostTypeCorrect`, from `StepsOK`: each command is at a step it has, with the
  hosts, plugins and address that go with it.
* `OneRowCorrect` (`OneRow`) and `FilesMatchCorrect` (`FilesMatch`), from
  `OneWorker` and `HostsKept`.  Neither property is inductive: a row is tested
  before it is written, and a file is written from what was read steps before.
  `HostsKept` says of each host what the one command that works on it has read,
  and what is left of its row, its files and its interfaces at that step.  That
  `remove host` leaves no row and no file depends on the order of its plugins,
  and `RemovalOrder` is where `PluginsOrdered` is needed: `boot` before
  `interface`, and `host`, which requires TAIL, after both.
* `NoUnaskedInstallCorrect` (`NoUnaskedInstall`), from `CallsOK` (a call under
  way is that of a machine that waits for it) and `Undisturbed` (as long as
  nobody works on a host while it is removed, a machine that nobody asked to
  install has no file that installs it, and no command has read one for it).

Two assumptions are about the plugins.  `PluginsOrderable` says that every set
of plugins without TAIL has a member that no edge leads to from within the set,
so that the only cycles are through TAIL, and that TAIL leads to no plugin but
those that require it.  `RemoveHostPlugins` says what those of `remove host`
require of each other.  The repository has plugins in 18 directories, and all
meet the first; only those of `remove host` and `remove appliance` name TAIL.

On `RunHost`, in the same module, for any finite set of hosts and any limits:
`ThreadsBoundedCorrect` and `EveryHostEndedCorrect`, from `RunCounted` (the two
counters are the sizes of the list of threads, and of what is left of the
work), through `Collect` with any part of the ended threads removed.

`Attributes_proofs`, for any targets, commands and processes:
`MissingOnlyMidwayCorrect` and `RowsBoundedCorrect`.  The former is about the
attributes no command removes for good (`Lasting`), under sets and loads, killed
or not: one that is missing has a process that removed it and owes it
(`Owes`).  The latter charges every
row of an attribute to one process (`Bounded`): a delete clears all rows and
charges the deleter, whose insert turns the charge into a row.
`LoadExactCorrect` (`LoadExact`): `LoadSoFar` says after every statement of a
load that an attribute it has cleared, and has nothing left to put of, has the
rows of the spreadsheet, as long as no other command wrote it.

On `AttributeReads`: `ReadsAreEffective` (`ReadIsEffective`) and
`ReadsInventNothing`, from `ReaderInv`: every row a reader has taken was in one of
the states it has seen, and if that was one state only it has all rows of it.

`HostFile_proofs`, for any set of spreadsheets of that form, any first tables
with the ids the database gives, and any number of runs:

* `HostFileInv`, from `BInv`.  It has the types; that ids are different and
  below the next one (`TablesOK`), so that the row a run has inserted stays the
  one it meant; and, in `JobOK`, what the checks before a place in the code
  have established of the spreadsheet there.
* `OthersKeptCorrect` (`OthersKept`): each step of a run works on one host of its
  spreadsheet (`Works`), and does nothing to what other hosts have.
* `HostFileWork`: `WorkInv`, an account of a load that no other run disturbed, at
  each step.  A host it has not come to has what it had when the load looked
  (`NotYet`), and one it has passed has what the spreadsheet gives it
  (`Applied`).  Of a host's interfaces, none are there until its first line is
  put (`Awaited`); then those of the lines that are done are, and of the
  line in work what the statements so far make of it (`Begun`, `Partial`).
  A load that failed has a reason that is still to be seen (`Reason`).  TLC
  checked `BInv` and `WorkInv` on the instance of `load_hostfile` first.  The
  proof has a lemma for what a command does to the tables and one for what
  that makes of the account; `SameView` says that others matter to a load only
  through the hosts and groups of its spreadsheet.
* `TwiceOnlyAtATimeCorrect` (`TwiceOnlyAtATime`), from `WorkInv`, in tables
  that have each name once to begin with (`OnceInitially`): a row is inserted
  only while an undisturbed load has found none.
* `HostsAsInSheetCorrect`, `NoSharedAddressCorrect` and
  `FailsForAReasonCorrect` follow: once the load is done the account says that
  each interface is one line's, and the checks before the first command that no
  two lines have one address.

The assumption on the first tables, `InitialAssumption`, is what MySQL keeps
while it runs: ids are different, and below the next one that `auto_increment`
gives.  An engine that forgets the highest id at a restart could give the id of a
removed host to a new one; where rows of the removed one are left behind, as
`remove host` can leave them, that is outside the model.

The proofs rest on the named assumptions of the modules (`PeersAssumption`,
`TableAssumption`, `ServerAssumption`, `InsertEthersAssumption`,
`ProfileAssumption`, `GraphAssumption`, `OrderAssumption`, `RunHostAssumption`,
`AttributesAssumption`, `CommandsAssumption`, `AvalancheAssumption`,
`HostAssumption`, `PluginsOrderable`, `RemoveHostPlugins`,
`HostFileAssumption`, `InitialAssumption`), which TLC evaluates in every run of
a module that extends them, and on the theorems of the library modules.

Conditions in a theorem are stated in it.  `OnceInitially` is one on the first
tables: with a name in them twice, it stays so.  `CoopsAlike` is needed because
`timestamp_compare` is no order without it, `HeadMayMeetTail = FALSE` because the
table is no queue once they have met (`MCTrackerRefinementLost.cfg`), and
`OnlyEmptyRemoved` because of `getremote` (`MCAvalancheUnlink.cfg`).

Only model-checked: liveness (`CallReturns`, `RequestAnswered`,
`EveryLoaderEnds`, `InstallEnds`, `CommandEnds`), which is out of the prover's
reach.

## 5. What the models say about the code

`PROJECT.json` has these under "findings", with the lines and what they are
at odds with.  Those with a configuration of section 3 have a counterexample.

* `removepeer` takes one entry of a host that may be listed twice
  (`MCTrackerServerUnregister`).
* `prep_peers` stops at the requestor's own entry instead of skipping it
  (`MCTrackerServerStarved`).
* Head and tail of the hash table may meet: `newentry` wraps the head after it
  tested for growth, and `reclaim_free_entries` moves a head of 0 onto the
  tail when the table is empty (`MCTrackerRefinementLost`).
* `getremote` unlinks the final name after a failed download, whoever put the
  file there (`MCAvalancheUnlink`).  The host is READY for the file all the
  same, answers 404, and is UNREGISTERed by others.
* `listenKs` raises `TypeError` for an unknown client before it can warn of it
  (`MCInsertEthersRaise`).  `ValueError` for a malformed line and `IPError`
  when addresses run out end the program likewise; the latter is in the model.
* `set host boot` without an action passes the word `None` on and writes the
  file of the run action for hosts that have to install (`MCHostBootRewrite`).
* `remove host boot` returns at the first interface without an address, and
  leaves the files of that host and the remaining ones.
* The edges for TAIL do not keep it behind a node that has successors
  (`MCNodeOrderTail`).
* `run host` has no timeout unless told, where its help says 30 seconds
  (`MCRunHostDefault`); without a limit of threads it never sleeps; and with
  collation a host without output loses everybody's.
* `remove environment attr` compares where it should assign, so that no
  environment attribute can be removed or set.
* `list attr` tests the wrong way round, so that adding a global attribute
  overwrites it, and its query without shadow values is a syntax error.
* `load attrfile` puts the host of the last row only into its environment.
* `load hostfile` removes no group, since it goes over the letters of their
  names, and therefore refuses a spreadsheet with groups the second time; it
  drops hosts of another frontend from one of its two dictionaries only, and
  fails on the other; and it tests the built-in `file` for a missing parameter.
* `add host` takes rack and rank from a name whose first part is no appliance.

Seen while modelling, with no word in the repository to the contrary:
insert-ethers gives a host the address of `--ipaddr` though another has it, so
that both ask for kickstart files from it;
`grow_hash_table` copies with an overlapping `memcpy` when more entries are
above the tail than the table grows by; `grow_dt_table` clears from the wrong
offset; messages with several hashes index `info[i]` although entries have no
fixed length; `unregister_hash` keeps an index over a compaction; retries of a
DOWNLOADING peer cannot succeed; `max(rank)` compares text, so that
insert-ethers proposes a name that exists from rank 10 on; its defaults for
cabinet and rank read each other's attribute; a second insert-ethers that is
refused removes the lock of the first; a permit of a process that dies is never
given back, and one that dies while it writes fills the stock up; a node file
reached over an edge that applies and one that does not is in the profile or
not by the order of the files in a directory; a reader of attributes may see a
mixture of tables no moment had.

## 6. Plan

Done: the tracker with its refinement, compaction and first proofs; the
clients; insert-ethers; the profile server; graphs, node order and plugins;
booting; `run host`; attributes; `load hostfile`; the proofs of both refinements
and of all safety properties the runs check.
Next, in this order:

1. `TrackerTable`: the loop of `reclaim_free_entries` against its closed form,
   and a `DownloadTable` for the array behind `stamps`.
2. The cache of `DatabaseConnection` in `AttributeReads`: a process that reads,
   writes and reads again.
3. The rest of `remove host`, and `swap host`, in `HostBoot`.
4. Pallets, boxes and carts: what is enabled where, and removal meanwhile.
