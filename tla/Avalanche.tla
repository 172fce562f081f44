------------------------------ MODULE Avalanche -----------------------------
(***************************************************************************)
(* The installing hosts and the tracker together.  On every host a web     *)
(* server hands the installer's requests for /install files to one of      *)
(* several tracker-client processes                                        *)
(* (src/src/stack/tracker/tracker-client.c), which asks the tracker for    *)
(* peers, downloads the file from one of them or from a package server,    *)
(* keeps it and announces it.  When its installation ends a host sends     *)
(* PEER_DONE and reboots (src/src/stack/tracker/peer-done.c).              *)
(*                                                                         *)
(* Datagrams are never taken out of `sent': one that is not delivered is   *)
(* lost, one that is delivered twice was duplicated, and they come in any  *)
(* order.  The tracker is the queue of TrackerList, which TrackerServer    *)
(* implements.                                                             *)
(***************************************************************************)
EXTENDS TrackerPeers

CONSTANTS
    Files,             \* the files under /install
    Checked,           \* those with an entry in packages.md5
    Workers,           \* the tracker-client processes of a host
    PkgServers,        \* how many package servers there are
    LastServerHolds,   \* the last package server delivers, intact
    PREDICTIONS,
    Disturbed,         \* explore duplicated LOOKUPs and restarts of the tracker
    MaxPeers,          \* bound: no list of the tracker gets longer than this
    MaxLookups         \* bound: process w of p takes no request that needs a
                       \* LOOKUP once it sent MaxLookups[p][w] of them

ASSUME AvalancheAssumption ==
    /\ Checked \subseteq Files
    /\ PkgServers \in Nat \ {0}
    /\ PREDICTIONS \in Nat
    /\ LastServerHolds \in BOOLEAN
    /\ Disturbed \in BOOLEAN

VARIABLES
    queue, peers, stamps, reply,  \* the tracker
    sent,         \* the datagrams sent so far
    disk,         \* disk[p][f]: what p has under the name of f
    finished,     \* the hosts that ended their installation
    job,          \* job[p][w]: the request process w of host p works on
    seqno,        \* static seqno of client.c, of each process
    predictions   \* what each process kept of the tracker's last prediction

tracker == <<queue, peers, stamps, reply>>
vars == <<tracker, sent, disk, finished, job, seqno, predictions>>

Tracker == INSTANCE TrackerList WITH Hashes <- Files

None == "none"
Content == {"good", "bad"}

(* outcome: the HTTP status of the last request, None before the first. *)
Job == [pc : {"idle", "local", "waiting", "trying", "downloading", "renaming",
              "output", "announcing"},
        file : Files \cup {None}, left : Seq(PeerInfo), pkg : 0..PkgServers,
        tmp : Content \cup {None}, outcome : {None, "200", "404"}]

Datagram ==
    [op : {"LOOKUP"}, from : Peers, worker : Workers, seqno : Nat, hash : Files]
    \cup [op : {"ANSWER"}, from : Peers, worker : Workers, seqno : Nat, hash : Files,
          peers : Seq(PeerInfo),
          predicted : SUBSET [hash : Files, peers : Seq(PeerInfo)]]
    \cup [op : {"REGISTER", "UNREGISTER"}, peer : Peers, hash : Files]
    \cup [op : {"PEER_DONE"}, peer : Peers]

TypeOK ==
    /\ sent \subseteq Datagram
    /\ disk \in [Peers -> [Files -> Content \cup {None}]]
    /\ finished \subseteq Peers
    /\ job \in [Peers -> [Workers -> Job]]
    /\ seqno \in [Peers -> [Workers -> Nat]]
    /\ predictions \in [Peers -> [Workers -> SUBSET [hash : Files, peers : Seq(PeerInfo)]]]

Idle == [pc |-> "idle", file |-> None, left |-> <<>>, pkg |-> 0, tmp |-> None,
         outcome |-> None]

Init ==
    /\ Tracker!Init
    /\ sent = {}
    /\ disk = [p \in Peers |-> [f \in Files |-> None]]
    /\ finished = {}
    /\ job = [p \in Peers |-> [w \in Workers |-> Idle]]
    /\ seqno = [p \in Peers |-> [w \in Workers |-> 0]]
    /\ predictions = [p \in Peers |-> [w \in Workers |-> {}]]

-----------------------------------------------------------------------------
(* Helpers of the client steps: the job of one process goes on as `next'. *)
Continue(p, w, next) == job' = [job EXCEPT ![p][w] = next]

At(p, w, pc) == job[p][w].pc = pc

Has(p, f) == disk[p][f] # None

Answered(p, w, outcome) == Continue(p, w, [Idle EXCEPT !.outcome = outcome])

Send(m) == sent' = sent \cup {m}

Predicted(p, w, f) == {e \in predictions[p][w] : e.hash = f}

(* trackfile: a prediction for f spares the LOOKUP, even an old one. *)
Track(p, w, f) ==
    LET known == Predicted(p, w, f)
        start == [Idle EXCEPT !.file = f, !.outcome = job[p][w].outcome] IN
    IF known # {}
    THEN /\ \E e \in known : Continue(p, w, [start EXCEPT !.pc = "trying", !.left = e.peers])
         /\ UNCHANGED <<sent, seqno>>
    ELSE /\ Continue(p, w, [start EXCEPT !.pc = "waiting"])
         /\ Send([op |-> "LOOKUP", from |-> p, worker |-> w,
                  seqno |-> seqno[p][w], hash |-> f])
         /\ seqno' = [seqno EXCEPT ![p][w] = @ + 1]

(* doit: a request of the installer on p, handed to the idle process w. *)
Request(p, w, f) ==
    /\ p \notin finished
    /\ At(p, w, "idle")
    /\ seqno[p][w] < MaxLookups[p][w] \/ Predicted(p, w, f) # {}
    /\ IF Has(p, f)
       THEN /\ Continue(p, w, [Idle EXCEPT !.pc = "local", !.file = f,
                                            !.outcome = job[p][w].outcome])
            /\ UNCHANGED <<sent, seqno>>
       ELSE Track(p, w, f)
    /\ UNCHANGED <<tracker, disk, finished, predictions>>

(* getlocal after its stat(): the file may be gone by now. *)
ServeLocal(p, w) ==
    /\ At(p, w, "local")
    /\ IF Has(p, job[p][w].file)
       THEN Answered(p, w, "200") /\ UNCHANGED <<sent, seqno>>
       ELSE Track(p, w, job[p][w].file)
    /\ UNCHANGED <<tracker, disk, finished, predictions>>

(* lookup: an answer with another seqno is dropped. *)
Receive(p, w) ==
    /\ At(p, w, "waiting")
    /\ \E m \in sent :
          /\ m.op = "ANSWER" /\ m.from = p /\ m.worker = w
          /\ m.seqno = seqno[p][w] - 1
          /\ Continue(p, w, [job[p][w] EXCEPT !.pc = "trying", !.left = m.peers])
          /\ predictions' = IF m.predicted = {} THEN predictions
                            ELSE [predictions EXCEPT ![p][w] = m.predicted]
    /\ UNCHANGED <<tracker, sent, disk, finished, seqno>>

(* lookup: no answer within two seconds. *)
Timeout(p, w) ==
    /\ At(p, w, "waiting")
    /\ Continue(p, w, [job[p][w] EXCEPT !.pc = "trying"])
    /\ UNCHANGED <<tracker, sent, disk, finished, seqno, predictions>>

-----------------------------------------------------------------------------
(* getremote.  While there are peers left the first of them is the source;
   then the package servers are, one after the other. *)
FromPeer(j) == j.left # <<>>

Source(j) == IF Head(j.left).ip \in finished THEN None ELSE disk[Head(j.left).ip][j.file]

LastServer(j) == ~ FromPeer(j) /\ j.pkg = PkgServers

(* A slip of the loop over the package servers: it ends before the last. *)
ConnectSkippingLast(p, w) ==
    LET j == job[p][w] IN
    /\ At(p, w, "trying")
    /\ IF FromPeer(j)
       THEN Continue(p, w, [j EXCEPT !.pc = "downloading", !.tmp = Source(j)])
       ELSE IF j.pkg + 1 < PkgServers
       THEN Continue(p, w, [j EXCEPT !.pc = "downloading", !.tmp = "good", !.pkg = @ + 1])
       ELSE Answered(p, w, "404")
    /\ UNCHANGED <<tracker, sent, disk, finished, seqno, predictions>>

(* The source opens the file, or has none to open. *)
Connect(p, w) ==
    LET j == job[p][w] IN
    /\ At(p, w, "trying")
    /\ IF FromPeer(j)
       THEN Continue(p, w, [j EXCEPT !.pc = "downloading", !.tmp = Source(j)])
       ELSE IF j.pkg < PkgServers
       THEN Continue(p, w, [j EXCEPT !.pc = "downloading", !.tmp = "good", !.pkg = @ + 1])
       ELSE Answered(p, w, "404")
    /\ UNCHANGED <<tracker, sent, disk, finished, seqno, predictions>>

(* A slip: the file is kept before check_md5 has looked at it. *)
DownloadedUnchecked(p, w) ==
    LET j == job[p][w] IN
    /\ At(p, w, "downloading")
    /\ j.tmp # None
    /\ \E c \in {j.tmp, "bad"} :
          /\ c = "bad" => ~ (LastServer(j) /\ LastServerHolds)
          /\ Continue(p, w, [j EXCEPT !.pc = "renaming", !.tmp = c])
    /\ UNCHANGED <<tracker, sent, disk, finished, seqno, predictions>>

(* The file arrived in the temporary file, perhaps corrupt; check_md5 finds
   that out if packages.md5 lists the file. *)
Downloaded(p, w) ==
    LET j == job[p][w] IN
    /\ At(p, w, "downloading")
    /\ j.tmp # None
    /\ \E c \in {j.tmp, "bad"} :
          /\ c = "bad" => j.file \notin Checked /\ ~ (LastServer(j) /\ LastServerHolds)
          /\ Continue(p, w, [j EXCEPT !.pc = "renaming", !.tmp = c])
    /\ UNCHANGED <<tracker, sent, disk, finished, seqno, predictions>>

(* A slip: register_hash called for the peer that failed. *)
NextSourceSwapped(p, w) ==
    LET j == job[p][w] IN
    IF FromPeer(j)
    THEN /\ Send([op |-> "REGISTER", peer |-> Head(j.left).ip, hash |-> j.file])
         /\ Continue(p, w, [j EXCEPT !.pc = "trying", !.tmp = None, !.left = Tail(@)])
    ELSE /\ UNCHANGED sent
         /\ Continue(p, w, [j EXCEPT !.pc = "trying", !.tmp = None])

(* trackfile: the source failed.  A peer is taken off the file. *)
NextSource(p, w) ==
    LET j == job[p][w] IN
    IF FromPeer(j)
    THEN /\ Send([op |-> "UNREGISTER", peer |-> Head(j.left).ip, hash |-> j.file])
         /\ Continue(p, w, [j EXCEPT !.pc = "trying", !.tmp = None, !.left = Tail(@)])
    ELSE /\ UNCHANGED sent
         /\ Continue(p, w, [j EXCEPT !.pc = "trying", !.tmp = None])

(* A slip: a peer that is DOWNLOADING is tried again without an end. *)
FailedForever(p, w) ==
    LET j == job[p][w] IN
    /\ At(p, w, "downloading")
    /\ ~ (LastServer(j) /\ LastServerHolds)
    /\ IF FromPeer(j) /\ Head(j.left).state = DOWNLOADING
       THEN Continue(p, w, [j EXCEPT !.pc = "trying"]) /\ UNCHANGED <<disk, sent>>
       ELSE /\ disk' = [disk EXCEPT ![p][j.file] = None]
            /\ NextSource(p, w)
    /\ UNCHANGED <<tracker, finished, seqno, predictions>>

(* No connection, a broken one, 404 or a wrong checksum.  The code tries a
   peer that was DOWNLOADING twice more, to no avail: `status' stays
   HTTP_NOT_FOUND, for doheaders() sets it only while it is a success.
   What is under the name of the file goes, whoever put it there. *)
Failed(p, w) ==
    /\ At(p, w, "downloading")
    /\ ~ (LastServer(job[p][w]) /\ LastServerHolds)
    /\ disk' = [disk EXCEPT ![p][job[p][w].file] = None]
    /\ NextSource(p, w)
    /\ UNCHANGED <<tracker, finished, seqno, predictions>>

Rename(p, w) ==
    /\ At(p, w, "renaming")
    /\ disk' = [disk EXCEPT ![p][job[p][w].file] = job[p][w].tmp]
    /\ Continue(p, w, [job[p][w] EXCEPT !.pc = "output", !.tmp = None])
    /\ UNCHANGED <<tracker, sent, finished, seqno, predictions>>

(* outputfile, after the rename: to fail here is to fail the source. *)
Output(p, w) ==
    /\ At(p, w, "output")
    /\ IF Has(p, job[p][w].file)
       THEN /\ Continue(p, w, [job[p][w] EXCEPT !.pc = "announcing"])
            /\ UNCHANGED sent
       ELSE NextSource(p, w)
    /\ UNCHANGED <<tracker, disk, finished, seqno, predictions>>

Announce(p, w) ==
    /\ At(p, w, "announcing")
    /\ Send([op |-> "REGISTER", peer |-> p, hash |-> job[p][w].file])
    /\ Answered(p, w, "200")
    /\ UNCHANGED <<tracker, disk, finished, seqno, predictions>>

(* The installer got an answer to every request and is done: peer-done, and
   the host reboots. *)
Finish(p) ==
    /\ p \notin finished
    /\ \A w \in Workers : At(p, w, "idle")
    /\ finished' = finished \cup {p}
    /\ Send([op |-> "PEER_DONE", peer |-> p])
    /\ UNCHANGED <<tracker, disk, job, seqno, predictions>>

-----------------------------------------------------------------------------
(* The tracker takes a datagram. *)
client == <<disk, finished, job, seqno, predictions>>

AnswerOf(m) ==
    {a \in sent : /\ a.op = "ANSWER" /\ a.from = m.from
                  /\ a.worker = m.worker /\ a.seqno = m.seqno}

HearLookup ==
    \E m \in sent :
        /\ m.op = "LOOKUP"
        /\ Disturbed \/ AnswerOf(m) = {}
        /\ Tracker!Lookup(m.from, m.hash)
        /\ Send([op |-> "ANSWER", from |-> m.from, worker |-> m.worker,
                 seqno |-> m.seqno, hash |-> m.hash,
                 peers |-> reply'.peers, predicted |-> reply'.predicted])
        /\ UNCHANGED client

HearRegister ==
    \E m \in sent : m.op = "REGISTER" /\ Tracker!Register(m.peer, m.hash)
                    /\ UNCHANGED <<client, sent>>

HearUnregister ==
    \E m \in sent : m.op = "UNREGISTER" /\ Tracker!Unregister(m.peer, m.hash)
                    /\ UNCHANGED <<client, sent>>

HearDone ==
    \E m \in sent : m.op = "PEER_DONE" /\ Tracker!PeerDone(m.peer)
                    /\ UNCHANGED <<client, sent>>

TrackerRestart == Disturbed /\ Tracker!Restart /\ UNCHANGED <<client, sent>>

(* What a process does on its own once it has a request. *)
Step(p, w) ==
    \/ ServeLocal(p, w) \/ Receive(p, w) \/ Timeout(p, w) \/ Connect(p, w)
    \/ Downloaded(p, w) \/ Failed(p, w) \/ Rename(p, w) \/ Output(p, w)
    \/ Announce(p, w)

Next ==
    \/ \E p \in Peers, w \in Workers : Step(p, w) \/ \E f \in Files : Request(p, w, f)
    \/ \E p \in Peers : Finish(p)
    \/ HearLookup \/ HearRegister \/ HearUnregister \/ HearDone \/ TrackerRestart

Spec == Init /\ [][Next]_vars

(* Processes keep running, curl_easy_perform() returns and select() times
   out; nothing makes a datagram arrive, a host install or the tracker act. *)
FairSpec == Spec /\ \A p \in Peers, w \in Workers : WF_vars(Step(p, w))

-----------------------------------------------------------------------------
(* check_md5: a file that packages.md5 lists is never on a disk under its
   own name with the wrong content, whichever sources, broken transfers and
   concurrent requests it came through. *)
CheckedIsGood ==
    \A p \in Peers, f \in Checked : disk[p][f] # "bad"

(* A host the tracker has as a READY source of a file can deliver it, as
   long as it is installing: REGISTER is sent after the rename, and datagrams
   that come late or twice, another LOOKUP of the host or an UNREGISTER by a
   third one do not make READY what is not on the disk. *)
ReadyHasFile ==
    \A f \in Files : \A k \in DOMAIN peers[f] :
        LET e == peers[f][k] IN
        e.state = READY => e.ip \in finished \/ Has(e.ip, f)

(* No process is ever about to download a file from its own host, where its
   web server would serve a file that is not there: answers of the tracker
   leave the requestor out, old answers and kept predictions included. *)
NotOwnSource ==
    \A p \in Peers, w \in Workers : \A k \in DOMAIN job[p][w].left :
        job[p][w].left[k].ip # p

(* client.c, init: the package servers are the ones that "always" have the
   package, so no request of the installer is answered 404 although every
   peer may fail. *)
NeverNotFound ==
    LastServerHolds =>
        \A p \in Peers, w \in Workers : job[p][w].outcome # "404"

(* getremote: what is unlinked on a failure is "a zero-byte length file ...
   left on the disk", never a file that is complete. *)
OnlyEmptyRemoved ==
    [][\A p \in Peers, f \in Files : Has(p, f) => disk'[p][f] # None]_vars

(* Every request of the installer is answered in the end, whatever the
   tracker and the peers do and whatever datagrams are lost. *)
RequestAnswered ==
    \A p \in Peers, w \in Workers : ~ At(p, w, "idle") ~> At(p, w, "idle")

=============================================================================
