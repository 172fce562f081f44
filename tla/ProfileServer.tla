---------------------------- MODULE ProfileServer ---------------------------
(***************************************************************************)
(* The frontend's profile.cgi (src/src/stack/kickstart/profile.py) and the *)
(* installers that ask it for their kickstart file (the patched loader of  *)
(* src/src/stack/images).  Every request runs a process of its own; a      *)
(* number in the file /var/tmp/profile.semaphore, read and written under   *)
(* a flock (src/src/stack/pylib/stack/lock.py), restricts how many of them *)
(* generate a profile at a time.  A process may raise an exception or be   *)
(* killed by the web server at any point: the kernel then takes the lock   *)
(* back, but nobody gives back the permit.                                 *)
(***************************************************************************)
EXTENDS Integers, FiniteSets

CONSTANTS
    Clients,   \* the installing machines: one request of each at a time
    NoOne,     \* the owner of a free mutex
    CPUs,      \* grep processor /proc/cpuinfo | wc -l, or 8
    TRIES,     \* 503 answers after which one more fails the transfer
    RETRIES    \* transfers after which the installer gives up

ASSUME ProfileAssumption ==
    /\ IsFiniteSet(Clients) /\ NoOne \notin Clients
    /\ CPUs \in Nat \ {0}
    /\ TRIES \in Nat
    /\ RETRIES \in Nat \ {0}

VARIABLES
    file,      \* the number in the semaphore file, or None
    mutex,     \* who holds the flock
    pc,        \* where the CGI process, or the installer, of each client is
    count,     \* the variable of that name, of each CGI process
    tries, retry,  \* the counters of the installer's two loops
    lost,      \* history: permits whose holder ended without giving it back
    resets     \* history: processes that died with the file opened for writing

loaders == <<tries, retry>>
vars == <<file, mutex, pc, count, loaders, lost, resets>>

None == -1     \* Semaphore.read() of a file that is missing or holds no number

(* "sleeping": the installer is about to send a request.  "busy" to        *)
(* "popwrite", "generating" and "pop" aside, are inside the mutex.         *)
Critical == {"busy", "pushopen", "pushwrite", "popopen", "popwrite"}
Holding == {"generating", "pop", "popopen", "popwrite"}
Running == Critical \cup Holding \cup {"pre"}
Ended == {"served", "failed"}

(* The type invariant. *)
TypeOK ==
    /\ file \in Nat \cup {None}
    /\ mutex \in Clients \cup {NoOne}
    /\ pc \in [Clients -> Running \cup Ended \cup {"sleeping"}]
    /\ count \in [Clients -> Nat]
    /\ tries \in [Clients -> 0..TRIES]
    /\ retry \in [Clients -> 0..RETRIES]
    /\ lost \in Nat /\ resets \in Nat

Init ==
    /\ file = None
    /\ mutex = NoOne
    /\ pc = [c \in Clients |-> "sleeping"]
    /\ count = [c \in Clients |-> 0]
    /\ tries = [c \in Clients |-> 0]
    /\ retry = [c \in Clients |-> 0]
    /\ lost = 0 /\ resets = 0

(* The count a process starts from: the first one finds no file. *)
Stock == IF file = None THEN CPUs ELSE file

GoTo(c, label) == pc' = [pc EXCEPT ![c] = label]

(* The transfer failed: the outer loop of the installer tries again. *)
TransferFails(c) ==
    /\ tries' = [tries EXCEPT ![c] = 0]
    /\ retry' = [retry EXCEPT ![c] = @ + 1]
    /\ GoTo(c, IF retry[c] + 1 < RETRIES THEN "sleeping" ELSE "failed")

(* HTTP code 503: the inner loop repeats the request up to TRIES times. *)
ServerBusy(c) ==
    IF tries[c] < TRIES
    THEN /\ tries' = [tries EXCEPT ![c] = @ + 1]
         /\ retry' = retry
         /\ GoTo(c, "sleeping")
    ELSE TransferFails(c)

Request(c) ==
    /\ pc[c] = "sleeping"
    /\ GoTo(c, "pre")
    /\ UNCHANGED <<file, mutex, count, loaders, lost, resets>>

(* pre() answers 401 to a request from an unprivileged port. *)
Deny(c) ==
    /\ pc[c] = "pre"
    /\ TransferFails(c)
    /\ UNCHANGED <<file, mutex, count, lost, resets>>

(* mutex.release(), or the end of the process; its count is dead then. *)
Unlock(c) ==
    /\ mutex' = IF mutex = c THEN NoOne ELSE mutex
    /\ count' = [count EXCEPT ![c] = 0]

(* A slip: the lock is asked for with LOCK_NB, and the refusal ignored. *)
PushNonblocking(c) ==
    /\ pc[c] = "pre" /\ Stock # 0
    /\ GoTo(c, "pushopen")
    /\ mutex' = c
    /\ count' = [count EXCEPT ![c] = Stock - 1]
    /\ UNCHANGED <<file, loaders, lost, resets>>

(* Acquire the mutex and read the count. *)
Push(c) ==
    /\ pc[c] = "pre" /\ mutex = NoOne
    /\ mutex' = c
    /\ IF Stock = 0
       THEN GoTo(c, "busy") /\ count' = count
       ELSE GoTo(c, "pushopen") /\ count' = [count EXCEPT ![c] = Stock - 1]
    /\ UNCHANGED <<file, loaders, lost, resets>>

(* A slip: the process goes on after it said that it is busy. *)
BusyGoesOn(c) ==
    /\ pc[c] = "busy"
    /\ Unlock(c)
    /\ GoTo(c, "generating")
    /\ UNCHANGED <<file, loaders, lost, resets>>

Busy(c) ==
    /\ pc[c] = "busy"
    /\ Unlock(c)
    /\ ServerBusy(c)
    /\ UNCHANGED <<file, lost, resets>>

(* open(path, 'w') leaves an empty file behind until the number is written. *)
Open(c) ==
    /\ pc[c] \in {"pushopen", "popopen"}
    /\ file' = None
    /\ GoTo(c, IF pc[c] = "pushopen" THEN "pushwrite" ELSE "popwrite")
    /\ UNCHANGED <<mutex, count, loaders, lost, resets>>

WritePush(c) ==
    /\ pc[c] = "pushwrite"
    /\ file' = count[c]
    /\ Unlock(c)
    /\ GoTo(c, "generating")
    /\ UNCHANGED <<loaders, lost, resets>>

(* The calls that store what the machine sent, and client.main(). *)
Generate(c) ==
    /\ pc[c] = "generating"
    /\ GoTo(c, "pop")
    /\ UNCHANGED <<file, mutex, count, loaders, lost, resets>>

(* The process ends and its output, if main() printed any, goes out. *)
Answer(c) ==
    \/ GoTo(c, "served") /\ UNCHANGED loaders
    \/ TransferFails(c)

(* A slip: the pop does not wait for the lock. *)
PopNonblocking(c) ==
    /\ pc[c] = "pop" /\ file # None
    /\ mutex' = c
    /\ count' = [count EXCEPT ![c] = file + 1]
    /\ GoTo(c, "popopen")
    /\ UNCHANGED <<file, loaders, lost, resets>>

(* Acquire the mutex and read the count again: None + 1 is a TypeError.    *)
Pop(c) ==
    /\ pc[c] = "pop" /\ mutex = NoOne
    /\ IF file = None
       THEN /\ Answer(c)
            /\ lost' = lost + 1
            /\ UNCHANGED <<mutex, count>>
       ELSE /\ mutex' = c
            /\ count' = [count EXCEPT ![c] = file + 1]
            /\ GoTo(c, "popopen")
            /\ UNCHANGED <<loaders, lost>>
    /\ UNCHANGED <<file, resets>>

WritePop(c) ==
    /\ pc[c] = "popwrite"
    /\ file' = count[c]
    /\ Unlock(c)
    /\ Answer(c)
    /\ UNCHANGED <<lost, resets>>

(* A slip: the lock is a file that outlives its owner. *)
DieLocked(c) ==
    /\ pc[c] \in Running
    /\ TransferFails(c)
    /\ lost' = IF pc[c] \in Holding THEN lost + 1 ELSE lost
    /\ resets' = IF pc[c] \in {"pushwrite", "popwrite"} THEN resets + 1 ELSE resets
    /\ UNCHANGED <<file, mutex, count>>

(* An exception, or the web server kills the process.  No handler gives the *)
(* permit back; the lock goes with the process.                             *)
Die(c) ==
    /\ pc[c] \in Running
    /\ TransferFails(c)
    /\ Unlock(c)
    /\ lost' = IF pc[c] \in Holding THEN lost + 1 ELSE lost
    /\ resets' = IF pc[c] \in {"pushwrite", "popwrite"} THEN resets + 1 ELSE resets
    /\ UNCHANGED file

Step(c) ==
    \/ Request(c) \/ Push(c) \/ Busy(c) \/ Open(c) \/ WritePush(c)
    \/ Generate(c) \/ Pop(c) \/ WritePop(c)

Next == \E c \in Clients : Step(c) \/ Deny(c) \/ Die(c)

(* Every process gets the processor, and the lock once it stays free. *)
Spec == Init /\ [][Next]_vars /\ \A c \in Clients : WF_vars(Step(c))
-----------------------------------------------------------------------------
Holders == {c \in Clients : pc[c] \in Holding}

(* The permits in stock, also while a process is rewriting the file. *)
Free ==
    IF mutex # NoOne /\ pc[mutex] = "pushwrite" THEN count[mutex] + 1
    ELSE IF mutex # NoOne /\ pc[mutex] = "popwrite" THEN count[mutex] - 1
    ELSE Stock

Abstract == INSTANCE Permits WITH free <- Free, holders <- Holders

(* The CGI processes together use the file as a stock of permits. *)
PermitsImplemented == Abstract!Spec

(* No more generators run at a time than there are processors, for every   *)
(* process that died while the file was open and empty once more than that *)
(* (profile.py:216-219).                                                   *)
AtMostCPUs == Cardinality(Holders) <= CPUs * (1 + resets)

(* While no process died with the file open, every permit is in stock,     *)
(* with a generator, or lost with one that died (profile.py:298-303): none *)
(* is counted twice, and none comes back.                                  *)
PermitsAccounted == resets = 0 => Free + Cardinality(Holders) + lost = CPUs

(* A client is told that the service is busy only while all permits that   *)
(* still exist are with generators (profile.py:231-239).                   *)
BusyIsTrue ==
    \A c \in Clients :
        pc[c] = "busy" /\ resets = 0 => Cardinality(Holders) + lost = CPUs

(* Every installer ends: with its kickstart file, or after its last retry. *)
(* No process waits for ever for the lock of one that died (lock.py:89).   *)
EveryLoaderEnds == \A c \in Clients : <>(pc[c] \in Ended)
=============================================================================
