------------------------------- MODULE RunHost ------------------------------
(***************************************************************************)
(* The command run host (run/host/imp_ssh.py): a thread for each host runs *)
(* ssh, at most numthreads at a time, while the main thread starts them,   *)
(* collects those that have ended, and prints what they left.              *)
(***************************************************************************)
EXTENDS Integers, FiniteSets

CONSTANTS
    Hosts,
    Limits,      \* values of the parameter threads; 0 is no limit
    Timeouts,    \* values of the parameter timeout; 0 is none
    Fates        \* what may become of a remote command

AllFates == {"ends",     \* it ends, and its output fits the pipe
             "waits",    \* it does not, or waits for somebody to read it
             "raises"}   \* ssh cannot be started, and the thread ends

ASSUME RunHostAssumption ==
    /\ IsFiniteSet(Hosts)
    /\ Limits \subseteq Nat /\ Timeouts \subseteq Nat /\ Fates \subseteq AllFates

VARIABLES
    numthreads, timeout, collate,    \* the parameters
    fate,
    place,          \* where the main thread is
    left,           \* the hosts no thread was started for
    threads,        \* the list of threads
    running, work,  \* its counters
    interrupted,    \* whether there was a ^C
    thread,         \* what each thread is doing
    output          \* what it left

params == <<numthreads, timeout, collate, fate>>
main == <<place, left, threads, running, work, interrupted>>
runVars == <<params, main, thread, output>>

DefaultTimeout == 0

RunTypeOK ==
    /\ numthreads \in Limits /\ timeout \in Timeouts /\ collate \in BOOLEAN
    /\ fate \in [Hosts -> Fates]
    /\ place \in {"fill", "collect", "sleep", "gather", "done", "raised"}
    /\ left \subseteq Hosts /\ threads \subseteq Hosts
    /\ running \in Int /\ work \in Nat
    /\ interrupted \in BOOLEAN
    /\ thread \in [Hosts -> {"none", "connecting", "waiting", "ended"}]
    /\ output \in [Hosts -> {"none", "down", "answer"}]

RunInit ==
    /\ numthreads \in Limits /\ timeout \in Timeouts /\ collate \in BOOLEAN
    /\ fate \in [Hosts -> Fates]
    /\ place = IF Hosts = {} THEN "gather" ELSE "fill"
    /\ left = Hosts /\ threads = {}
    /\ running = IF numthreads = 0 THEN -1 ELSE 0
    /\ work = Cardinality(Hosts)
    /\ interrupted = FALSE
    /\ thread = [h \in Hosts |-> "none"]
    /\ output = [h \in Hosts |-> "none"]
-----------------------------------------------------------------------------
(* A slip: one thread too many. *)
RoomForOneMore == running <= numthreads /\ left # {}

(* While there is room, and there are hosts. Without a limit nothing is *)
(* counted, and there is always room.                                   *)
Room == running < numthreads /\ left # {}

StartThread(h) ==
    /\ place = "fill" /\ Room /\ h \in left
    /\ left' = left \ {h}
    /\ threads' = threads \cup {h}
    /\ thread' = [thread EXCEPT ![h] = "connecting"]
    /\ running' = IF numthreads > 0 THEN running + 1 ELSE running
    /\ UNCHANGED <<params, place, work, interrupted, output>>

FillEnds ==
    /\ place = "fill" /\ ~ Room
    /\ place' = "collect"
    /\ UNCHANGED <<params, left, threads, running, work, interrupted, thread, output>>

EndedThreads == {h \in threads : thread[h] = "ended"}

(* A slip: it collects one, and counts all that have ended. *)
CollectMiscounted ==
    /\ place = "collect"
    /\ \E c \in SUBSET EndedThreads :
           /\ EndedThreads # {} => c # {}
           /\ threads' = threads \ c
           /\ running' = running - Cardinality(EndedThreads)
           /\ work' = IF work > Cardinality(EndedThreads) THEN work - Cardinality(EndedThreads) ELSE 0
    /\ place' = IF work' = 0 THEN "gather"
             ELSE IF running' < numthreads THEN "fill" ELSE "sleep"
    /\ UNCHANGED <<params, left, interrupted, thread, output>>

(* The list is changed by the loop that goes through it, which then passes  *)
(* over the next one: of the threads that have ended it takes some, the     *)
(* first of them always.                                                    *)
Collect ==
    /\ place = "collect"
    /\ \E c \in SUBSET EndedThreads :
           /\ EndedThreads # {} => c # {}
           /\ threads' = threads \ c
           /\ running' = running - Cardinality(c)
           /\ work' = work - Cardinality(c)
    /\ place' = IF running' < numthreads
             THEN IF work' = 0 THEN "gather" ELSE "fill"
             ELSE "sleep"
    /\ UNCHANGED <<params, left, interrupted, thread, output>>

Wake ==
    /\ place = "sleep"
    /\ place' = IF work = 0 THEN "gather" ELSE "fill"
    /\ UNCHANGED <<params, left, threads, running, work, interrupted, thread, output>>

(* ^C is caught while threads are collected, not while they are started. *)
Interrupt ==
    /\ place \in {"fill", "collect", "sleep"} /\ ~ interrupted
    /\ interrupted' = TRUE
    /\ IF place = "fill" THEN place' = "raised" /\ work' = work
                         ELSE place' = "gather" /\ work' = 0
    /\ UNCHANGED <<params, left, threads, running, thread, output>>

(* The output of a host whose thread left none cannot be split into lines. *)
Gather ==
    /\ place = "gather"
    /\ place' = IF collate /\ \E h \in Hosts \ left : output[h] = "none"
             THEN "raised" ELSE "done"
    /\ UNCHANGED <<params, left, threads, running, work, interrupted, thread, output>>

Main == (\E h \in Hosts : StartThread(h)) \/ FillEnds \/ Collect \/ Wake \/ Gather
-----------------------------------------------------------------------------
Leave(h, what) ==
    /\ thread' = [thread EXCEPT ![h] = "ended"]
    /\ output' = [output EXCEPT ![h] = what]
    /\ UNCHANGED <<params, main>>

(* A host that is down, or whose sshd does not answer within two seconds. *)
Down(h) == thread[h] = "connecting" /\ Leave(h, "down")

Popen(h) ==
    /\ thread[h] = "connecting"
    /\ thread' = [thread EXCEPT ![h] =
                     IF fate[h] = "raises" THEN "ended" ELSE "waiting"]
    /\ UNCHANGED <<params, main, output>>

(* The thread waits for ssh and reads its output then. A ^C reaches ssh, too. *)
Exits(h) ==
    /\ thread[h] = "waiting" /\ (fate[h] = "ends" \/ interrupted)
    /\ Leave(h, "answer")

(* A slip: ssh is not terminated but waited for. *)
TimeIsUpButWaits(h) ==
    thread[h] = "waiting" /\ timeout > 0 /\ fate[h] = "ends" /\ Leave(h, "answer")

TimeIsUp(h) == thread[h] = "waiting" /\ timeout > 0 /\ Leave(h, "answer")

Parallel(h) == Down(h) \/ Popen(h) \/ Exits(h) \/ TimeIsUp(h)

RunNext == Main \/ Interrupt \/ \E h \in Hosts : Parallel(h)

(* The main thread and the threads run; a remote command that ends does so *)
(* some time, and so does a timeout.                                       *)
Fair == WF_runVars(Main) /\ \A h \in Hosts : WF_runVars(Parallel(h))

RunSpec == RunInit /\ [][RunNext]_runVars /\ Fair
-----------------------------------------------------------------------------
Alive == {h \in Hosts : thread[h] \in {"connecting", "waiting"}}

(* No more connections are open at a time than the parameter threads says, *)
(* whichever ended threads the loop passes over (imp_ssh.py:84-127).       *)
ThreadsBounded == numthreads > 0 => Cardinality(Alive) <= numthreads

(* Unless it was interrupted, the command prints when every host's thread   *)
(* has ended, and not before (imp_ssh.py:82-150).                           *)
EveryHostEnded ==
    place \in {"gather", "done"} /\ ~ interrupted =>
        \A h \in Hosts : thread[h] = "ended"

(* With a timeout, or if every remote command ends with an output that fits *)
(* the pipe, the command comes to an end, interrupted or not.               *)
CommandEnds ==
    (timeout > 0 \/ \A h \in Hosts : fate[h] \in {"ends", "raises"})
        ~> place \in {"done", "raised"}

(* What is said of the timeout: it is 30 seconds if nothing is said, so     *)
(* that the command ends whatever the remote ones do                        *)
(* (run/host/__init__.py:132-136).                                          *)
EndsByDefault == timeout = DefaultTimeout ~> place \in {"done", "raised"}
=============================================================================
