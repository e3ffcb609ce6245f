-------------------------- MODULE GlobalFifoClients --------------------------
(***************************************************************************)
(* The test programs of globalfifo, run against the driver:                *)
(* ch8/globalfifo_poll.c selects for reading and for writing, for ever,    *)
(* ch8/globalfifo_epoll.c waits for bytes once, for at most 15 seconds,    *)
(* and ch9/globalfifo_test.c sleeps until SIGIO tells it of bytes.  They   *)
(* never read, so they depend on being told.  Other tasks read and write   *)
(* as they like.                                                           *)
(*                                                                         *)
(* epoll keeps its entries on the queues from EPOLL_CTL_ADD to the end and *)
(* asks the driver again when one is triggered: as a single call of poll.  *)
(***************************************************************************)
EXTENDS GlobalFifo

CONSTANTS Programs    \* Programs[p]: what p may run, "rw" for reads and writes

VARIABLES
    prog,      \* what each task runs
    at,        \* where it is between its calls
    unheard    \* the programs not yet told of bytes that came while they listened

clientVars == <<prog, at, unheard>>

ClientInit ==
    /\ Init
    /\ prog \in [Procs -> {"rw", "poll", "epoll", "test"}]
    /\ \A p \in Procs : prog[p] \in Programs[p]
    /\ at = [p \in Procs |-> "start"] /\ unheard = {}

Goto(p, from, to) == at[p] = from /\ at' = [at EXCEPT ![p] = to] /\ UNCHANGED <<prog, unheard>>

-----------------------------------------------------------------------------
(* The programs                                                            *)

\* Two of them open without, one with blocking.
OpenFifo(p) ==
    /\ prog[p] # "rw" /\ Open(p)
    /\ filp'[p] = IF prog[p] = "test" THEN "block" ELSE "nonblock"
    /\ Goto(p, "start", IF prog[p] = "test" THEN "fcntl" ELSE "clear")

\* Both programs that poll begin with FIFO_CLEAR.
Clear(p) == Enter(p) /\ op'[p] = "clear" /\ Goto(p, "clear", "wait")

\* globalfifo_poll.c goes round and round, ...
Select(p) == prog[p] = "poll" /\ Enter(p) /\ op'[p] = "select" /\ Goto(p, "wait", "wait")

\* ... globalfifo_epoll.c waits once and exits, ...
EpollWait(p) == prog[p] = "epoll" /\ Enter(p) /\ op'[p] = "pollin" /\ Goto(p, "wait", "exit")

\* ... and globalfifo_test.c asks for SIGIO and sleeps.
AskForSigio(p) == Fasync(p) /\ p \in async_queue' /\ Goto(p, "fcntl", "sleep")

\* A program exits, or is made to; its file is closed.
Exit(p) ==
    /\ prog[p] # "rw" /\ Release(p)
    /\ at[p] \in {"wait", "exit", "sleep"} /\ at' = [at EXCEPT ![p] = "start"]
    /\ unheard' = unheard \ {p} /\ UNCHANGED prog

Program(p) == OpenFifo(p) \/ Clear(p) \/ Select(p) \/ EpollWait(p) \/ AskForSigio(p) \/ Exit(p)

-----------------------------------------------------------------------------
(* The driver, and who hears of what it does                               *)

Listening == {p \in async_queue : prog[p] = "test"}

\* Bytes that come concern whoever listens; SIGIO tells them.
Tell(p) ==
    unheard' = IF WriteCommit(p) THEN unheard \cup Listening
               ELSE IF Sigio(p) THEN unheard \ async_queue ELSE unheard

Driver(p) == InCall(p) /\ Tell(p) /\ UNCHANGED <<prog, at>>

\* The rest: tasks that read and write as they like, signals, and time, which select
\* has no limit of here.
Elsewhere(p) ==
    /\ \/ prog[p] = "rw" /\ (Open(p) \/ Release(p))
       \/ prog[p] = "rw" /\ Enter(p) /\ op'[p] \in Transfers
       \/ Kill(p)
       \/ prog[p] # "poll" /\ PollTimeout(p)
    /\ UNCHANGED clientVars

ClientNext == \E p \in Procs : Driver(p) \/ Program(p) \/ Elsewhere(p)

allVars == <<vars, clientVars>>
ClientSpec == ClientInit /\ [][ClientNext]_allVars

\* As FairSpec, and the 15 seconds of epoll_wait pass however often the task
\* is triggered meanwhile: strong fairness.
Asks(p) == Acquires(p) /\ UNCHANGED clientVars
Fifteen(p) == prog[p] = "epoll" /\ PollTimeout(p) /\ UNCHANGED clientVars
FairClientSpec ==
    /\ ClientSpec
    /\ \A p \in Procs : /\ WF_allVars(Driver(p)) /\ SF_allVars(Asks(p))
                        /\ SF_allVars(Fifteen(p))

-----------------------------------------------------------------------------
(* Properties                                                              *)

\* A select for reading and writing never sleeps, since a buffer is never
\* both empty and full.
SelectAwake == \A p \in Procs : op[p] = "select" => pc[p] # "pollwait"

\* SIGIO is out before anyone can take the bytes it is about: the mutex of
\* the write is still held.
SigioInTime == unheard # {} => \E r \in Procs : op[r] = "write" /\ pc[r] \in {"wake", "sigio"}

\* Every program hears what it waits for: a select on both events returns,
\* epoll_wait returns within its time, and a listener gets SIGIO for bytes
\* that come while it listens, before anyone can take them.
ProgramsHear ==
    /\ [](SelectAwake /\ SigioInTime)
    /\ \A p \in Procs : op[p] = "select" ~> pc[p] = "idle"
    /\ \A p \in Procs : (prog[p] = "epoll" /\ op[p] = "pollin") ~> pc[p] = "idle"
    /\ \A p \in Procs : p \in unheard ~> p \notin unheard
=============================================================================
