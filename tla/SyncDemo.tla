------------------------------ MODULE SyncDemo ------------------------------
(***************************************************************************)
(* The demo of sleeping locks and RCU, 07.thread_sync/2.sync_semaphore:    *)
(* loading starts seven kernel threads, each in a loop over a semaphore, a *)
(* mutex, one side of a read-write semaphore or one side of RCU; unloading *)
(* stops them one after the other and frees what RCU protects.             *)
(*                                                                         *)
(* The first three threads are alone with their locks.                     *)
(***************************************************************************)
EXTENDS Naturals, Sequences

CONSTANTS
    Order,     \* the threads followed, in the order in which they are started
    Data,      \* the memory: the struct my_data that kmalloc can return
    None       \* NULL

VARIABLES
    mod,      \* where m_chr_init or m_chr_exit is
    next,     \* the thread it is at, by its place in Order
    thread,   \* where each thread is; "none" and "error" are pointers without one
    stop,     \* KTHREAD_SHOULD_STOP
    mem,      \* the objects allocated
    rcu_ptr,
    data,     \* what the reader has got from rcu_dereference
    grace     \* does synchronize_rcu of the writer wait for the reader?

rcu == <<mem, rcu_ptr, data, grace>>
vars == <<mod, next, thread, stop, rcu>>

Threads == {Order[i] : i \in DOMAIN Order}

\* kthread_run and kthread_stop go through the threads in this order.
Place == [semaphore |-> 1, binary |-> 2, mutex |-> 3, reader |-> 4, writer |-> 5,
          rcu_reader |-> 6, rcu_writer |-> 7]

\* What a run may choose: it may leave threads out.
OrderIsOrder ==
    /\ Order \in Seq(DOMAIN Place)
    /\ \A i, j \in DOMAIN Order : i < j => Place[Order[i]] < Place[Order[j]]
NoneIsNoData == None \notin Data

Init ==
    /\ mod = "register" /\ next = 1
    /\ thread = [t \in Threads |-> "none"] /\ stop = [t \in Threads |-> FALSE]
    /\ mem = {} /\ rcu_ptr = None /\ data = None /\ grace = FALSE

Load(from, to) == mod = from /\ mod' = to
Go(t, from, to) == thread[t] = from /\ thread' = [thread EXCEPT ![t] = to]
Holds(t) == t \in Threads /\ thread[t] = "hold"

-----------------------------------------------------------------------------
(* m_chr_init                                                              *)

\* Region, class, devices; the locks; the first object, if there is memory.
Register ==
    /\ Load("register", "run")
    /\ \/ \E d \in Data \ mem : rcu_ptr' = d /\ mem' = mem \cup {d}
       \/ UNCHANGED <<mem, rcu_ptr>>
    /\ UNCHANGED <<next, thread, stop, data, grace>>

\* kthread_run, whose result nobody looks at.
Run ==
    /\ mod = "run" /\ next <= Len(Order)
    /\ thread' \in {[thread EXCEPT ![Order[next]] = r] : r \in {"test", "error"}}
    /\ next' = next + 1
    /\ UNCHANGED <<mod, stop, rcu>>

Loaded ==
    /\ Load("run", "loaded") /\ next > Len(Order) /\ next' = 1
    /\ UNCHANGED <<thread, stop, rcu>>

-----------------------------------------------------------------------------
(* The threads: while (!kthread_should_stop())                             *)

Test(t, then) ==
    /\ Go(t, "test", IF stop[t] THEN "done" ELSE then)
    /\ UNCHANGED <<mod, next, stop, rcu>>

Down(t) == Go(t, "down", "hold") /\ UNCHANGED <<mod, next, stop, rcu>>
Up(t) == Go(t, "hold", "test") /\ UNCHANGED <<mod, next, stop, rcu>>

\* semaphore_thread, binary_semaphore_thread, mutex_thread: each is the only
\* user of its lock, which is always free.
Alone == Threads \cap {"semaphore", "binary", "mutex"}
AloneThread(t) == Test(t, "down") \/ Down(t) \/ Up(t)

DownRead == ~Holds("writer") /\ Down("reader")
DownWrite == ~Holds("reader") /\ Down("writer")
ReaderThread == "reader" \in Threads /\ (Test("reader", "down") \/ DownRead \/ Up("reader"))
WriterThread == "writer" \in Threads /\ (Test("writer", "down") \/ DownWrite \/ Up("writer"))

\* rcu_read_lock, rcu_dereference.
Dereference ==
    /\ IF stop["rcu_reader"]
       THEN Go("rcu_reader", "test", "done") /\ UNCHANGED data
       ELSE Go("rcu_reader", "test", "hold") /\ data' = rcu_ptr
    /\ UNCHANGED <<mod, next, stop, mem, rcu_ptr, grace>>

\* The value is read; rcu_read_unlock ends what synchronize_rcu waits for.
ReadUnlock ==
    /\ Go("rcu_reader", "hold", "test")
    /\ data' = None /\ grace' = FALSE
    /\ UNCHANGED <<mod, next, stop, mem, rcu_ptr>>

RcuReaderThread == "rcu_reader" \in Threads /\ (Dereference \/ ReadUnlock)

\* Variant: the old object is freed as soon as it has been replaced.
AssignFrees ==
    /\ \/ \E d \in Data \ mem :
              /\ Go("rcu_writer", "down", "hold")
              /\ mem' = (mem \ {rcu_ptr}) \cup {d} /\ rcu_ptr' = d
              /\ grace' = Holds("rcu_reader")
       \/ Go("rcu_writer", "down", "test") /\ UNCHANGED <<mem, rcu_ptr, grace>>
    /\ UNCHANGED <<mod, next, stop, data>>
\* Variant: without memory it tries again, with no look at the flag.
AssignRetries ==
    /\ \/ \E d \in Data \ mem :
              /\ Go("rcu_writer", "down", "hold")
              /\ mem' = mem \cup {d} /\ rcu_ptr' = d
              /\ grace' = Holds("rcu_reader")
       \/ Go("rcu_writer", "down", "down") /\ UNCHANGED <<mem, rcu_ptr, grace>>
    /\ UNCHANGED <<mod, next, stop, data>>
\* A new object replaces the old one, which stays allocated; without memory
\* the loop starts over.
Assign ==
    /\ \/ \E d \in Data \ mem :
              /\ Go("rcu_writer", "down", "hold")
              /\ mem' = mem \cup {d} /\ rcu_ptr' = d
              /\ grace' = Holds("rcu_reader")
       \/ Go("rcu_writer", "down", "test") /\ UNCHANGED <<mem, rcu_ptr, grace>>
    /\ UNCHANGED <<mod, next, stop, data>>

\* synchronize_rcu returns when the reader has left the section it was in.
Synchronized == ~grace /\ Up("rcu_writer")

RcuWriterThread == "rcu_writer" \in Threads /\ (Test("rcu_writer", "down") \/ Assign \/ Synchronized)

-----------------------------------------------------------------------------
(* m_chr_exit                                                              *)

Exit == Load("loaded", "stop") /\ UNCHANGED <<next, thread, stop, rcu>>

\* kthread_stop of a pointer that holds an error code kills the kernel.
Stop ==
    /\ mod = "stop" /\ next <= Len(Order)
    /\ IF thread[Order[next]] = "error"
       THEN mod' = "oops" /\ UNCHANGED stop
       ELSE mod' = "join" /\ stop' = [stop EXCEPT ![Order[next]] = TRUE]
    /\ UNCHANGED <<next, thread, rcu>>

\* Variant: the thread is told to stop and not waited for.
JoinNot ==
    /\ Load("join", "stop") /\ next' = next + 1
    /\ UNCHANGED <<thread, stop, rcu>>
Join ==
    /\ Load("join", "stop") /\ thread[Order[next]] = "done" /\ next' = next + 1
    /\ UNCHANGED <<thread, stop, rcu>>

\* synchronize_rcu, kfree; nodes, class and region.
FreeData ==
    /\ Load("stop", "gone") /\ next > Len(Order) /\ data = None
    /\ mem' = mem \ {rcu_ptr}
    /\ UNCHANGED <<next, thread, stop, rcu_ptr, data, grace>>

-----------------------------------------------------------------------------
Module == Register \/ Run \/ Loaded \/ Stop \/ Join \/ FreeData

Next ==
    \/ Module \/ Exit
    \/ \E t \in Alone : AloneThread(t)
    \/ ReaderThread \/ WriterThread \/ RcuReaderThread \/ RcuWriterThread

Spec == Init /\ [][Next]_vars

\* insmod, rmmod and the threads are scheduled.  A task that waits for the
\* read-write semaphore gets it at last: the kernel hands it over.
Fairness ==
    /\ WF_vars(Module) /\ \A t \in Alone : WF_vars(AloneThread(t))
    /\ WF_vars(RcuReaderThread) /\ WF_vars(RcuWriterThread)
    /\ SF_vars(ReaderThread) /\ SF_vars(WriterThread)

FairSpec == Spec /\ Fairness

-----------------------------------------------------------------------------
(* Properties                                                              *)

TypeOK ==
    /\ mod \in {"register", "run", "loaded", "stop", "join", "gone", "oops"}
    /\ next \in 1..Len(Order) + 1
    /\ thread \in [Threads -> {"none", "error", "test", "down", "hold", "done"}]
    /\ stop \in [Threads -> BOOLEAN]
    /\ mem \subseteq Data /\ rcu_ptr \in Data \cup {None} /\ data \in Data \cup {None}
    /\ grace \in BOOLEAN

\* Whatever the RCU reader has dereferenced stays allocated until it is out
\* of its section, through every replacement and through unloading.
ReadsLiveData == data # None => data \in mem

\* The code and the data of the module go when every thread has left them.
ThreadsJoined == mod = "gone" => \A t \in Threads : thread[t] = "done"

\* Unloading stops all the threads, one after the other, whatever they wait
\* for: rmmod returns, unless one of the threads had never been made.
UnloadReturns == mod = "stop" ~> mod \in {"gone", "oops"}

\* synchronize_rcu is there so that the old data can be released
\* (kDemo.c:27): unloading leaves none.  False: the writer never frees what
\* it replaces.
OldDataFreed == mod = "gone" => mem = {}
=============================================================================
