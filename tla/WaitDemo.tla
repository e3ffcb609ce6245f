------------------------------ MODULE WaitDemo ------------------------------
(***************************************************************************)
(* The wait queue demo, 07.thread_sync/5.wait_queue: loading the module    *)
(* starts two kernel threads, one that waits for condition_timeout with a  *)
(* timeout and one that waits for condition again and again; opening the   *)
(* device sets both conditions; unloading stops the second thread.         *)
(*                                                                         *)
(* wait_event_interruptible and kthread_stop are followed step by step,    *)
(* since the demo depends on how they interlock.  Signals play no part:    *)
(* kernel threads have them all blocked.                                   *)
(***************************************************************************)
EXTENDS Naturals

CONSTANT MaxFiles   \* bound on the files open at once

VARIABLES
    mod,         \* where m_chr_init or m_chr_exit is
    nodes,       \* are the device nodes there?
    files,       \* open files: they pin the module
    condition, condition_timeout,
    waiter,      \* where waiter_thread_fn is
    thread,      \* where thread_func is; "none" is the pointer NULL
    runnable,    \* the scheduler's state of thread
    stop         \* KTHREAD_SHOULD_STOP of thread

vars == <<mod, nodes, files, condition, condition_timeout, waiter, thread, runnable, stop>>
conds == <<condition, condition_timeout>>
users == <<nodes, files>>

Init ==
    /\ mod = "register" /\ nodes = FALSE /\ files = 0
    /\ condition = 0 /\ condition_timeout = 0
    /\ waiter = "none" /\ thread = "none"
    /\ runnable = TRUE /\ stop = FALSE

Load(from, to) == mod = from /\ mod' = to

-----------------------------------------------------------------------------
(* m_chr_init: the nodes are live before the threads and the queue are     *)

Register ==
    /\ Load("register", "create") /\ nodes' = TRUE
    /\ UNCHANGED <<files, conds, waiter, thread, runnable, stop>>

\* kthread_create, wake_up_process.  On failure the module goes, its nodes stay.
CreateWaiter ==
    /\ \/ Load("create", "run") /\ waiter' = "test"
       \/ Load("create", "failed") /\ UNCHANGED waiter
    /\ UNCHANGED <<users, conds, thread, runnable, stop>>

\* init_waitqueue_head, kthread_run.  On failure thread is NULL and the
\* error code is taken from it: 0, the module is loaded without the thread.
RunThread ==
    /\ Load("run", "loaded")
    /\ thread' \in {"start", "none"}
    /\ UNCHANGED <<users, conds, waiter, runnable, stop>>

-----------------------------------------------------------------------------
(* m_chrdev_open, m_chrdev_release                                         *)

Open ==
    /\ nodes /\ mod \in {"create", "run", "loaded"} /\ files < MaxFiles
    /\ files' = files + 1
    /\ condition_timeout' = 1 /\ condition' = 1
    /\ UNCHANGED <<mod, nodes, waiter, thread, runnable, stop>>

Release ==
    /\ files > 0 /\ files' = files - 1
    /\ UNCHANGED <<mod, nodes, conds, waiter, thread, runnable, stop>>

-----------------------------------------------------------------------------
(* waiter_thread_fn: wait_event_interruptible_timeout, once                *)

\* The condition is tested before sleeping and, at the end, after it.
WaiterTest ==
    /\ waiter = "test"
    /\ waiter' = IF condition_timeout = 1 THEN "true" ELSE "sleep"
    /\ UNCHANGED <<mod, users, conds, thread, runnable, stop>>

\* Nobody wakes wq, so only the timer of 2 seconds ends the sleep.
WaiterTimer ==
    /\ waiter = "sleep"
    /\ waiter' = IF condition_timeout = 1 THEN "true" ELSE "timedout"
    /\ UNCHANGED <<mod, users, conds, thread, runnable, stop>>

WaiterReturn ==
    /\ waiter \in {"true", "timedout"} /\ waiter' = "done"
    /\ UNCHANGED <<mod, users, conds, thread, runnable, stop>>

Waiter == WaiterTest \/ WaiterTimer \/ WaiterReturn

-----------------------------------------------------------------------------
(* thread_func                                                             *)

Go(from, to) == thread = from /\ thread' = to /\ UNCHANGED <<mod, users, waiter, stop>>

\* while (!kthread_should_stop()).
ThreadTest ==
    /\ Go("start", IF stop THEN "done" ELSE "wait")
    /\ UNCHANGED <<conds, runnable>>

\* wait_event_interruptible: no sleep if the condition holds already.
WaitFast ==
    /\ Go("wait", IF condition = 1 THEN "work" ELSE "prepare")
    /\ UNCHANGED <<conds, runnable>>

\* prepare_to_wait_event: queued, TASK_INTERRUPTIBLE.
WaitPrepare ==
    /\ Go("prepare", "retest")
    /\ runnable' = FALSE
    /\ UNCHANGED conds

\* The condition is tested behind the preparation; schedule() if it is not met.
WaitRetest ==
    /\ Go("retest", IF condition = 1 THEN "work" ELSE "sleep")
    /\ runnable' = (runnable \/ condition = 1)
    /\ UNCHANGED conds

\* Variant: a woken thread goes to sleep again without a look at the condition.
WaitWokenBlind ==
    /\ Go("sleep", "sleep") /\ runnable /\ runnable' = FALSE
    /\ UNCHANGED conds
WaitWoken ==
    /\ Go("sleep", "prepare") /\ runnable
    /\ UNCHANGED <<conds, runnable>>

\* The work; condition = 0.
Work ==
    /\ Go("work", "start")
    /\ condition' = 0
    /\ UNCHANGED <<condition_timeout, runnable>>

Thread == ThreadTest \/ WaitFast \/ WaitPrepare \/ WaitRetest \/ WaitWoken \/ Work

-----------------------------------------------------------------------------
(* m_chr_exit                                                              *)

\* rmmod succeeds while no file is open.  kthread_stop sets the flag, wakes
\* the thread ...
Exit ==
    /\ files = 0
    /\ IF thread = "none" THEN Load("loaded", "unregister") ELSE Load("loaded", "join")
    /\ stop' = TRUE /\ runnable' = TRUE
    /\ UNCHANGED <<users, conds, waiter, thread>>

\* Variant: the flag is set and the thread not waited for.
JoinNot ==
    /\ Load("join", "unregister")
    /\ UNCHANGED <<users, conds, waiter, thread, runnable, stop>>
\* ... and waits until it has returned.
Join ==
    /\ Load("join", "unregister") /\ thread = "done"
    /\ UNCHANGED <<users, conds, waiter, thread, runnable, stop>>

\* device_destroy, class_destroy, unregister_chrdev_region; then the kernel
\* frees the code of the module.
Unregister ==
    /\ Load("unregister", "gone") /\ nodes' = FALSE
    /\ UNCHANGED <<files, conds, waiter, thread, runnable, stop>>

-----------------------------------------------------------------------------
Module == Register \/ CreateWaiter \/ RunThread \/ Join \/ Unregister

Next == Module \/ Exit \/ Open \/ Release \/ Waiter \/ Thread

Spec == Init /\ [][Next]_vars
\* insmod, rmmod and the threads are scheduled; nobody has to open or unload.
Fairness == WF_vars(Module) /\ WF_vars(Waiter) /\ WF_vars(Thread)
FairSpec == Spec /\ Fairness

-----------------------------------------------------------------------------
(* Properties                                                              *)

TypeOK ==
    /\ mod \in {"register", "create", "run", "loaded", "join", "unregister", "gone", "failed"}
    /\ nodes \in BOOLEAN /\ files \in 0..MaxFiles
    /\ condition \in {0, 1} /\ condition_timeout \in {0, 1}
    /\ waiter \in {"none", "test", "sleep", "true", "timedout", "done"}
    /\ thread \in {"none", "start", "wait", "prepare", "retest", "sleep", "work", "done"}
    /\ runnable \in BOOLEAN /\ stop \in BOOLEAN

\* The code of thread_func is freed only after the thread has left it:
\* kthread_stop hands over between the flag, the wake-up and the exit.
WorkerJoined == mod \in {"unregister", "gone"} => thread \in {"none", "done"}

\* A thread that has to be stopped notices: once kthread_stop has been
\* called it does not go to sleep with the condition set.
StopsIfConditionHolds == (mod = "join" /\ condition = 1) ~> mod = "gone"

\* Stopping the thread ends its wait (kDemo.c:174): rmmod returns.
StopReturns == mod = "join" ~> mod = "gone"

\* A process sleeps until its condition holds (ReadMe.md:38-39): the thread
\* is woken once a user has opened the device.  False: open wakes nobody.
ConditionWakes == (thread = "sleep" /\ condition = 1) ~> thread # "sleep"

\* A thread made with kthread_create is stopped by whoever made it
\* (06.thread/readMe.md:705): no thread is left in the code of a module
\* that has been unloaded.  False: nobody stops the waiter.
WaiterStopped == mod = "gone" => waiter \in {"none", "done"}
=============================================================================
