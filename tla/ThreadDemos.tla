---------------------------- MODULE ThreadDemos ----------------------------
(***************************************************************************)
(* A machine on which one of the demos of threads, timers and deferred     *)
(* work is loaded.  They share nothing, so they are checked in one run,    *)
(* each with bounds of its own.                                            *)
(***************************************************************************)
EXTENDS Naturals, Sequences, FiniteSets

CONSTANTS
    MaxFiles,   \* wait queue demo: bound on the files open at once
    Files,      \* kthread_worker demo: the files that may be opened
    Order,      \* locks demo: the threads followed
    Data,       \* locks demo: the memory
    NULL

VARIABLES
    loaded,
    mod, nodes, files, condition, condition_timeout, waiter, thread, runnable, stop,
    kmod, worker, data, data2, live, mem, queue, current, done, pc,
    demo, dmod, dthread, list, running, timer, ran, step,
    smod, next, sthread, sstop, smem, rcu_ptr, sdata, grace,
    task, tmod, tnodes, tthread, tstop, completion,
    rmod, armed, callback

\* 07.thread_sync/5.wait_queue
W == INSTANCE WaitDemo
\* 06.thread/2.kthread_worker, with one file open at a time
K == INSTANCE KthreadWorker WITH MaxOpen <- 1, None <- NULL, mod <- kmod
\* 06.thread/3.kthread_worker2 and 4.work_struct
D == INSTANCE DeferredWork WITH mod <- dmod, thread <- dthread
\* 07.thread_sync/2.sync_semaphore
S == INSTANCE SyncDemo WITH
        None <- NULL,
        mod <- smod, thread <- sthread, stop <- sstop, mem <- smem, data <- sdata
\* 06.thread/1.task_struct and 07.thread_sync/3.sync_completion
T == INSTANCE TaskDemo WITH
        demo <- task, mod <- tmod, nodes <- tnodes, thread <- tthread, stop <- tstop
\* 05.timer_delay/1.timer
R == INSTANCE TimerDemo WITH mod <- rmod

ASSUME Parameters ==
    /\ MaxFiles \in Nat
    /\ IsFiniteSet(Files) /\ K!NoneIsNoFile
    /\ S!OrderIsOrder /\ S!NoneIsNoData

waitVars     == <<mod, nodes, files, condition, condition_timeout, waiter, thread, runnable, stop>>
workerVars   == <<kmod, worker, data, data2, live, mem, queue, current, done, pc>>
deferredVars == <<demo, dmod, dthread, list, running, timer, ran, step>>
syncVars     == <<smod, next, sthread, sstop, smem, rcu_ptr, sdata, grace>>
taskVars     == <<task, tmod, tnodes, tthread, tstop, completion>>
timerVars    == <<rmod, armed, callback>>
vars == <<loaded, waitVars, workerVars, deferredVars, syncVars, taskVars, timerVars>>

Init ==
    /\ loaded \in {"wait", "worker", "deferred", "sync", "task", "timer"}
    /\ W!Init /\ K!Init /\ D!Init /\ S!Init /\ T!Init /\ R!Init
    /\ loaded # "deferred" => demo = "worker"
    /\ loaded # "task" => task = "task"

Next ==
    /\ UNCHANGED loaded
    /\ \/ /\ loaded = "wait" /\ W!Next
          /\ UNCHANGED <<workerVars, deferredVars, syncVars, taskVars, timerVars>>
       \/ /\ loaded = "worker" /\ K!Next
          /\ UNCHANGED <<waitVars, deferredVars, syncVars, taskVars, timerVars>>
       \/ /\ loaded = "deferred" /\ D!Next
          /\ UNCHANGED <<waitVars, workerVars, syncVars, taskVars, timerVars>>
       \/ /\ loaded = "sync" /\ S!Next
          /\ UNCHANGED <<waitVars, workerVars, deferredVars, taskVars, timerVars>>
       \/ /\ loaded = "task" /\ T!Next
          /\ UNCHANGED <<waitVars, workerVars, deferredVars, syncVars, timerVars>>
       \/ /\ loaded = "timer" /\ R!Next
          /\ UNCHANGED <<waitVars, workerVars, deferredVars, syncVars, taskVars>>

\* The fairness of each, while it is loaded: see there.
WaitFairness ==
    /\ WF_waitVars(loaded = "wait" /\ W!Module)
    /\ WF_waitVars(loaded = "wait" /\ W!Waiter)
    /\ WF_waitVars(loaded = "wait" /\ W!Thread)
WorkerFairness == \A f \in Files :
    /\ WF_workerVars(loaded = "worker" /\ K!Call(f))
    /\ WF_workerVars(loaded = "worker" /\ K!Thread(f))
DeferredFairness ==
    /\ WF_deferredVars(loaded = "deferred" /\ D!Opening)
    /\ WF_deferredVars(loaded = "deferred" /\ D!Closing)
    /\ WF_deferredVars(loaded = "deferred" /\ D!Timer)
    /\ \A i \in {"work", "delayed", "cancelable"} :
          /\ WF_deferredVars(loaded = "deferred" /\ D!Take(i))
          /\ WF_deferredVars(loaded = "deferred" /\ D!Finish(i))
SyncFairness ==
    /\ WF_syncVars(loaded = "sync" /\ S!Module)
    /\ \A t \in S!Alone : WF_syncVars(loaded = "sync" /\ S!AloneThread(t))
    /\ WF_syncVars(loaded = "sync" /\ S!RcuReaderThread)
    /\ WF_syncVars(loaded = "sync" /\ S!RcuWriterThread)
    /\ SF_syncVars(loaded = "sync" /\ S!ReaderThread)
    /\ SF_syncVars(loaded = "sync" /\ S!WriterThread)
TaskFairness ==
    /\ WF_taskVars(loaded = "task" /\ T!Module)
    /\ WF_taskVars(loaded = "task" /\ T!Thread)
TimerFairness ==
    /\ WF_timerVars(loaded = "timer" /\ R!Module)
    /\ WF_timerVars(loaded = "timer" /\ R!Interrupt)

Fairness == /\ WaitFairness /\ WorkerFairness /\ DeferredFairness
            /\ SyncFairness /\ TaskFairness /\ TimerFairness

Spec == Init /\ [][Next]_vars
FairSpec == Spec /\ Fairness
-----------------------------------------------------------------------------
\* The ranges of all of them.
TypeOK == W!TypeOK /\ K!TypeOK /\ D!TypeOK /\ S!TypeOK /\ T!TypeOK /\ R!TypeOK

\* Every thread a demo stops has left the code of the module before it goes.
ThreadsJoined == W!WorkerJoined /\ S!ThreadsJoined /\ T!TaskJoined

\* The worker thread never meets an item that has been freed.
WorkOnLiveItems == K!WorkOnLiveItems
\* Work that has been flushed has run to its end.
FlushedWorkDone == K!DoneBeforeFree /\ D!FlushDoesWork
\* Neither a worker nor an item is left behind by a closed file.
NothingLeft == K!NothingLeft
\* Open initialises idle items only.
InitIdle == D!InitIdle
\* The RCU reader reads memory that is allocated.
ReadsLiveData == S!ReadsLiveData
\* Loading the completion demo returns after the work, ...
LoadedAfterWork == T!LoadedAfterWork

\* ... and does return, as does closing a demo that has work queued.
CallsReturn == T!LoadReturns /\ K!ReleaseReturns /\ D!ReleaseReturns
\* Unloading a demo stops its threads and returns; in the wait queue demo,
\* if the condition is set when it starts.
UnloadReturns == S!UnloadReturns /\ T!StopReturns /\ W!StopsIfConditionHolds
\* The timer callback comes again and again.
TimerGoesOn == R!TimerGoesOn
\* An unloaded module is not called by its timer (1.timer/kDemo.c:174).
TimerRemoved == R!TimerRemoved
=============================================================================
