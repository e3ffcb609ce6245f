---------------------------- MODULE DeferredWork ----------------------------
(***************************************************************************)
(* The two demos of deferred work on static items, 06.thread/3.kthread_    *)
(* worker2 and 06.thread/4.work_struct.  Each open initialises and queues  *)
(* a plain item, a delayed one and one that release cancels; each release  *)
(* cancels and flushes.  The first demo runs them one by one on a thread   *)
(* of its own, in the order of its list; the second hands them to          *)
(* system_wq, whose threads run different items at the same time.          *)
(*                                                                         *)
(* The variable demo says which of the two is loaded.  One file is open at *)
(* a time: the items are static, so a second open would initialise items   *)
(* that are in use.                                                        *)
(***************************************************************************)
EXTENDS Naturals, Sequences, SequencesExt, FiniteSets

VARIABLES
    demo,     \* "worker" or "workqueue"
    mod,      \* is it loaded?
    thread,   \* has the worker of the first demo its thread?
    list,     \* the items queued
    running,  \* the items whose function runs
    timer,    \* is the timer of the delayed item armed?
    ran,      \* the items whose function has returned since open
    step      \* where open or release is

vars == <<demo, mod, thread, list, running, timer, ran, step>>

Items == {"work", "delayed", "cancelable"}
Private == demo = "worker"

Init ==
    /\ demo \in {"worker", "workqueue"} /\ mod = "register"
    /\ thread = FALSE /\ list = <<>> /\ running = {} /\ timer = FALSE /\ ran = {}
    /\ step = "closed"

Go(from, to) == step = from /\ step' = to

Queued(i) == i \in ToSet(list)
Idle(i) == ~Queued(i) /\ i \notin running /\ (i = "delayed" => ~timer)

\* kthread_queue_work and schedule_work leave an item alone that is queued.
Queue(i) == list' = IF Queued(i) THEN list ELSE Append(list, i)

-----------------------------------------------------------------------------
(* m_chr_init, m_chr_exit: region, class, devices and nodes; an open file  *)
(* keeps the module                                                        *)

items == <<thread, list, running, timer, ran, step>>

RegisterWorker ==
    /\ Private /\ mod = "register" /\ mod' = "loaded"
    /\ UNCHANGED <<demo, items>>
UnregisterWorker ==
    /\ Private /\ mod = "loaded" /\ step = "closed" /\ mod' = "gone"
    /\ UNCHANGED <<demo, items>>

RegisterWorkqueue ==
    /\ ~Private /\ mod = "register" /\ mod' = "loaded"
    /\ UNCHANGED <<demo, items>>
UnregisterWorkqueue ==
    /\ ~Private /\ mod = "loaded" /\ step = "closed" /\ mod' = "gone"
    /\ UNCHANGED <<demo, items>>

-----------------------------------------------------------------------------
(* m_chrdev_open                                                           *)

\* kthread_init_worker empties the list; kthread_run may fail, and so does
\* open.  The second demo has nothing of its own to make.
OpenWorker ==
    /\ Private /\ mod = "loaded"
    /\ \/ Go("closed", "init work") /\ thread' = TRUE /\ ran' = {}
       \/ Go("closed", "closed") /\ UNCHANGED <<thread, ran>>
    /\ list' = <<>>
    /\ UNCHANGED <<demo, mod, running, timer>>

OpenWorkqueue ==
    /\ ~Private /\ mod = "loaded" /\ Go("closed", "init work") /\ ran' = {}
    /\ UNCHANGED <<demo, mod, thread, list, running, timer>>

\* Each item is initialised and queued, the delayed one by its timer.
QueueWork(from, to) ==
    /\ Go(from, to) /\ Queue("work")
    /\ UNCHANGED <<demo, mod, thread, running, timer, ran>>

QueueDelayed(from, to) ==
    /\ Go(from, to) /\ timer' = TRUE
    /\ UNCHANGED <<demo, mod, thread, list, running, ran>>

QueueCancelable(from, to) ==
    /\ Go(from, to) /\ Queue("cancelable")
    /\ UNCHANGED <<demo, mod, thread, running, timer, ran>>

WorkerOpening ==
    Private /\ \/ QueueWork("init work", "init delayed")
               \/ QueueDelayed("init delayed", "init cancelable")
               \/ QueueCancelable("init cancelable", "open")

WorkqueueOpening ==
    ~Private /\ \/ QueueWork("init work", "init cancelable")
                \/ QueueCancelable("init cancelable", "init delayed")
                \/ QueueDelayed("init delayed", "open")

-----------------------------------------------------------------------------
(* m_chrdev_release                                                        *)

Release ==
    /\ Go("open", "cancel cancelable")
    /\ UNCHANGED <<demo, mod, thread, list, running, timer, ran>>

Dequeue(i) ==
    IF Queued(i) THEN \E j \in DOMAIN list : list[j] = i /\ list' = RemoveAt(list, j)
                 ELSE UNCHANGED list

\* cancel_work_sync takes the item off the list, and waits if it runs.
CancelWork ==
    /\ Go("cancel cancelable", "wait cancelable") /\ Dequeue("cancelable")
    /\ UNCHANGED <<demo, mod, thread, running, timer, ran>>

\* Variant: release waits for the function of an item it has taken off.
CancelledWaitsRan ==
    /\ Go("wait cancelable", "cancel delayed") /\ "cancelable" \in ran
    /\ UNCHANGED <<demo, mod, thread, list, running, timer, ran>>
Cancelled ==
    /\ Go("wait cancelable", "cancel delayed") /\ "cancelable" \notin running
    /\ UNCHANGED <<demo, mod, thread, list, running, timer, ran>>

\* Variant: the item is taken off the list and its timer left running.
CancelDelayedNoTimer ==
    /\ Go("cancel delayed", "wait delayed") /\ Dequeue("delayed")
    /\ UNCHANGED <<demo, mod, thread, running, timer, ran>>
\* cancel_delayed_work_sync deletes the timer first.
CancelDelayed ==
    /\ Go("cancel delayed", "wait delayed") /\ Dequeue("delayed") /\ timer' = FALSE
    /\ UNCHANGED <<demo, mod, thread, running, ran>>

CancelledDelayed ==
    /\ Go("wait delayed", "flush work") /\ "delayed" \notin running
    /\ UNCHANGED <<demo, mod, thread, list, running, timer, ran>>

\* kthread_flush_worker waits for everything on the list, ...
FlushWorker ==
    /\ Private /\ Go("flush work", "flushed") /\ list = <<>> /\ running = {}
    /\ UNCHANGED <<demo, mod, thread, list, running, timer, ran>>

\* ... kthread_stop for the thread to return.
Stop ==
    /\ Private /\ Go("flushed", "closed") /\ running = {} /\ thread' = FALSE
    /\ UNCHANGED <<demo, mod, list, running, timer, ran>>

\* flush_work of the plain item, ...
FlushWork ==
    /\ ~Private /\ Go("flush work", "flushed") /\ ~Queued("work") /\ "work" \notin running
    /\ UNCHANGED <<demo, mod, thread, list, running, timer, ran>>

\* ... of the cancelled one; flush_delayed_work queues the delayed item at
\* once if its timer still runs, ...
FlushCancelable ==
    /\ ~Private /\ Go("flushed", "flush delayed")
    /\ ~Queued("cancelable") /\ "cancelable" \notin running
    /\ IF timer THEN Queue("delayed") ELSE UNCHANGED list
    /\ timer' = FALSE
    /\ UNCHANGED <<demo, mod, thread, running, ran>>

\* ... and waits for it.
FlushDelayed ==
    /\ ~Private /\ Go("flush delayed", "closed") /\ ~Queued("delayed") /\ "delayed" \notin running
    /\ UNCHANGED <<demo, mod, thread, list, running, timer, ran>>

-----------------------------------------------------------------------------
(* The timer, the worker thread or the threads of system_wq                *)

Timer ==
    /\ timer /\ timer' = FALSE /\ Queue("delayed")
    /\ UNCHANGED <<demo, mod, thread, running, ran, step>>

\* Variant: the thread takes an item and its function is never called.
TakeLost(i) ==
    /\ Queued(i) /\ i \notin running
    /\ IF Private THEN thread /\ running = {} /\ i = Head(list) ELSE TRUE
    /\ Dequeue(i)
    /\ UNCHANGED <<demo, mod, thread, running, timer, ran, step>>
\* An item never runs twice at the same time, on whatever thread.
Take(i) ==
    /\ Queued(i) /\ i \notin running
    /\ IF Private THEN thread /\ running = {} /\ i = Head(list) ELSE TRUE
    /\ Dequeue(i) /\ running' = running \cup {i}
    /\ UNCHANGED <<demo, mod, thread, timer, ran, step>>

\* work_func, delayed_work_func, cancelable_work_func come to their end.
Finish(i) ==
    /\ i \in running /\ running' = running \ {i} /\ ran' = ran \cup {i}
    /\ UNCHANGED <<demo, mod, thread, list, timer, step>>

Execute == \E i \in Items : Take(i) \/ Finish(i)
-----------------------------------------------------------------------------
Load == RegisterWorker \/ UnregisterWorker \/ RegisterWorkqueue \/ UnregisterWorkqueue
Open == OpenWorker \/ OpenWorkqueue
Opening == WorkerOpening \/ WorkqueueOpening
Closing == \/ CancelWork \/ Cancelled \/ CancelDelayed \/ CancelledDelayed
           \/ FlushWorker \/ Stop \/ FlushWork \/ FlushCancelable \/ FlushDelayed

Next == Load \/ Open \/ Opening \/ Release \/ Closing \/ Timer \/ Execute

Spec == Init /\ [][Next]_vars
\* Calls, threads and the timer are served; nobody has to open or close.
Fairness == WF_vars(Opening) /\ WF_vars(Closing) /\ WF_vars(Timer)
            /\ \A i \in Items : WF_vars(Take(i)) /\ WF_vars(Finish(i))
FairSpec == Spec /\ Fairness

-----------------------------------------------------------------------------
(* Properties                                                              *)

TypeOK ==
    /\ list \in Seq(Items) /\ Len(list) <= Cardinality(Items) /\ running \subseteq Items /\ ran \subseteq Items
    /\ mod \in {"register", "loaded", "gone"}
    /\ {thread, timer} \subseteq BOOLEAN /\ demo \in {"worker", "workqueue"}
    /\ Cardinality(running) > 1 => ~Private

\* INIT_WORK of an item that is queued, runs or waits for its timer would
\* break the list it is on: open finds every item idle, whatever the last
\* release has cancelled, waited for or found finished.
InitIdle ==
    /\ step = "closed" => \A i \in Items : Idle(i)
    /\ step = "init work" => Idle("work")
    /\ step = "init delayed" => Idle("delayed")
    /\ step = "init cancelable" => Idle("cancelable")

\* The plain item is never cancelled: its function has run to its end once
\* release has flushed.
FlushDoesWork == step \in {"flushed", "flush delayed"} => "work" \in ran

\* Release waits three times for others, and comes to its end.
ReleaseReturns == step = "cancel cancelable" ~> step = "closed"
=============================================================================
