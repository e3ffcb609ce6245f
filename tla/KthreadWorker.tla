--------------------------- MODULE KthreadWorker ---------------------------
(***************************************************************************)
(* The kthread_worker demo, 06.thread/2.kthread_worker: every open makes a *)
(* worker thread and two work items and queues them; every release flushes *)
(* and destroys the worker and frees the items.  All three are kept in     *)
(* global variables, which every open overwrites.                          *)
(*                                                                         *)
(* A file names the objects its open has made: its worker, and its items 1 *)
(* and 2.  The worker thread is followed from the queue to the end of the  *)
(* work function; kthread_flush_worker queues an item of its own and waits *)
(* for it.                                                                 *)
(***************************************************************************)
EXTENDS Integers, Sequences, FiniteSets

CONSTANTS
    Files,     \* the files that may be opened
    MaxOpen,   \* how many are open at once
    None       \* NULL

VARIABLES
    mod,       \* is the module loaded?
    worker, data, data2,  \* the globals: the file whose object they point to
    live,      \* the workers that exist
    mem,       \* mem[f][n]: how often item n of f is allocated
    queue,     \* queue[f]: the list of the worker of f
    current,   \* current[f]: what its thread is at
    done,      \* the items whose function has returned
    pc         \* where the open or the release of each file is

globals == <<worker, data, data2>>
threads == <<queue, current, done>>
vars == <<mod, globals, live, mem, threads, pc>>

Item(f, n) == [file |-> f, n |-> n]
FlushItem(f) == [file |-> f, n |-> 0]   \* the item of kthread_flush_worker
Items == [file : Files, n : 0..2]

\* The pointer NULL points to no object.
NoneIsNoFile == None \notin Files \cup Items

Init ==
    /\ mod = "register"
    /\ worker = None /\ data = None /\ data2 = None
    /\ live = {} /\ mem = [f \in Files |-> <<0, 0>>]
    /\ queue = [f \in Files |-> <<>>] /\ current = [f \in Files |-> None] /\ done = {}
    /\ pc = [f \in Files |-> "closed"]

Go(f, from, to) == pc[f] = from /\ pc' = [pc EXCEPT ![f] = to]
Kfree(p, n) == mem' = [mem EXCEPT ![p][n] = @ - 1]

\* kthread_queue_work: an item that is on a list already stays where it is.
QueueWork(w, item) ==
    queue' = IF \E j \in 1..Len(queue[w]) : queue[w][j] = item
             THEN queue ELSE [queue EXCEPT ![w] = Append(@, item)]

-----------------------------------------------------------------------------
(* m_chr_init, m_chr_exit: region, class, devices and nodes; an open file  *)
(* keeps the module                                                        *)

Register ==
    /\ mod = "register" /\ mod' = "loaded"
    /\ UNCHANGED <<globals, live, mem, threads, pc>>

Unregister ==
    /\ mod = "loaded" /\ (\A f \in Files : pc[f] = "closed") /\ mod' = "gone"
    /\ UNCHANGED <<globals, live, mem, threads, pc>>

-----------------------------------------------------------------------------
(* m_chrdev_open                                                           *)

Open(f) ==
    /\ mod = "loaded"
    /\ Cardinality({g \in Files : pc[g] # "closed"}) < MaxOpen
    /\ Go(f, "closed", "worker")
    /\ done' = {it \in done : it.file # f}
    /\ UNCHANGED <<mod, globals, live, mem, queue, current>>

\* kthread_create_worker; its failure is the result of open.
CreateWorker(f) ==
    /\ \/ Go(f, "worker", "data") /\ worker' = f /\ live' = live \cup {f}
       \/ Go(f, "worker", "closed") /\ worker' = None /\ UNCHANGED live
    /\ UNCHANGED <<mod, data, data2, mem, threads>>

AllocData(f) ==
    /\ \/ Go(f, "data", "data2") /\ data' = f /\ mem' = [mem EXCEPT ![f][1] = @ + 1]
       \/ Go(f, "data", "undo") /\ data' = None /\ UNCHANGED mem
    /\ UNCHANGED <<mod, worker, data2, live, threads>>

\* Variant: data is not freed when the second allocation fails.
AllocData2KeepsData(f) ==
    /\ \/ Go(f, "data2", "queue") /\ data2' = f /\ mem' = [mem EXCEPT ![f][2] = @ + 1]
       \/ Go(f, "data2", "undo") /\ data2' = None /\ UNCHANGED mem
    /\ UNCHANGED <<mod, worker, data, live, threads>>
AllocData2(f) ==
    /\ \/ Go(f, "data2", "queue") /\ data2' = f /\ mem' = [mem EXCEPT ![f][2] = @ + 1]
       \/ Go(f, "data2", "undo") /\ data2' = None /\ data # None /\ Kfree(data, 1)
    /\ UNCHANGED <<mod, worker, data, live, threads>>

\* init_work for both items, and the first into the queue.
QueueData(f) ==
    /\ Go(f, "queue", "queue2") /\ worker \in live
    /\ QueueWork(worker, Item(data, 1))
    /\ UNCHANGED <<mod, globals, live, mem, current, done>>

\* Variant: the first item is queued twice.
QueueDataAgain(f) ==
    /\ Go(f, "queue2", "open") /\ worker \in live
    /\ QueueWork(worker, Item(data, 1))
    /\ UNCHANGED <<mod, globals, live, mem, current, done>>
QueueData2(f) ==
    /\ Go(f, "queue2", "open") /\ worker \in live
    /\ QueueWork(worker, Item(data2, 2))
    /\ UNCHANGED <<mod, globals, live, mem, current, done>>

\* kthread_destroy_worker flushes, stops the thread and frees the worker: it
\* takes an empty list and a thread with nothing to do.
Destroy(f, from, to) ==
    /\ Go(f, from, to) /\ worker \in live
    /\ queue[worker] = <<>> /\ current[worker] = None
    /\ live' = live \ {worker}
    /\ UNCHANGED <<mod, globals, mem, threads>>

UndoOpen(f) == Destroy(f, "undo", "closed")

-----------------------------------------------------------------------------
(* m_chrdev_release                                                        *)

\* Variant: release frees the items and forgets the worker.
FlushSkipped(f) == Go(f, "open", "free") /\ UNCHANGED <<mod, globals, live, mem, threads>>
\* Variant: release waits for an item that it has not queued.
FlushNotQueued(f) == Go(f, "open", "flush") /\ UNCHANGED <<mod, globals, live, mem, threads>>
Flush(f) ==
    /\ Go(f, "open", "flush") /\ worker \in live
    /\ QueueWork(worker, FlushItem(f))
    /\ UNCHANGED <<mod, globals, live, mem, current, done>>

Flushed(f) ==
    /\ Go(f, "flush", "destroy") /\ FlushItem(f) \in done
    /\ UNCHANGED <<mod, globals, live, mem, threads>>

DestroyWorker(f) == Destroy(f, "destroy", "free")

FreeData(f) ==
    /\ Go(f, "free", "free2") /\ data # None /\ Kfree(data, 1)
    /\ UNCHANGED <<mod, globals, live, threads>>

\* Variant: the first item is freed once more.
FreeData2Wrong(f) ==
    /\ Go(f, "free2", "closed") /\ data # None /\ Kfree(data, 1)
    /\ UNCHANGED <<mod, globals, live, threads>>
FreeData2(f) ==
    /\ Go(f, "free2", "closed") /\ data2 # None /\ Kfree(data2, 2)
    /\ UNCHANGED <<mod, globals, live, threads>>

-----------------------------------------------------------------------------
(* kthread_worker_fn                                                       *)

Take(w) ==
    /\ w \in live /\ current[w] = None /\ queue[w] # <<>>
    /\ current' = [current EXCEPT ![w] = Head(queue[w])]
    /\ queue' = [queue EXCEPT ![w] = Tail(@)]
    /\ UNCHANGED <<mod, globals, live, mem, done, pc>>

\* my_work_func reads the item it is part of, and returns.
Work(w) ==
    /\ current[w] # None
    /\ done' = done \cup {current[w]} /\ current' = [current EXCEPT ![w] = None]
    /\ UNCHANGED <<mod, globals, live, mem, queue, pc>>

Thread(w) == Take(w) \/ Work(w)

Call(f) ==
    \/ CreateWorker(f) \/ AllocData(f) \/ AllocData2(f) \/ QueueData(f) \/ QueueData2(f)
    \/ UndoOpen(f) \/ Flushed(f) \/ DestroyWorker(f) \/ FreeData(f) \/ FreeData2(f)

Next == Register \/ Unregister \/ \E f \in Files : Open(f) \/ Flush(f) \/ Call(f) \/ Thread(f)

Spec == Init /\ [][Next]_vars
\* Calls and threads are scheduled; nobody has to open or to close.
Fairness == \A f \in Files : WF_vars(Call(f)) /\ WF_vars(Thread(f))
FairSpec == Spec /\ Fairness

-----------------------------------------------------------------------------
(* Properties                                                              *)

TypeOK ==
    /\ mod \in {"register", "loaded", "gone"}
    /\ {worker, data, data2} \subseteq Files \cup {None} /\ live \subseteq Files
    /\ mem \in [Files -> {0, 1} \X {0, 1}]
    /\ queue \in [Files -> Seq(Items)] /\ \A f \in Files : Len(queue[f]) <= 3
    /\ current \in [Files -> Items \cup {None}]
    /\ done \subseteq Items
    /\ pc \in [Files -> {"closed", "worker", "data", "data2", "queue", "queue2", "undo", "open",
                        "flush", "destroy", "free", "free2"}]

Alive(it) == it.n = 0 \/ mem[it.file][it.n] = 1

\* The thread never runs, nor will it, an item whose memory has been freed.
WorkOnLiveItems ==
    \A f \in live : /\ current[f] # None => Alive(current[f])
                    /\ \A j \in 1..Len(queue[f]) : Alive(queue[f][j])

\* Release lets all the work be done (kDemo.c:166) before it frees the items.
DoneBeforeFree == \A f \in Files : pc[f] \in {"free", "free2"} => {Item(f, 1), Item(f, 2)} \subseteq done

\* With nobody inside, neither a worker nor an item is left, be it that the
\* last open has failed or that its file has been closed.
NothingLeft ==
    (\A f \in Files : pc[f] = "closed") => live = {} /\ \A f \in Files : mem[f] = <<0, 0>>

\* Closing comes to its end: the flush is answered and the thread stops.
ReleaseReturns == \A f \in Files : pc[f] = "flush" ~> pc[f] = "closed"

\* A worker that has been created must be destroyed
\* (06.thread/readMe.md:605-611): as long as it lives, the driver has
\* the pointer it will need for that.  False with two files open.
WorkerKept == \A f \in live : worker = f
=============================================================================
