------------------------- MODULE ThreadDemosProofs -------------------------
(***************************************************************************)
(* The invariants of ThreadDemos, proved for any number of files, any      *)
(* memory and any choice of the threads of the locks demo.                 *)
(*                                                                         *)
(* Each demo has an inductive invariant of its own, below; they share no   *)
(* state, so their conjunction is inductive as soon as each of them is.    *)
(***************************************************************************)
EXTENDS ThreadDemos, FiniteSetTheorems, SequenceTheorems, TLAPS

(* The wait queue demo: there is no thread before it is made, and none     *)
(* when it has been joined.                                                *)
WaitInv ==
    /\ W!TypeOK
    /\ mod \in {"register", "create", "run", "failed"} => thread = "none"
    /\ mod \in {"unregister", "gone"} => thread \in {"none", "done"}

(* The kernel thread and completion demos: the completion is done, and     *)
(* loading over, only behind the work of the thread; nobody tells it to    *)
(* stop before that.                                                       *)
TaskInv ==
    /\ T!TypeOK
    /\ tmod \in {"register", "create", "init", "run", "failed"} => tthread = "none"
    /\ tmod = "gone" => tthread = "done"
    /\ tstop => tmod \in {"join", "gone"}
    /\ completion = 1 => tthread \in {"loop", "done"}
    /\ task = "task" => completion = 0 /\ tthread # "work"
    /\ task = "completion" => tthread # "sleep" /\ tmod # "wake"
    /\ T!LoadedAfterWork

(* The locks demo: the threads behind next have not been made while        *)
(* loading, those before it have returned while unloading.                 *)
Started ==
    /\ smod \in {"register", "loaded"} => next = 1
    /\ smod \in {"register", "run"} =>
          \A j \in DOMAIN Order : j >= next => sthread[Order[j]] = "none"
Stopped ==
    /\ smod = "join" => next <= Len(Order)
    /\ smod \in {"stop", "join"} =>
          \A j \in DOMAIN Order : j < next => sthread[Order[j]] = "done"
    /\ smod = "gone" => \A j \in DOMAIN Order : sthread[Order[j]] = "done"

(* What the RCU reader holds, and what it would get, is allocated.         *)
Protected ==
    /\ sdata # NULL =>
          "rcu_reader" \in S!Threads /\ sthread["rcu_reader"] = "hold" /\ sdata \in smem
    /\ smod # "gone" => rcu_ptr \in smem \cup {NULL}

SyncInv == S!TypeOK /\ Started /\ Stopped /\ Protected

(* The kthread_worker demo.  One file is open; the globals point to its    *)
(* objects for as long as these are needed.                                *)
Working == {"queue2", "open", "flush", "destroy"}

Pointers(f) ==
    /\ f \in live <=> (pc[f] \in {"data", "data2", "queue", "undo"} \cup Working)
    /\ f \in live => worker = f
    /\ pc[f] \in {"data2", "queue", "free"} \cup Working => data = f
    /\ pc[f] \in {"queue", "free", "free2"} \cup Working => data2 = f
    /\ mem[f] = << IF pc[f] \in {"data2", "queue", "free"} \cup Working THEN 1 ELSE 0,
                   IF pc[f] \in {"queue", "free", "free2"} \cup Working THEN 1 ELSE 0 >>

(* Its worker has the items of that file, and one more with every step.    *)
Own(f) ==
    /\ current[f] # NULL => current[f].file = f
    /\ \A j \in DOMAIN queue[f] : queue[f][j].file = f
    /\ pc[f] \notin Working => queue[f] = <<>> /\ current[f] = NULL
    /\ pc[f] = "queue2" => Len(queue[f]) <= 1
    /\ pc[f] = "open" => Len(queue[f]) <= 2

(* An item that has been queued is on the list until it is taken, runs     *)
(* until it is done, and is never lost between these.                      *)
Given(f, n) ==
    \/ K!Item(f, n) \in done
    \/ current[f] = K!Item(f, n)
    \/ \E j \in DOMAIN queue[f] : queue[f][j] = K!Item(f, n)
NotLost(f) ==
    /\ pc[f] \in Working \cup {"free", "free2"} => Given(f, 1)
    /\ pc[f] \in (Working \ {"queue2"}) \cup {"free", "free2"} => Given(f, 2)

FileInv(f) == Pointers(f) /\ Own(f) /\ NotLost(f)

OneOpen == \A f, g \in Files : pc[f] # "closed" /\ pc[g] # "closed" => f = g

WorkerInv ==
    /\ K!TypeOK /\ OneOpen
    /\ \A f \in Files : FileInv(f)

(* The demos of deferred work.  The list has an item at most once, and the *)
(* worker of the first demo runs one at a time, so both have their bounds. *)
Ranges ==
    /\ list \in Seq(D!Items) /\ running \subseteq D!Items /\ ran \subseteq D!Items
    /\ dmod \in {"register", "loaded", "gone"}
    /\ dthread \in BOOLEAN /\ timer \in BOOLEAN /\ demo \in {"worker", "workqueue"}

Distinct(s) == \A j, k \in DOMAIN s : s[j] = s[k] => j = k

InOrder ==
    /\ Distinct(list)
    /\ D!Private => \A i, j \in running : i = j

(* Where each of the items is neither queued, nor running, nor waiting for *)
(* its timer; on the way there it has been taken off the list.             *)
Resting ==
    /\ step = "closed" \/ step = "init work" =>
          D!Idle("work") /\ D!Idle("delayed") /\ D!Idle("cancelable")
    /\ step = "init delayed" => D!Idle("delayed") /\ (D!Private => D!Idle("cancelable"))
    /\ step = "init cancelable" => D!Idle("cancelable") /\ (~D!Private => D!Idle("delayed"))
    /\ step = "wait cancelable" => ~D!Queued("cancelable")
    /\ step \in {"cancel delayed", "wait delayed", "flush work", "flushed", "flush delayed"} =>
          D!Idle("cancelable")
    /\ step = "wait delayed" => ~D!Queued("delayed") /\ ~timer
    /\ step \in {"flush work", "flushed", "flush delayed"} => D!Idle("delayed")
    /\ step \in {"flushed", "flush delayed"} => D!Idle("work")

(* The plain item is not lost, once it has been queued.                    *)
WorkNotLost ==
    step \notin {"closed", "init work"} =>
        D!Queued("work") \/ "work" \in running \/ "work" \in ran

DeferredInv == Ranges /\ InOrder /\ Resting /\ WorkNotLost

IInv == WaitInv /\ TaskInv /\ SyncInv /\ WorkerInv /\ DeferredInv /\ R!TypeOK
-----------------------------------------------------------------------------
(* The wait queue demo                                                     *)

LEMMA WaitStart == ASSUME Parameters, W!Init PROVE WaitInv
<1>1. nodes \in BOOLEAN /\ runnable \in BOOLEAN /\ stop \in BOOLEAN
  BY Zenon DEF W!Init
<1>2. files \in 0..MaxFiles
  BY DEF W!Init, Parameters
<1> QED  BY <1>1, <1>2, Zenon DEF W!Init, WaitInv, W!TypeOK

LEMMA WaitStep == ASSUME Parameters, WaitInv, W!Next PROVE WaitInv'
<1> USE DEF Parameters, WaitInv, W!TypeOK
<1>1. CASE W!Module
  <2>1. CASE W!Register
    BY <2>1 DEF W!Register, W!Load, W!conds
  <2>2. CASE W!CreateWaiter
    BY <2>2 DEF W!CreateWaiter, W!Load, W!conds, W!users
  <2>3. CASE W!RunThread
    BY <2>3 DEF W!RunThread, W!Load, W!conds, W!users
  <2>4. CASE W!Join
    BY <2>4 DEF W!Join, W!Load, W!conds, W!users
  <2>5. CASE W!Unregister
    BY <2>5 DEF W!Unregister, W!Load, W!conds
  <2> QED  BY <1>1, <2>1, <2>2, <2>3, <2>4, <2>5 DEF W!Module
<1>2. CASE W!Exit
  BY <1>2 DEF W!Exit, W!Load, W!conds, W!users
<1>3. CASE W!Open \/ W!Release
  BY <1>3 DEF W!Open, W!Release, W!conds
<1>4. CASE W!Waiter
  BY <1>4 DEF W!Waiter, W!WaiterTest, W!WaiterTimer, W!WaiterReturn, W!conds, W!users
<1>5. CASE W!Thread
  <2> USE DEF W!Go, W!conds, W!users
  <2>1. CASE W!ThreadTest
    BY <2>1 DEF W!ThreadTest
  <2>2. CASE W!WaitFast
    BY <2>2 DEF W!WaitFast
  <2>3. CASE W!WaitPrepare
    BY <2>3 DEF W!WaitPrepare
  <2>4. CASE W!WaitRetest
    BY <2>4 DEF W!WaitRetest
  <2>5. CASE W!WaitWoken
    BY <2>5 DEF W!WaitWoken
  <2>6. CASE W!Work
    BY <2>6 DEF W!Work
  <2> QED  BY <1>5, <2>1, <2>2, <2>3, <2>4, <2>5, <2>6 DEF W!Thread
<1> QED  BY <1>1, <1>2, <1>3, <1>4, <1>5 DEF W!Next

-----------------------------------------------------------------------------
(* The kernel thread and completion demos                                  *)

LEMMA TaskStart == ASSUME T!Init PROVE TaskInv
<1>1. {tnodes, tstop} \subseteq BOOLEAN /\ ~tstop
  BY Zenon DEF T!Init
<1>2. completion \in 0..1 /\ completion # 1
  BY DEF T!Init
<1>3. /\ task \in {"task", "completion"} /\ tmod = "register" /\ tthread = "none"
      /\ completion = 0
  BY DEF T!Init
<1> QED  BY <1>1, <1>2, <1>3 DEF TaskInv, T!TypeOK, T!LoadedAfterWork

LEMMA TaskStep == ASSUME TaskInv, T!Next PROVE TaskInv'
<1> USE DEF TaskInv, T!TypeOK, T!LoadedAfterWork
<1>1. CASE T!Module
  <2>1. CASE T!RegisterTask
    BY <2>1 DEF T!RegisterTask, T!Load
  <2>2. CASE T!CreateTask
    BY <2>2 DEF T!CreateTask, T!Load, T!Go
  <2>3. CASE T!WakeTask
    BY <2>3 DEF T!WakeTask, T!Load, T!Go
  <2>4. CASE T!RegisterCompletion
    BY <2>4 DEF T!RegisterCompletion, T!Load
  <2>5. CASE T!InitCompletion
    BY <2>5 DEF T!InitCompletion, T!Load
  <2>6. CASE T!RunThread
    <3>1. CASE T!Load("run", "wait") /\ T!Go("none", "start")
      BY <2>6, <3>1 DEF T!RunThread, T!Load, T!Go
    <3>2. CASE T!Load("run", "failed") /\ UNCHANGED tthread
      BY <2>6, <3>2 DEF T!RunThread, T!Load
    <3> QED  BY <2>6, <3>1, <3>2 DEF T!RunThread
  <2>7. CASE T!WaitForCompletion
    BY <2>7 DEF T!WaitForCompletion, T!Load
  <2>8. CASE T!Join
    BY <2>8 DEF T!Join, T!Load
  <2> QED  BY <1>1, <2>1, <2>2, <2>3, <2>4, <2>5, <2>6, <2>7, <2>8 DEF T!Module
<1>2. CASE T!ExitTask \/ T!ExitCompletion
  BY <1>2 DEF T!ExitTask, T!ExitCompletion, T!Load
<1>3. CASE T!Thread
  BY <1>3 DEF T!Thread, T!Start, T!TaskLoop, T!TaskSleep, T!Work, T!CompletionLoop, T!Go
<1> QED  BY <1>1, <1>2, <1>3 DEF T!Next

-----------------------------------------------------------------------------
(* The kernel timer demo                                                   *)

LEMMA TimerStep == ASSUME R!TypeOK, R!Next PROVE R!TypeOK'
BY DEF R!TypeOK, R!Next, R!Module, R!Register, R!AddTimer, R!ModTimer, R!Unregister, R!DelTimer,
       R!Interrupt, R!Expire, R!Rearm, R!Return, R!Load

-----------------------------------------------------------------------------
(* The locks demo                                                          *)

LEMMA OrderFacts ==
    ASSUME Parameters
    PROVE  /\ Len(Order) \in Nat /\ DOMAIN Order = 1..Len(Order)
           /\ \A j \in DOMAIN Order : Order[j] \in S!Threads
           /\ \A j, k \in DOMAIN Order : Order[j] = Order[k] => j = k
<1>1. Order \in Seq(DOMAIN S!Place)
  BY DEF Parameters, S!OrderIsOrder
<1>2. Len(Order) \in Nat /\ DOMAIN Order = 1..Len(Order)
  BY <1>1
<1>3. \A t \in DOMAIN S!Place : S!Place[t] \in Nat
  BY DEF S!Place
<1>4. ASSUME NEW j \in DOMAIN Order, NEW k \in DOMAIN Order, Order[j] = Order[k], j < k
      PROVE  FALSE
  BY <1>1, <1>2, <1>3, <1>4 DEF Parameters, S!OrderIsOrder
<1>5. ASSUME NEW j \in DOMAIN Order, NEW k \in DOMAIN Order, Order[j] = Order[k]
      PROVE  j = k
  BY <1>2, <1>4, <1>5
<1> QED  BY <1>2, <1>5 DEF S!Threads

LEMMA SyncStart == ASSUME Parameters, S!Init PROVE SyncInv
<1> USE OrderFacts
<1>1. S!TypeOK
  <2>1. next \in 1..Len(Order) + 1
    BY DEF S!Init
  <2>2. sstop \in [S!Threads -> BOOLEAN] /\ grace \in BOOLEAN
    BY Zenon DEF S!Init
  <2> QED  BY <2>1, <2>2 DEF S!Init, S!TypeOK
<1>2. Started /\ Stopped /\ Protected
  BY DEF S!Init, Started, Stopped, Protected, S!NoneIsNoData, Parameters
<1> QED  BY <1>1, <1>2 DEF SyncInv

(* A step of a thread in its loop leaves alone where loading and unloading *)
(* stand, and the threads that have not been made or have returned.        *)
LEMMA ThreadMoves ==
    ASSUME Parameters, SyncInv, NEW t \in S!Threads,
           NEW from \in {"test", "down", "hold"}, NEW to \in {"test", "down", "hold", "done"},
           S!Go(t, from, to), UNCHANGED <<smod, next, sstop>>
    PROVE  /\ Started' /\ Stopped'
           /\ sthread' \in [S!Threads -> {"none", "error", "test", "down", "hold", "done"}]
           /\ \A u \in S!Threads \ {t} : sthread'[u] = sthread[u]
           /\ smod # "gone"
<1> USE OrderFacts
<1>1. sthread \in [S!Threads -> {"none", "error", "test", "down", "hold", "done"}]
  BY DEF SyncInv, S!TypeOK
<1>2. sthread[t] = from /\ sthread' = [sthread EXCEPT ![t] = to]
  BY DEF S!Go
<1>3. \A u \in S!Threads \ {t} : sthread'[u] = sthread[u]
  BY <1>1, <1>2
<1>4. Started'
  BY <1>1, <1>2, <1>3 DEF SyncInv, Started
<1>5. Stopped'
  BY <1>1, <1>2, <1>3 DEF SyncInv, Stopped
<1>6. smod # "gone"
  BY <1>2 DEF SyncInv, Stopped, S!Threads
<1> QED  BY <1>1, <1>2, <1>3, <1>4, <1>5, <1>6

LEMMA SyncStep == ASSUME Parameters, SyncInv, S!Next PROVE SyncInv'
<1> USE OrderFacts
<1> USE DEF S!rcu
<1>1. CASE S!Register
  <2>1. S!TypeOK'
    BY <1>1 DEF S!Register, S!Load, SyncInv, S!TypeOK
  <2>2. Started' /\ Stopped'
    BY <1>1 DEF S!Register, S!Load, SyncInv, S!TypeOK, Started, Stopped
  <2>3. Protected'
    BY <1>1 DEF S!Register, S!Load, SyncInv, S!TypeOK, Protected
  <2> QED  BY <2>1, <2>2, <2>3 DEF SyncInv
<1>2. CASE S!Run
  <2>1. PICK r \in {"test", "error"} : sthread' = [sthread EXCEPT ![Order[next]] = r]
    BY <1>2 DEF S!Run
  <2>2. /\ smod = "run" /\ next \in DOMAIN Order /\ next' = next + 1
        /\ UNCHANGED <<smod, sstop, smem, rcu_ptr, sdata, grace>>
    BY <1>2 DEF S!Run, SyncInv, S!TypeOK
  <2>3. /\ sthread \in [S!Threads -> {"none", "error", "test", "down", "hold", "done"}]
        /\ Order[next] \in S!Threads /\ sthread[Order[next]] = "none"
    BY <2>2 DEF SyncInv, S!TypeOK, Started
  <2>4. \A j \in DOMAIN Order : j # next => sthread'[Order[j]] = sthread[Order[j]]
    BY <2>1, <2>2, <2>3
  <2>5. S!TypeOK'
    BY <2>1, <2>2, <2>3 DEF SyncInv, S!TypeOK
  <2>6. Started' /\ Stopped'
    BY <2>2, <2>4 DEF SyncInv, Started, Stopped
  <2>7. Protected'
    BY <2>1, <2>2, <2>3 DEF SyncInv, Protected
  <2> QED  BY <2>5, <2>6, <2>7 DEF SyncInv
<1>3. CASE S!Loaded \/ S!Exit
  <2>1. S!TypeOK'
    BY <1>3 DEF S!Loaded, S!Exit, S!Load, SyncInv, S!TypeOK
  <2>2. Started' /\ Stopped'
    BY <1>3 DEF S!Loaded, S!Exit, S!Load, SyncInv, Started, Stopped
  <2>3. Protected'
    BY <1>3 DEF S!Loaded, S!Exit, S!Load, SyncInv, Protected
  <2> QED  BY <2>1, <2>2, <2>3 DEF SyncInv
<1>4. CASE S!Stop
  <2>1. S!TypeOK'
    BY <1>4 DEF S!Stop, SyncInv, S!TypeOK
  <2>2. Started' /\ Stopped'
    BY <1>4 DEF S!Stop, SyncInv, Started, Stopped
  <2>3. Protected'
    BY <1>4 DEF S!Stop, SyncInv, Protected
  <2> QED  BY <2>1, <2>2, <2>3 DEF SyncInv
<1>5. CASE S!Join
  <2>1. S!TypeOK'
    BY <1>5 DEF S!Join, S!Load, SyncInv, S!TypeOK, Stopped
  <2>2. Started' /\ Stopped'
    BY <1>5 DEF S!Join, S!Load, SyncInv, S!TypeOK, Started, Stopped
  <2>3. Protected'
    BY <1>5 DEF S!Join, S!Load, SyncInv, Protected
  <2> QED  BY <2>1, <2>2, <2>3 DEF SyncInv
<1>6. CASE S!FreeData
  <2>1. S!TypeOK'
    BY <1>6 DEF S!FreeData, S!Load, SyncInv, S!TypeOK
  <2>2. Started' /\ Stopped'
    BY <1>6 DEF S!FreeData, S!Load, SyncInv, S!TypeOK, Started, Stopped
  <2>3. Protected'
    BY <1>6 DEF S!FreeData, S!Load, SyncInv, Protected
  <2> QED  BY <2>1, <2>2, <2>3 DEF SyncInv
<1>7. ASSUME NEW t \in S!Threads \ {"rcu_reader"},
             S!Test(t, "down") \/ S!Down(t) \/ S!Up(t)
      PROVE  SyncInv'
  <2>1. PICK from \in {"test", "down", "hold"}, to \in {"test", "down", "hold", "done"} :
           S!Go(t, from, to)
    BY <1>7 DEF S!Test, S!Down, S!Up
  <2>2. UNCHANGED <<smod, next, sstop, smem, rcu_ptr, sdata, grace>>
    BY <1>7 DEF S!Test, S!Down, S!Up
  <2>3. /\ Started' /\ Stopped'
        /\ sthread' \in [S!Threads -> {"none", "error", "test", "down", "hold", "done"}]
        /\ \A u \in S!Threads \ {t} : sthread'[u] = sthread[u]
    BY <2>1, <2>2, ThreadMoves
  <2>4. S!TypeOK'
    BY <2>2, <2>3 DEF SyncInv, S!TypeOK
  <2>5. Protected'
    BY <2>2, <2>3 DEF SyncInv, Protected
  <2> QED  BY <2>3, <2>4, <2>5 DEF SyncInv
<1>8. CASE S!RcuReaderThread
  <2> DEFINE r == "rcu_reader"
  <2>1. r \in S!Threads
    BY <1>8 DEF S!RcuReaderThread
  <2>2. CASE S!Dereference
    <3>1. UNCHANGED <<smod, next, sstop, smem, rcu_ptr, grace>>
      BY <2>2 DEF S!Dereference
    <3>2. \/ S!Go(r, "test", "done") /\ sdata' = sdata
          \/ S!Go(r, "test", "hold") /\ sdata' = rcu_ptr
      BY <2>2 DEF S!Dereference
    <3>3. /\ Started' /\ Stopped' /\ smod # "gone"
          /\ sthread' \in [S!Threads -> {"none", "error", "test", "down", "hold", "done"}]
      BY <2>1, <3>1, <3>2, ThreadMoves
    <3>4. S!TypeOK'
      BY <3>1, <3>2, <3>3 DEF SyncInv, S!TypeOK
    <3>5. Protected'
      BY <2>1, <3>1, <3>2, <3>3 DEF SyncInv, S!TypeOK, Protected, S!Go
    <3> QED  BY <3>3, <3>4, <3>5 DEF SyncInv
  <2>3. CASE S!ReadUnlock
    <3>1. /\ UNCHANGED <<smod, next, sstop, smem, rcu_ptr>>
          /\ sdata' = NULL /\ grace' \in BOOLEAN
      BY <2>3 DEF S!ReadUnlock
    <3>2. S!Go(r, "hold", "test")
      BY <2>3 DEF S!ReadUnlock
    <3>3. /\ Started' /\ Stopped'
          /\ sthread' \in [S!Threads -> {"none", "error", "test", "down", "hold", "done"}]
      BY <2>1, <3>1, <3>2, ThreadMoves
    <3>4. S!TypeOK'
      BY <3>1, <3>3 DEF SyncInv, S!TypeOK
    <3>5. Protected'
      BY <3>1 DEF SyncInv, Protected
    <3> QED  BY <3>3, <3>4, <3>5 DEF SyncInv
  <2> QED  BY <1>8, <2>2, <2>3 DEF S!RcuReaderThread
<1>9. CASE "rcu_writer" \in S!Threads /\ S!Assign
  <2>1. PICK to \in {"test", "hold"} : S!Go("rcu_writer", "down", to)
    BY <1>9 DEF S!Assign
  <2>2. /\ UNCHANGED <<smod, next, sstop, sdata>>
        /\ \/ UNCHANGED <<smem, rcu_ptr, grace>>
           \/ \E d \in Data : /\ smem' = smem \cup {d} /\ rcu_ptr' = d
                              /\ grace' = S!Holds("rcu_reader")
    BY <1>9 DEF S!Assign
  <2>3. /\ Started' /\ Stopped'
        /\ sthread' \in [S!Threads -> {"none", "error", "test", "down", "hold", "done"}]
        /\ \A u \in S!Threads \ {"rcu_writer"} : sthread'[u] = sthread[u]
    BY <1>9, <2>1, <2>2, ThreadMoves
  <2>4. grace' \in BOOLEAN
    BY <2>2 DEF SyncInv, S!TypeOK, S!Holds
  <2>5. S!TypeOK'
    BY <2>2, <2>3, <2>4 DEF SyncInv, S!TypeOK
  <2>6. Protected'
    BY <2>2, <2>3 DEF SyncInv, Protected
  <2> QED  BY <2>3, <2>5, <2>6 DEF SyncInv
<1>10. ASSUME NEW t \in S!Alone, S!AloneThread(t) PROVE SyncInv'
  BY <1>7, <1>10 DEF S!Alone, S!AloneThread
<1>11. CASE S!ReaderThread
  BY <1>7, <1>11 DEF S!ReaderThread, S!DownRead
<1>12. CASE S!WriterThread
  BY <1>7, <1>12 DEF S!WriterThread, S!DownWrite
<1>13. CASE S!RcuWriterThread
  BY <1>7, <1>9, <1>13 DEF S!RcuWriterThread, S!Synchronized
<1> QED  BY <1>1, <1>2, <1>3, <1>4, <1>5, <1>6, <1>8, <1>10, <1>11, <1>12, <1>13
         DEF S!Next, S!Module

-----------------------------------------------------------------------------
(* The kthread_worker demo                                                 *)

LEMMA WorkerStart == ASSUME Parameters, K!Init PROVE WorkerInv
<1>1. K!TypeOK
  BY DEF K!Init, K!TypeOK
<1>2. OneOpen
  BY DEF K!Init, OneOpen
<1>3. ASSUME NEW f \in Files PROVE FileInv(f)
  BY DEF K!Init, FileInv, Pointers, Own, NotLost, Working
<1> QED  BY <1>1, <1>2, <1>3 DEF WorkerInv

(* A step of the open file leaves the closed ones alone.                   *)
LEMMA OthersClosed ==
    ASSUME WorkerInv, NEW f \in Files, pc[f] # "closed", FileInv(f)',
           \A g \in Files \ {f} : /\ pc'[g] = pc[g] /\ mem'[g] = mem[g]
                                  /\ queue'[g] = queue[g] /\ current'[g] = current[g]
                                  /\ g \in live' <=> g \in live
    PROVE  OneOpen' /\ \A g \in Files : FileInv(g)'
<1>1. \A g \in Files \ {f} : pc[g] = "closed"
  BY DEF WorkerInv, OneOpen
<1>2. OneOpen'
  BY <1>1 DEF OneOpen
<1>3. ASSUME NEW g \in Files \ {f} PROVE FileInv(g)'
  <2>1. FileInv(g) /\ pc[g] = "closed"
    BY <1>1 DEF WorkerInv
  <2>2. g \notin live /\ mem[g] = <<0, 0>> /\ queue[g] = <<>> /\ current[g] = NULL
    BY <2>1 DEF FileInv, Pointers, Own, Working
  <2>3. /\ g \notin live' /\ mem'[g] = <<0, 0>> /\ queue'[g] = <<>> /\ current'[g] = NULL
        /\ pc'[g] = "closed"
    BY <2>1, <2>2
  <2> QED  BY <2>3 DEF FileInv, Pointers, Own, NotLost, Working
<1> QED  BY <1>2, <1>3

(* kthread_queue_work adds the item unless it is there, and loses none.    *)
LEMMA QueueWorkAdds ==
    ASSUME K!TypeOK, NEW w \in Files, NEW item \in K!Items, K!QueueWork(w, item)
    PROVE  /\ queue' \in [Files -> Seq(K!Items)]
           /\ \A g \in Files \ {w} : queue'[g] = queue[g]
           /\ Len(queue'[w]) <= Len(queue[w]) + 1
           /\ \E j \in DOMAIN queue'[w] : queue'[w][j] = item
           /\ \A j \in DOMAIN queue[w] : j \in DOMAIN queue'[w] /\ queue'[w][j] = queue[w][j]
           /\ \A j \in DOMAIN queue'[w] :
                 queue'[w][j] = item \/ (j \in DOMAIN queue[w] /\ queue'[w][j] = queue[w][j])
<1>1. queue \in [Files -> Seq(K!Items)]
  BY DEF K!TypeOK
<1>2. Len(queue[w]) \in Nat /\ DOMAIN queue[w] = 1..Len(queue[w])
  BY <1>1
<1>3. CASE \E j \in 1..Len(queue[w]) : queue[w][j] = item
  BY <1>1, <1>2, <1>3 DEF K!QueueWork
<1>4. CASE ~ \E j \in 1..Len(queue[w]) : queue[w][j] = item
  <2>1. queue' = [queue EXCEPT ![w] = Append(queue[w], item)]
    BY <1>4 DEF K!QueueWork
  <2>2. /\ Append(queue[w], item) \in Seq(K!Items)
        /\ Len(Append(queue[w], item)) = Len(queue[w]) + 1
        /\ DOMAIN Append(queue[w], item) = 1..Len(queue[w]) + 1
        /\ Append(queue[w], item)[Len(queue[w]) + 1] = item
        /\ \A j \in 1..Len(queue[w]) : Append(queue[w], item)[j] = queue[w][j]
    BY <1>1, <1>2
  <2>3. /\ queue' \in [Files -> Seq(K!Items)]
        /\ queue'[w] = Append(queue[w], item)
        /\ \A g \in Files \ {w} : queue'[g] = queue[g]
    BY <1>1, <2>1, <2>2
  <2> HIDE <2>1
  <2> QED  BY <1>2, <2>2, <2>3
<1> QED  BY <1>3, <1>4

(* The steps of open.                                                      *)
LEMMA WorkerOpenStep ==
    ASSUME Parameters, WorkerInv, NEW f \in Files,
           \/ K!CreateWorker(f) \/ K!AllocData(f) \/ K!AllocData2(f)
    PROVE  K!TypeOK' /\ FileInv(f)'
<1> USE DEF K!threads
<1>1. FileInv(f) /\ K!TypeOK
  BY DEF WorkerInv
<1>2. /\ pc \in [Files -> {"closed", "worker", "data", "data2", "queue", "queue2", "undo", "open",
                           "flush", "destroy", "free", "free2"}]
      /\ mem \in [Files -> {0, 1} \X {0, 1}]
  BY <1>1 DEF K!TypeOK
<1>3. f # NULL
  BY DEF Parameters, K!NoneIsNoFile
<1>4. CASE K!CreateWorker(f)
  <2>1. K!TypeOK'
    <3>1. /\ pc' \in [Files -> {"closed", "worker", "data", "data2", "queue", "queue2", "undo",
                                "open", "flush", "destroy", "free", "free2"}]
          /\ worker' \in Files \cup {NULL} /\ live' \subseteq Files
      BY <1>1, <1>2, <1>4 DEF K!CreateWorker, K!TypeOK, K!Go
    <3>2. UNCHANGED <<kmod, data, data2, mem, queue, current, done>>
      BY <1>4 DEF K!CreateWorker
    <3> QED  BY <1>1, <3>1, <3>2 DEF K!TypeOK
  <2>2. FileInv(f)'
    BY <1>1, <1>2, <1>4 DEF K!CreateWorker, K!Go, FileInv, Pointers, Own, NotLost, Working
  <2> QED  BY <2>1, <2>2
<1>5. CASE K!AllocData(f)
  <2>1. pc[f] = "data" /\ mem[f] = <<0, 0>>
    BY <1>1, <1>5 DEF K!AllocData, K!Go, FileInv, Pointers, Working
  <2>2. \/ /\ pc' = [pc EXCEPT ![f] = "data2"] /\ data' = f
           /\ mem' = [mem EXCEPT ![f] = <<1, 0>>]
        \/ pc' = [pc EXCEPT ![f] = "undo"] /\ data' = NULL /\ mem' = mem
    BY <1>2, <1>5, <2>1 DEF K!AllocData, K!Go
  <2>3. UNCHANGED <<kmod, worker, data2, live, queue, current, done>>
    BY <1>5 DEF K!AllocData
  <2>4. K!TypeOK'
    <3>1. <<0, 0>> \in {0, 1} \X {0, 1} /\ <<1, 0>> \in {0, 1} \X {0, 1} /\ <<1, 1>> \in {0, 1} \X {0, 1}
      OBVIOUS
    <3>2. mem' \in [Files -> {0, 1} \X {0, 1}]
      BY <1>2, <2>2, <3>1
    <3>3. {worker, data, data2}' \subseteq Files \cup {NULL}
      BY <1>1, <2>2, <2>3 DEF K!TypeOK
    <3> QED  BY <1>1, <1>2, <2>2, <2>3, <3>2, <3>3 DEF K!TypeOK
  <2>5. FileInv(f)'
    BY <1>1, <1>2, <2>1, <2>2, <2>3 DEF FileInv, Pointers, Own, NotLost, Working
  <2> QED  BY <2>4, <2>5
<1>6. CASE K!AllocData2(f)
  <2>1. pc[f] = "data2" /\ data = f /\ mem[f] = <<1, 0>>
    BY <1>1, <1>6 DEF K!AllocData2, K!Go, FileInv, Pointers, Working
  <2>2. \/ /\ pc' = [pc EXCEPT ![f] = "queue"] /\ data2' = f
           /\ mem' = [mem EXCEPT ![f] = <<1, 1>>]
        \/ pc' = [pc EXCEPT ![f] = "undo"] /\ data2' = NULL /\ mem' = [mem EXCEPT ![f] = <<0, 0>>]
    BY <1>2, <1>6, <2>1 DEF K!AllocData2, K!Go, K!Kfree
  <2>3. UNCHANGED <<kmod, worker, data, live, queue, current, done>>
    BY <1>6 DEF K!AllocData2
  <2>4. K!TypeOK'
    <3>1. <<0, 0>> \in {0, 1} \X {0, 1} /\ <<1, 0>> \in {0, 1} \X {0, 1} /\ <<1, 1>> \in {0, 1} \X {0, 1}
      OBVIOUS
    <3>2. mem' \in [Files -> {0, 1} \X {0, 1}]
      BY <1>2, <2>2, <3>1
    <3>3. {worker, data, data2}' \subseteq Files \cup {NULL}
      BY <1>1, <2>2, <2>3 DEF K!TypeOK
    <3> QED  BY <1>1, <1>2, <2>2, <2>3, <3>2, <3>3 DEF K!TypeOK
  <2>5. FileInv(f)'
    BY <1>1, <1>2, <2>1, <2>2, <2>3 DEF FileInv, Pointers, Own, NotLost, Working
  <2> QED  BY <2>4, <2>5
<1> QED  BY <1>4, <1>5, <1>6

(* The steps that put an item on the list.                                 *)
LEMMA WorkerQueueStep ==
    ASSUME Parameters, WorkerInv, NEW f \in Files,
           K!QueueData(f) \/ K!QueueData2(f) \/ K!Flush(f)
    PROVE  /\ K!TypeOK' /\ FileInv(f)'
           /\ \A g \in Files \ {f} : queue'[g] = queue[g]
<1>1. FileInv(f) /\ K!TypeOK
  BY DEF WorkerInv
<1>2. pc \in [Files -> {"closed", "worker", "data", "data2", "queue", "queue2", "undo", "open",
                        "flush", "destroy", "free", "free2"}]
  BY <1>1 DEF K!TypeOK
<1>3. PICK from, to, item :
         /\ \/ from = "queue" /\ to = "queue2" /\ item = K!Item(f, 1)
            \/ from = "queue2" /\ to = "open" /\ item = K!Item(f, 2)
            \/ from = "open" /\ to = "flush" /\ item = K!FlushItem(f)
         /\ pc[f] = from /\ pc' = [pc EXCEPT ![f] = to]
         /\ K!QueueWork(f, item)
         /\ UNCHANGED <<kmod, worker, data, data2, live, mem, current, done>>
  BY <1>1 DEF K!QueueData, K!QueueData2, K!Flush, K!Go, K!globals, FileInv, Pointers, Working
<1>4. item \in K!Items /\ item.file = f
  BY <1>3 DEF K!Item, K!FlushItem, K!Items
<1>5. /\ queue' \in [Files -> Seq(K!Items)]
      /\ \A g \in Files \ {f} : queue'[g] = queue[g]
      /\ Len(queue'[f]) <= Len(queue[f]) + 1
      /\ \E j \in DOMAIN queue'[f] : queue'[f][j] = item
      /\ \A j \in DOMAIN queue[f] : j \in DOMAIN queue'[f] /\ queue'[f][j] = queue[f][j]
      /\ \A j \in DOMAIN queue'[f] :
            queue'[f][j] = item \/ (j \in DOMAIN queue[f] /\ queue'[f][j] = queue[f][j])
  BY <1>1, <1>3, <1>4, QueueWorkAdds
<1>6. pc'[f] = to
  BY <1>2, <1>3
<1>7. Pointers(f)'
  BY <1>1, <1>3, <1>6 DEF FileInv, Pointers, Working
<1>8. /\ Len(queue[f]) <= (CASE from = "queue" -> 0 [] from = "queue2" -> 1 [] OTHER -> 2)
      /\ Len(queue[f]) \in Nat /\ Len(queue'[f]) \in Nat
  BY <1>1, <1>3, <1>5 DEF FileInv, Own, Working, K!TypeOK
<1>9. Own(f)'
  BY <1>1, <1>3, <1>4, <1>5, <1>6, <1>8 DEF FileInv, Own, Working
<1>10. NotLost(f)'
  <2>1. ASSUME NEW n, Given(f, n) PROVE Given(f, n)'
    BY <1>3, <1>5, <2>1 DEF Given, K!Item
  <2> QED  BY <1>1, <1>3, <1>5, <1>6, <2>1 DEF FileInv, NotLost, Given, Working
<1>11. K!TypeOK'
  <2>1. Len(queue[f]) <= 2
    BY <1>3, <1>8
  <2>2. Len(queue'[f]) <= 3
    BY <1>5, <1>8, <2>1
  <2>3. \A g \in Files : Len(queue'[g]) <= 3
    BY <1>1, <1>5, <2>2 DEF K!TypeOK
  <2> QED  BY <1>1, <1>2, <1>3, <1>5, <2>3 DEF K!TypeOK
<1> QED  BY <1>5, <1>7, <1>9, <1>10, <1>11 DEF FileInv

(* The steps of release, and the way out of a failed open.                 *)
LEMMA WorkerCloseStep ==
    ASSUME Parameters, WorkerInv, NEW f \in Files,
           \/ K!UndoOpen(f) \/ K!Flushed(f) \/ K!DestroyWorker(f)
           \/ K!FreeData(f) \/ K!FreeData2(f)
    PROVE  K!TypeOK' /\ FileInv(f)'
<1> USE DEF K!threads, K!globals
<1>1. FileInv(f) /\ K!TypeOK
  BY DEF WorkerInv
<1>2. /\ pc \in [Files -> {"closed", "worker", "data", "data2", "queue", "queue2", "undo", "open",
                           "flush", "destroy", "free", "free2"}]
      /\ mem \in [Files -> {0, 1} \X {0, 1}]
  BY <1>1 DEF K!TypeOK
<1>3. ASSUME NEW from, NEW to, K!Destroy(f, from, to),
             \/ from = "undo" /\ to = "closed"
             \/ from = "destroy" /\ to = "free"
      PROVE  K!TypeOK' /\ FileInv(f)'
  <2>1. pc[f] = from /\ pc' = [pc EXCEPT ![f] = to] /\ worker = f
    BY <1>1, <1>3 DEF K!Destroy, K!Go, FileInv, Pointers, Working
  <2>2. /\ UNCHANGED <<kmod, worker, data, data2, mem, queue, current, done>>
        /\ live' = live \ {f} /\ queue[f] = <<>> /\ current[f] = NULL
    BY <1>3, <2>1 DEF K!Destroy
  <2>3. K!TypeOK'
    BY <1>1, <1>2, <1>3, <2>1, <2>2 DEF K!TypeOK
  <2>4. FileInv(f)'
    BY <1>1, <1>2, <1>3, <2>1, <2>2 DEF FileInv, Pointers, Own, NotLost, Given, Working
  <2> QED  BY <2>3, <2>4
<1>4. CASE K!Flushed(f)
  <2>1. K!TypeOK'
    BY <1>1, <1>2, <1>4 DEF K!Flushed, K!Go, K!TypeOK
  <2>2. FileInv(f)'
    BY <1>1, <1>2, <1>4 DEF K!Flushed, K!Go, FileInv, Pointers, Own, NotLost, Given, Working
  <2> QED  BY <2>1, <2>2
<1>5. CASE K!FreeData(f)
  <2>1. pc[f] = "free" /\ pc' = [pc EXCEPT ![f] = "free2"] /\ data = f /\ mem[f] = <<1, 1>>
    BY <1>1, <1>5 DEF K!FreeData, K!Go, FileInv, Pointers, Working
  <2>2. mem' = [mem EXCEPT ![f] = <<0, 1>>]
    <3>1. [<<1, 1>> EXCEPT ![1] = @ - 1] = <<0, 1>>
      OBVIOUS
    <3>2. mem' = [mem EXCEPT ![f] = [mem[f] EXCEPT ![1] = @ - 1]]
      BY <1>5, <2>1 DEF K!FreeData, K!Kfree
    <3> QED  BY <2>1, <3>1, <3>2
  <2>3. UNCHANGED <<kmod, worker, data, data2, live, queue, current, done>>
    BY <1>5 DEF K!FreeData
  <2>4. mem' \in [Files -> {0, 1} \X {0, 1}]
    BY <1>2, <2>2
  <2>5. K!TypeOK'
    BY <1>1, <1>2, <2>1, <2>3, <2>4 DEF K!TypeOK
  <2>6. FileInv(f)'
    BY <1>1, <1>2, <2>1, <2>2, <2>3 DEF FileInv, Pointers, Own, NotLost, Given, Working
  <2> QED  BY <2>5, <2>6
<1>6. CASE K!FreeData2(f)
  <2>1. pc[f] = "free2" /\ pc' = [pc EXCEPT ![f] = "closed"] /\ data2 = f /\ mem[f] = <<0, 1>>
    BY <1>1, <1>6 DEF K!FreeData2, K!Go, FileInv, Pointers, Working
  <2>2. mem' = [mem EXCEPT ![f] = <<0, 0>>]
    <3>1. [<<0, 1>> EXCEPT ![2] = @ - 1] = <<0, 0>>
      OBVIOUS
    <3>2. mem' = [mem EXCEPT ![f] = [mem[f] EXCEPT ![2] = @ - 1]]
      BY <1>6, <2>1 DEF K!FreeData2, K!Kfree
    <3> QED  BY <2>1, <3>1, <3>2
  <2>3. UNCHANGED <<kmod, worker, data, data2, live, queue, current, done>>
    BY <1>6 DEF K!FreeData2
  <2>4. mem' \in [Files -> {0, 1} \X {0, 1}]
    BY <1>2, <2>2
  <2>5. K!TypeOK'
    BY <1>1, <1>2, <2>1, <2>3, <2>4 DEF K!TypeOK
  <2>6. FileInv(f)'
    BY <1>1, <1>2, <2>1, <2>2, <2>3 DEF FileInv, Pointers, Own, NotLost, Given, Working
  <2> QED  BY <2>5, <2>6
<1> QED  BY <1>3, <1>4, <1>5, <1>6 DEF K!UndoOpen, K!DestroyWorker

(* The worker thread.                                                      *)
LEMMA WorkerThreadStep ==
    ASSUME Parameters, WorkerInv, NEW f \in Files, K!Thread(f)
    PROVE  /\ K!TypeOK' /\ FileInv(f)' /\ pc[f] # "closed"
           /\ \A g \in Files \ {f} : queue'[g] = queue[g] /\ current'[g] = current[g]
<1>1. FileInv(f) /\ K!TypeOK
  BY DEF WorkerInv
<1>2. /\ queue \in [Files -> Seq(K!Items)] /\ current \in [Files -> K!Items \cup {NULL}]
      /\ NULL \notin K!Items /\ Len(queue[f]) <= 3 /\ done \subseteq K!Items
  BY <1>1 DEF K!TypeOK, Parameters, K!NoneIsNoFile
<1>3. /\ Len(queue[f]) \in Nat /\ DOMAIN queue[f] = 1..Len(queue[f])
      /\ \A j \in DOMAIN queue[f] : queue[f][j] \in K!Items
  BY <1>2
<1>4. CASE K!Take(f)
  <2> DEFINE rest == Tail(queue[f])
  <2>1. /\ queue[f] # <<>> /\ current[f] = NULL
        /\ current' = [current EXCEPT ![f] = queue[f][1]]
        /\ queue' = [queue EXCEPT ![f] = rest]
        /\ UNCHANGED <<kmod, worker, data, data2, live, mem, done, pc>>
    BY <1>2, <1>4 DEF K!Take, K!globals
  <2>2. pc[f] \in Working
    BY <1>1, <2>1 DEF FileInv, Own
  <2>3. /\ rest \in Seq(K!Items) /\ Len(rest) = Len(queue[f]) - 1
        /\ DOMAIN rest = 1 .. Len(queue[f]) - 1
        /\ \A j \in DOMAIN rest : rest[j] = queue[f][j + 1]
        /\ 1 \in DOMAIN queue[f]
    BY <1>2, <1>3, <2>1
  <2>4. /\ queue' \in [Files -> Seq(K!Items)] /\ queue'[f] = rest
        /\ current' \in [Files -> K!Items \cup {NULL}] /\ current'[f] = queue[f][1]
        /\ \A g \in Files \ {f} : queue'[g] = queue[g] /\ current'[g] = current[g]
    BY <1>2, <1>3, <2>1, <2>3
  <2> HIDE DEF rest
  <2>5. K!TypeOK'
    <3>1. Len(queue'[f]) <= 3
      BY <1>2, <1>3, <2>3, <2>4
    <3>2. \A g \in Files : Len(queue'[g]) <= 3
      BY <1>1, <2>4, <3>1 DEF K!TypeOK
    <3> QED  BY <1>1, <2>1, <2>4, <3>2 DEF K!TypeOK
  <2>6. Pointers(f)'
    BY <1>1, <2>1 DEF FileInv, Pointers
  <2>7. Own(f)'
    <3>1. \A j \in DOMAIN queue[f] : queue[f][j].file = f
      BY <1>1 DEF FileInv, Own
    <3>2. current'[f].file = f
      BY <2>3, <2>4, <3>1
    <3>3. ASSUME NEW j \in DOMAIN queue'[f] PROVE queue'[f][j].file = f
      <4>1. j \in 1 .. Len(queue[f]) - 1 /\ queue'[f][j] = queue[f][j + 1]
        BY <2>3, <2>4
      <4>2. j + 1 \in DOMAIN queue[f]
        BY <1>3, <4>1
      <4> QED  BY <3>1, <4>1, <4>2
    <3>4. Len(queue'[f]) <= Len(queue[f]) /\ Len(queue'[f]) \in Nat
      BY <1>3, <2>3, <2>4
    <3>5. /\ pc[f] = "queue2" => Len(queue'[f]) <= 1
          /\ pc[f] = "open" => Len(queue'[f]) <= 2
      BY <1>1, <1>3, <3>4 DEF FileInv, Own
    <3> QED  BY <2>1, <2>2, <3>2, <3>3, <3>5 DEF Own
  <2>8. ASSUME NEW n \in 1..2, Given(f, n) PROVE Given(f, n)'
    <3>1. CASE K!Item(f, n) \in done
      BY <2>1, <3>1 DEF Given, K!Item
    <3>2. CASE current[f] = K!Item(f, n)
      BY <1>2, <2>1, <3>2 DEF K!Item, K!Items
    <3>3. ASSUME NEW j \in DOMAIN queue[f], queue[f][j] = K!Item(f, n)
          PROVE  Given(f, n)'
      <4>1. CASE j = 1
        BY <2>4, <3>3, <4>1 DEF Given, K!Item
      <4>2. CASE j # 1
        <5>1. j - 1 \in DOMAIN rest /\ rest[j - 1] = queue[f][j]
          BY <1>3, <2>3, <4>2
        <5> QED  BY <2>4, <3>3, <5>1 DEF Given, K!Item
      <4> QED  BY <4>1, <4>2
    <3> QED  BY <2>8, <3>1, <3>2, <3>3 DEF Given
  <2>9. NotLost(f)'
    BY <1>1, <2>1, <2>8 DEF FileInv, NotLost
  <2> QED  BY <2>2, <2>4, <2>5, <2>6, <2>7, <2>9 DEF FileInv, Working
<1>5. CASE K!Work(f)
  <2>1. /\ current[f] # NULL /\ done' = done \cup {current[f]}
        /\ current' = [current EXCEPT ![f] = NULL]
        /\ UNCHANGED <<kmod, worker, data, data2, live, mem, queue, pc>>
    BY <1>5 DEF K!Work, K!globals
  <2>2. pc[f] \in Working
    BY <1>1, <2>1 DEF FileInv, Own
  <2>3. /\ current' \in [Files -> K!Items \cup {NULL}] /\ current'[f] = NULL
        /\ \A g \in Files \ {f} : current'[g] = current[g]
        /\ current[f] \in K!Items
    BY <1>2, <2>1
  <2>4. K!TypeOK'
    BY <1>1, <2>1, <2>3 DEF K!TypeOK
  <2>5. Pointers(f)' /\ Own(f)'
    BY <1>1, <2>1, <2>3 DEF FileInv, Pointers, Own
  <2>6. ASSUME NEW n, Given(f, n) PROVE Given(f, n)'
    BY <2>1, <2>6 DEF Given, K!Item
  <2>7. NotLost(f)'
    BY <1>1, <2>1, <2>6 DEF FileInv, NotLost
  <2> QED  BY <2>1, <2>2, <2>3, <2>4, <2>5, <2>7 DEF FileInv, Working
<1> QED  BY <1>4, <1>5 DEF K!Thread

LEMMA WorkerStep == ASSUME Parameters, WorkerInv, K!Next PROVE WorkerInv'
<1>1. CASE K!Register \/ K!Unregister
  <2>1. UNCHANGED <<worker, data, data2, live, mem, queue, current, done, pc>>
    BY <1>1 DEF K!Register, K!Unregister, K!globals, K!threads
  <2>2. K!TypeOK'
    BY <1>1, <2>1 DEF K!Register, K!Unregister, WorkerInv, K!TypeOK
  <2>3. OneOpen'
    BY <2>1 DEF WorkerInv, OneOpen
  <2>4. ASSUME NEW f \in Files PROVE FileInv(f)'
    BY <2>1 DEF WorkerInv, FileInv, Pointers, Own, NotLost, Given, K!Item
  <2> QED  BY <2>2, <2>3, <2>4 DEF WorkerInv
<1>2. ASSUME NEW f \in Files, K!Open(f) PROVE WorkerInv'
  <2> DEFINE opened == {g \in Files : pc[g] # "closed"}
  <2>1. opened = {}
    <3>1. IsFiniteSet(opened)
      <4>1. IsFiniteSet(Files) /\ opened \in SUBSET Files
        BY DEF Parameters
      <4> HIDE DEF opened
      <4> QED  BY <4>1, FS_Subset
    <3>2. Cardinality(opened) < 1
      BY <1>2 DEF K!Open, K!Cardinality, Cardinality
    <3>3. Cardinality(opened) \in Nat
      BY <3>1, FS_CardinalityType
    <3> HIDE DEF opened
    <3> QED  BY <3>1, <3>2, <3>3, FS_EmptySet
  <2>2. \A g \in Files : pc[g] = "closed"
    BY <2>1
  <2>3. /\ pc' = [pc EXCEPT ![f] = "worker"] /\ done' = {it \in done : it.file # f}
        /\ UNCHANGED <<kmod, worker, data, data2, live, mem, queue, current>>
    BY <1>2 DEF K!Open, K!Go, K!globals
  <2>4. K!TypeOK'
    BY <2>3 DEF WorkerInv, K!TypeOK
  <2>5. \A g \in Files : pc'[g] = IF g = f THEN "worker" ELSE "closed"
    BY <2>2, <2>3 DEF WorkerInv, K!TypeOK
  <2>6. OneOpen'
    BY <2>5 DEF OneOpen
  <2>7. ASSUME NEW g \in Files PROVE FileInv(g)'
    <3>1. g \notin live /\ mem[g] = <<0, 0>> /\ queue[g] = <<>> /\ current[g] = NULL
      BY <2>2 DEF WorkerInv, FileInv, Pointers, Own, Working
    <3>2. /\ g \notin live' /\ mem'[g] = <<0, 0>> /\ queue'[g] = <<>> /\ current'[g] = NULL
          /\ pc'[g] \in {"worker", "closed"}
      BY <2>3, <2>5, <3>1
    <3> QED  BY <3>2 DEF FileInv, Pointers, Own, NotLost, Working
  <2> QED  BY <2>4, <2>6, <2>7 DEF WorkerInv
<1>3. ASSUME NEW f \in Files, K!Flush(f) \/ K!Call(f) \/ K!Thread(f) PROVE WorkerInv'
  <2> DEFINE Others == \A g \in Files \ {f} : /\ pc'[g] = pc[g] /\ mem'[g] = mem[g]
                                              /\ queue'[g] = queue[g] /\ current'[g] = current[g]
                                              /\ g \in live' <=> g \in live
  <2>1. /\ pc \in [Files -> {"closed", "worker", "data", "data2", "queue", "queue2", "undo", "open",
                             "flush", "destroy", "free", "free2"}]
        /\ mem \in [Files -> {0, 1} \X {0, 1}]
        /\ FileInv(f)
    BY DEF WorkerInv, K!TypeOK
  <2>2. CASE K!CreateWorker(f) \/ K!AllocData(f) \/ K!AllocData2(f)
    <3>1. K!TypeOK' /\ FileInv(f)'
      BY <2>2, WorkerOpenStep
    <3>2. pc[f] # "closed" /\ Others
      BY <2>1, <2>2 DEF K!CreateWorker, K!AllocData, K!AllocData2, K!Go, K!Kfree, K!threads,
                        FileInv, Pointers
    <3> QED  BY <3>1, <3>2, OthersClosed DEF WorkerInv
  <2>3. CASE K!QueueData(f) \/ K!QueueData2(f) \/ K!Flush(f)
    <3>1. K!TypeOK' /\ FileInv(f)' /\ \A g \in Files \ {f} : queue'[g] = queue[g]
      BY <2>3, WorkerQueueStep
    <3>2. pc[f] # "closed" /\ Others
      BY <2>1, <2>3, <3>1 DEF K!QueueData, K!QueueData2, K!Flush, K!Go
    <3> QED  BY <3>1, <3>2, OthersClosed DEF WorkerInv
  <2>4. CASE \/ K!UndoOpen(f) \/ K!Flushed(f) \/ K!DestroyWorker(f)
             \/ K!FreeData(f) \/ K!FreeData2(f)
    <3>1. K!TypeOK' /\ FileInv(f)'
      BY <2>4, WorkerCloseStep
    <3>2. pc[f] # "closed" /\ Others
      BY <2>1, <2>4 DEF K!UndoOpen, K!Flushed, K!DestroyWorker, K!Destroy, K!FreeData, K!FreeData2,
                        K!Go, K!Kfree, K!threads, FileInv, Pointers, Working
    <3> QED  BY <3>1, <3>2, OthersClosed DEF WorkerInv
  <2>5. CASE K!Thread(f)
    <3>1. /\ K!TypeOK' /\ FileInv(f)' /\ pc[f] # "closed"
          /\ \A g \in Files \ {f} : queue'[g] = queue[g] /\ current'[g] = current[g]
      BY <2>5, WorkerThreadStep
    <3>2. UNCHANGED <<live, mem, pc>>
      BY <2>5 DEF K!Thread, K!Take, K!Work
    <3> QED  BY <3>1, <3>2, OthersClosed DEF WorkerInv
  <2> QED  BY <1>3, <2>2, <2>3, <2>4, <2>5 DEF K!Call
<1> QED  BY <1>1, <1>2, <1>3 DEF K!Next

-----------------------------------------------------------------------------
(* The demos of deferred work                                              *)

(* A list that has each of the three items at most once has room for them. *)
LEMMA ShortList ==
    ASSUME NEW s \in Seq(D!Items), Distinct(s)
    PROVE  Len(s) <= 3
<1>1. SUFFICES ASSUME Len(s) >= 4 PROVE FALSE
  OBVIOUS
<1>2. 1 \in DOMAIN s /\ 2 \in DOMAIN s /\ 3 \in DOMAIN s /\ 4 \in DOMAIN s
  BY <1>1
<1>3. s[1] \in D!Items /\ s[2] \in D!Items /\ s[3] \in D!Items /\ s[4] \in D!Items
  BY <1>2
<1>4. /\ s[1] # s[2] /\ s[1] # s[3] /\ s[1] # s[4]
      /\ s[2] # s[3] /\ s[2] # s[4] /\ s[3] # s[4]
  BY <1>2 DEF Distinct
<1> QED  BY <1>3, <1>4 DEF D!Items

LEMMA EmptyList == <<>> \in Seq(D!Items) /\ Distinct(<<>>) /\ \A i : i \notin D!ToSet(<<>>)
BY DEF Distinct, D!ToSet

LEMMA ThreeItems == D!Cardinality(D!Items) = 3
<1>1. /\ IsFiniteSet({"work"}) /\ Cardinality({"work"}) = 1
  BY FS_Singleton
<1>2. /\ IsFiniteSet({"work"} \cup {"delayed"}) /\ Cardinality({"work"} \cup {"delayed"}) = 2
  BY <1>1, FS_AddElement
<1>3. Cardinality(({"work"} \cup {"delayed"}) \cup {"cancelable"}) = 3
  BY <1>2, FS_AddElement
<1>4. D!Items = ({"work"} \cup {"delayed"}) \cup {"cancelable"}
  BY DEF D!Items
<1>5. Cardinality(D!Items) = 3
  BY <1>3, <1>4
<1> QED  BY <1>5 DEF D!Cardinality, Cardinality

(* Queueing leaves every other item where it is, ...                       *)
LEMMA QueueAdds ==
    ASSUME list \in Seq(D!Items), Distinct(list), NEW i \in D!Items, D!Queue(i)
    PROVE  /\ list' \in Seq(D!Items) /\ Distinct(list')
           /\ \A j \in D!Items : D!Queued(j)' <=> D!Queued(j) \/ j = i
<1>1. Len(list) \in Nat /\ DOMAIN list = 1..Len(list)
  OBVIOUS
<1>2. CASE D!Queued(i)
  BY <1>2 DEF D!Queue, D!Queued
<1>3. CASE ~D!Queued(i)
  <2> DEFINE longer == Append(list, i)
  <2>1. list' = longer
    BY <1>3 DEF D!Queue
  <2>2. /\ longer \in Seq(D!Items) /\ DOMAIN longer = 1..Len(list) + 1
        /\ longer[Len(list) + 1] = i
        /\ \A j \in 1..Len(list) : longer[j] = list[j]
    BY <1>1
  <2> HIDE DEF longer
  <2>3. \A j \in DOMAIN list : list[j] # i
    BY <1>3 DEF D!Queued, D!ToSet
  <2>4. Distinct(longer)
    BY <1>1, <2>2, <2>3 DEF Distinct
  <2>5. ASSUME NEW j \in D!Items
        PROVE  (\E k \in DOMAIN longer : longer[k] = j) <=> (\E k \in DOMAIN list : list[k] = j) \/ j = i
    BY <1>1, <2>2
  <2> QED  BY <2>1, <2>2, <2>4, <2>5 DEF D!Queued, D!ToSet
<1> QED  BY <1>2, <1>3

(* ... and so does taking an item off the list.                            *)
LEMMA DequeueRemoves ==
    ASSUME list \in Seq(D!Items), Distinct(list), NEW i \in D!Items, D!Dequeue(i)
    PROVE  /\ list' \in Seq(D!Items) /\ Distinct(list')
           /\ \A j \in D!Items : D!Queued(j)' <=> D!Queued(j) /\ j # i
<1>1. Len(list) \in Nat /\ DOMAIN list = 1..Len(list)
  OBVIOUS
<1>2. CASE ~D!Queued(i)
  BY <1>2 DEF D!Dequeue, D!Queued
<1>3. CASE D!Queued(i)
  <2>1. PICK p \in DOMAIN list : list[p] = i /\ list' = D!RemoveAt(list, p)
    BY <1>3 DEF D!Dequeue
  <2> DEFINE shorter == D!RemoveAt(list, p)
  <2>2. /\ shorter \in Seq(D!Items) /\ DOMAIN shorter = 1 .. Len(list) - 1
        /\ \A j \in 1 .. Len(list) - 1 : shorter[j] = list[IF j < p THEN j ELSE j + 1]
    <3> DEFINE front == SubSeq(list, 1, p - 1)
               back == SubSeq(list, p + 1, Len(list))
    <3>1. /\ front \in Seq(D!Items) /\ Len(front) = p - 1
          /\ \A j \in 1 .. p - 1 : front[j] = list[j]
      BY <1>1
    <3>2. /\ back \in Seq(D!Items) /\ Len(back) = Len(list) - p
          /\ \A j \in 1 .. Len(list) - p : back[j] = list[j + p]
      BY <1>1
    <3>3. shorter = front \o back
      BY DEF D!RemoveAt
    <3> HIDE DEF front, back, shorter
    <3>4. /\ front \o back \in Seq(D!Items) /\ Len(front \o back) = Len(front) + Len(back)
          /\ \A j \in 1 .. Len(front) + Len(back) :
                (front \o back)[j] = IF j <= Len(front) THEN front[j] ELSE back[j - Len(front)]
      BY <3>1, <3>2, ConcatProperties
    <3>5. /\ p \in Int /\ 1 <= p /\ p <= Len(list)
          /\ Len(front) = p - 1 /\ Len(back) = Len(list) - p
          /\ Len(front) + Len(back) = Len(list) - 1
      BY <1>1, <3>1, <3>2
    <3>6. ASSUME NEW j \in 1 .. Len(list) - 1, j < p
          PROVE  (front \o back)[j] = list[j]
      <4>1. j \in 1 .. p - 1 /\ j <= Len(front) /\ j \in 1 .. Len(front) + Len(back)
        BY <1>1, <3>5, <3>6
      <4> QED  BY <3>1, <3>4, <4>1
    <3>7. ASSUME NEW j \in 1 .. Len(list) - 1, ~(j < p)
          PROVE  (front \o back)[j] = list[j + 1]
      <4> DEFINE k == j - (p - 1)
      <4>1. k \in 1 .. Len(list) - p /\ k + p = j + 1
        BY <1>1, <3>5, <3>7
      <4>2. ~(j <= Len(front)) /\ j \in 1 .. Len(front) + Len(back) /\ j - Len(front) = k
        BY <1>1, <3>5, <3>7
      <4> HIDE DEF k
      <4>3. (front \o back)[j] = back[k]
        BY <3>4, <4>2
      <4>4. back[k] = list[k + p]
        BY <3>2, <4>1
      <4> QED  BY <4>1, <4>3, <4>4
    <3>8. DOMAIN (front \o back) = 1 .. Len(list) - 1
      <4>1. DOMAIN (front \o back) = 1 .. Len(front \o back)
        BY <3>4
      <4> QED  BY <3>4, <3>5, <4>1
    <3> QED  BY <3>3, <3>4, <3>6, <3>7, <3>8
  <2> HIDE DEF shorter
  <2>3. Distinct(shorter)
    <3> DEFINE at(j) == IF j < p THEN j ELSE j + 1
    <3> SUFFICES ASSUME NEW j \in DOMAIN shorter, NEW k \in DOMAIN shorter,
                        shorter[j] = shorter[k]
                 PROVE  j = k
      BY DEF Distinct
    <3>1. /\ j \in Int /\ k \in Int /\ p \in Int
          /\ at(j) \in DOMAIN list /\ at(k) \in DOMAIN list
      BY <1>1, <2>2
    <3>2. list[at(j)] = list[at(k)]
      BY <2>2
    <3>3. at(j) = at(k)
      BY <3>1, <3>2, <1>1 DEF Distinct
    <3> QED  BY <3>1, <3>3
  <2>4. ASSUME NEW j \in D!Items
        PROVE  (\E k \in DOMAIN shorter : shorter[k] = j) <=> (\E k \in DOMAIN list : list[k] = j) /\ j # i
    <3>1. ASSUME NEW k \in DOMAIN shorter, shorter[k] = j
          PROVE  (\E m \in DOMAIN list : list[m] = j) /\ j # i
      BY <1>1, <2>1, <2>2, <3>1 DEF Distinct
    <3>2. ASSUME NEW k \in DOMAIN list, list[k] = j, j # i
          PROVE  \E m \in DOMAIN shorter : shorter[m] = j
      <4>1. CASE k < p
        BY <1>1, <2>1, <2>2, <3>2, <4>1
      <4>2. CASE k > p
        <5>1. k - 1 \in DOMAIN shorter /\ shorter[k - 1] = list[k]
          BY <1>1, <2>1, <2>2, <4>2
        <5> QED  BY <3>2, <5>1
      <4> QED  BY <1>1, <2>1, <3>2, <4>1, <4>2
    <3> QED  BY <3>1, <3>2
  <2> QED  BY <2>1, <2>2, <2>3, <2>4 DEF D!Queued, D!ToSet, shorter
<1> QED  BY <1>2, <1>3

LEMMA DeferredTypes == ASSUME DeferredInv PROVE D!TypeOK
<1>1. Len(list) <= D!Cardinality(D!Items)
  BY ShortList, ThreeItems DEF DeferredInv, Ranges, InOrder
<1>2. ASSUME D!Private PROVE ~(D!Cardinality(running) > 1)
  <2>1. running = {} \/ \E i : running = {i}
    BY <1>2 DEF DeferredInv, InOrder
  <2>2. Cardinality(running) \in {0, 1}
    BY <2>1, FS_EmptySet, FS_Singleton
  <2>3. D!Cardinality(running) \in {0, 1}
    BY <2>2 DEF D!Cardinality, Cardinality
  <2> QED  BY <2>3
<1>3. {dthread, timer} \subseteq BOOLEAN
  BY DEF DeferredInv, Ranges
<1> QED  BY <1>1, <1>2, <1>3 DEF DeferredInv, Ranges, D!TypeOK

LEMMA DeferredStart == ASSUME D!Init PROVE DeferredInv
<1>1. dthread \in BOOLEAN /\ timer \in BOOLEAN /\ ~timer
  BY Zenon DEF D!Init
<1>2. /\ demo \in {"worker", "workqueue"} /\ dmod = "register" /\ list = <<>>
      /\ running = {} /\ ran = {} /\ step = "closed"
  BY DEF D!Init
<1>3. \A i : D!Idle(i)
  BY <1>1, <1>2 DEF D!Idle, D!Queued, D!ToSet
<1> QED  BY <1>1, <1>2, <1>3 DEF DeferredInv, Ranges, InOrder, Distinct, Resting, WorkNotLost

(* The steps of open.                                                      *)
LEMMA DeferredOpenStep ==
    ASSUME DeferredInv, D!Load \/ D!Open \/ D!Opening
    PROVE  DeferredInv'
<1> USE DEF D!items
<1>1. list \in Seq(D!Items) /\ Distinct(list)
  BY DEF DeferredInv, Ranges, InOrder
<1>2. CASE D!Load
  <2>1. UNCHANGED <<demo, dthread, list, running, timer, ran, step>>
    BY <1>2 DEF D!Load, D!RegisterWorker, D!UnregisterWorker, D!RegisterWorkqueue,
                D!UnregisterWorkqueue
  <2>2. dmod' \in {"loaded", "gone"}
    BY <1>2 DEF D!Load, D!RegisterWorker, D!UnregisterWorker, D!RegisterWorkqueue,
                D!UnregisterWorkqueue
  <2> QED  BY <2>1, <2>2 DEF DeferredInv, Ranges, InOrder, Resting, WorkNotLost, D!Idle,
                             D!Queued, D!Private
<1>3. CASE D!Open
  <2>1. /\ step = "closed" /\ step' \in {"closed", "init work"} /\ list' \in {list, <<>>}
        /\ UNCHANGED <<demo, dmod, running, timer>> /\ ran' \in {ran, {}}
    BY <1>3 DEF D!Open, D!OpenWorker, D!OpenWorkqueue, D!Go
  <2>2. dthread' \in BOOLEAN
    BY <1>3, Zenon DEF D!Open, D!OpenWorker, D!OpenWorkqueue, DeferredInv, Ranges
  <2>3. D!Idle("work") /\ D!Idle("delayed") /\ D!Idle("cancelable")
    BY <2>1 DEF DeferredInv, Resting
  <2>4. \A i : D!Queued(i)' => D!Queued(i)
    <3>1. CASE list' = list
      BY <3>1 DEF D!Queued
    <3>2. CASE list' = <<>>
      BY <3>2, EmptyList DEF D!Queued
    <3> QED  BY <2>1, <3>1, <3>2
  <2>5. D!Idle("work")' /\ D!Idle("delayed")' /\ D!Idle("cancelable")'
    BY <2>1, <2>3, <2>4 DEF D!Idle
  <2>6. Ranges'
    BY <2>1, <2>2, EmptyList DEF DeferredInv, Ranges
  <2>7. InOrder'
    <3>1. Distinct(list')
      BY <1>1, <2>1, EmptyList
    <3> QED  BY <2>1, <3>1 DEF DeferredInv, InOrder, D!Private
  <2> QED  BY <2>1, <2>5, <2>6, <2>7 DEF DeferredInv, Resting, WorkNotLost
<1>4. ASSUME NEW i \in {"work", "cancelable"}, NEW from, NEW to, D!Go(from, to), D!Queue(i),
             UNCHANGED <<demo, dmod, dthread, running, timer, ran>>,
             \/ i = "work" /\ from = "init work" /\ D!Private /\ to = "init delayed"
             \/ i = "work" /\ from = "init work" /\ ~D!Private /\ to = "init cancelable"
             \/ i = "cancelable" /\ from = "init cancelable" /\ D!Private /\ to = "open"
             \/ i = "cancelable" /\ from = "init cancelable" /\ ~D!Private /\ to = "init delayed"
      PROVE  DeferredInv'
  <2>1. step = from /\ step' = to /\ (D!Private' <=> D!Private)
    BY <1>4 DEF D!Go, D!Private
  <2>2. /\ list' \in Seq(D!Items) /\ Distinct(list')
        /\ \A j \in D!Items : D!Queued(j)' <=> D!Queued(j) \/ j = i
    BY <1>1, <1>4, QueueAdds DEF D!Items
  <2>3. Ranges' /\ InOrder'
    BY <1>4, <2>1, <2>2 DEF DeferredInv, Ranges, InOrder
  <2>4. Resting'
    BY <1>4, <2>1, <2>2 DEF DeferredInv, Resting, D!Idle, D!Items
  <2>5. WorkNotLost'
    BY <1>4, <2>1, <2>2 DEF DeferredInv, WorkNotLost, D!Items
  <2> QED  BY <2>3, <2>4, <2>5 DEF DeferredInv
<1>5. ASSUME NEW from, NEW to, D!QueueDelayed(from, to),
             \/ from = "init delayed" /\ D!Private /\ to = "init cancelable"
             \/ from = "init delayed" /\ ~D!Private /\ to = "open"
      PROVE  DeferredInv'
  <2>1. /\ step = from /\ step' = to /\ (D!Private' <=> D!Private)
        /\ UNCHANGED <<demo, dmod, dthread, list, running, ran>>
    BY <1>5 DEF D!QueueDelayed, D!Go, D!Private
  <2>2. timer' \in BOOLEAN
    BY <1>5, Zenon DEF D!QueueDelayed
  <2>3. \A j : D!Queued(j)' <=> D!Queued(j)
    BY <2>1 DEF D!Queued
  <2>4. Ranges' /\ InOrder'
    BY <2>1, <2>2 DEF DeferredInv, Ranges, InOrder
  <2>5. Resting'
    BY <1>5, <2>1, <2>3 DEF DeferredInv, Resting, D!Idle
  <2>6. WorkNotLost'
    BY <1>5, <2>1, <2>3 DEF DeferredInv, WorkNotLost
  <2> QED  BY <2>4, <2>5, <2>6 DEF DeferredInv
<1>6. CASE D!Opening
  BY <1>4, <1>5, <1>6 DEF D!Opening, D!WorkerOpening, D!WorkqueueOpening, D!QueueWork,
                          D!QueueCancelable
<1> QED  BY <1>2, <1>3, <1>6

(* The steps of release.                                                   *)
LEMMA DeferredCloseStep ==
    ASSUME DeferredInv, D!Release \/ D!Closing
    PROVE  DeferredInv'
<1>1. list \in Seq(D!Items) /\ Distinct(list)
  BY DEF DeferredInv, Ranges, InOrder
<1>2. CASE D!CancelWork \/ D!CancelDelayed
  <2>1. PICK i \in D!Items, from \in {"cancel cancelable", "cancel delayed"},
                to \in {"wait cancelable", "wait delayed"} :
           /\ \/ i = "cancelable" /\ from = "cancel cancelable" /\ to = "wait cancelable"
                 /\ timer' = timer
              \/ i = "delayed" /\ from = "cancel delayed" /\ to = "wait delayed" /\ ~timer'
           /\ step = from /\ step' = to /\ D!Dequeue(i)
    BY <1>2 DEF D!CancelWork, D!CancelDelayed, D!Go, D!Items
  <2>2. timer' \in BOOLEAN
    BY <1>2, Zenon DEF D!CancelWork, D!CancelDelayed, DeferredInv, Ranges
  <2>3. UNCHANGED <<demo, dmod, dthread, running, ran>>
    BY <1>2 DEF D!CancelWork, D!CancelDelayed
  <2>4. /\ list' \in Seq(D!Items) /\ Distinct(list')
        /\ \A j \in D!Items : D!Queued(j)' <=> D!Queued(j) /\ j # i
    BY <1>1, <2>1, DequeueRemoves
  <2>5. Ranges' /\ InOrder'
    BY <2>2, <2>3, <2>4 DEF DeferredInv, Ranges, InOrder, D!Private
  <2>6. Resting'
    BY <2>1, <2>3, <2>4 DEF DeferredInv, Resting, D!Idle, D!Items
  <2>7. WorkNotLost'
    BY <2>1, <2>3, <2>4 DEF DeferredInv, WorkNotLost, D!Items
  <2> QED  BY <2>5, <2>6, <2>7 DEF DeferredInv
<1>3. CASE D!FlushCancelable
  <2>1. /\ ~D!Private /\ step = "flushed" /\ step' = "flush delayed"
        /\ UNCHANGED <<demo, dmod, dthread, running, ran>>
    BY <1>3 DEF D!FlushCancelable, D!Go
  <2>2. ~timer
    BY <2>1 DEF DeferredInv, Resting, D!Idle
  <2>3. list' = list /\ ~timer'
    BY <1>3, <2>2 DEF D!FlushCancelable
  <2>4. timer' \in BOOLEAN
    BY <1>3, Zenon DEF D!FlushCancelable
  <2>5. \A j : D!Queued(j)' <=> D!Queued(j)
    BY <2>3 DEF D!Queued
  <2>6. Ranges' /\ InOrder'
    BY <2>1, <2>3, <2>4 DEF DeferredInv, Ranges, InOrder, D!Private
  <2>7. Resting' /\ WorkNotLost'
    BY <2>1, <2>2, <2>3, <2>5 DEF DeferredInv, Resting, WorkNotLost, D!Idle
  <2> QED  BY <2>6, <2>7 DEF DeferredInv
<1>4. CASE \/ D!Release \/ D!Cancelled \/ D!CancelledDelayed \/ D!FlushWorker \/ D!Stop
           \/ D!FlushWork \/ D!FlushDelayed
  <2>1. UNCHANGED <<demo, dmod, list, running, timer, ran>>
    BY <1>4 DEF D!Release, D!Cancelled, D!CancelledDelayed, D!FlushWorker, D!Stop, D!FlushWork,
                D!FlushDelayed
  <2>2. dthread' \in BOOLEAN
    BY <1>4, Zenon DEF D!Release, D!Cancelled, D!CancelledDelayed, D!FlushWorker, D!Stop, D!FlushWork,
                D!FlushDelayed, DeferredInv, Ranges
  <2>3. \A j : D!Queued(j)' <=> D!Queued(j)
    BY <2>1 DEF D!Queued
  <2>4. \/ step = "open" /\ step' = "cancel cancelable"
        \/ /\ step = "wait cancelable" /\ step' = "cancel delayed"
           /\ "cancelable" \notin running
        \/ step = "wait delayed" /\ step' = "flush work" /\ "delayed" \notin running
        \/ /\ step = "flush work" /\ step' = "flushed"
           /\ ~D!Queued("work") /\ "work" \notin running
        \/ step = "flushed" /\ step' = "closed"
        \/ step = "flush delayed" /\ step' = "closed"
    <3>1. list = <<>> => ~D!Queued("work")
      BY EmptyList DEF D!Queued
    <3> QED  BY <1>4, <3>1 DEF D!Release, D!Cancelled, D!CancelledDelayed, D!FlushWorker, D!Stop,
                               D!FlushWork, D!FlushDelayed, D!Go
  <2>5. Ranges' /\ InOrder'
    BY <2>1, <2>2 DEF DeferredInv, Ranges, InOrder, D!Private
  <2>6. Resting'
    BY <2>1, <2>3, <2>4 DEF DeferredInv, Resting, D!Idle
  <2>7. WorkNotLost'
    BY <2>1, <2>3, <2>4 DEF DeferredInv, WorkNotLost
  <2> QED  BY <2>5, <2>6, <2>7 DEF DeferredInv
<1> QED  BY <1>2, <1>3, <1>4 DEF D!Closing

(* The timer and the threads.                                              *)
LEMMA DeferredThreadStep ==
    ASSUME DeferredInv, D!Timer \/ D!Execute
    PROVE  DeferredInv'
<1>1. /\ list \in Seq(D!Items) /\ Distinct(list)
      /\ "work" \in D!Items /\ "delayed" \in D!Items /\ "cancelable" \in D!Items
  BY DEF DeferredInv, Ranges, InOrder, D!Items
<1>2. CASE D!Timer
  <2>1. timer /\ ~timer' /\ D!Queue("delayed") /\ UNCHANGED <<demo, dmod, dthread, running, ran, step>>
    BY <1>2 DEF D!Timer
  <2>2. timer' \in BOOLEAN
    BY <1>2, Zenon DEF D!Timer
  <2>3. /\ list' \in Seq(D!Items) /\ Distinct(list')
        /\ \A j \in D!Items : D!Queued(j)' <=> D!Queued(j) \/ j = "delayed"
    BY <1>1, <2>1, QueueAdds
  <2>4. Ranges' /\ InOrder'
    BY <2>1, <2>2, <2>3 DEF DeferredInv, Ranges, InOrder, D!Private
  <2>5. Resting' /\ WorkNotLost'
    BY <1>1, <2>1, <2>3 DEF DeferredInv, Resting, WorkNotLost, D!Idle, D!Private
  <2> QED  BY <2>4, <2>5 DEF DeferredInv
<1>3. ASSUME NEW i \in D!Items, D!Take(i) PROVE DeferredInv'
  <2>1. /\ D!Queued(i) /\ i \notin running /\ D!Dequeue(i) /\ running' = running \cup {i}
        /\ D!Private => running = {}
        /\ UNCHANGED <<demo, dmod, dthread, timer, ran, step>>
    BY <1>3 DEF D!Take
  <2>2. /\ list' \in Seq(D!Items) /\ Distinct(list')
        /\ \A j \in D!Items : D!Queued(j)' <=> D!Queued(j) /\ j # i
    BY <1>1, <2>1, DequeueRemoves
  <2>3. Ranges' /\ InOrder'
    BY <2>1, <2>2 DEF DeferredInv, Ranges, InOrder, D!Private
  <2>4. Resting'
    BY <1>1, <2>1, <2>2 DEF DeferredInv, Resting, D!Idle, D!Private
  <2>5. WorkNotLost'
    BY <1>1, <2>1, <2>2 DEF DeferredInv, WorkNotLost
  <2> QED  BY <2>3, <2>4, <2>5 DEF DeferredInv
<1>4. ASSUME NEW i \in D!Items, D!Finish(i) PROVE DeferredInv'
  <2>1. /\ i \in running /\ running' = running \ {i} /\ ran' = ran \cup {i}
        /\ UNCHANGED <<demo, dmod, dthread, list, timer, step>>
    BY <1>4 DEF D!Finish
  <2>2. \A j : D!Queued(j)' <=> D!Queued(j)
    BY <2>1 DEF D!Queued
  <2>3. Ranges' /\ InOrder'
    BY <2>1 DEF DeferredInv, Ranges, InOrder, D!Private
  <2>4. Resting' /\ WorkNotLost'
    BY <2>1, <2>2 DEF DeferredInv, Resting, WorkNotLost, D!Idle, D!Private
  <2> QED  BY <2>3, <2>4 DEF DeferredInv
<1> QED  BY <1>2, <1>3, <1>4 DEF D!Execute

LEMMA DeferredStep == ASSUME DeferredInv, D!Next PROVE DeferredInv'
BY DeferredOpenStep, DeferredCloseStep, DeferredThreadStep DEF D!Next

-----------------------------------------------------------------------------
(* All of them                                                             *)

(* A demo that is not loaded stays as it is.                               *)
LEMMA NotLoaded ==
    /\ WaitInv /\ UNCHANGED waitVars => WaitInv'
    /\ TaskInv /\ UNCHANGED taskVars => TaskInv'
    /\ SyncInv /\ UNCHANGED syncVars => SyncInv'
    /\ WorkerInv /\ UNCHANGED workerVars => WorkerInv'
    /\ DeferredInv /\ UNCHANGED deferredVars => DeferredInv'
    /\ R!TypeOK /\ UNCHANGED timerVars => R!TypeOK'
<1>1. WaitInv /\ UNCHANGED waitVars => WaitInv'
  BY DEF waitVars, WaitInv, W!TypeOK
<1>2. TaskInv /\ UNCHANGED taskVars => TaskInv'
  BY DEF taskVars, TaskInv, T!TypeOK, T!LoadedAfterWork
<1>3. SyncInv /\ UNCHANGED syncVars => SyncInv'
  BY DEF syncVars, SyncInv, S!TypeOK, Started, Stopped, Protected
<1>4. WorkerInv /\ UNCHANGED workerVars => WorkerInv'
  BY DEF workerVars, WorkerInv, K!TypeOK, OneOpen, FileInv, Pointers, Own, NotLost, Given
<1>5. DeferredInv /\ UNCHANGED deferredVars => DeferredInv'
  <2> SUFFICES ASSUME DeferredInv, UNCHANGED deferredVars PROVE DeferredInv'
    OBVIOUS
  <2>1. UNCHANGED <<demo, dmod, dthread, list, running, timer, ran, step>>
    BY DEF deferredVars
  <2>2. Ranges' /\ InOrder'
    BY <2>1 DEF DeferredInv, Ranges, InOrder, D!Private
  <2>3. Resting'
    BY <2>1 DEF DeferredInv, Resting, D!Idle, D!Queued, D!Private
  <2>4. WorkNotLost'
    BY <2>1 DEF DeferredInv, WorkNotLost, D!Queued
  <2> QED  BY <2>2, <2>3, <2>4 DEF DeferredInv
<1>6. R!TypeOK /\ UNCHANGED timerVars => R!TypeOK'
  BY DEF timerVars, R!TypeOK
<1> QED  BY <1>1, <1>2, <1>3, <1>4, <1>5, <1>6

(* The invariant of every demo holds in every reachable state, whichever   *)
(* of them is loaded.                                                      *)
THEOREM Invariance == Spec => []IInv
<1>1. Init => IInv
  <2>1. R!Init => R!TypeOK
    BY Zenon DEF R!Init, R!TypeOK
  <2> QED  BY <2>1, Parameters, WaitStart, TaskStart, SyncStart, WorkerStart, DeferredStart DEF Init, IInv
<1>2. IInv /\ [Next]_vars => IInv'
  <2> SUFFICES ASSUME IInv, [Next]_vars PROVE IInv'
    OBVIOUS
  <2> USE NotLoaded DEF IInv
  <2>1. CASE W!Next /\ UNCHANGED <<workerVars, deferredVars, syncVars, taskVars, timerVars>>
    BY <2>1, Parameters, WaitStep
  <2>2. CASE K!Next /\ UNCHANGED <<waitVars, deferredVars, syncVars, taskVars, timerVars>>
    BY <2>2, Parameters, WorkerStep
  <2>3. CASE D!Next /\ UNCHANGED <<waitVars, workerVars, syncVars, taskVars, timerVars>>
    BY <2>3, DeferredStep
  <2>4. CASE S!Next /\ UNCHANGED <<waitVars, workerVars, deferredVars, taskVars, timerVars>>
    BY <2>4, Parameters, SyncStep
  <2>5. CASE T!Next /\ UNCHANGED <<waitVars, workerVars, deferredVars, syncVars, timerVars>>
    BY <2>5, TaskStep
  <2>6. CASE R!Next /\ UNCHANGED <<waitVars, workerVars, deferredVars, syncVars, taskVars>>
    BY <2>6, TimerStep
  <2>7. CASE UNCHANGED vars
    BY <2>7 DEF vars
  <2> QED  BY <2>1, <2>2, <2>3, <2>4, <2>5, <2>6, <2>7 DEF Next
<1> QED  BY <1>1, <1>2, PTL DEF Spec

(* Every variable of every demo keeps to its range: no item is freed twice *)
(* or queued more often than there is room for.                            *)
THEOREM TypeCorrect == Spec => []TypeOK
<1>1. IInv => TypeOK
  BY DeferredTypes DEF IInv, WaitInv, TaskInv, SyncInv, WorkerInv, TypeOK
<1> QED  BY <1>1, Invariance, PTL

(* A module that is gone has no thread of its own left that it has to stop. *)
THEOREM AlwaysJoined == Spec => []ThreadsJoined
<1>1. IInv => W!WorkerJoined /\ T!TaskJoined
  BY DEF IInv, WaitInv, TaskInv, W!WorkerJoined, T!TaskJoined
<1>2. IInv => S!ThreadsJoined
  BY DEF IInv, SyncInv, Stopped, S!ThreadsJoined, S!Threads
<1> QED  BY <1>1, <1>2, Invariance, PTL DEF ThreadsJoined

(* Flushing before the free is enough: the worker thread of the            *)
(* kthread_worker demo only ever meets items that are allocated.           *)
THEOREM ItemsLive == Spec => []WorkOnLiveItems
<1>1. IInv => K!WorkOnLiveItems
  <2> SUFFICES ASSUME IInv, NEW f \in live
               PROVE  /\ current[f] # NULL => K!Alive(current[f])
                      /\ \A j \in 1..Len(queue[f]) : K!Alive(queue[f][j])
    BY DEF K!WorkOnLiveItems
  <2>1. f \in Files /\ FileInv(f) /\ K!TypeOK
    BY DEF IInv, WorkerInv, K!TypeOK
  <2>2. ASSUME NEW item \in K!Items, item.file = f, pc[f] \in Working PROVE K!Alive(item)
    <3>1. mem[f] = <<1, 1>>
      BY <2>1, <2>2 DEF FileInv, Pointers
    <3>2. item.n \in {0, 1, 2}
      BY <2>2 DEF K!Items
    <3> QED  BY <2>2, <3>1, <3>2 DEF K!Alive
  <2>3. /\ current[f] \in K!Items \cup {NULL} /\ queue[f] \in Seq(K!Items)
        /\ DOMAIN queue[f] = 1..Len(queue[f])
    BY <2>1 DEF K!TypeOK
  <2>4. current[f] # NULL => K!Alive(current[f])
    BY <2>1, <2>2, <2>3 DEF FileInv, Own
  <2>5. ASSUME NEW j \in 1..Len(queue[f]) PROVE K!Alive(queue[f][j])
    <3>1. queue[f][j] \in K!Items /\ queue[f][j].file = f /\ queue[f] # <<>>
      BY <2>1, <2>3 DEF FileInv, Own
    <3> QED  BY <2>1, <2>2, <3>1 DEF FileInv, Own
  <2> QED  BY <2>4, <2>5
<1> QED  BY <1>1, Invariance, PTL DEF WorkOnLiveItems

(* Work that has been flushed has run to its end, whatever thread it was   *)
(* on and whatever was cancelled beside it.                                *)
THEOREM FlushDoesAll == Spec => []FlushedWorkDone
<1>1. IInv => K!DoneBeforeFree
  <2> SUFFICES ASSUME IInv, NEW f \in Files, pc[f] \in {"free", "free2"}
               PROVE  K!Item(f, 1) \in done /\ K!Item(f, 2) \in done
    BY DEF K!DoneBeforeFree
  <2>1. queue[f] = <<>> /\ current[f] = NULL /\ Given(f, 1) /\ Given(f, 2)
    BY DEF IInv, WorkerInv, FileInv, Own, NotLost, Working
  <2>2. K!Item(f, 1) # NULL /\ K!Item(f, 2) # NULL
    BY Parameters DEF Parameters, K!NoneIsNoFile, K!Items, K!Item
  <2>3. DOMAIN queue[f] = {}
    BY <2>1
  <2> QED  BY <2>1, <2>2, <2>3 DEF Given
<1>2. IInv => D!FlushDoesWork
  BY DEF IInv, DeferredInv, Resting, WorkNotLost, D!Idle, D!FlushDoesWork
<1> QED  BY <1>1, <1>2, Invariance, PTL DEF FlushedWorkDone

(* With every file closed neither a worker nor an item is left, whichever  *)
(* allocation has failed.                                                  *)
THEOREM LeavesNothing == Spec => []NothingLeft
<1>1. IInv => K!NothingLeft
  <2>1. ASSUME IInv, \A f \in Files : pc[f] = "closed"
        PROVE  live = {} /\ \A f \in Files : mem[f] = <<0, 0>>
    BY <2>1 DEF IInv, WorkerInv, K!TypeOK, FileInv, Pointers, Working
  <2> QED  BY <2>1 DEF K!NothingLeft
<1> QED  BY <1>1, Invariance, PTL DEF NothingLeft

(* Open finds every item idle when it initialises it.                      *)
THEOREM InitialisesIdle == Spec => []InitIdle
<1>1. IInv => D!InitIdle
  BY DEF IInv, DeferredInv, Resting, D!Items, D!InitIdle
<1> QED  BY <1>1, Invariance, PTL DEF InitIdle

(* What the RCU reader has dereferenced stays allocated.                   *)
THEOREM AlwaysReadsLive == Spec => []ReadsLiveData
<1>1. IInv => S!ReadsLiveData
  BY DEF IInv, SyncInv, Protected, S!ReadsLiveData
<1> QED  BY <1>1, Invariance, PTL DEF ReadsLiveData

(* Loading the completion demo returns after the work of its thread.       *)
THEOREM WorkBeforeLoaded == Spec => []LoadedAfterWork
<1>1. IInv => T!LoadedAfterWork
  BY DEF IInv, TaskInv
<1> QED  BY <1>1, Invariance, PTL DEF LoadedAfterWork
=============================================================================
