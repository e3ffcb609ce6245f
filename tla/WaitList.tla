------------------------------ MODULE WaitList ------------------------------
(***************************************************************************)
(* One wait queue of the globalfifo device as it lies in memory: a circular *)
(* doubly linked list of entries that live on the stacks of sleeping calls, *)
(* and the spin lock in its head.  add_wait_queue, remove_wait_queue and   *)
(* the walk of wake_up_interruptible, one store to a link at a time.       *)
(*                                                                         *)
(* remove_wait_queue locks the head it is given and unlinks the entry from *)
(* wherever it is.  globalfifo_write queues itself on w_wait and names     *)
(* w_wait again; globalfifo_read queues itself on r_wait and names w_wait. *)
(* RemoveLock says which lock the removal takes; GlobalFifo, in which both *)
(* operations are atomic, stands on the first pairing.                     *)
(***************************************************************************)
CONSTANTS
    Sleepers,    \* the calls that wait on this queue
    Wakers,      \* the calls that wake it
    Head, Nil,   \* the list head; no node, no owner
    OwnLock, OtherLock, \* wait_queue_head_t.lock of this queue and of the other one
    RemoveLock   \* the one that remove_wait_queue takes

ASSUME NodesAssumption == /\ Head \notin Sleepers /\ Nil \notin Sleepers \cup Wakers \cup {Head}
                          /\ Sleepers \cap Wakers = {}
ASSUME LocksAssumption == OwnLock # OtherLock /\ RemoveLock \in {OwnLock, OtherLock}

VARIABLES
    next, prev,  \* the links of the head and of the entries
    lock,        \* the owners of the two spin locks
    mutex,       \* dev->mutex, held over adding and waking but not over removal
    pc,
    at,          \* the neighbours that an operation has read, the node a walk is at
    woken        \* the sleepers that the walk under way has woken

vars == <<next, prev, lock, mutex, pc, at, woken>>

Tasks == Sleepers \cup Wakers
Nodes == Sleepers \cup {Head}
Locks == {OwnLock, OtherLock}

Init ==
    /\ next = [x \in Nodes |-> IF x = Head THEN Head ELSE Nil] /\ prev = next
    /\ lock = [l \in Locks |-> Nil]
    /\ mutex = Nil
    /\ pc = [t \in Tasks |-> "out"]
    /\ at = [t \in Tasks |-> [prev |-> Nil, next |-> Nil]]
    /\ woken = {}

Step(t, from, to) == pc[t] = from /\ pc' = [pc EXCEPT ![t] = to]
SpinLock(t, l)    == lock[l] = Nil /\ lock' = [lock EXCEPT ![l] = t]
SpinUnlock(l)     == lock' = [lock EXCEPT ![l] = Nil]

-----------------------------------------------------------------------------
(* Sleepers: mutex_lock, add_wait_queue, mutex_unlock, remove_wait_queue   *)

MutexLock(t) ==
    /\ Step(t, "out", IF t \in Sleepers THEN "add" ELSE "wake")
    /\ mutex = Nil /\ mutex' = t
    /\ UNCHANGED <<next, prev, lock, at, woken>>

\* spin_lock; list_add behind the head reads head->next, ...
AddLock(t) ==
    /\ Step(t, "add", "add1") /\ SpinLock(t, OwnLock)
    /\ at' = [at EXCEPT ![t] = [prev |-> Head, next |-> next[Head]]]
    /\ UNCHANGED <<next, prev, mutex, woken>>

\* ... next->prev = new, ...
AddNextPrev(t) ==
    /\ Step(t, "add1", "add2")
    /\ prev' = [prev EXCEPT ![at[t].next] = t]
    /\ UNCHANGED <<next, lock, mutex, at, woken>>

\* Variant: prev is left as it was.
AddOwnHalf(t) ==
    /\ Step(t, "add2", "add3")
    /\ next' = [next EXCEPT ![t] = at[t].next]
    /\ UNCHANGED <<prev, lock, mutex, at, woken>>

\* ... new->next = next, new->prev = prev, ...
AddOwn(t) ==
    /\ Step(t, "add2", "add3")
    /\ next' = [next EXCEPT ![t] = at[t].next]
    /\ prev' = [prev EXCEPT ![t] = at[t].prev]
    /\ UNCHANGED <<lock, mutex, at, woken>>

\* ... prev->next = new; spin_unlock.
AddPrevNext(t) ==
    /\ Step(t, "add3", "queued") /\ SpinUnlock(OwnLock)
    /\ next' = [next EXCEPT ![at[t].prev] = t]
    /\ UNCHANGED <<prev, mutex, at, woken>>

\* The mutex is given up, to sleep or at the end: the removal never holds it.
MutexUnlock(t) ==
    /\ Step(t, "queued", "remove") /\ mutex' = Nil
    /\ UNCHANGED <<next, prev, lock, at, woken>>

\* spin_lock of the head that the caller names; list_del reads both links, ...
RemoveLocked(t, l) ==
    /\ Step(t, "remove", "del1") /\ SpinLock(t, l)
    /\ at' = [at EXCEPT ![t] = [prev |-> prev[t], next |-> next[t]]]
    /\ UNCHANGED <<next, prev, mutex, woken>>
\* Variant: unlinking without any lock but the other queue's.
RemoveUnguarded(t) == RemoveLocked(t, OtherLock)
Remove(t) == RemoveLocked(t, RemoveLock)

\* ... next->prev = prev, ...
DelNextPrev(t) ==
    /\ Step(t, "del1", "del2")
    /\ prev' = [prev EXCEPT ![at[t].next] = at[t].prev]
    /\ UNCHANGED <<next, lock, mutex, at, woken>>

\* ... prev->next = next; spin_unlock.  The call returns: its entry is gone.
DelPrevNext(t) ==
    /\ Step(t, "del2", "out")
    /\ lock' = [l \in Locks |-> IF lock[l] = t THEN Nil ELSE lock[l]]
    /\ next' = [next EXCEPT ![at[t].prev] = at[t].next, ![t] = Nil]
    /\ prev' = [prev EXCEPT ![t] = Nil]
    /\ UNCHANGED <<mutex, at, woken>>

-----------------------------------------------------------------------------
(* Wakers: wake_up_interruptible under the mutex                           *)

WakeLock(t) ==
    /\ Step(t, "wake", "walk") /\ SpinLock(t, OwnLock)
    /\ at' = [at EXCEPT ![t].next = next[Head]]
    /\ woken' = {}
    /\ UNCHANGED <<next, prev, mutex>>

\* Variant: the walk stops at the first entry.
WakeOnlyOne(t) ==
    /\ Step(t, "walk", "walk") /\ at[t].next \in Sleepers
    /\ woken' = woken \cup {at[t].next}
    /\ at' = [at EXCEPT ![t].next = Head]
    /\ UNCHANGED <<next, prev, lock, mutex>>

\* Variant: the walk does not move on.
WakeOneAgain(t) ==
    /\ Step(t, "walk", "walk") /\ at[t].next \in Sleepers
    /\ woken' = woken \cup {at[t].next}
    /\ UNCHANGED <<next, prev, lock, mutex, at>>

\* One entry is woken; the walk goes on behind it.
WakeOne(t) ==
    /\ Step(t, "walk", "walk") /\ at[t].next \in Sleepers
    /\ woken' = woken \cup {at[t].next}
    /\ at' = [at EXCEPT ![t].next = next[at[t].next]]
    /\ UNCHANGED <<next, prev, lock, mutex>>

WakeDone(t) ==
    /\ Step(t, "walk", "woken") /\ at[t].next = Head
    /\ SpinUnlock(OwnLock)
    /\ UNCHANGED <<next, prev, mutex, at, woken>>

WakerReturns(t) ==
    /\ Step(t, "woken", "out") /\ mutex' = Nil
    /\ UNCHANGED <<next, prev, lock, at, woken>>

-----------------------------------------------------------------------------
AddStep(t)    == AddLock(t) \/ AddNextPrev(t) \/ AddOwn(t) \/ AddPrevNext(t)
RemoveStep(t) == Remove(t) \/ DelNextPrev(t) \/ DelPrevNext(t)
WakeStep(t)   == WakeLock(t) \/ WakeOne(t) \/ WakeDone(t) \/ WakerReturns(t)
InCall(t)     == AddStep(t) \/ MutexUnlock(t) \/ RemoveStep(t) \/ WakeStep(t)

Next == \E t \in Tasks : MutexLock(t) \/ InCall(t)
Spec == Init /\ [][Next]_vars
\* Whoever is inside a call is scheduled, and a spin lock is granted in turn.
FairSpec == Spec /\ \A t \in Tasks : WF_vars(InCall(t)) /\ SF_vars(AddLock(t) \/ Remove(t) \/ WakeLock(t))

-----------------------------------------------------------------------------
(* Properties                                                              *)

\* The entries that are on the queue from beginning to end.
Queued == {t \in Sleepers : pc[t] \in {"queued", "remove"}}

\* The entries that the links lead to from the head: they are in every set
\* that the links do not leave.
Closed(S) == Head \in S /\ \A x \in S : next[x] \in S
Members   == {t \in Sleepers : \A S \in SUBSET Nodes : Closed(S) => t \in S}

Quiet == \A t \in Sleepers : pc[t] \in {"out", "add", "queued", "remove"}

\* Whenever no operation is under way the links form one ring, the same in
\* both directions, of the head and exactly the queued entries.
Ring ==
    Quiet => /\ \A x \in Queued \cup {Head} : next[x] \in Nodes /\ prev[next[x]] = x
             /\ Members = Queued

\* The walk of a wake-up only touches entries whose call has not returned.
WalkIsSafe ==
    \A t \in Wakers : pc[t] = "walk" => at[t].next \in Queued \cup {Head}

\* A finished wake-up has reached every entry that is on the queue now: the
\* waker holds the mutex, so none was added since.
WakesAll == \A t \in Wakers : pc[t] = "woken" => Queued \subseteq woken

\* With the lock of its own head, the list is a wait queue whose operations
\* are one step each, as GlobalFifo has it: an entry is on it from its last
\* link to the lock of its removal, and a wake-up happens where the walk ends.
\* Links and lock rest on one another here, over many steps of several tasks.
Queue == INSTANCE WaitQueue WITH
    None <- Nil, queue <- Queued,
    reached <- [w \in Wakers |-> IF pc[w] = "woken" THEN woken ELSE Nil]
ImplementsQueue == Queue!Spec

\* Every wake-up comes to its end: the walk never runs in circles or off
\* the list.
WalkEnds == \A t \in Wakers : pc[t] = "walk" ~> pc[t] = "woken"
=============================================================================
