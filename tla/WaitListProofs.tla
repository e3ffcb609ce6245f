--------------------------- MODULE WaitListProofs ---------------------------
(***************************************************************************)
(* The wait queue in memory, for any number of sleepers and wakers, where  *)
(* the removal takes the lock of the queue the entry is on: the links stay *)
(* one ring, a walk meets live entries only, and the whole is a set with   *)
(* atomic operations, as WaitQueue has it.                                 *)
(*                                                                         *)
(* While an operation is half-way one link back is behind the links        *)
(* forward.  The invariant says which, by a ring in which it is put right. *)
(***************************************************************************)
EXTENDS WaitList, TLAPS

SleeperPCs == {"out", "add", "add1", "add2", "add3", "queued", "remove", "del1", "del2"}
WakerPCs   == {"out", "wake", "walk", "woken"}
\* The places where a task owns the spin lock, and where it owns the mutex.
SpinPCs  == {"add1", "add2", "add3", "del1", "del2", "walk"}
MutexPCs == {"add", "add1", "add2", "add3", "queued", "wake", "walk", "woken"}

\* The nodes that the links forward go through.
On     == {t \in Sleepers : pc[t] \in {"queued", "remove", "del1", "del2"}}
Linked == On \cup {Head}

\* Forward links n and backward links p are inverse to each other on S, ...
DoubleRing(n, p, S) ==
    \A x \in S : n[x] \in S /\ p[x] \in S /\ p[n[x]] = x /\ n[p[x]] = x
\* ... and the forward links lead from the head to all of S.
Connected(n, S) ==
    \A T \in SUBSET S : Head \in T /\ (\A x \in T : n[x] \in T) => T = S

-----------------------------------------------------------------------------
(* The inductive invariant                                                 *)

TypeInv ==
    /\ next \in [Nodes -> Nodes \cup {Nil}] /\ prev \in [Nodes -> Nodes \cup {Nil}]
    /\ lock \in [Locks -> Tasks \cup {Nil}] /\ mutex \in Tasks \cup {Nil}
    /\ pc \in [Tasks -> SleeperPCs \cup WakerPCs]
    /\ \A t \in Sleepers : pc[t] \in SleeperPCs
    /\ \A t \in Wakers : pc[t] \in WakerPCs
    /\ at \in [Tasks -> [prev : Nodes \cup {Nil}, next : Nodes \cup {Nil}]]
    /\ woken \subseteq Sleepers

LockInv ==
    /\ \A t \in Tasks : (lock[OwnLock] = t) <=> (pc[t] \in SpinPCs)
    /\ \A t \in Tasks : (mutex = t) <=> (pc[t] \in MutexPCs)

\* What an operation has read is still so.
ReadInv ==
    \A t \in Sleepers :
        /\ pc[t] \in {"add1", "add2", "add3"} => at[t].prev = Head /\ at[t].next = next[Head]
        /\ pc[t] = "add3" => next[t] = next[Head] /\ prev[t] = Head
        /\ pc[t] = "del1" => at[t].prev = prev[t] /\ at[t].next = next[t]
        /\ pc[t] = "del2" => at[t].next = next[t]

LinkInv ==
    /\ (\A t \in Sleepers : pc[t] \notin {"add2", "add3", "del2"})
         => DoubleRing(next, prev, Linked)
    /\ \A t \in Sleepers : pc[t] \in {"add2", "add3"} =>
         /\ prev[next[Head]] = t
         /\ DoubleRing(next, [prev EXCEPT ![next[Head]] = Head], Linked)
    /\ \A t \in Sleepers : pc[t] = "del2" =>
         /\ prev[next[t]] = at[t].prev
         /\ at[t].prev = [prev EXCEPT ![next[t]] = t][t]
         /\ DoubleRing(next, [prev EXCEPT ![next[t]] = t], Linked)
    /\ Connected(next, Linked)

\* A walk has woken what lies behind it, up to the node it is at.
WalkInv ==
    \A w \in Wakers : pc[w] = "walk" =>
        /\ at[w].next \in Linked /\ woken \subseteq On
        /\ \A x \in woken \cup {Head} : next[x] \in woken \cup {Head, at[w].next}

IInv == TypeInv /\ LockInv /\ ReadInv /\ LinkInv /\ WalkInv

\* The assumptions on the constants that the proofs use.
LEMMA Assumed ==
    /\ Head \notin Sleepers /\ Nil \notin Tasks /\ Nil # Head
    /\ Sleepers \cap Wakers = {} /\ OwnLock # OtherLock
  BY NodesAssumption, LocksAssumption DEF Tasks

\* One task has the spin lock, and one the mutex.
LEMMA Alone ==
    ASSUME LockInv, NEW t \in Tasks, NEW u \in Tasks
    PROVE  /\ pc[t] \in SpinPCs /\ pc[u] \in SpinPCs => t = u
           /\ pc[t] \in MutexPCs /\ pc[u] \in MutexPCs => t = u
           /\ lock[OwnLock] = Nil => pc[t] \notin SpinPCs
           /\ mutex = Nil => pc[t] \notin MutexPCs
  BY Assumed DEF LockInv

-----------------------------------------------------------------------------
(* Rings                                                                   *)

\* Linking an entry in behind the head leaves one ring.
LEMMA RingInserts ==
    ASSUME NEW n \in [Nodes -> Nodes \cup {Nil}], NEW p \in [Nodes -> Nodes \cup {Nil}],
           NEW S \in SUBSET Nodes, Head \in S, NEW t \in Nodes, t \notin S,
           DoubleRing(n, p, S), Connected(n, S),
           NEW m, m = [n EXCEPT ![t] = n[Head], ![Head] = t],
           NEW q, q = [p EXCEPT ![n[Head]] = t, ![t] = Head]
    PROVE  DoubleRing(m, q, S \cup {t}) /\ Connected(m, S \cup {t})
  <1>1. n[Head] \in S /\ n[Head] # t /\ Head # t
    BY DEF DoubleRing
  <1>2. /\ m[t] = n[Head] /\ m[Head] = t /\ \A x \in S \ {Head} : m[x] = n[x]
        /\ q[t] = Head /\ q[n[Head]] = t /\ \A x \in S \ {n[Head]} : q[x] = p[x]
    BY <1>1
  <1>3. DoubleRing(m, q, S \cup {t})
    <2> SUFFICES ASSUME NEW x \in S \cup {t}
                 PROVE  /\ m[x] \in S \cup {t} /\ q[x] \in S \cup {t}
                        /\ q[m[x]] = x /\ m[q[x]] = x
      BY DEF DoubleRing
    <2>1. CASE x = t
      BY <2>1, <1>1, <1>2
    <2>2. CASE x = Head
      <3>1. q[Head] \in S \cup {t} /\ m[q[Head]] = Head
        BY <1>1, <1>2 DEF DoubleRing
      <3>2. QED
        BY <2>2, <3>1, <1>2
    <2>3. CASE x \in S \ {Head}
      <3>1. m[x] = n[x] /\ n[x] \in S /\ n[x] # n[Head]
        BY <2>3, <1>2 DEF DoubleRing
      <3>2. q[m[x]] = x
        BY <2>3, <3>1, <1>2 DEF DoubleRing
      <3>3. q[x] \in S \cup {t} /\ m[q[x]] = x
        BY <2>3, <1>1, <1>2 DEF DoubleRing
      <3>4. QED
        BY <3>1, <3>2, <3>3
    <2>4. QED
      BY <2>1, <2>2, <2>3
  <1>4. Connected(m, S \cup {t})
    <2> SUFFICES ASSUME NEW T \in SUBSET (S \cup {t}), Head \in T, \A x \in T : m[x] \in T
                 PROVE  T = S \cup {t}
      BY DEF Connected
    <2>1. t \in T /\ n[Head] \in T
      BY <1>2
    <2>2. \A x \in T \ {t} : n[x] \in T \ {t}
      BY <1>1, <1>2, <2>1 DEF DoubleRing
    <2>3. T \ {t} = S
      <3>1. T \ {t} \in SUBSET S /\ Head \in T \ {t}
        BY <1>1
      <3>2. QED
        BY <2>2, <3>1 DEF Connected
    <2>4. QED
      BY <2>1, <2>3
  <1>5. QED
    BY <1>3, <1>4

\* An entry of a ring with the head in it is not its own neighbour.
LEMMA RingTurns ==
    ASSUME NEW n, NEW p, NEW S, Head \in S, NEW t \in S, t # Head, DoubleRing(n, p, S), Connected(n, S)
    PROVE  n[t] # t
  <1> SUFFICES ASSUME n[t] = t PROVE FALSE
    OBVIOUS
  <1>1. \A x \in S \ {t} : n[x] \in S \ {t}
    BY DEF DoubleRing
  <1>2. S \ {t} = S
    BY <1>1 DEF Connected
  <1>3. QED
    BY <1>2

\* Unlinking an entry through its neighbours leaves one ring.
LEMMA RingRemoves ==
    ASSUME NEW n, NEW p, NEW S, Head \in S, NEW t \in S, t # Head,
           DoubleRing(n, p, S), Connected(n, S),
           NEW m, m[p[t]] = n[t], \A x \in S \ {t, p[t]} : m[x] = n[x],
           NEW q, q[n[t]] = p[t], \A x \in S \ {t, n[t]} : q[x] = p[x]
    PROVE  DoubleRing(m, q, S \ {t}) /\ Connected(m, S \ {t})
  <1>1. n[t] \in S /\ p[t] \in S /\ n[p[t]] = t /\ p[n[t]] = t
    BY DEF DoubleRing
  <1>2. n[t] # t /\ p[t] # t
    BY <1>1, RingTurns
  <1>3. DoubleRing(m, q, S \ {t})
    <2> SUFFICES ASSUME NEW x \in S \ {t}
                 PROVE  /\ m[x] \in S \ {t} /\ q[x] \in S \ {t}
                        /\ q[m[x]] = x /\ m[q[x]] = x
      BY DEF DoubleRing
    <2>1. m[x] \in S \ {t} /\ q[m[x]] = x
      <3>1. CASE x = p[t]
        BY <3>1, <1>1, <1>2
      <3>2. CASE x # p[t]
        <4>1. m[x] = n[x] /\ n[x] \in S /\ p[n[x]] = x
          BY <3>2 DEF DoubleRing
        <4>2. n[x] # t /\ n[x] # n[t]
          BY <4>1, <1>1, <3>2
        <4>3. QED
          BY <4>1, <4>2
      <3>3. QED
        BY <3>1, <3>2
    <2>2. q[x] \in S \ {t} /\ m[q[x]] = x
      <3>1. CASE x = n[t]
        BY <3>1, <1>1, <1>2
      <3>2. CASE x # n[t]
        <4>1. q[x] = p[x] /\ p[x] \in S /\ n[p[x]] = x
          BY <3>2 DEF DoubleRing
        <4>2. p[x] # t /\ p[x] # p[t]
          BY <4>1, <1>1, <3>2
        <4>3. QED
          BY <4>1, <4>2
      <3>3. QED
        BY <3>1, <3>2
    <2>3. QED
      BY <2>1, <2>2
  <1>4. Connected(m, S \ {t})
    <2> SUFFICES ASSUME NEW T \in SUBSET (S \ {t}), Head \in T, \A x \in T : m[x] \in T
                 PROVE  T = S \ {t}
      BY DEF Connected
    <2>1. CASE p[t] \in T
      <3>1. \A x \in T \cup {t} : n[x] \in T \cup {t}
        BY <2>1, <1>1
      <3>2. T \cup {t} \in SUBSET S /\ Head \in T \cup {t}
        OBVIOUS
      <3>3. T \cup {t} = S
        BY <3>1, <3>2 DEF Connected
      <3>4. QED
        BY <3>3
    <2>2. CASE p[t] \notin T
      <3>1. \A x \in T : n[x] \in T
        BY <2>2
      <3>2. T = S
        BY <3>1 DEF Connected
      <3>3. QED
        BY <3>2
    <2>3. QED
      BY <2>1, <2>2
  <1>5. QED
    BY <1>3, <1>4

-----------------------------------------------------------------------------
(* Each part of the invariant survives a step                              *)

\* The steps of Next by the task that takes them.
LEMMA Steps ==
    ASSUME RemoveLock = OwnLock, [Next]_vars
    PROVE  \/ \E t \in Tasks : MutexLock(t) \/ AddStep(t) \/ MutexUnlock(t) \/ RemoveLocked(t, OwnLock)
                                \/ DelNextPrev(t) \/ DelPrevNext(t) \/ WakeStep(t)
           \/ UNCHANGED vars
  BY DEF Next, InCall, RemoveStep, Remove

\* Who takes a step of an adding, a removal or a waking is a sleeper, or a waker.
LEMMA Actors ==
    ASSUME TypeInv, NEW t \in Tasks
    PROVE  /\ AddStep(t) \/ MutexUnlock(t) \/ RemoveLocked(t, OwnLock)
                 \/ DelNextPrev(t) \/ DelPrevNext(t) => t \in Sleepers
           /\ WakeStep(t) => t \in Wakers
  BY Assumed DEF TypeInv, Tasks, WakerPCs, SleeperPCs, AddStep, AddLock, AddNextPrev, AddOwn,
     AddPrevNext, MutexUnlock, RemoveLocked, DelNextPrev, DelPrevNext, WakeStep, WakeLock,
     WakeOne, WakeDone, WakerReturns, Step

\* A store to a link leaves a table of links.
LEMMA StoreTyped ==
    ASSUME NEW f \in [Nodes -> Nodes \cup {Nil}], NEW x, NEW v \in Nodes \cup {Nil}
    PROVE  [f EXCEPT ![x] = v] \in [Nodes -> Nodes \cup {Nil}]
  OBVIOUS

\* Every variable keeps to its range; sleepers and wakers keep to their code.
LEMMA TypeStep ==
    ASSUME TypeInv, ReadInv, LinkInv, WalkInv, RemoveLock = OwnLock, [Next]_vars
    PROVE  TypeInv'
  <1> USE Assumed DEF TypeInv, SleeperPCs, WakerPCs, Step, SpinLock, SpinUnlock, Locks
  <1>0. Head \in Nodes /\ Sleepers \subseteq Nodes /\ Sleepers \subseteq Tasks /\ OwnLock \in Locks
    BY DEF Nodes, Tasks
  <1>a. \A t \in Tasks : at[t].prev \in Nodes \cup {Nil} /\ at[t].next \in Nodes \cup {Nil}
    OBVIOUS
  <1>1. ASSUME NEW t \in Tasks, MutexLock(t) PROVE TypeInv'
    BY <1>1 DEF MutexLock, Tasks
  <1>2. ASSUME NEW t \in Tasks, AddStep(t) PROVE TypeInv'
    <2>1. t \in Sleepers
      BY <1>2, Actors
    <2>2. CASE AddLock(t)
      BY <1>0, <2>1, <2>2 DEF AddLock
    <2>3. CASE AddNextPrev(t)
      <3>1. prev' \in [Nodes -> Nodes \cup {Nil}]
        BY <1>0, <1>a, <2>1, <2>3 DEF AddNextPrev
      <3>2. pc' \in [Tasks -> SleeperPCs \cup WakerPCs] /\ \A u \in Sleepers : pc'[u] \in SleeperPCs
        BY <1>0, <2>1, <2>3 DEF AddNextPrev
      <3>3. QED
        BY <2>1, <2>3, <3>1, <3>2 DEF AddNextPrev
    <2>4. CASE AddOwn(t)
      <3>0. /\ next' = [next EXCEPT ![t] = at[t].next] /\ prev' = [prev EXCEPT ![t] = at[t].prev]
            /\ at[t].prev \in Nodes \cup {Nil} /\ at[t].next \in Nodes \cup {Nil}
        BY <1>a, <2>4 DEF AddOwn
      <3>1. next' \in [Nodes -> Nodes \cup {Nil}]
        BY <3>0, StoreTyped
      <3>2. prev' \in [Nodes -> Nodes \cup {Nil}]
        BY <3>0, StoreTyped
      <3>3. pc' \in [Tasks -> SleeperPCs \cup WakerPCs] /\ \A u \in Sleepers : pc'[u] \in SleeperPCs
        BY <1>0, <2>1, <2>4 DEF AddOwn
      <3>4. QED
        BY <2>1, <2>4, <3>1, <3>2, <3>3 DEF AddOwn
    <2>5. CASE AddPrevNext(t)
      <3>1. next' \in [Nodes -> Nodes \cup {Nil}]
        BY <1>0, <2>1, <2>5, StoreTyped DEF AddPrevNext
      <3>2. pc' \in [Tasks -> SleeperPCs \cup WakerPCs] /\ \A u \in Sleepers : pc'[u] \in SleeperPCs
        BY <1>0, <2>1, <2>5 DEF AddPrevNext
      <3>3. lock' \in [Locks -> Tasks \cup {Nil}]
        BY <1>0, <2>5 DEF AddPrevNext
      <3>4. QED
        BY <2>1, <2>5, <3>1, <3>2, <3>3 DEF AddPrevNext
    <2>6. QED
      BY <1>2, <2>2, <2>3, <2>4, <2>5 DEF AddStep
  <1>3. ASSUME NEW t \in Tasks, MutexUnlock(t) \/ RemoveLocked(t, OwnLock) PROVE TypeInv'
    <2>1. t \in Sleepers
      BY <1>3, Actors
    <2>2. CASE MutexUnlock(t)
      BY <1>0, <2>1, <2>2 DEF MutexUnlock
    <2>3. CASE RemoveLocked(t, OwnLock)
      BY <1>0, <2>1, <2>3 DEF RemoveLocked
    <2>4. QED
      BY <1>3, <2>2, <2>3
  <1>4. ASSUME NEW t \in Tasks, DelNextPrev(t) \/ DelPrevNext(t) PROVE TypeInv'
    <2>1. t \in Sleepers
      BY <1>4, Actors
    <2>2. CASE DelNextPrev(t)
      <3>1. prev' \in [Nodes -> Nodes \cup {Nil}]
        BY <1>0, <1>a, <2>1, <2>2 DEF DelNextPrev
      <3>2. pc' \in [Tasks -> SleeperPCs \cup WakerPCs] /\ \A u \in Sleepers : pc'[u] \in SleeperPCs
        BY <1>0, <2>1, <2>2 DEF DelNextPrev
      <3>3. QED
        BY <2>1, <2>2, <3>1, <3>2 DEF DelNextPrev
    <2>3. CASE DelPrevNext(t)
      BY <1>0, <2>1, <2>3 DEF DelPrevNext
    <2>4. QED
      BY <1>4, <2>2, <2>3
  <1>5. ASSUME NEW t \in Tasks, WakeStep(t) PROVE TypeInv'
    <2>1. t \in Wakers
      BY <1>5, Actors
    <2>2. CASE WakeLock(t)
      BY <1>0, <2>1, <2>2 DEF WakeLock
    <2>3. CASE WakeOne(t)
      BY <1>0, <2>1, <2>3 DEF WakeOne
    <2>4. CASE WakeDone(t)
      BY <1>0, <2>1, <2>4 DEF WakeDone
    <2>5. CASE WakerReturns(t)
      BY <1>0, <2>1, <2>5 DEF WakerReturns
    <2>6. QED
      BY <1>5, <2>2, <2>3, <2>4, <2>5 DEF WakeStep
  <1>6. CASE UNCHANGED vars
    BY <1>6 DEF vars
  <1>7. QED
    BY <1>1, <1>2, <1>3, <1>4, <1>5, <1>6, Steps

\* The locks are owned where the program counters say.
LEMMA LockStep ==
    ASSUME TypeInv, LockInv, RemoveLock = OwnLock, [Next]_vars PROVE LockInv'
  <1> USE Assumed DEF TypeInv, LockInv, SpinPCs, MutexPCs, Step, SpinLock, SpinUnlock, Locks
  <1>1. ASSUME NEW t \in Tasks, MutexLock(t) PROVE LockInv'
    BY <1>1 DEF MutexLock
  <1>2. ASSUME NEW t \in Tasks, AddStep(t) PROVE LockInv'
    BY <1>2 DEF AddStep, AddLock, AddNextPrev, AddOwn, AddPrevNext
  <1>3. ASSUME NEW t \in Tasks, MutexUnlock(t) \/ RemoveLocked(t, OwnLock) PROVE LockInv'
    BY <1>3 DEF MutexUnlock, RemoveLocked
  <1>4. ASSUME NEW t \in Tasks, DelNextPrev(t) \/ DelPrevNext(t) PROVE LockInv'
    BY <1>4 DEF DelNextPrev, DelPrevNext
  <1>5. ASSUME NEW t \in Tasks, WakeStep(t) PROVE LockInv'
    BY <1>5 DEF WakeStep, WakeLock, WakeOne, WakeDone, WakerReturns
  <1>6. CASE UNCHANGED vars
    BY <1>6 DEF vars
  <1>7. QED
    BY <1>1, <1>2, <1>3, <1>4, <1>5, <1>6, Steps

\* Whoever owns the spin lock, or finds it free, is alone at its stores.
LEMMA Solo ==
    ASSUME LockInv, NEW t \in Tasks, pc[t] \in SpinPCs \/ lock[OwnLock] = Nil
    PROVE  \A u \in Tasks : u # t => pc[u] \notin SpinPCs
  BY Alone

\* The last store of an adding and of a removal are those that change which
\* nodes the links forward go through.
LEMMA OnStep ==
    ASSUME TypeInv, NEW t \in Tasks
    PROVE  /\ MutexLock(t) \/ MutexUnlock(t) \/ AddLock(t) \/ AddNextPrev(t) \/ AddOwn(t)
                \/ RemoveLocked(t, OwnLock) \/ DelNextPrev(t) \/ WakeStep(t) => Linked' = Linked /\ On' = On
           /\ AddPrevNext(t) => On' = On \cup {t} /\ t \notin On
           /\ DelPrevNext(t) => On' = On \ {t} /\ t \in On
  <1> USE Assumed DEF TypeInv, On, Linked, Step, Tasks
  <1>1. ASSUME MutexLock(t) \/ MutexUnlock(t) PROVE On' = On
    BY <1>1 DEF MutexLock, MutexUnlock
  <1>2. ASSUME AddLock(t) \/ AddNextPrev(t) \/ AddOwn(t) PROVE On' = On
    BY <1>2 DEF AddLock, AddNextPrev, AddOwn
  <1>3. ASSUME RemoveLocked(t, OwnLock) \/ DelNextPrev(t) PROVE On' = On
    BY <1>3 DEF RemoveLocked, DelNextPrev
  <1>4. ASSUME WakeStep(t) PROVE On' = On
    BY <1>4 DEF WakeStep, WakeLock, WakeOne, WakeDone, WakerReturns
  <1>5. ASSUME AddPrevNext(t) PROVE On' = On \cup {t} /\ t \notin On
    <2>1. t \in Sleepers /\ pc[t] = "add3" /\ pc' = [pc EXCEPT ![t] = "queued"]
      BY <1>5, Actors DEF AddPrevNext, AddStep
    <2>2. \A u \in Sleepers : pc'[u] = IF u = t THEN "queued" ELSE pc[u]
      BY <2>1
    <2>3. QED
      BY <2>1, <2>2
  <1>6. ASSUME DelPrevNext(t) PROVE On' = On \ {t} /\ t \in On
    BY <1>6, Actors DEF DelPrevNext
  <1>7. QED
    BY <1>1, <1>2, <1>3, <1>4, <1>5, <1>6

\* What an operation reads under the spin lock stays so until it is done.
LEMMA ReadStep ==
    ASSUME TypeInv, LockInv, ReadInv, RemoveLock = OwnLock, [Next]_vars PROVE ReadInv'
  <1> USE Assumed DEF ReadInv, SpinPCs, Step, Tasks, Nodes
  <1>1. ASSUME NEW t \in Tasks, MutexLock(t) \/ MutexUnlock(t) PROVE ReadInv'
    <2>1. /\ UNCHANGED <<next, prev, at>>
          /\ \A u \in Tasks : pc'[u] \in {"add1", "add2", "add3", "del1", "del2"} => pc'[u] = pc[u]
      BY <1>1 DEF MutexLock, MutexUnlock, TypeInv
    <2>2. QED
      BY <2>1
  <1>2. ASSUME NEW t \in Tasks, AddStep(t) PROVE ReadInv'
    <2>1. t \in Sleepers /\ t # Head
      BY <1>2, Actors
    <2>2. \A u \in Tasks : u # t => pc[u] \notin SpinPCs
      BY <1>2, Solo DEF AddStep, AddLock, AddNextPrev, AddOwn, AddPrevNext, SpinLock
    <2>3. \A u \in Tasks : u # t => pc'[u] = pc[u]
      BY <1>2 DEF TypeInv, AddStep, AddLock, AddNextPrev, AddOwn, AddPrevNext
    <2>4. CASE AddLock(t)
      BY <2>1, <2>2, <2>3, <2>4 DEF TypeInv, AddLock
    <2>5. CASE AddNextPrev(t)
      BY <2>1, <2>2, <2>3, <2>5 DEF TypeInv, AddNextPrev
    <2>6. CASE AddOwn(t)
      <3>1. /\ pc'[t] = "add3" /\ at'[t].prev = Head /\ at'[t].next = next'[Head]
            /\ next'[t] = next'[Head] /\ prev'[t] = Head
        BY <2>1, <2>6 DEF TypeInv, AddOwn
      <3>2. QED
        BY <2>2, <2>3, <3>1
    <2>7. CASE AddPrevNext(t)
      BY <2>1, <2>2, <2>3, <2>7 DEF TypeInv, AddPrevNext
    <2>8. QED
      BY <1>2, <2>4, <2>5, <2>6, <2>7 DEF AddStep
  <1>3. ASSUME NEW t \in Tasks, RemoveLocked(t, OwnLock) \/ DelNextPrev(t) \/ DelPrevNext(t)
        PROVE ReadInv'
    <2>1. t \in Sleepers /\ t # Head
      BY <1>3, Actors
    <2>2. \A u \in Tasks : u # t => pc[u] \notin SpinPCs
      BY <1>3, Solo DEF RemoveLocked, DelNextPrev, DelPrevNext, SpinLock
    <2>3. \A u \in Tasks : u # t => pc'[u] = pc[u]
      BY <1>3 DEF TypeInv, RemoveLocked, DelNextPrev, DelPrevNext
    <2>4. CASE RemoveLocked(t, OwnLock)
      BY <2>1, <2>2, <2>3, <2>4 DEF TypeInv, RemoveLocked
    <2>5. CASE DelNextPrev(t)
      BY <2>1, <2>2, <2>3, <2>5 DEF TypeInv, DelNextPrev
    <2>6. CASE DelPrevNext(t)
      BY <2>1, <2>2, <2>3, <2>6 DEF TypeInv, DelPrevNext
    <2>7. QED
      BY <1>3, <2>4, <2>5, <2>6
  <1>4. ASSUME NEW t \in Tasks, WakeStep(t) PROVE ReadInv'
    <2>1. t \in Wakers
      BY <1>4, Actors
    <2>2. \A u \in Sleepers : pc'[u] = pc[u] /\ at'[u] = at[u]
      BY <1>4, <2>1 DEF TypeInv, WakeStep, WakeLock, WakeOne, WakeDone, WakerReturns
    <2>3. UNCHANGED <<next, prev>>
      BY <1>4 DEF WakeStep, WakeLock, WakeOne, WakeDone, WakerReturns
    <2>4. QED
      BY <2>2, <2>3
  <1>5. CASE UNCHANGED vars
    BY <1>5 DEF vars
  <1>6. QED
    BY <1>1, <1>2, <1>3, <1>4, <1>5, Steps

\* The double ring and its connectedness depend on the links within it only.
LEMMA RingSame ==
    ASSUME NEW n, NEW p, NEW m, NEW q, NEW S, \A x \in S : m[x] = n[x] /\ q[x] = p[x]
    PROVE  /\ DoubleRing(n, p, S) => DoubleRing(m, q, S)
           /\ Connected(n, S) => Connected(m, S)
  BY DEF DoubleRing, Connected

\* While nothing is half-way at the links they are as before.
LEMMA LinksRest ==
    ASSUME LinkInv, UNCHANGED <<next, prev>>, Linked' = Linked,
           \A u \in Sleepers :
               /\ pc'[u] \in {"add2", "add3", "del2"} <=> pc[u] \in {"add2", "add3", "del2"}
               /\ pc'[u] = "del2" <=> pc[u] = "del2"
               /\ pc'[u] = "del2" => at'[u] = at[u]
    PROVE  LinkInv'
  <1>1. Linked' = Linked /\ next' = next /\ prev' = prev
    OBVIOUS
  <1>2. \A u \in Sleepers : pc'[u] \in {"add2", "add3"} <=> pc[u] \in {"add2", "add3"}
    OBVIOUS
  <1>3. QED
    BY <1>1, <1>2 DEF LinkInv

\* Adding keeps the ring that the invariant restores.
LEMMA AddKeepsRing ==
    ASSUME TypeInv, LockInv, ReadInv, LinkInv, NEW t \in Tasks, AddStep(t) PROVE LinkInv'
  <1>1. t \in Sleepers /\ t \in Nodes /\ t # Head /\ Head \in Linked /\ Linked \in SUBSET Nodes
    BY Actors, Assumed DEF Nodes, Linked, On
  <1>2. \A u \in Tasks : u # t => pc[u] \notin SpinPCs
    BY Solo DEF AddStep, AddLock, AddNextPrev, AddOwn, AddPrevNext, Step, SpinLock, SpinPCs
  <1>3. \A u \in Sleepers : u # t => pc'[u] = pc[u] /\ pc'[u] \notin {"add2", "add3", "del2"}
    BY <1>2 DEF TypeInv, AddStep, AddLock, AddNextPrev, AddOwn, AddPrevNext, Step, SpinPCs, Tasks
  <1>4. next \in [Nodes -> Nodes \cup {Nil}] /\ prev \in [Nodes -> Nodes \cup {Nil}]
    BY DEF TypeInv
  <1>5. CASE AddLock(t)
    <2>1. Linked' = Linked /\ UNCHANGED <<next, prev>> /\ pc[t] = "add" /\ pc'[t] = "add1"
      BY <1>1, <1>5, OnStep DEF AddLock, Step, TypeInv
    <2>2. QED
      BY <1>3, <2>1, LinksRest
  <1>6. CASE AddNextPrev(t)
    <2>1. /\ Linked' = Linked /\ next' = next /\ pc[t] = "add1" /\ pc'[t] = "add2"
          /\ prev' = [prev EXCEPT ![next[Head]] = t]
      BY <1>1, <1>6, OnStep DEF AddNextPrev, Step, TypeInv, ReadInv
    <2>2. DoubleRing(next, prev, Linked) /\ Connected(next, Linked)
      BY <1>1, <1>2, <2>1 DEF LinkInv, SpinPCs, Tasks
    <2>3. next[Head] \in Nodes /\ prev[next[Head]] = Head
      BY <1>1, <2>2 DEF DoubleRing
    <2>4. prev'[next[Head]] = t /\ [prev' EXCEPT ![next[Head]] = Head] = prev
      BY <1>1, <1>4, <2>1, <2>3
    <2>5. /\ DoubleRing(next', [prev' EXCEPT ![next'[Head]] = Head], Linked')
          /\ Connected(next', Linked') /\ prev'[next'[Head]] = t
      BY <2>1, <2>2, <2>4
    <2>6. QED
      BY <1>1, <1>3, <2>1, <2>5 DEF LinkInv
  <1>7. CASE AddOwn(t)
    <2> DEFINE p == [prev EXCEPT ![next[Head]] = Head]
    <2>1. /\ Linked' = Linked /\ pc[t] = "add2" /\ pc'[t] = "add3" /\ t \notin Linked
          /\ next' = [next EXCEPT ![t] = next[Head]] /\ prev' = [prev EXCEPT ![t] = Head]
      BY <1>1, <1>7, OnStep DEF AddOwn, Step, TypeInv, ReadInv, Linked, On
    <2>2. DoubleRing(next, p, Linked) /\ Connected(next, Linked) /\ prev[next[Head]] = t
      BY <1>1, <2>1 DEF LinkInv
    <2>3. next[Head] \in Linked /\ next'[Head] = next[Head]
      BY <1>1, <1>4, <2>1, <2>2 DEF DoubleRing
    <2> DEFINE q == [prev' EXCEPT ![next'[Head]] = Head]
    <2>4. \A x \in Linked : next'[x] = next[x] /\ q[x] = p[x]
      BY <1>1, <1>4, <2>1, <2>3
    <2>5. DoubleRing(next', q, Linked') /\ Connected(next', Linked')
      <3>1. Linked' = Linked
        BY <2>1
      <3> HIDE DEF p, q
      <3>2. DoubleRing(next', q, Linked) /\ Connected(next', Linked)
        BY <2>2, <2>4, RingSame
      <3>3. QED
        BY <3>1, <3>2
    <2>6. prev'[next'[Head]] = t
      BY <1>1, <1>4, <2>1, <2>2, <2>3
    <2>7. QED
      BY <1>1, <1>3, <2>1, <2>5, <2>6 DEF LinkInv
  <1>8. CASE AddPrevNext(t)
    <2> DEFINE p == [prev EXCEPT ![next[Head]] = Head]
    <2>1. /\ Linked' = Linked \cup {t} /\ t \notin Linked /\ pc[t] = "add3" /\ pc'[t] = "queued"
          /\ next' = [next EXCEPT ![Head] = t] /\ prev' = prev
      BY <1>1, <1>8, OnStep DEF AddPrevNext, Step, TypeInv, ReadInv, Linked
    <2>2. /\ DoubleRing(next, p, Linked) /\ Connected(next, Linked)
          /\ prev[next[Head]] = t /\ prev[t] = Head /\ next[t] = next[Head]
      BY <1>1, <2>1 DEF LinkInv, ReadInv
    <2>3. next[Head] \in Linked
      BY <1>1, <2>2 DEF DoubleRing
    <2>4. p \in [Nodes -> Nodes \cup {Nil}]
      BY <1>1, <1>4
    <2>5. next' = [next EXCEPT ![t] = next[Head], ![Head] = t]
      BY <1>1, <1>4, <2>1, <2>2
    <2>6. prev' = [p EXCEPT ![next[Head]] = t, ![t] = Head]
      BY <1>1, <1>4, <2>1, <2>2, <2>3
    <2>7. DoubleRing(next', prev', Linked') /\ Connected(next', Linked')
      <3> HIDE DEF p
      <3>1. t \in Nodes /\ t \notin Linked
        BY <1>1, <2>1
      <3>2. DoubleRing(next, p, Linked) /\ Connected(next, Linked)
        BY <2>2
      <3>3. /\ DoubleRing(next', prev', Linked \cup {t})
            /\ Connected(next', Linked \cup {t})
        BY <1>1, <1>4, <2>4, <2>5, <2>6, <3>1, <3>2, RingInserts
      <3>4. Linked' = Linked \cup {t}
        BY <2>1
      <3>5. QED
        BY <3>3, <3>4
    <2>8. QED
      BY <1>3, <2>1, <2>7 DEF LinkInv
  <1>9. QED
    BY <1>5, <1>6, <1>7, <1>8 DEF AddStep

\* Removal keeps the ring that the invariant restores.
LEMMA RemoveKeepsRing ==
    ASSUME TypeInv, LockInv, ReadInv, LinkInv, NEW t \in Tasks,
           RemoveLocked(t, OwnLock) \/ DelNextPrev(t) \/ DelPrevNext(t)
    PROVE  LinkInv'
  <1>1. t \in Sleepers /\ t \in Nodes /\ t # Head /\ Head \in Linked /\ Linked \in SUBSET Nodes
    BY Actors, Assumed DEF Nodes, Linked, On
  <1>2. \A u \in Tasks : u # t => pc[u] \notin SpinPCs
    BY Solo DEF RemoveLocked, DelNextPrev, DelPrevNext, Step, SpinLock, SpinPCs
  <1>3. \A u \in Sleepers : u # t => pc'[u] = pc[u] /\ pc'[u] \notin {"add2", "add3", "del2"}
    BY <1>2 DEF TypeInv, RemoveLocked, DelNextPrev, DelPrevNext, Step, SpinPCs, Tasks
  <1>4. next \in [Nodes -> Nodes \cup {Nil}] /\ prev \in [Nodes -> Nodes \cup {Nil}]
    BY DEF TypeInv
  <1>5. CASE RemoveLocked(t, OwnLock)
    <2>1. Linked' = Linked /\ UNCHANGED <<next, prev>> /\ pc[t] = "remove" /\ pc'[t] = "del1"
      BY <1>1, <1>5, OnStep DEF RemoveLocked, Step, TypeInv
    <2>2. QED
      BY <1>3, <2>1, LinksRest
  <1>6. CASE DelNextPrev(t)
    <2>1. /\ Linked' = Linked /\ next' = next /\ at' = at /\ pc[t] = "del1" /\ pc'[t] = "del2"
          /\ prev' = [prev EXCEPT ![next[t]] = prev[t]] /\ at[t].prev = prev[t] /\ t \in Linked
      BY <1>1, <1>6, OnStep DEF DelNextPrev, Step, TypeInv, ReadInv, Linked, On
    <2>2. DoubleRing(next, prev, Linked) /\ Connected(next, Linked)
      BY <1>1, <1>2, <2>1 DEF LinkInv, SpinPCs, Tasks
    <2>3. next[t] \in Nodes /\ prev[next[t]] = t
      BY <1>1, <2>1, <2>2 DEF DoubleRing
    <2>4. prev'[next[t]] = prev[t] /\ [prev' EXCEPT ![next[t]] = t] = prev
      BY <1>4, <2>1, <2>3
    <2>5. /\ DoubleRing(next', [prev' EXCEPT ![next'[t]] = t], Linked')
          /\ prev'[next'[t]] = at'[t].prev /\ at'[t].prev = [prev' EXCEPT ![next'[t]] = t][t]
          /\ Connected(next', Linked')
      BY <2>1, <2>2, <2>4
    <2>6. QED
      BY <1>1, <1>3, <2>1, <2>5 DEF LinkInv
  <1>7. CASE DelPrevNext(t)
    <2> DEFINE p == [prev EXCEPT ![next[t]] = t]
    <2>1. /\ Linked' = Linked \ {t} /\ t \in Linked /\ pc[t] = "del2" /\ pc'[t] = "out"
          /\ next' = [next EXCEPT ![at[t].prev] = next[t], ![t] = Nil]
          /\ prev' = [prev EXCEPT ![t] = Nil]
      <3>1. On' = On \ {t} /\ t \in On
        BY <1>7, OnStep
      <3>2. pc[t] = "del2" /\ pc'[t] = "out" /\ at[t].next = next[t]
        BY <1>1, <1>7 DEF DelPrevNext, Step, TypeInv, ReadInv
      <3>3. QED
        BY <1>1, <1>7, <3>1, <3>2 DEF DelPrevNext, Linked
    <2>2. /\ DoubleRing(next, p, Linked) /\ Connected(next, Linked)
          /\ prev[next[t]] = p[t] /\ at[t].prev = p[t]
      BY <1>1, <2>1 DEF LinkInv
    <2>3. next[t] \in Linked /\ next[t] # t
      <3> HIDE DEF p
      <3>1. QED
        BY <1>1, <2>1, <2>2, RingTurns DEF DoubleRing
    <2>4. prev'[next[t]] = p[t] /\ \A x \in Linked \ {t, next[t]} : prev'[x] = p[x]
      BY <1>1, <1>4, <2>1, <2>2, <2>3
    <2>5. DoubleRing(next', prev', Linked') /\ Connected(next', Linked')
      <3> HIDE DEF p
      <3>1. t \in Linked /\ Linked' = Linked \ {t}
        BY <2>1
      <3>2. p[t] \in Linked /\ p[t] # t
        BY <1>1, <2>2, <2>3, <3>1 DEF DoubleRing
      <3>3. next'[p[t]] = next[t] /\ \A x \in Linked \ {t, p[t]} : next'[x] = next[x]
        BY <1>1, <1>4, <2>1, <2>2, <3>2
      <3>4. /\ DoubleRing(next, p, Linked) /\ Connected(next, Linked)
            /\ prev'[next[t]] = p[t] /\ \A x \in Linked \ {t, next[t]} : prev'[x] = p[x]
        BY <2>2, <2>4
      <3>5. DoubleRing(next', prev', Linked \ {t}) /\ Connected(next', Linked \ {t})
        BY <1>1, <3>1, <3>3, <3>4, RingRemoves
      <3>6. QED
        BY <3>1, <3>5
    <2>6. QED
      BY <1>3, <2>1, <2>5 DEF LinkInv
  <1>8. QED
    BY <1>5, <1>6, <1>7

\* The links are one ring again, or half-way to it, after every step.
LEMMA LinkStep ==
    ASSUME TypeInv, LockInv, ReadInv, LinkInv, RemoveLock = OwnLock, [Next]_vars PROVE LinkInv'
  <1>1. ASSUME NEW t \in Tasks, MutexLock(t) \/ MutexUnlock(t) PROVE LinkInv'
    <2>1. UNCHANGED <<next, prev, at>> /\ Linked' = Linked
      BY <1>1, OnStep DEF MutexLock, MutexUnlock
    <2>2. \A u \in Sleepers : /\ pc'[u] \in {"add2", "add3", "del2"} => pc'[u] = pc[u]
                              /\ pc[u] \in {"add2", "add3", "del2"} => pc'[u] = pc[u]
      BY <1>1 DEF MutexLock, MutexUnlock, Step, TypeInv, Tasks
    <2>3. QED
      BY <2>1, <2>2, LinksRest
  <1>2. ASSUME NEW t \in Tasks, WakeStep(t) PROVE LinkInv'
    <2>1. t \in Wakers
      BY <1>2, Actors
    <2>2. \A u \in Sleepers : pc'[u] = pc[u] /\ at'[u] = at[u]
      BY <1>2, <2>1, Assumed
         DEF TypeInv, Tasks, WakeStep, WakeLock, WakeOne, WakeDone, WakerReturns, Step
    <2>3. UNCHANGED <<next, prev>>
      BY <1>2 DEF WakeStep, WakeLock, WakeOne, WakeDone, WakerReturns
    <2>4. QED
      BY <1>2, <2>2, <2>3, OnStep, LinksRest
  <1>3. CASE UNCHANGED vars
    BY <1>3, LinksRest DEF vars, Linked, On
  <1>4. QED
    BY <1>1, <1>2, <1>3, AddKeepsRing, RemoveKeepsRing, Steps

\* While a walk is under way nothing else is at the links, and the walk itself
\* moves along them.
LEMMA WalkStep ==
    ASSUME TypeInv, LockInv, LinkInv, WalkInv, RemoveLock = OwnLock, [Next]_vars PROVE WalkInv'
  <1> USE Assumed
  <1>1. ASSUME NEW t \in Tasks, MutexLock(t) \/ MutexUnlock(t) PROVE WalkInv'
    <2>1. UNCHANGED <<next, at, woken>> /\ Linked' = Linked /\ On' = On
      BY <1>1, OnStep DEF MutexLock, MutexUnlock
    <2>2. \A w \in Wakers : pc'[w] = "walk" => pc[w] = "walk"
      BY <1>1 DEF MutexLock, MutexUnlock, Step, TypeInv, Tasks
    <2>3. QED
      BY <2>1, <2>2 DEF WalkInv
  <1>2. ASSUME NEW t \in Tasks, \/ AddStep(t) \/ RemoveLocked(t, OwnLock)
                                \/ DelNextPrev(t) \/ DelPrevNext(t)
        PROVE WalkInv'
    <2>1. t \notin Wakers
      BY <1>2, Actors
    <2>2. \A w \in Wakers : pc[w] # "walk"
      BY <1>2, <2>1, Solo DEF AddStep, AddLock, AddNextPrev, AddOwn, AddPrevNext, RemoveLocked,
         DelNextPrev, DelPrevNext, Step, SpinLock, SpinPCs, Tasks
    <2>3. \A w \in Wakers : pc'[w] = pc[w]
      BY <1>2, <2>1 DEF AddStep, AddLock, AddNextPrev, AddOwn, AddPrevNext, RemoveLocked,
         DelNextPrev, DelPrevNext, Step, TypeInv, Tasks
    <2>4. QED
      BY <2>2, <2>3 DEF WalkInv
  <1>3. ASSUME NEW t \in Tasks, WakeStep(t) PROVE WalkInv'
    <2>1. t \in Wakers /\ next' = next /\ Linked' = Linked /\ On' = On
      BY <1>3, Actors, OnStep DEF WakeStep, WakeLock, WakeOne, WakeDone, WakerReturns
    <2>2. CASE WakerReturns(t)
      <3>1. UNCHANGED <<at, woken>> /\ \A w \in Wakers : pc'[w] = "walk" => pc[w] = "walk"
        BY <2>2 DEF WakerReturns, Step, TypeInv, Tasks
      <3>2. QED
        BY <2>1, <3>1 DEF WalkInv
    <2>3. CASE WakeLock(t) \/ WakeOne(t) \/ WakeDone(t)
      <3>1. \A u \in Tasks : u # t => pc[u] \notin SpinPCs /\ pc'[u] = pc[u]
        BY <2>3, Solo DEF WakeLock, WakeOne, WakeDone, Step, SpinLock, SpinPCs, TypeInv
      <3>2. \A w \in Wakers : pc'[w] = "walk" => w = t
        BY <3>1 DEF SpinPCs, Tasks
      <3>3. \A u \in Sleepers : pc[u] \notin {"add2", "add3", "del2"}
        BY <2>1, <3>1 DEF SpinPCs, Tasks
      <3>4. \A x \in Linked : next[x] \in Linked
        BY <3>3 DEF LinkInv, DoubleRing
      <3>5. Head \in Linked /\ Linked = On \cup {Head}
        BY DEF Linked
      <3>6. CASE WakeLock(t)
        <4>1. at'[t].next = next[Head] /\ woken' = {}
          BY <3>6 DEF WakeLock, TypeInv
        <4>2. QED
          BY <2>1, <3>2, <3>4, <3>5, <4>1 DEF WalkInv
      <3>7. CASE WakeOne(t)
        <4>1. /\ at[t].next \in Linked /\ at[t].next \in Sleepers /\ woken \subseteq On
              /\ \A x \in woken \cup {Head} : next[x] \in woken \cup {Head, at[t].next}
          BY <2>1, <3>7 DEF WakeOne, WalkInv, Step
        <4>2. at'[t].next = next[at[t].next] /\ woken' = woken \cup {at[t].next}
          BY <3>7 DEF WakeOne, TypeInv
        <4>3. at[t].next \in On /\ at'[t].next \in Linked
          BY <3>4, <3>5, <4>1, <4>2
        <4>4. \A x \in woken' \cup {Head} : next'[x] \in woken' \cup {Head, at'[t].next}
          BY <2>1, <4>1, <4>2
        <4>5. QED
          BY <2>1, <3>2, <4>1, <4>2, <4>3, <4>4 DEF WalkInv
      <3>8. CASE WakeDone(t)
        <4>1. pc'[t] # "walk"
          BY <3>8 DEF WakeDone, Step, TypeInv
        <4>2. QED
          BY <3>2, <4>1 DEF WalkInv
      <3>9. QED
        BY <2>3, <3>6, <3>7, <3>8
    <2>4. QED
      BY <1>3, <2>2, <2>3 DEF WakeStep
  <1>4. CASE UNCHANGED vars
    BY <1>4 DEF WalkInv, vars, Linked, On
  <1>5. QED
    BY <1>1, <1>2, <1>3, <1>4, Steps

\* At first the ring is the head alone.
LEMMA InitInv == Init => IInv
  <1> SUFFICES ASSUME Init PROVE IInv
    OBVIOUS
  <1> USE Assumed DEF Init
  <1>1. TypeInv
    BY DEF TypeInv, Nodes, Locks, Tasks, SleeperPCs, WakerPCs
  <1>2. LockInv
    BY DEF LockInv, SpinPCs, MutexPCs, Locks
  <1>3. Linked = {Head} /\ next[Head] = Head /\ prev[Head] = Head
    BY DEF Linked, On, Tasks, Nodes
  <1>4. DoubleRing(next, prev, Linked) /\ Connected(next, Linked)
    BY <1>3 DEF DoubleRing, Connected
  <1>5. ReadInv /\ LinkInv /\ WalkInv
    BY <1>4 DEF ReadInv, LinkInv, WalkInv, Tasks
  <1>6. QED
    BY <1>1, <1>2, <1>5 DEF IInv

-----------------------------------------------------------------------------
(* The theorems.  All of them are about the removal that takes the lock of *)
(* the queue the entry is on, as globalfifo_write does.                    *)

\* The inductive invariant holds throughout.
THEOREM Invariance == ASSUME RemoveLock = OwnLock PROVE Spec => []IInv
  <1>1. IInv /\ [Next]_vars => IInv'
    BY TypeStep, LockStep, ReadStep, LinkStep, WalkStep DEF IInv
  <1>2. QED
    BY <1>1, InitInv, PTL DEF Spec

\* Between the operations the links form one ring of the head and exactly the
\* entries of the calls between add_wait_queue and remove_wait_queue.
THEOREM RingHolds == ASSUME RemoveLock = OwnLock PROVE Spec => []Ring
  <1>1. IInv => Ring
    <2> SUFFICES ASSUME IInv, Quiet
                 PROVE  /\ \A x \in Queued \cup {Head} : next[x] \in Nodes /\ prev[next[x]] = x
                        /\ Members = Queued
      BY DEF Ring
    <2>1. On = Queued /\ Linked = Queued \cup {Head} /\ Linked \in SUBSET Nodes
      BY DEF Quiet, On, Queued, Linked, Nodes
    <2>2. DoubleRing(next, prev, Linked) /\ Connected(next, Linked)
      BY DEF IInv, LinkInv, Quiet
    <2>3. \A x \in Queued \cup {Head} : next[x] \in Nodes /\ prev[next[x]] = x
      BY <2>1, <2>2 DEF DoubleRing
    <2>4. Members \subseteq Queued
      <3>1. Closed(Linked)
        BY <2>1, <2>2 DEF Closed, DoubleRing
      <3>2. QED
        BY <2>1, <3>1, Assumed DEF Members
    <2>5. Queued \subseteq Members
      <3> SUFFICES ASSUME NEW t \in Queued, NEW S \in SUBSET Nodes, Closed(S) PROVE t \in S
        BY DEF Members, Queued
      <3>1. \A x \in S \cap Linked : next[x] \in S \cap Linked
        BY <2>2 DEF Closed, DoubleRing
      <3>2. S \cap Linked = Linked
        BY <2>1, <2>2, <3>1 DEF Connected, Closed
      <3>3. QED
        BY <2>1, <3>2
    <2>6. QED
      BY <2>3, <2>4, <2>5
  <1>2. QED
    BY <1>1, Invariance, PTL

\* A walk is only ever at the head or at the entry of a call that has not
\* taken it off the queue.
THEOREM WalkSafe == ASSUME RemoveLock = OwnLock PROVE Spec => []WalkIsSafe
  <1>1. IInv => WalkIsSafe
    <2> SUFFICES ASSUME IInv, NEW w \in Wakers, pc[w] = "walk" PROVE at[w].next \in Queued \cup {Head}
      BY DEF WalkIsSafe
    <2>1. \A u \in Sleepers : pc[u] \notin SpinPCs
      BY Solo, Assumed DEF IInv, SpinPCs, Tasks
    <2>2. Linked = Queued \cup {Head}
      BY <2>1 DEF Linked, On, Queued, SpinPCs
    <2>3. QED
      BY <2>2 DEF IInv, WalkInv
  <1>2. QED
    BY <1>1, Invariance, PTL

\* When a walk is back at the head it has woken everyone on the queue.
LEMMA WalkReachesAll ==
    ASSUME IInv, NEW w \in Wakers, pc[w] = "walk", at[w].next = Head
    PROVE  woken = Queued
  <1>1. \A u \in Sleepers : pc[u] \notin SpinPCs
    BY Solo, Assumed DEF IInv, SpinPCs, Tasks
  <1>2. On = Queued
    BY <1>1 DEF On, Queued, SpinPCs
  <1>3. Connected(next, Linked) /\ woken \subseteq On
    BY DEF IInv, LinkInv, WalkInv
  <1>4. \A x \in woken \cup {Head} : next[x] \in woken \cup {Head}
    BY DEF IInv, WalkInv
  <1>5. woken \cup {Head} = Linked
    BY <1>3, <1>4 DEF Connected, Linked
  <1>6. QED
    BY <1>2, <1>3, <1>5, Assumed DEF Linked, On

\* Whom a wake-up wakes, and who has come from its walk, changes in no other step.
LEMMA WokenKept ==
    ASSUME TypeInv, LockInv, NEW t \in Tasks,
           MutexLock(t) \/ AddStep(t) \/ MutexUnlock(t) \/ RemoveLocked(t, OwnLock)
             \/ DelNextPrev(t) \/ DelPrevNext(t) \/ WakeLock(t) \/ WakeOne(t)
    PROVE  \A w \in Wakers : /\ pc'[w] = "woken" <=> pc[w] = "woken"
                             /\ pc[w] = "woken" => woken' = woken
  <1> SUFFICES ASSUME NEW w \in Wakers
               PROVE  /\ pc'[w] = "woken" <=> pc[w] = "woken"
                      /\ pc[w] = "woken" => woken' = woken
    OBVIOUS
  <1>1. CASE MutexLock(t)
    BY <1>1 DEF MutexLock, Step, TypeInv, Tasks
  <1>2. CASE AddStep(t)
    BY <1>2 DEF AddStep, AddLock, AddNextPrev, AddOwn, AddPrevNext, Step, TypeInv, Tasks
  <1>3. CASE MutexUnlock(t) \/ RemoveLocked(t, OwnLock) \/ DelNextPrev(t) \/ DelPrevNext(t)
    BY <1>3 DEF MutexUnlock, RemoveLocked, DelNextPrev, DelPrevNext, Step, TypeInv, Tasks
  <1>4. CASE WakeLock(t) \/ WakeOne(t)
    <2>1. pc[w] # "woken"
      BY <1>4, Alone DEF WakeLock, WakeOne, Step, MutexPCs, Tasks
    <2>2. pc'[w] # "woken"
      BY <1>4, <2>1 DEF WakeLock, WakeOne, Step, TypeInv, Tasks
    <2>3. QED
      BY <2>1, <2>2
  <1>5. QED
    BY <1>1, <1>2, <1>3, <1>4

\* With the lock of another queue (run waitlist_other) a finished wake-up may
\* have missed an entry; with that of its own queue it has reached them all.
THEOREM WakesEveryone == ASSUME RemoveLock = OwnLock PROVE Spec => []WakesAll
  <1>1. Init => WakesAll
    BY DEF Init, WakesAll, Tasks
  <1>2. IInv /\ WakesAll /\ [Next]_vars => WakesAll'
    <2> SUFFICES ASSUME IInv, WakesAll, [Next]_vars, NEW w \in Wakers, pc'[w] = "woken",
                        NEW s \in Queued'
                 PROVE  s \in woken'
      BY DEF WakesAll
    <2> USE DEF IInv
    <2>1. ASSUME NEW t \in Tasks, WakeDone(t) PROVE s \in woken'
      <3>1. t \in Wakers /\ pc[t] = "walk" /\ at[t].next = Head /\ woken' = woken
        BY <2>1, Actors DEF WakeDone, WakeStep, Step
      <3>2. s \in Queued
        BY <2>1, <3>1, Assumed DEF WakeDone, Step, TypeInv, Queued, Tasks
      <3>3. QED
        BY <3>1, <3>2, WalkReachesAll
    <2>2. ASSUME NEW t \in Tasks, WakerReturns(t) PROVE s \in woken'
      <3>1. t \in Wakers
        BY <2>2, Actors DEF WakeStep
      <3>2. s \in Queued /\ pc[w] = "woken" /\ woken' = woken
        BY <2>2, <3>1, Assumed DEF WakerReturns, Step, TypeInv, Queued, Tasks
      <3>3. QED
        BY <3>2 DEF WakesAll
    <2>3. ASSUME NEW t \in Tasks,
                 MutexLock(t) \/ AddStep(t) \/ MutexUnlock(t) \/ RemoveLocked(t, OwnLock)
                   \/ DelNextPrev(t) \/ DelPrevNext(t) \/ WakeLock(t) \/ WakeOne(t)
          PROVE  s \in woken'
      <3>1. pc[w] = "woken" /\ woken' = woken
        BY <2>3, WokenKept
      <3>2. ~ AddPrevNext(t)
        BY <3>1, Alone DEF AddPrevNext, Step, MutexPCs, Tasks
      <3>3. s \in Queued
        BY <2>3, <3>2, Assumed DEF MutexLock, AddStep, AddLock, AddNextPrev, AddOwn, MutexUnlock,
           RemoveLocked, DelNextPrev, DelPrevNext, WakeLock, WakeOne, Step, TypeInv, Queued, Tasks
      <3>4. QED
        BY <3>1, <3>3 DEF WakesAll
    <2>4. CASE UNCHANGED vars
      BY <2>4 DEF vars, WakesAll, Queued
    <2>5. QED
      BY <2>1, <2>2, <2>3, <2>4, Steps DEF WakeStep
  <1>3. QED
    BY <1>1, <1>2, Invariance, PTL DEF Spec

-----------------------------------------------------------------------------
(* The refinement                                                          *)

Reached == [w \in Wakers |-> IF pc[w] = "woken" THEN woken ELSE Nil]

\* Which step of the abstract queue each step of the list is.
LEMMA StepSimulates ==
    ASSUME IInv, RemoveLock = OwnLock, [Next]_vars PROVE [Queue!Next]_(Queue!vars)
  <1> USE Assumed DEF IInv
  <1> DEFINE stutter == Queued' = Queued /\ Reached' = Reached
  <1>1. stutter => [Queue!Next]_(Queue!vars)
    BY DEF Queue!vars, Reached
  <1>2. ASSUME NEW t \in Tasks, AddPrevNext(t) PROVE Queue!Next
    <2>1. t \in Sleepers /\ pc[t] = "add3" /\ pc' = [pc EXCEPT ![t] = "queued"]
      BY <1>2, Actors DEF AddStep, AddPrevNext, Step
    <2>2. Queued' = Queued \cup {t} /\ t \notin Queued
      BY <2>1 DEF Queued, TypeInv, Tasks
    <2>3. Reached' = Reached
      BY <1>2, WokenKept DEF Reached, AddStep
    <2>4. Queue!Add(t)
      BY <2>2, <2>3 DEF Queue!Add, Reached
    <2>5. QED
      BY <2>1, <2>4 DEF Queue!Next
  <1>3. ASSUME NEW t \in Tasks, RemoveLocked(t, OwnLock) PROVE Queue!Next
    <2>1. t \in Sleepers /\ pc[t] = "remove" /\ pc' = [pc EXCEPT ![t] = "del1"]
      BY <1>3, Actors DEF RemoveLocked, Step
    <2>2. Queued' = Queued \ {t} /\ t \in Queued
      BY <2>1 DEF Queued, TypeInv, Tasks
    <2>3. Reached' = Reached
      BY <1>3, WokenKept DEF Reached
    <2>4. Queue!Remove(t)
      BY <2>2, <2>3 DEF Queue!Remove, Reached
    <2>5. QED
      BY <2>1, <2>4 DEF Queue!Next
  <1>4. ASSUME NEW t \in Tasks, WakeDone(t) PROVE Queue!Next
    <2>1. /\ t \in Wakers /\ pc[t] = "walk" /\ pc' = [pc EXCEPT ![t] = "woken"]
          /\ at[t].next = Head /\ woken' = woken
      BY <1>4, Actors DEF WakeStep, WakeDone, Step
    <2>2. Queued' = Queued /\ woken = Queued
      BY <2>1, WalkReachesAll DEF Queued, TypeInv, Tasks
    <2>3. Reached[t] = Nil /\ Reached' = [Reached EXCEPT ![t] = Queued]
      BY <2>1, <2>2 DEF Reached, TypeInv, Tasks
    <2>4. Queue!WakeUp(t)
      BY <2>2, <2>3 DEF Queue!WakeUp, Reached
    <2>5. QED
      BY <2>1, <2>4 DEF Queue!Next
  <1>5. ASSUME NEW t \in Tasks, WakerReturns(t) PROVE [Queue!Next]_(Queue!vars)
    <2>1. t \in Wakers /\ pc[t] = "woken" /\ pc' = [pc EXCEPT ![t] = "out"] /\ woken' = woken
      BY <1>5, Actors DEF WakeStep, WakerReturns, Step
    <2>2. Queued' = Queued
      BY <2>1 DEF Queued, TypeInv, Tasks
    <2>3. Reached[t] = woken /\ Reached' = [Reached EXCEPT ![t] = Nil]
      BY <2>1 DEF Reached, TypeInv, Tasks
    <2>4. CASE woken = Nil
      <3>1. Reached' = Reached
        BY <2>3, <2>4 DEF Reached
      <3>2. QED
        BY <1>1, <2>2, <3>1
    <2>5. CASE woken # Nil
      <3>1. Queue!Return(t)
        BY <2>2, <2>3, <2>5 DEF Queue!Return, Reached
      <3>2. QED
        BY <2>1, <3>1 DEF Queue!Next
    <2>6. QED
      BY <2>4, <2>5
  <1>6. ASSUME NEW t \in Tasks,
               MutexLock(t) \/ AddLock(t) \/ AddNextPrev(t) \/ AddOwn(t) \/ MutexUnlock(t)
                 \/ DelNextPrev(t) \/ DelPrevNext(t) \/ WakeLock(t) \/ WakeOne(t)
        PROVE  stutter
    <2>1. Reached' = Reached
      BY <1>6, WokenKept DEF Reached, AddStep
    <2>2. Queued' = Queued
      BY <1>6 DEF MutexLock, AddLock, AddNextPrev, AddOwn, MutexUnlock, DelNextPrev, DelPrevNext,
         WakeLock, WakeOne, Step, TypeInv, Queued, Tasks
    <2>3. QED
      BY <2>1, <2>2
  <1>7. CASE UNCHANGED vars
    <2>1. stutter
      BY <1>7 DEF vars, Queued, Reached
    <2>2. QED
      BY <1>1, <2>1
  <1>8. QED
    BY <1>1, <1>2, <1>3, <1>4, <1>5, <1>6, <1>7, Steps DEF AddStep, WakeStep

\* The list in memory is a wait queue whose operations are one step each: an
\* entry is on it from the last store of add_wait_queue to the spin_lock of
\* remove_wait_queue, and a wake-up takes effect where its walk ends.
THEOREM Refinement == ASSUME RemoveLock = OwnLock PROVE Spec => ImplementsQueue
  <1>1. Init => Queue!Init
    BY DEF Init, Queue!Init, Queued, Tasks
  <1>2. IInv /\ [Next]_vars => [Queue!Next]_(Queue!vars)
    BY StepSimulates
  <1>3. QED
    BY <1>1, <1>2, Invariance, PTL DEF Spec, ImplementsQueue, Queue!Spec
=============================================================================
