----------------------------- MODULE GlobalFifo -----------------------------
(***************************************************************************)
(* The blocking FIFO character device of 06.char_drv/2.platform_cdev:      *)
(* globalfifo_read, _write, _poll, _ioctl, _fasync, _open and _release run *)
(* by any number of tasks against one device.  One step is one access to   *)
(* state that other tasks see: a mutex operation, an update of the buffer, *)
(* a wake-up, a call of schedule().  read and write are mirror images and  *)
(* share the steps in which they differ only in the queue they wait on.    *)
(*                                                                         *)
(* The scheduler, signals and the wait queue lists are the kernel's; they  *)
(* are modelled by what the driver relies on.  Insertion and removal of a  *)
(* wait queue entry is one step here; WaitList models those lists pointer  *)
(* by pointer, with the spin locks that guard them.                        *)
(***************************************************************************)
EXTENDS Integers, Sequences

CONSTANTS
    Procs,      \* the tasks that use /dev/globalfifo
    None,       \* the owner of a free mutex
    SIZE,       \* GLOBALFIFO_SIZE
    Byte,       \* byte values that tasks write
    MaxCount,   \* bound on the count argument of read and write
    Calls       \* Calls[p]: the system calls that p makes

ASSUME ProcsAssumption == None \notin Procs
ASSUME SizeAssumption == SIZE \in Nat \ {0} /\ MaxCount \in Nat
ASSUME ByteAssumption == Byte \subseteq Nat
ASSUME CallsAssumption ==
    Calls \in [Procs -> SUBSET {"read", "write", "pollin", "pollout", "select",
                              "clear", "fasync"}]

VARIABLES
    mem, current_len,  \* struct globalfifo_dev: the buffer and its fill
    mutex,             \* dev->mutex: its owner, or None
    wait,              \* wait["read"], wait["write"]: the entries on r_wait and w_wait
    async_queue,       \* the tasks that asked for SIGIO
    cleared,           \* room was made by FIFO_CLEAR, which wakes nobody
    state, sig,        \* the scheduler's state of each task, signal_pending
    trig,              \* pollers: has a wake-up or the timeout come?
    pc, op, filp,      \* where each task is, in which call, how it opened
    want, count, ret,  \* argument, clipped argument and result of a call
    ubuf               \* the bytes copied to the caller of read

devVars  == <<mem, current_len, cleared>>
waitVars == <<wait, async_queue>>
taskVars == <<state, sig, trig>>
callVars == <<op, filp, want, count, ret, ubuf>>
vars == <<devVars, mutex, waitVars, taskVars, pc, callVars>>

EAGAIN == -11
EFAULT == -14
ERESTARTSYS == -512

Transfers == {"read", "write"}
Polls     == {"pollin", "pollout", "select"}
\* The places where a task is inside the critical section of dev->mutex.
HoldPCs == {"test", "unlock", "copy", "update", "wake", "sigio", "out", "check", "zero", "clrout"}
PCs == HoldPCs \cup {"idle", "lock", "sched", "relock", "out2", "pollwait", "polldone"}

Lesser(a, b) == IF a < b THEN a ELSE b

\* The condition on which a task waits on queue q.
Blocked(q) == IF q = "read" THEN current_len = 0 ELSE current_len = SIZE
Other(q)   == IF q = "read" THEN "write" ELSE "read"
\* The queues that bring a poller what it asks for: POLLIN bytes, POLLOUT
\* room, a select for reading and writing either.
Polled(o)  == IF o = "pollin" THEN {"read"} ELSE IF o = "pollout" THEN {"write"} ELSE Transfers
Unready(o) == \A q \in Polled(o) : Blocked(q)

-----------------------------------------------------------------------------
(* The pieces of the kernel that the driver calls                          *)

Step(p, from, to) == pc[p] = from /\ pc' = [pc EXCEPT ![p] = to]

\* mutex_lock is uninterruptible, so a pending signal does not matter.
Lock(p) == mutex = None /\ mutex' = p
Unlock  == mutex' = None

\* wake_up_interruptible: every sleeper with an entry on q becomes runnable;
\* a poller's entry also records that it was triggered.
WakeUp(q) ==
    /\ state' = [p \in Procs |-> IF p \in wait[q] THEN "RUNNING" ELSE state[p]]
    /\ trig' = [p \in Procs |->
         IF p \in wait[q] /\ op[p] \in Polls /\ trig[p] = "no" THEN "yes" ELSE trig[p]]

\* schedule() in TASK_INTERRUPTIBLE returns once the task has been made
\* runnable, or at once if a signal is pending.
ScheduleReturns(p) ==
    /\ state[p] = "RUNNING" \/ sig[p]
    /\ state' = [state EXCEPT ![p] = "RUNNING"]

\* Returning to user space delivers pending signals.
ReturnToUser(p, from) ==
    /\ Step(p, from, "idle")
    /\ state' = [state EXCEPT ![p] = "RUNNING"]
    /\ sig' = [sig EXCEPT ![p] = FALSE]
    /\ trig' = [trig EXCEPT ![p] = "no"]
    /\ op' = [op EXCEPT ![p] = "none"]
    /\ want' = [want EXCEPT ![p] = 0]
    /\ count' = [count EXCEPT ![p] = 0]
    /\ ret' = [ret EXCEPT ![p] = 0]
    /\ ubuf' = [ubuf EXCEPT ![p] = <<>>]
    /\ UNCHANGED <<devVars, async_queue, filp>>

\* A signal reaches a task inside a call and makes it runnable.
Kill(p) ==
    /\ pc[p] # "idle" /\ ~sig[p]
    /\ sig' = [sig EXCEPT ![p] = TRUE]
    /\ state' = [state EXCEPT ![p] = "RUNNING"]
    /\ UNCHANGED <<devVars, mutex, waitVars, trig, pc, callVars>>

-----------------------------------------------------------------------------
(* globalfifo_probe has set the device up; no task has opened it.          *)

Init ==
    /\ mem = [i \in 0..SIZE - 1 |-> 0] /\ current_len = 0
    /\ mutex = None
    /\ wait = [q \in Transfers |-> {}] /\ async_queue = {}
    /\ cleared = FALSE
    /\ state = [p \in Procs |-> "RUNNING"]
    /\ sig = [p \in Procs |-> FALSE] /\ trig = [p \in Procs |-> "no"]
    /\ pc = [p \in Procs |-> "idle"] /\ op = [p \in Procs |-> "none"]
    /\ filp = [p \in Procs |-> "closed"]
    /\ want = [p \in Procs |-> 0] /\ count = [p \in Procs |-> 0]
    /\ ret = [p \in Procs |-> 0] /\ ubuf = [p \in Procs |-> <<>>]

Open(p) ==
    /\ pc[p] = "idle" /\ filp[p] = "closed"
    /\ \E mode \in {"block", "nonblock"} : filp' = [filp EXCEPT ![p] = mode]
    /\ UNCHANGED <<devVars, mutex, waitVars, taskVars, pc, op, want, count, ret, ubuf>>

\* globalfifo_release takes the file off the SIGIO list.
Release(p) ==
    /\ pc[p] = "idle" /\ filp[p] # "closed"
    /\ filp' = [filp EXCEPT ![p] = "closed"]
    /\ async_queue' = async_queue \ {p}
    /\ UNCHANGED <<devVars, mutex, wait, taskVars, pc, op, want, count, ret, ubuf>>

\* fcntl(F_SETFL) with FASYNC set or cleared.
Fasync(p) ==
    /\ "fasync" \in Calls[p] /\ pc[p] = "idle" /\ filp[p] # "closed"
    /\ async_queue' \in {async_queue \cup {p}, async_queue \ {p}}
    /\ UNCHANGED <<devVars, mutex, wait, taskVars, pc, callVars>>

\* A task makes one of its system calls.
Enter(p) ==
    /\ filp[p] # "closed"
    /\ Step(p, "idle", "lock")
    /\ \E o \in Calls[p] \ {"fasync"} : op' = [op EXCEPT ![p] = o]
    /\ \E c \in 0..MaxCount :
         /\ op'[p] \notin Transfers => c = 0
         /\ want' = [want EXCEPT ![p] = c]
         /\ count' = [count EXCEPT ![p] = c]
    /\ UNCHANGED <<devVars, mutex, waitVars, taskVars, filp, ret, ubuf>>

-----------------------------------------------------------------------------
(* globalfifo_read and globalfifo_write: waiting                           *)

\* Variant: the entry is queued only by tasks that find something to do.
TransferLockUnqueued(p) ==
    /\ op[p] \in Transfers
    /\ Step(p, "lock", "test") /\ Lock(p)
    /\ wait' = IF Blocked(op[p]) THEN wait ELSE [wait EXCEPT ![op[p]] = @ \cup {p}]
    /\ UNCHANGED <<devVars, async_queue, taskVars, callVars>>

\* mutex_lock; add_wait_queue on the queue of the call.
TransferLock(p) ==
    /\ op[p] \in Transfers
    /\ Step(p, "lock", "test") /\ Lock(p)
    /\ wait' = [wait EXCEPT ![op[p]] = @ \cup {p}]
    /\ UNCHANGED <<devVars, async_queue, taskVars, callVars>>

\* The while loop is left, ...
Go(p) ==
    /\ Step(p, "test", "copy") /\ ~Blocked(op[p])
    /\ UNCHANGED <<devVars, mutex, waitVars, taskVars, callVars>>

\* Variant: TASK_INTERRUPTIBLE is set before O_NONBLOCK is looked at.
AgainPrepared(p) ==
    /\ Step(p, "test", "out") /\ Blocked(op[p]) /\ filp[p] = "nonblock"
    /\ ret' = [ret EXCEPT ![p] = EAGAIN]
    /\ state' = [state EXCEPT ![p] = "INTERRUPTIBLE"]
    /\ UNCHANGED <<devVars, mutex, waitVars, sig, trig, op, filp, want, count, ubuf>>

\* Variant: O_NONBLOCK is ignored.
AgainSleeps(p) ==
    /\ Step(p, "test", "unlock") /\ Blocked(op[p]) /\ filp[p] = "nonblock"
    /\ state' = [state EXCEPT ![p] = "INTERRUPTIBLE"]
    /\ UNCHANGED <<devVars, mutex, waitVars, sig, trig, callVars>>

\* ... the call fails, ...
Again(p) ==
    /\ Step(p, "test", "out") /\ Blocked(op[p]) /\ filp[p] = "nonblock"
    /\ ret' = [ret EXCEPT ![p] = EAGAIN]
    /\ UNCHANGED <<devVars, mutex, waitVars, taskVars, op, filp, want, count, ubuf>>

\* ... or the task prepares to sleep, unlocks and calls schedule().
Prepare(p) ==
    /\ Step(p, "test", "unlock") /\ Blocked(op[p]) /\ filp[p] # "nonblock"
    /\ state' = [state EXCEPT ![p] = "INTERRUPTIBLE"]
    /\ UNCHANGED <<devVars, mutex, waitVars, sig, trig, callVars>>

UnlockToSleep(p) ==
    /\ Step(p, "unlock", "sched") /\ Unlock
    /\ UNCHANGED <<devVars, waitVars, taskVars, callVars>>

Woken(p) ==
    /\ Step(p, "sched", "relock") /\ ScheduleReturns(p) /\ ~sig[p]
    /\ UNCHANGED <<devVars, mutex, waitVars, sig, trig, callVars>>

\* Variant: goto out, as if the mutex were held.
InterruptedToOut(p) ==
    /\ Step(p, "sched", "out") /\ ScheduleReturns(p) /\ sig[p]
    /\ ret' = [ret EXCEPT ![p] = ERESTARTSYS]
    /\ UNCHANGED <<devVars, mutex, waitVars, sig, trig, op, filp, want, count, ubuf>>

\* Variant: the signal is not looked at.
InterruptedLoops(p) ==
    /\ Step(p, "sched", "relock") /\ ScheduleReturns(p) /\ sig[p]
    /\ UNCHANGED <<devVars, mutex, waitVars, sig, trig, callVars>>

\* A pending signal ends the call without taking the mutex again.
Interrupted(p) ==
    /\ Step(p, "sched", "out2") /\ ScheduleReturns(p) /\ sig[p]
    /\ ret' = [ret EXCEPT ![p] = ERESTARTSYS]
    /\ UNCHANGED <<devVars, mutex, waitVars, sig, trig, op, filp, want, count, ubuf>>

\* Variant: if instead of while, no second test.
RelockNoRetest(p) ==
    /\ Step(p, "relock", "copy") /\ Lock(p)
    /\ UNCHANGED <<devVars, waitVars, taskVars, callVars>>

Relock(p) ==
    /\ Step(p, "relock", "test") /\ Lock(p)
    /\ UNCHANGED <<devVars, waitVars, taskVars, callVars>>

-----------------------------------------------------------------------------
(* globalfifo_read and globalfifo_write: the transfer                      *)

\* Variant: count is not clipped to the bytes there are.
ReadCopyUnclipped(p) ==
    LET n == Lesser(count[p], SIZE) IN
    /\ op[p] = "read" /\ Step(p, "copy", "update")
    /\ count' = [count EXCEPT ![p] = n]
    /\ ubuf' = [ubuf EXCEPT ![p] = [i \in 1..n |-> mem[i - 1]]]
    /\ UNCHANGED <<devVars, mutex, waitVars, taskVars, op, filp, want, ret>>

\* Clip count, copy_to_user.
ReadCopy(p) ==
    LET n == Lesser(count[p], current_len) IN
    /\ op[p] = "read" /\ Step(p, "copy", "update")
    /\ count' = [count EXCEPT ![p] = n]
    /\ ubuf' = [ubuf EXCEPT ![p] = [i \in 1..n |-> mem[i - 1]]]
    /\ UNCHANGED <<devVars, mutex, waitVars, taskVars, op, filp, want, ret>>

\* Variant: the error path forgets to unlock.
ReadFaultLocked(p) ==
    /\ op[p] = "read" /\ Step(p, "copy", "out2") /\ count[p] > 0
    /\ count' = [count EXCEPT ![p] = Lesser(@, current_len)]
    /\ ret' = [ret EXCEPT ![p] = EFAULT]
    /\ UNCHANGED <<devVars, mutex, waitVars, taskVars, op, filp, want, ubuf>>

ReadFault(p) ==
    /\ op[p] = "read" /\ Step(p, "copy", "out") /\ count[p] > 0
    /\ count' = [count EXCEPT ![p] = Lesser(@, current_len)]
    /\ ret' = [ret EXCEPT ![p] = EFAULT]
    /\ UNCHANGED <<devVars, mutex, waitVars, taskVars, op, filp, want, ubuf>>

\* Variant: the remaining bytes are not moved to the front.
ReadShiftInPlace(p) ==
    /\ op[p] = "read" /\ Step(p, "update", "wake")
    /\ current_len' = current_len - count[p]
    /\ UNCHANGED <<mem, cleared, mutex, waitVars, taskVars, callVars>>

\* memcpy(mem, mem + n, left).  The regions overlap if n < left, and then the
\* bytes come out as the order in which this memcpy copies has it: a byte may be
\* read where another one has been put already, which was n bytes further
\* behind, or 2n, ....
CopyDown(n, left) ==
    \E from \in [0..left - 1 -> 0..current_len - 1] :
        /\ \A i \in 0..left - 1 : \E k \in 1..SIZE : from[i] = i + k * n
        /\ mem' = [i \in 0..SIZE - 1 |-> IF i < left THEN mem[from[i]] ELSE mem[i]]

\* memcpy(mem, mem + count, current_len - count); current_len -= count.
ReadShift(p) ==
    LET left == current_len - count[p] IN
    /\ op[p] = "read" /\ Step(p, "update", "wake")
    /\ CopyDown(count[p], left)
    /\ current_len' = left
    /\ UNCHANGED <<cleared, mutex, waitVars, taskVars, callVars>>

\* copy_from_user of k bytes behind the valid ones.
CopyFromUser(k) ==
    \E s \in [0..SIZE - 1 -> Byte] :
        mem' = [i \in 0..SIZE - 1 |->
                  IF current_len <= i /\ i < current_len + k THEN s[i] ELSE mem[i]]

\* Variant: count is clipped to the buffer instead of the room in it.
WriteCopyUnclipped(p) ==
    LET n == Lesser(count[p], SIZE) IN
    /\ op[p] = "write" /\ Step(p, "copy", "update")
    /\ count' = [count EXCEPT ![p] = n]
    /\ CopyFromUser(n)
    /\ UNCHANGED <<current_len, cleared, mutex, waitVars, taskVars,
                   op, filp, want, ret, ubuf>>

\* Clip count, copy_from_user.
WriteCopy(p) ==
    LET n == Lesser(count[p], SIZE - current_len) IN
    /\ op[p] = "write" /\ Step(p, "copy", "update")
    /\ count' = [count EXCEPT ![p] = n]
    /\ CopyFromUser(n)
    /\ UNCHANGED <<current_len, cleared, mutex, waitVars, taskVars,
                   op, filp, want, ret, ubuf>>

\* A fault leaves what was copied until then behind current_len.
WriteFault(p) ==
    /\ op[p] = "write" /\ Step(p, "copy", "out")
    /\ count' = [count EXCEPT ![p] = Lesser(@, SIZE - current_len)]
    /\ \E k \in 0..count'[p] - 1 : CopyFromUser(k)
    /\ ret' = [ret EXCEPT ![p] = EFAULT]
    /\ UNCHANGED <<current_len, cleared, mutex, waitVars, taskVars, op, filp, want, ubuf>>

WriteCommit(p) ==
    /\ op[p] = "write" /\ Step(p, "update", "wake")
    /\ current_len' = current_len + count[p]
    /\ UNCHANGED <<mem, cleared, mutex, waitVars, taskVars, callVars>>

\* Variant: a call wakes the queue it waits on itself.
TransferWakeOwn(p) ==
    /\ op[p] \in Transfers
    /\ Step(p, "wake", IF op[p] = "read" THEN "out" ELSE "sigio")
    /\ WakeUp(op[p])
    /\ cleared' = (cleared /\ op[p] = "write")
    /\ ret' = [ret EXCEPT ![p] = count[p]]
    /\ UNCHANGED <<mem, current_len, mutex, waitVars, sig, op, filp, want, count, ubuf>>

\* Variant: no SIGIO.
TransferWakeNoSigio(p) ==
    /\ op[p] \in Transfers /\ Step(p, "wake", "out")
    /\ WakeUp(Other(op[p]))
    /\ cleared' = (cleared /\ op[p] = "write")
    /\ ret' = [ret EXCEPT ![p] = count[p]]
    /\ UNCHANGED <<mem, current_len, mutex, waitVars, sig, op, filp, want, count, ubuf>>

\* A read wakes w_wait, a write wakes r_wait and goes on to SIGIO.
TransferWake(p) ==
    /\ op[p] \in Transfers
    /\ Step(p, "wake", IF op[p] = "read" THEN "out" ELSE "sigio")
    /\ WakeUp(Other(op[p]))
    /\ cleared' = (cleared /\ op[p] = "write")
    /\ ret' = [ret EXCEPT ![p] = count[p]]
    /\ UNCHANGED <<mem, current_len, mutex, waitVars, sig, op, filp, want, count, ubuf>>

\* kill_fasync(SIGIO); a task in user space takes its signal at once.
Sigio(p) ==
    /\ Step(p, "sigio", "out")
    /\ LET hit == {q \in async_queue : pc[q] # "idle"} IN
       /\ sig' = [q \in Procs |-> sig[q] \/ q \in hit]
       /\ state' = [q \in Procs |-> IF q \in hit THEN "RUNNING" ELSE state[q]]
    /\ UNCHANGED <<devVars, mutex, waitVars, trig, callVars>>

Out(p) ==
    /\ Step(p, "out", "out2") /\ Unlock
    /\ UNCHANGED <<devVars, waitVars, taskVars, callVars>>

\* Variant: unlinking goes by the head that is named.
Out2ByHead(p) ==
    /\ ReturnToUser(p, "out2")
    /\ wait' = [wait EXCEPT !["write"] = @ \ {p}]
    /\ UNCHANGED mutex

\* remove_wait_queue(&dev->w_wait, &wait): the reader names the wrong head,
\* but unlinking goes by the entry's own neighbours and it leaves r_wait.
\* Here that is one step; what becomes of r_wait when it runs under the lock of
\* w_wait beside others is what WaitList says with RemoveLock = OtherLock.
Out2(p) ==
    /\ ReturnToUser(p, "out2")
    /\ wait' = [wait EXCEPT ![op[p]] = @ \ {p}]
    /\ UNCHANGED mutex

Read(p)  == ReadCopy(p) \/ ReadFault(p) \/ ReadShift(p)
Write(p) == WriteCopy(p) \/ WriteFault(p) \/ WriteCommit(p) \/ Sigio(p)
TransferStep(p) ==
    \/ TransferLock(p) \/ Go(p) \/ Again(p) \/ Prepare(p) \/ UnlockToSleep(p)
    \/ Woken(p) \/ Interrupted(p) \/ Relock(p) \/ Read(p) \/ Write(p)
    \/ TransferWake(p) \/ Out(p) \/ Out2(p)

-----------------------------------------------------------------------------
(* globalfifo_poll, inside the loop of poll(2), select(2) or epoll_wait(2)  *)

PollLock(p) ==
    /\ op[p] \in Polls
    /\ Step(p, "lock", "check") /\ Lock(p)
    /\ UNCHANGED <<devVars, waitVars, taskVars, callVars>>

\* Variants: poll_wait for one of the two queues is missing.
PollCheckOn(p, polled) ==
    /\ Unlock
    /\ wait' = [q \in Transfers |-> IF q = polled THEN wait[q] \cup {p} ELSE wait[q]]
    /\ IF ~Unready(op[p]) \/ sig[p] \/ trig[p] = "expired"
       THEN Step(p, "check", "polldone")
       ELSE Step(p, "check", "pollwait")
    /\ UNCHANGED <<devVars, async_queue, taskVars, callVars>>
PollCheckNoRead(p)  == PollCheckOn(p, "write")
PollCheckNoWrite(p) == PollCheckOn(p, "read")

\* poll_wait on both queues, the mask, mutex_unlock.  The caller sleeps when
\* the mask lacks every event it asks for, no signal is pending and time is left.
PollCheck(p) ==
    /\ Unlock
    /\ wait' = [q \in Transfers |-> wait[q] \cup {p}]
    /\ IF ~Unready(op[p]) \/ sig[p] \/ trig[p] = "expired"
       THEN Step(p, "check", "polldone")
       ELSE Step(p, "check", "pollwait")
    /\ UNCHANGED <<devVars, async_queue, taskVars, callVars>>

PollTimeout(p) ==
    /\ pc[p] = "pollwait" /\ trig[p] # "expired"
    /\ trig' = [trig EXCEPT ![p] = "expired"]
    /\ UNCHANGED <<devVars, mutex, waitVars, state, sig, pc, callVars>>

\* A triggered, expired or signalled poller asks the driver again.
PollAgain(p) ==
    /\ Step(p, "pollwait", "lock") /\ (trig[p] # "no" \/ sig[p])
    /\ trig' = [trig EXCEPT ![p] = IF @ = "yes" THEN "no" ELSE @]
    /\ UNCHANGED <<devVars, mutex, waitVars, state, sig, callVars>>

\* poll_freewait takes the entries off both queues.
PollDone(p) ==
    /\ ReturnToUser(p, "polldone")
    /\ wait' = [q \in Transfers |-> wait[q] \ {p}]
    /\ UNCHANGED mutex

PollStep(p) == PollLock(p) \/ PollCheck(p) \/ PollAgain(p) \/ PollDone(p)

-----------------------------------------------------------------------------
(* globalfifo_ioctl                                                        *)

ClearLock(p) ==
    /\ op[p] = "clear" /\ Step(p, "lock", "zero") /\ Lock(p)
    /\ UNCHANGED <<devVars, waitVars, taskVars, callVars>>

\* current_len = 0; memset(mem, 0, SIZE): no wake-up of w_wait follows.
ClearZero(p) ==
    /\ Step(p, "zero", "clrout")
    /\ current_len' = 0
    /\ mem' = [i \in 0..SIZE - 1 |-> 0]
    /\ cleared' = TRUE
    /\ UNCHANGED <<mutex, waitVars, taskVars, callVars>>

ClearOut(p) ==
    /\ ReturnToUser(p, "clrout") /\ Unlock
    /\ UNCHANGED wait

ClearStep(p) == ClearLock(p) \/ ClearZero(p) \/ ClearOut(p)

-----------------------------------------------------------------------------
\* What a task does on its own account inside a call, ...
InCall(p) == TransferStep(p) \/ PollStep(p) \/ ClearStep(p)
\* ... and what its environment may or may not do.
Environment(p) ==
    Open(p) \/ Release(p) \/ Fasync(p) \/ Enter(p) \/ Kill(p) \/ PollTimeout(p)

Next == \E p \in Procs : InCall(p) \/ Environment(p)

Spec == Init /\ [][Next]_vars

\* The kernel's mutex hands over to its oldest waiter, so a task that keeps
\* asking gets the mutex: strong fairness.  A runnable task is scheduled:
\* weak fairness.  No caller is obliged to make a call.
Acquires(p) == TransferLock(p) \/ Relock(p) \/ PollLock(p) \/ ClearLock(p)

FairSpec == Spec /\ \A p \in Procs : WF_vars(InCall(p)) /\ SF_vars(Acquires(p))

-----------------------------------------------------------------------------
(* Properties                                                              *)

\* Every variable keeps to its range; the fill never leaves the buffer.
DevType ==
    /\ mem \in [0..SIZE - 1 -> Byte \cup {0}]
    /\ current_len \in 0..SIZE
    /\ cleared \in BOOLEAN
    /\ mutex \in Procs \cup {None}
    /\ wait \in [Transfers -> SUBSET Procs]
    /\ async_queue \subseteq Procs
TaskType ==
    /\ state \in [Procs -> {"RUNNING", "INTERRUPTIBLE"}]
    /\ sig \in [Procs -> BOOLEAN]
    /\ trig \in [Procs -> {"no", "yes", "expired"}]
    /\ pc \in [Procs -> PCs]
    /\ op \in [Procs -> Transfers \cup Polls \cup {"clear", "none"}]
CallType ==
    /\ filp \in [Procs -> {"closed", "block", "nonblock"}]
    /\ want \in [Procs -> 0..MaxCount]
    /\ count \in [Procs -> 0..MaxCount]
    /\ ret \in [Procs -> Int]
    /\ ubuf \in [Procs -> Seq(Byte \cup {0})]
TypeOK == DevType /\ TaskType /\ CallType

\* A task is in the critical section exactly while it owns dev->mutex, on
\* every path: the waits, the early returns, the two exits of read and write.
LockDiscipline == \A p \in Procs : (mutex = p) <=> (pc[p] \in HoldPCs)

\* A task holds TASK_INTERRUPTIBLE only from setting it until schedule()
\* has returned: it neither blocks on the mutex nor returns in that state.
NoSleepElsewhere ==
    \A p \in Procs : state[p] = "INTERRUPTIBLE" => pc[p] \in {"unlock", "sched"}

QueuedPCs == {"test", "unlock", "sched", "relock", "copy", "update", "wake",
              "sigio", "out", "out2"}

\* The wait queue entry lives on the stack of the call: it is queued before
\* the first test of the condition and gone when the call returns.
EntryLifetime ==
    \A p \in Procs :
        /\ pc[p] \in QueuedPCs => op[p] \in Transfers
        /\ pc[p] \in {"check", "pollwait", "polldone"} => op[p] \in Polls
        /\ pc[p] \in {"zero", "clrout"} => op[p] = "clear"
        /\ \A q \in Transfers :
             /\ (pc[p] \in QueuedPCs /\ q = op[p]) \/ pc[p] \in {"pollwait", "polldone"}
                  => p \in wait[q]
             /\ p \in wait[q] => \/ pc[p] \in QueuedPCs /\ q = op[p]
                                 \/ pc[p] # "idle" /\ op[p] \in Polls

\* A task that only a wake-up of queue q, a signal or its timeout can get on.
Awaits(p, q) ==
    \/ op[p] = q /\ pc[p] \in {"unlock", "sched"} /\ state[p] = "INTERRUPTIBLE"
    \/ op[p] \in Polls /\ q \in Polled(op[p]) /\ pc[p] = "pollwait" /\ trig[p] = "no" /\ ~sig[p]

Waking(q) == \E r \in Procs : pc[r] = "wake" /\ op[r] = Other(q)

\* No lost wake-up for bytes: while a reader or a poller sleeps and there
\* are bytes, the write that brought them is about to wake r_wait.
NoLostDataWakeup ==
    \A p \in Procs : Awaits(p, "read") => Blocked("read") \/ Waking("read")

\* No lost wake-up for room, except after FIFO_CLEAR: globalfifo_ioctl
\* makes room and leaves the writers asleep until some read wakes them.
NoLostRoomWakeup ==
    \A p \in Procs : Awaits(p, "write") => Blocked("write") \/ Waking("write") \/ cleared

\* A wait queue wakes the process that waits on it when its condition
\* becomes true (5.wait_queue/ReadMe.md:38), FIFO_CLEAR included.
RoomWakesWriter ==
    \A p \in Procs : Awaits(p, "write")
        => Blocked("write") \/ Waking("write") \/ \E r \in Procs : pc[r] = "clrout"

\* Readers and writers never all sleep at once, each waiting for the other
\* (unless FIFO_CLEAR put them there).
NoStandoff ==
    (\E p, q \in Procs : Awaits(p, "read") /\ Awaits(q, "write"))
        => \/ cleared
           \/ \E r \in Procs : pc[r] # "idle" /\ ~Awaits(r, "read") /\ ~Awaits(r, "write")

\* A blocking call for at least one byte never returns 0: a task woken for
\* bytes, or room, that another one took meanwhile tests again.
NoSpuriousEOF == \A p \in Procs : pc[p] = "out" /\ ret[p] = 0 => want[p] = 0

\* What NoSpuriousEOF rests on: the condition holds when the loop has been
\* left, and clipping never turns a nonzero count into zero.
EOFGuard ==
    \A p \in Procs :
        /\ pc[p] \in {"lock", "test", "unlock", "sched", "relock", "copy", "check", "pollwait"}
             => count[p] = want[p]
        /\ pc[p] = "copy" => ~Blocked(op[p])
        /\ pc[p] \in {"update", "wake"} /\ count[p] = 0 => want[p] = 0
        /\ pc[p] \in {"sigio", "out"} /\ ret[p] = 0 => want[p] = 0

\* A count clipped against current_len still fits when it is used: nobody
\* moves current_len between the clip and the update.
ClipHolds ==
    \A p \in Procs : pc[p] = "update" =>
        count[p] <= IF op[p] = "read" THEN current_len ELSE SIZE - current_len

\* The inductive invariant: the safety properties above and what they rest on.
IInv ==
    /\ TypeOK
    /\ LockDiscipline /\ EntryLifetime /\ NoSleepElsewhere
    /\ ClipHolds /\ EOFGuard
    /\ NoLostDataWakeup /\ NoLostRoomWakeup

\* The shift of a read moves between regions that do not overlap, ...
Apart == \A p \in Procs : pc[p] = "update" /\ op[p] = "read" /\ pc'[p] # "update" =>
    current_len <= 2 * count[p]
\* ... and its memcpy has done what memmove does.
LikeMemmove == \A p \in Procs : pc[p] = "update" /\ op[p] = "read" /\ pc'[p] # "update" =>
    \A i \in 0..current_len' - 1 : mem'[i] = mem[i + count[p]]

\* The device implements the bounded FIFO, whatever the interleaving: a read
\* gets the bytes that are first.  What it leaves is in order and unchanged if
\* that is no more than it takes, or if memcpy copies like memmove: then bytes
\* come out once, in order and unchanged.  A read takes effect where it shifts
\* the buffer, a write where it raises current_len.
Fifo == INSTANCE BoundedFifo WITH
    queue <- [i \in 1..current_len |-> mem[i - 1]],
    out <- [p \in Procs |-> IF pc[p] = "update" THEN <<>> ELSE ubuf[p]]
ImplementsFifo == Fifo!Spec /\ [][Apart \/ LikeMemmove => Fifo!Kept]_vars

\* A signalled call returns, however long its condition stays false.
SignalEndsCall == \A p \in Procs : sig[p] ~> pc[p] = "idle"

\* A call with O_NONBLOCK returns without any help from other tasks.
NonblockReturns ==
    \A p \in Procs :
        (filp[p] = "nonblock" /\ op[p] \in Transfers \cup {"clear"}) ~> pc[p] = "idle"

\* A sleeping reader runs again once there are bytes, or they are gone.
BytesWakeReader ==
    \A p \in Procs :
        (op[p] = "read" /\ pc[p] = "sched" /\ current_len # 0)
            ~> (pc[p] # "sched" \/ current_len = 0)
=============================================================================
