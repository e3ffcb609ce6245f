-------------------------- MODULE GlobalFifoProofs --------------------------
(***************************************************************************)
(* The safety of GlobalFifo for any number of tasks, any buffer size and   *)
(* any assignment of system calls to tasks, that it implements the bounded *)
(* queue, and that ch8 and ch9 (FifoLoad) keep the same invariant.         *)
(*                                                                         *)
(* IInv is inductive.  Each part has a lemma that it survives one step;    *)
(* the lemmas use one another's parts in the state before the step.        *)
(***************************************************************************)
EXTENDS FifoLoad, TLAPS

\* The assumptions on the constants that the proofs use.
LEMMA Assumed ==
    /\ None \notin Procs /\ SIZE \in Nat \ {0} /\ MaxCount \in Nat
    /\ Byte \subseteq Nat
  BY ProcsAssumption, SizeAssumption, ByteAssumption

\* The labels of the program counters.
LEMMA Labels ==
    /\ "idle" \in PCs /\ "lock" \in PCs /\ "sched" \in PCs /\ "relock" \in PCs
    /\ "out2" \in PCs /\ "pollwait" \in PCs /\ "polldone" \in PCs
    /\ "test" \in PCs /\ "unlock" \in PCs /\ "copy" \in PCs /\ "update" \in PCs
    /\ "wake" \in PCs /\ "sigio" \in PCs /\ "out" \in PCs /\ "check" \in PCs
    /\ "zero" \in PCs /\ "clrout" \in PCs
  BY DEF PCs, HoldPCs

\* A function on 1..n is a sequence.
LEMMA FunctionIsSeq ==
    ASSUME NEW S, NEW n \in Nat, NEW f \in [1..n -> S] PROVE f \in Seq(S)
  OBVIOUS

\* Two tasks inside the critical section are the same task.
LEMMA Excluded ==
    ASSUME LockDiscipline, NEW p \in Procs, NEW q \in Procs,
           pc[p] \in HoldPCs, pc[q] \in HoldPCs
    PROVE  p = q
  BY DEF LockDiscipline

-----------------------------------------------------------------------------
(* Types                                                                   *)

\* The waiting part of read and write keeps every variable in its range.
LEMMA WaitingType ==
    ASSUME TypeOK, NEW p \in Procs,
           \/ TransferLock(p) \/ Go(p) \/ Again(p) \/ Prepare(p) \/ UnlockToSleep(p)
           \/ Woken(p) \/ Interrupted(p) \/ Relock(p) \/ Sigio(p) \/ Out(p) \/ Out2(p)
    PROVE  TypeOK'
  <1> USE Labels, Assumed DEF TypeOK, DevType, TaskType, CallType, Step, Lock, Unlock,
        devVars, waitVars, taskVars, callVars
  <1>1. CASE TransferLock(p)
    <2>1. wait' \in [Transfers -> SUBSET Procs]
      <3>1. wait[op[p]] \cup {p} \in SUBSET Procs
        BY <1>1 DEF TransferLock
      <3>2. QED
        BY <1>1, <3>1 DEF TransferLock
    <2>2. QED
      BY <1>1, <2>1 DEF TransferLock
  <1>2. CASE Go(p) \/ Relock(p) \/ Out(p) \/ UnlockToSleep(p)
    <2>1. CASE Go(p)
      BY <2>1 DEF Go
    <2>2. CASE Relock(p)
      BY <2>2 DEF Relock
    <2>3. CASE Out(p)
      BY <2>3 DEF Out
    <2>4. CASE UnlockToSleep(p)
      BY <2>4 DEF UnlockToSleep
    <2>5. QED
      BY <1>2, <2>1, <2>2, <2>3, <2>4
  <1>3. CASE Again(p)
    BY <1>3 DEF Again, EAGAIN
  <1>4. CASE Prepare(p)
    BY <1>4 DEF Prepare
  <1>5. CASE Woken(p)
    BY <1>5 DEF Woken, ScheduleReturns
  <1>6. CASE Interrupted(p)
    BY <1>6 DEF Interrupted, ScheduleReturns, ERESTARTSYS
  <1>7. CASE Sigio(p)
    BY <1>7 DEF Sigio
  <1>8. CASE Out2(p)
    <2>1. wait' \in [Transfers -> SUBSET Procs]
      <3>1. ASSUME NEW q \in Transfers PROVE wait'[q] \in SUBSET Procs
        BY <1>8 DEF Out2
      <3>2. wait' = [q \in Transfers |-> wait'[q]]
        BY <1>8 DEF Out2
      <3>3. QED
        BY <3>1, <3>2
    <2>2. DevType'
      BY <1>8, <2>1 DEF Out2, ReturnToUser
    <2>3. TaskType'
      BY <1>8 DEF Out2, ReturnToUser
    <2>4. CallType'
      BY <1>8 DEF Out2, ReturnToUser
    <2>5. QED
      BY <2>2, <2>3, <2>4
  <1>9. QED
    BY <1>1, <1>2, <1>3, <1>4, <1>5, <1>6, <1>7, <1>8

\* So does the transfer; the fill stays in the buffer because the clipped
\* count still fits.
LEMMA CopyType ==
    ASSUME TypeOK, ClipHolds, NEW p \in Procs,
           \/ ReadCopy(p) \/ ReadFault(p) \/ ReadShift(p)
           \/ WriteCopy(p) \/ WriteFault(p) \/ WriteCommit(p) \/ TransferWake(p)
    PROVE  TypeOK'
  <1> USE Labels, Assumed DEF TypeOK, DevType, TaskType, CallType, Step,
        devVars, waitVars, taskVars, callVars
  <1>a. Lesser(count[p], current_len) \in 0..MaxCount
        /\ Lesser(count[p], current_len) <= SIZE
        /\ Lesser(count[p], SIZE - current_len) \in 0..MaxCount
    BY DEF Lesser
  <1>b. ASSUME NEW k, CopyFromUser(k) PROVE mem' \in [0..SIZE - 1 -> Byte \cup {0}]
    BY <1>b DEF CopyFromUser
  <1>c. EFAULT \in Int
    BY DEF EFAULT
  <1>1. CASE ReadCopy(p)
    <2> DEFINE n == Lesser(count[p], current_len)
    <2>1. \A m \in Nat : m <= SIZE => \A i \in 1..m : mem[i - 1] \in Byte \cup {0}
      <3>1. \A m \in Nat : m <= SIZE => \A i \in 1..m : i - 1 \in 0..SIZE - 1
        OBVIOUS
      <3>2. QED
        BY <3>1
    <2>2. n \in Nat /\ n <= SIZE
      BY <1>a
    <2>3. [i \in 1..n |-> mem[i - 1]] \in Seq(Byte \cup {0})
      <3> HIDE DEF n
      <3>1. [i \in 1..n |-> mem[i - 1]] \in [1..n -> Byte \cup {0}]
        BY <2>1, <2>2
      <3>2. QED
        BY <2>2, <3>1, FunctionIsSeq
    <2>4. ubuf' \in [Procs -> Seq(Byte \cup {0})]
      <3> HIDE DEF n
      <3>1. ubuf' = [ubuf EXCEPT ![p] = [i \in 1..n |-> mem[i - 1]]]
        BY <1>1 DEF ReadCopy, n
      <3>2. QED
        BY <2>3, <3>1
    <2>5. count' \in [Procs -> 0..MaxCount]
      BY <1>1, <1>a DEF ReadCopy
    <2>6. DevType' /\ TaskType'
      BY <1>1 DEF ReadCopy
    <2>7. CallType'
      BY <1>1, <2>4, <2>5 DEF ReadCopy
    <2>8. QED
      BY <2>6, <2>7
  <1>2. CASE ReadFault(p)
    <2>1. count' \in [Procs -> 0..MaxCount] /\ ret' \in [Procs -> Int]
      BY <1>2, <1>a, <1>c DEF ReadFault
    <2>2. QED
      BY <1>2, <2>1 DEF ReadFault
  <1>3. CASE ReadShift(p)
    <2>1. current_len' = current_len - count[p] /\ current_len' \in 0..SIZE
      BY <1>3 DEF ReadShift, ClipHolds
    <2> DEFINE left == current_len - count[p]
    <2>2. PICK from \in [0..left - 1 -> 0..current_len - 1] :
            mem' = [i \in 0..SIZE - 1 |-> IF i < left THEN mem[from[i]] ELSE mem[i]]
      BY <1>3 DEF ReadShift, CopyDown
    <2>3. mem' \in [0..SIZE - 1 -> Byte \cup {0}]
      <3>1. left \in Int /\ current_len - 1 <= SIZE - 1
        OBVIOUS
      <3> HIDE DEF left
      <3>2. ASSUME NEW i \in 0..SIZE - 1, i < left PROVE mem[from[i]] \in Byte \cup {0}
        <4>1. from[i] \in 0..SIZE - 1
          BY <3>1, <3>2
        <4>2. QED
          BY <4>1
      <3>3. QED
        BY <2>2, <3>2
    <2>4. QED
      BY <1>3, <2>1, <2>3 DEF ReadShift
  <1>4. CASE WriteCopy(p)
    <2>1. count' \in [Procs -> 0..MaxCount] /\ mem' \in [0..SIZE - 1 -> Byte \cup {0}]
      BY <1>4, <1>a, <1>b DEF WriteCopy
    <2>2. QED
      BY <1>4, <2>1 DEF WriteCopy
  <1>5. CASE WriteFault(p)
    <2>1. count' \in [Procs -> 0..MaxCount] /\ ret' \in [Procs -> Int]
      BY <1>5, <1>a, <1>c DEF WriteFault
    <2>2. mem' \in [0..SIZE - 1 -> Byte \cup {0}]
      BY <1>5, <1>b DEF WriteFault
    <2>3. QED
      BY <1>5, <2>1, <2>2 DEF WriteFault
  <1>6. CASE WriteCommit(p)
    <2>1. current_len' \in 0..SIZE
      BY <1>6 DEF WriteCommit, ClipHolds
    <2>2. QED
      BY <1>6, <2>1 DEF WriteCommit
  <1>7. CASE TransferWake(p)
    <2>1. state' \in [Procs -> {"RUNNING", "INTERRUPTIBLE"}]
      BY <1>7 DEF TransferWake, WakeUp
    <2>2. trig' \in [Procs -> {"no", "yes", "expired"}]
      BY <1>7 DEF TransferWake, WakeUp
    <2>3. ret' \in [Procs -> Int] /\ cleared' \in BOOLEAN
      BY <1>7 DEF TransferWake
    <2>4. DevType'
      BY <1>7, <2>3 DEF TransferWake
    <2>5. TaskType' /\ CallType'
      BY <1>7, <2>1, <2>2, <2>3 DEF TransferWake
    <2>6. QED
      BY <2>4, <2>5
  <1>8. QED
    BY <1>1, <1>2, <1>3, <1>4, <1>5, <1>6, <1>7

\* So do poll, FIFO_CLEAR and the environment.
LEMMA OtherType ==
    ASSUME TypeOK, NEW p \in Procs, PollStep(p) \/ ClearStep(p) \/ Environment(p)
    PROVE  TypeOK'
  <1> USE Labels, Assumed DEF TypeOK, DevType, TaskType, CallType, Step, Lock, Unlock,
        devVars, waitVars, taskVars, callVars
  <1>1. CASE PollLock(p) \/ ClearLock(p)
    <2>1. CASE PollLock(p)
      BY <2>1 DEF PollLock
    <2>2. CASE ClearLock(p)
      BY <2>2 DEF ClearLock
    <2>3. QED
      BY <1>1, <2>1, <2>2
  <1>2. CASE PollCheck(p)
    <2>1. wait' \in [Transfers -> SUBSET Procs]
      BY <1>2 DEF PollCheck
    <2>2. pc' \in [Procs -> PCs]
      BY <1>2 DEF PollCheck
    <2>3. DevType'
      BY <1>2, <2>1 DEF PollCheck
    <2>4. TaskType' /\ CallType'
      BY <1>2, <2>2 DEF PollCheck
    <2>5. QED
      BY <2>3, <2>4
  <1>3. CASE PollAgain(p)
    BY <1>3 DEF PollAgain
  <1>4. CASE PollDone(p)
    <2>1. wait' \in [Transfers -> SUBSET Procs]
      BY <1>4 DEF PollDone
    <2>2. DevType'
      BY <1>4, <2>1 DEF PollDone, ReturnToUser
    <2>3. TaskType' /\ CallType'
      BY <1>4 DEF PollDone, ReturnToUser
    <2>4. QED
      BY <2>2, <2>3
  <1>5. CASE ClearZero(p)
    BY <1>5 DEF ClearZero
  <1>6. CASE ClearOut(p)
    BY <1>6 DEF ClearOut, ReturnToUser
  <1>7. CASE Open(p)
    BY <1>7 DEF Open
  <1>8. CASE Release(p)
    BY <1>8 DEF Release
  <1>9. CASE Fasync(p)
    BY <1>9 DEF Fasync
  <1>10. CASE Enter(p)
    <2>1. Calls[p] \subseteq Transfers \cup Polls \cup {"clear", "fasync"}
      BY CallsAssumption DEF Transfers, Polls
    <2>2. op' \in [Procs -> Transfers \cup Polls \cup {"clear", "none"}]
      BY <1>10, <2>1 DEF Enter
    <2>3. want' \in [Procs -> 0..MaxCount] /\ count' \in [Procs -> 0..MaxCount]
      BY <1>10 DEF Enter
    <2>4. DevType' /\ TaskType'
      BY <1>10, <2>2 DEF Enter
    <2>5. CallType'
      BY <1>10, <2>3 DEF Enter
    <2>6. QED
      BY <2>4, <2>5
  <1>11. CASE Kill(p)
    BY <1>11 DEF Kill
  <1>12. CASE PollTimeout(p)
    BY <1>12 DEF PollTimeout
  <1>13. QED
    BY <1>1, <1>2, <1>3, <1>4, <1>5, <1>6, <1>7, <1>8, <1>9, <1>10, <1>11, <1>12
    DEF PollStep, ClearStep, Environment

LEMMA TypeStep ==
    ASSUME TypeOK, ClipHolds, [Next]_vars PROVE TypeOK'
  <1>1. CASE UNCHANGED vars
    BY <1>1 DEF vars, devVars, waitVars, taskVars, callVars,
                TypeOK, DevType, TaskType, CallType
  <1>2. QED
    BY <1>1, WaitingType, CopyType, OtherType DEF Next, InCall, TransferStep, Read, Write
-----------------------------------------------------------------------------
(* Where the tasks are                                                     *)

\* The mutex and the critical section move together.
LEMMA LockStep ==
    ASSUME TypeOK, LockDiscipline, [Next]_vars PROVE LockDiscipline'
  <1> USE Assumed DEF TypeOK, DevType, TaskType, LockDiscipline, HoldPCs,
        Step, Lock, Unlock, ReturnToUser
  <1>1. ASSUME NEW p \in Procs, TransferStep(p) PROVE LockDiscipline'
    BY <1>1 DEF TransferStep, TransferLock, Go, Again, Prepare, UnlockToSleep, Woken,
      Interrupted, Relock, Read, ReadCopy, ReadFault, ReadShift, Write, WriteCopy,
      WriteFault, WriteCommit, Sigio, TransferWake, Out, Out2
  <1>2. ASSUME NEW p \in Procs, PollStep(p) \/ ClearStep(p) PROVE LockDiscipline'
    BY <1>2 DEF PollStep, PollLock, PollCheck, PollAgain, PollDone,
      ClearStep, ClearLock, ClearZero, ClearOut
  <1>3. ASSUME NEW p \in Procs, Environment(p) PROVE LockDiscipline'
    BY <1>3 DEF Environment, Open, Release, Fasync, Enter, Kill, PollTimeout
  <1>4. CASE UNCHANGED vars
    BY <1>4 DEF vars
  <1>5. QED
    BY <1>1, <1>2, <1>3, <1>4 DEF Next, InCall

\* Entries are queued and unlinked where the program counter says.
LEMMA QueueStep ==
    ASSUME TypeOK, EntryLifetime, [Next]_vars PROVE EntryLifetime'
  <1> USE Assumed DEF TypeOK, DevType, TaskType, EntryLifetime, QueuedPCs,
        waitVars, callVars, Step, ReturnToUser
  <1>1. ASSUME NEW p \in Procs, TransferStep(p) PROVE EntryLifetime'
    <2>1. CASE TransferLock(p)
      BY <2>1 DEF TransferLock
    <2>2. CASE Out2(p)
      BY <2>2 DEF Out2, Transfers, Polls
    <2>3. CASE TransferWake(p)
      BY <2>3 DEF TransferWake
    <2>4. CASE Read(p)
      BY <2>4 DEF Read, ReadCopy, ReadFault, ReadShift
    <2>5. CASE Write(p)
      BY <2>5 DEF Write, WriteCopy, WriteFault, WriteCommit, Sigio
    <2>6. CASE \/ Go(p) \/ Again(p) \/ Prepare(p) \/ UnlockToSleep(p) \/ Woken(p)
               \/ Interrupted(p) \/ Relock(p) \/ Out(p)
      BY <2>6 DEF Go, Again, Prepare, UnlockToSleep, Woken, Interrupted, Relock, Out
    <2>7. QED
      BY <1>1, <2>1, <2>2, <2>3, <2>4, <2>5, <2>6 DEF TransferStep
  <1>2. ASSUME NEW p \in Procs, PollStep(p) PROVE EntryLifetime'
    <2>1. CASE PollCheck(p)
      BY <2>1 DEF PollCheck
    <2>2. CASE PollDone(p)
      BY <2>2 DEF PollDone, Transfers, Polls
    <2>3. CASE PollLock(p) \/ PollAgain(p)
      BY <2>3 DEF PollLock, PollAgain
    <2>4. QED
      BY <1>2, <2>1, <2>2, <2>3 DEF PollStep
  <1>3. ASSUME NEW p \in Procs, ClearStep(p) PROVE EntryLifetime'
    <2>1. CASE ClearLock(p) \/ ClearZero(p)
      BY <2>1 DEF ClearLock, ClearZero
    <2>2. CASE ClearOut(p)
      BY <2>2 DEF ClearOut, Transfers, Polls
    <2>3. QED
      BY <1>3, <2>1, <2>2 DEF ClearStep
  <1>4. ASSUME NEW p \in Procs, Environment(p) PROVE EntryLifetime'
    BY <1>4 DEF Environment, Open, Release, Fasync, Enter, Kill, PollTimeout
  <1>5. CASE UNCHANGED vars
    BY <1>5 DEF vars
  <1>6. QED
    BY <1>1, <1>2, <1>3, <1>4, <1>5 DEF Next, InCall

\* Nobody but a task about to schedule is in TASK_INTERRUPTIBLE.
LEMMA SleepStep ==
    ASSUME TypeOK, NoSleepElsewhere, [Next]_vars PROVE NoSleepElsewhere'
  <1> USE Assumed DEF TypeOK, DevType, TaskType, NoSleepElsewhere, taskVars,
        Step, ScheduleReturns, WakeUp, ReturnToUser
  <1>1. ASSUME NEW p \in Procs, TransferStep(p) PROVE NoSleepElsewhere'
    BY <1>1 DEF TransferStep, TransferLock, Go, Again, Prepare, UnlockToSleep, Woken,
      Interrupted, Relock, Read, ReadCopy, ReadFault, ReadShift, Write, WriteCopy,
      WriteFault, WriteCommit, Sigio, TransferWake, Out, Out2
  <1>2. ASSUME NEW p \in Procs, PollStep(p) \/ ClearStep(p) PROVE NoSleepElsewhere'
    BY <1>2 DEF PollStep, PollLock, PollCheck, PollAgain, PollDone,
      ClearStep, ClearLock, ClearZero, ClearOut
  <1>3. ASSUME NEW p \in Procs, Environment(p) PROVE NoSleepElsewhere'
    BY <1>3 DEF Environment, Open, Release, Fasync, Enter, Kill, PollTimeout
  <1>4. CASE UNCHANGED vars
    BY <1>4 DEF vars
  <1>5. QED
    BY <1>1, <1>2, <1>3, <1>4 DEF Next, InCall

-----------------------------------------------------------------------------
(* What a task relies on while it holds the mutex                          *)

\* A clipped count still fits: the mutex keeps current_len still.
LEMMA ClipStep ==
    ASSUME TypeOK, LockDiscipline, EntryLifetime, ClipHolds, [Next]_vars
    PROVE  ClipHolds'
  <1> USE Assumed DEF TypeOK, DevType, TaskType, CallType, ClipHolds, EntryLifetime,
        QueuedPCs, devVars, callVars, Step, ReturnToUser
  <1>1. ASSUME NEW p \in Procs, TransferStep(p) PROVE ClipHolds'
    <2>1. CASE ReadCopy(p)
      BY <2>1 DEF ReadCopy, Lesser
    <2>2. CASE WriteCopy(p)
      BY <2>2 DEF WriteCopy, Lesser
    <2>3. CASE ReadShift(p) \/ WriteCommit(p)
      <3>1. \A q \in Procs : pc[q] = "update" => q = p
        BY <2>3, Excluded DEF ReadShift, WriteCommit, HoldPCs
      <3>2. pc' = [pc EXCEPT ![p] = "wake"]
        BY <2>3 DEF ReadShift, WriteCommit
      <3>3. QED
        BY <3>1, <3>2
    <2>4. CASE ReadFault(p) \/ WriteFault(p)
      <3>1. /\ pc' = [pc EXCEPT ![p] = "out"] /\ UNCHANGED <<current_len, op>>
            /\ \A q \in Procs : q # p => count'[q] = count[q]
        BY <2>4 DEF ReadFault, WriteFault
      <3>2. QED
        BY <3>1
    <2>5. CASE Out2(p)
      BY <2>5 DEF Out2
    <2>6. CASE TransferWake(p)
      <3>1. /\ pc[p] = "wake" /\ pc' \in {[pc EXCEPT ![p] = "out"], [pc EXCEPT ![p] = "sigio"]}
            /\ UNCHANGED <<current_len, count, op>>
        BY <2>6 DEF TransferWake
      <3>2. QED
        BY <3>1
    <2>7. CASE \/ TransferLock(p) \/ Go(p) \/ Again(p) \/ Prepare(p) \/ UnlockToSleep(p)
               \/ Woken(p) \/ Interrupted(p) \/ Relock(p) \/ Sigio(p) \/ Out(p)
      BY <2>7 DEF TransferLock, Go, Again, Prepare, UnlockToSleep, Woken, Interrupted,
        Relock, Sigio, Out
    <2>8. QED
      BY <1>1, <2>1, <2>2, <2>3, <2>4, <2>5, <2>6, <2>7 DEF TransferStep, Read, Write
  <1>2. ASSUME NEW p \in Procs, PollStep(p) PROVE ClipHolds'
    <2>1. CASE PollLock(p)
      BY <2>1 DEF PollLock
    <2>2. CASE PollCheck(p)
      BY <2>2 DEF PollCheck
    <2>3. CASE PollAgain(p)
      BY <2>3 DEF PollAgain
    <2>4. CASE PollDone(p)
      BY <2>4 DEF PollDone
    <2>5. QED
      BY <1>2, <2>1, <2>2, <2>3, <2>4 DEF PollStep
  <1>3. ASSUME NEW p \in Procs, ClearStep(p) PROVE ClipHolds'
    <2>1. CASE ClearZero(p)
      <3>1. \A q \in Procs : pc[q] = "update" => q = p
        BY <2>1, Excluded DEF ClearZero, HoldPCs
      <3>2. QED
        BY <2>1, <3>1 DEF ClearZero
    <2>2. CASE ClearLock(p)
      BY <2>2 DEF ClearLock
    <2>3. CASE ClearOut(p)
      BY <2>3 DEF ClearOut
    <2>4. QED
      BY <1>3, <2>1, <2>2, <2>3 DEF ClearStep
  <1>4. ASSUME NEW p \in Procs, Environment(p) PROVE ClipHolds'
    <2>1. CASE Open(p) \/ Release(p) \/ Fasync(p)
      BY <2>1 DEF Open, Release, Fasync
    <2>2. CASE Enter(p)
      BY <2>2 DEF Enter
    <2>3. CASE Kill(p) \/ PollTimeout(p)
      BY <2>3 DEF Kill, PollTimeout
    <2>4. QED
      BY <1>4, <2>1, <2>2, <2>3 DEF Environment
  <1>5. CASE UNCHANGED vars
    BY <1>5 DEF vars
  <1>6. QED
    BY <1>1, <1>2, <1>3, <1>4, <1>5 DEF Next, InCall

\* A transfer of no bytes was asked for.
LEMMA EOFStep ==
    ASSUME TypeOK, LockDiscipline, EntryLifetime, EOFGuard, [Next]_vars
    PROVE  EOFGuard'
  <1> USE Assumed DEF TypeOK, DevType, TaskType, CallType, EOFGuard,
        devVars, callVars, Step, ReturnToUser, Blocked, EAGAIN, EFAULT, ERESTARTSYS
  <1>1. ASSUME NEW p \in Procs, TransferStep(p) PROVE EOFGuard'
    <2>1. CASE ReadCopy(p)
      BY <2>1 DEF ReadCopy, Lesser
    <2>2. CASE WriteCopy(p)
      BY <2>2 DEF WriteCopy, Lesser
    <2>3. CASE ReadShift(p)
      <3>1. \A q \in Procs : pc[q] = "copy" => q = p
        BY <2>3, Excluded DEF ReadShift, HoldPCs
      <3>2. QED
        BY <2>3, <3>1 DEF ReadShift
    <2>4. CASE WriteCommit(p)
      <3>1. \A q \in Procs : pc[q] = "copy" => q = p
        BY <2>4, Excluded DEF WriteCommit, HoldPCs
      <3>2. QED
        BY <2>4, <3>1 DEF WriteCommit
    <2>5. CASE ReadFault(p) \/ WriteFault(p)
      <3>1. /\ pc' = [pc EXCEPT ![p] = "out"] /\ ret' = [ret EXCEPT ![p] = EFAULT]
            /\ UNCHANGED <<current_len, op, want>>
            /\ \A q \in Procs : q # p => count'[q] = count[q]
        BY <2>5 DEF ReadFault, WriteFault
      <3>2. QED
        BY <3>1
    <2>6. CASE Out2(p)
      BY <2>6 DEF Out2
    <2>7. CASE TransferWake(p)
      <3>1. /\ pc[p] = "wake" /\ ret' = [ret EXCEPT ![p] = count[p]]
            /\ pc' \in {[pc EXCEPT ![p] = "out"], [pc EXCEPT ![p] = "sigio"]}
            /\ UNCHANGED <<current_len, op, want, count>>
        BY <2>7 DEF TransferWake
      <3>2. QED
        BY <3>1
    <2>8. CASE Go(p) \/ Again(p) \/ Interrupted(p)
      <3>1. CASE Go(p)
        BY <3>1 DEF Go
      <3>2. CASE Again(p)
        BY <3>2 DEF Again
      <3>3. CASE Interrupted(p)
        BY <3>3 DEF Interrupted
      <3>4. QED
        BY <2>8, <3>1, <3>2, <3>3
    <2>9. CASE \/ TransferLock(p) \/ Prepare(p) \/ UnlockToSleep(p) \/ Woken(p)
               \/ Relock(p) \/ Sigio(p) \/ Out(p)
      <3>1. CASE TransferLock(p) \/ Prepare(p) \/ UnlockToSleep(p)
        BY <3>1 DEF TransferLock, Prepare, UnlockToSleep
      <3>2. CASE Woken(p) \/ Relock(p) \/ Sigio(p) \/ Out(p)
        BY <3>2 DEF Woken, Relock, Sigio, Out
      <3>3. QED
        BY <2>9, <3>1, <3>2
    <2>10. QED
      BY <1>1, <2>1, <2>2, <2>3, <2>4, <2>5, <2>6, <2>7, <2>8, <2>9
      DEF TransferStep, Read, Write
  <1>2. ASSUME NEW p \in Procs, PollStep(p) PROVE EOFGuard'
    <2>1. CASE PollLock(p)
      BY <2>1 DEF PollLock
    <2>2. CASE PollCheck(p)
      BY <2>2 DEF PollCheck
    <2>3. CASE PollAgain(p)
      BY <2>3 DEF PollAgain
    <2>4. CASE PollDone(p)
      BY <2>4 DEF PollDone
    <2>5. QED
      BY <1>2, <2>1, <2>2, <2>3, <2>4 DEF PollStep
  <1>3. ASSUME NEW p \in Procs, ClearStep(p) PROVE EOFGuard'
    <2>1. CASE ClearZero(p)
      <3>1. \A q \in Procs : pc[q] = "copy" => q = p
        BY <2>1, Excluded DEF ClearZero, HoldPCs
      <3>2. QED
        BY <2>1, <3>1 DEF ClearZero
    <2>2. QED
      BY <1>3, <2>1 DEF ClearStep, ClearLock, ClearOut
  <1>4. ASSUME NEW p \in Procs, Environment(p) PROVE EOFGuard'
    <2>1. CASE Enter(p)
      BY <2>1 DEF Enter
    <2>2. QED
      BY <1>4, <2>1 DEF Environment, Open, Release, Fasync, Kill, PollTimeout
  <1>5. CASE UNCHANGED vars
    BY <1>5 DEF vars
  <1>6. QED
    BY <1>1, <1>2, <1>3, <1>4, <1>5 DEF Next, InCall

-----------------------------------------------------------------------------
(* Wake-ups                                                                *)

\* A step that leaves the fill alone, or empties the buffer, puts nobody to
\* sleep and is not the wake-up itself loses no wake-up for bytes, ...
LEMMA QuietData ==
    ASSUME NoLostDataWakeup, current_len' = current_len \/ current_len' = 0,
           \A q \in Procs : Awaits(q, "read")' => Awaits(q, "read"),
           \A q \in Procs : pc[q] = "wake" /\ op[q] = "write"
                               => pc'[q] = "wake" /\ op'[q] = "write"
    PROVE  NoLostDataWakeup'
  BY DEF NoLostDataWakeup, Waking, Blocked, Other

\* ... and none for room if the fill and cleared stay.
LEMMA QuietRoom ==
    ASSUME NoLostRoomWakeup, current_len' = current_len, cleared' = cleared,
           \A q \in Procs : Awaits(q, "write")' => Awaits(q, "write"),
           \A q \in Procs : pc[q] = "wake" /\ op[q] = "read"
                               => pc'[q] = "wake" /\ op'[q] = "read"
    PROVE  NoLostRoomWakeup'
  BY DEF NoLostRoomWakeup, Waking, Blocked, Other

\* Whoever waits for queue q has its entry on q.
LEMMA SleeperQueued ==
    ASSUME EntryLifetime, NEW p \in Procs, NEW q \in Transfers, Awaits(p, q)
    PROVE  p \in wait[q]
  BY DEF EntryLifetime, Awaits, QueuedPCs

\* After a wake-up of q nobody waits for q.
LEMMA AllWoken ==
    ASSUME TypeOK, EntryLifetime, NEW q \in Transfers, WakeUp(q),
           UNCHANGED <<sig, op>>,
           \A p \in Procs : pc'[p] \in {"unlock", "sched", "pollwait"} => pc'[p] = pc[p]
    PROVE  \A p \in Procs : ~Awaits(p, q)'
  <1> SUFFICES ASSUME NEW p \in Procs, Awaits(p, q)' PROVE FALSE
    OBVIOUS
  <1> USE DEF TypeOK, DevType, TaskType, WakeUp
  <1>1. Awaits(p, q)
    BY DEF Awaits
  <1>2. p \in wait[q]
    BY <1>1, SleeperQueued
  <1>3. QED
    BY <1>2 DEF Awaits

LEMMA DataWakeStep ==
    ASSUME TypeOK, EntryLifetime, ClipHolds, NoLostDataWakeup, [Next]_vars
    PROVE  NoLostDataWakeup'
  <1> USE Assumed DEF TypeOK, DevType, TaskType, CallType, devVars, taskVars, callVars,
        Step, ReturnToUser, ScheduleReturns, Awaits
  <1>1. ASSUME NEW p \in Procs, TransferStep(p) PROVE NoLostDataWakeup'
    <2>1. CASE ReadShift(p)
      <3>1. current_len # 0 \/ current_len' = 0
        BY <2>1 DEF ReadShift, ClipHolds
      <3>2. QED
        BY <2>1, <3>1 DEF ReadShift, NoLostDataWakeup, Blocked, Waking, Other
    <2>2. CASE WriteCommit(p)
      BY <2>2 DEF WriteCommit, NoLostDataWakeup, Waking, Other
    <2>3. CASE Prepare(p)
      BY <2>3 DEF Prepare, NoLostDataWakeup, Blocked, Waking
    <2>4. CASE TransferWake(p) /\ op[p] = "write"
      <3>1. \A q \in Procs : ~Awaits(q, "read")'
        <4>1. WakeUp("read") /\ UNCHANGED <<sig, op>>
          BY <2>4 DEF TransferWake, Other
        <4>2. \A q \in Procs : pc'[q] \in {"unlock", "sched", "pollwait"} => pc'[q] = pc[q]
          BY <2>4 DEF TransferWake
        <4>3. QED
          BY <4>1, <4>2, AllWoken DEF Transfers
      <3>2. QED
        BY <3>1 DEF NoLostDataWakeup
    <2>5. CASE TransferWake(p) /\ op[p] # "write"
      BY <2>5, QuietData DEF TransferWake, WakeUp
    <2>6. CASE Sigio(p)
      BY <2>6, QuietData DEF Sigio
    <2>7. CASE \/ TransferLock(p) \/ Go(p) \/ Again(p) \/ UnlockToSleep(p) \/ Woken(p)
               \/ Interrupted(p) \/ Relock(p)
      <3>1. CASE TransferLock(p) \/ Go(p) \/ Again(p) \/ UnlockToSleep(p)
        BY <3>1, QuietData DEF TransferLock, Go, Again, UnlockToSleep
      <3>2. CASE Woken(p) \/ Interrupted(p) \/ Relock(p)
        BY <3>2, QuietData DEF Woken, Interrupted, Relock
      <3>3. QED
        BY <2>7, <3>1, <3>2
    <2>8. CASE ReadCopy(p) \/ ReadFault(p) \/ WriteCopy(p) \/ WriteFault(p) \/ Out(p)
      BY <2>8, QuietData DEF ReadCopy, ReadFault, WriteCopy, WriteFault, Out
    <2>11. CASE Out2(p)
      BY <2>11, QuietData DEF Out2
    <2>9. QED
      BY <1>1, <2>1, <2>2, <2>3, <2>4, <2>5, <2>6, <2>7, <2>8, <2>11
      DEF TransferStep, Read, Write
  <1>2. ASSUME NEW p \in Procs, PollStep(p) PROVE NoLostDataWakeup'
    <2>1. CASE PollCheck(p)
      <3>1. ASSUME NEW q \in Procs, Awaits(q, "read")', ~Blocked("read")
            PROVE  Awaits(q, "read")
        BY <2>1, <3>1 DEF PollCheck, Unready
      <3>2. UNCHANGED <<current_len, op>>
            /\ \A q \in Procs : pc[q] = "wake" => pc'[q] = "wake"
        BY <2>1 DEF PollCheck
      <3>3. QED
        BY <3>1, <3>2 DEF NoLostDataWakeup, Blocked, Waking
    <2>2. CASE PollLock(p) \/ PollAgain(p) \/ PollDone(p)
      BY <2>2, QuietData DEF PollLock, PollAgain, PollDone
    <2>3. QED
      BY <1>2, <2>1, <2>2 DEF PollStep
  <1>3. ASSUME NEW p \in Procs, ClearStep(p) PROVE NoLostDataWakeup'
    <2>1. CASE ClearLock(p) \/ ClearZero(p)
      BY <2>1, QuietData DEF ClearLock, ClearZero
    <2>2. CASE ClearOut(p)
      BY <2>2, QuietData DEF ClearOut
    <2>3. QED
      BY <1>3, <2>1, <2>2 DEF ClearStep
  <1>4. ASSUME NEW p \in Procs, Environment(p) PROVE NoLostDataWakeup'
    <2>1. CASE Enter(p)
      BY <2>1, QuietData DEF Enter
    <2>2. CASE Kill(p)
      BY <2>2, QuietData DEF Kill
    <2>3. CASE PollTimeout(p)
      BY <2>3, QuietData DEF PollTimeout
    <2>4. CASE Open(p) \/ Release(p) \/ Fasync(p)
      BY <2>4, QuietData DEF Open, Release, Fasync
    <2>5. QED
      BY <1>4, <2>1, <2>2, <2>3, <2>4 DEF Environment
  <1>5. CASE UNCHANGED vars
    BY <1>5 DEF vars, NoLostDataWakeup, Blocked, Waking
  <1>6. QED
    BY <1>1, <1>2, <1>3, <1>4, <1>5 DEF Next, InCall

\* The same for room; here FIFO_CLEAR may leave sleepers behind.
LEMMA RoomWakeStep ==
    ASSUME TypeOK, EntryLifetime, ClipHolds, NoLostRoomWakeup, [Next]_vars
    PROVE  NoLostRoomWakeup'
  <1> USE Assumed DEF TypeOK, DevType, TaskType, CallType, devVars, taskVars, callVars,
        Step, ReturnToUser, ScheduleReturns, Awaits
  <1>1. ASSUME NEW p \in Procs, TransferStep(p) PROVE NoLostRoomWakeup'
    <2>1. CASE ReadShift(p)
      BY <2>1 DEF ReadShift, NoLostRoomWakeup, Waking, Other
    <2>2. CASE WriteCommit(p)
      <3>1. current_len # SIZE \/ current_len' = SIZE
        BY <2>2 DEF WriteCommit, ClipHolds
      <3>2. QED
        BY <2>2, <3>1 DEF WriteCommit, NoLostRoomWakeup, Blocked, Waking, Other
    <2>3. CASE Prepare(p)
      BY <2>3 DEF Prepare, NoLostRoomWakeup, Blocked, Waking
    <2>4. CASE TransferWake(p) /\ op[p] = "read"
      <3>1. \A q \in Procs : ~Awaits(q, "write")'
        <4>1. WakeUp("write") /\ UNCHANGED <<sig, op>>
          BY <2>4 DEF TransferWake, Other
        <4>2. \A q \in Procs : pc'[q] \in {"unlock", "sched", "pollwait"} => pc'[q] = pc[q]
          BY <2>4 DEF TransferWake
        <4>3. QED
          BY <4>1, <4>2, AllWoken DEF Transfers
      <3>2. QED
        BY <3>1 DEF NoLostRoomWakeup
    <2>5. CASE TransferWake(p) /\ op[p] = "write"
      BY <2>5, QuietRoom DEF TransferWake, WakeUp
    <2>6. CASE Sigio(p)
      BY <2>6, QuietRoom DEF Sigio
    <2>7. CASE \/ TransferLock(p) \/ Go(p) \/ Again(p) \/ UnlockToSleep(p) \/ Woken(p)
               \/ Interrupted(p) \/ Relock(p)
      <3>1. CASE TransferLock(p) \/ Go(p) \/ Again(p) \/ UnlockToSleep(p)
        BY <3>1, QuietRoom DEF TransferLock, Go, Again, UnlockToSleep
      <3>2. CASE Woken(p) \/ Interrupted(p) \/ Relock(p)
        BY <3>2, QuietRoom DEF Woken, Interrupted, Relock
      <3>3. QED
        BY <2>7, <3>1, <3>2
    <2>8. CASE ReadCopy(p) \/ ReadFault(p) \/ WriteCopy(p) \/ WriteFault(p) \/ Out(p)
      <3>1. CASE ReadCopy(p) \/ ReadFault(p)
        BY <3>1, QuietRoom DEF ReadCopy, ReadFault
      <3>2. CASE WriteCopy(p) \/ WriteFault(p)
        BY <3>2, QuietRoom DEF WriteCopy, WriteFault
      <3>3. CASE Out(p)
        BY <3>3, QuietRoom DEF Out
      <3>4. QED
        BY <2>8, <3>1, <3>2, <3>3
    <2>11. CASE Out2(p)
      BY <2>11, QuietRoom DEF Out2
    <2>9. TransferWake(p) => op[p] \in {"read", "write"}
      BY DEF TransferWake, Transfers
    <2>10. QED
      BY <1>1, <2>1, <2>2, <2>3, <2>4, <2>5, <2>6, <2>7, <2>8, <2>9, <2>11
      DEF TransferStep, Read, Write
  <1>2. ASSUME NEW p \in Procs, PollStep(p) PROVE NoLostRoomWakeup'
    <2>1. CASE PollCheck(p)
      <3>1. ASSUME NEW q \in Procs, Awaits(q, "write")', ~Blocked("write")
            PROVE  Awaits(q, "write")
        BY <2>1, <3>1 DEF PollCheck, Unready
      <3>2. UNCHANGED <<current_len, cleared, op>>
            /\ \A q \in Procs : pc[q] = "wake" => pc'[q] = "wake"
        BY <2>1 DEF PollCheck
      <3>3. QED
        BY <3>1, <3>2 DEF NoLostRoomWakeup, Blocked, Waking
    <2>2. CASE PollLock(p)
      BY <2>2, QuietRoom DEF PollLock
    <2>3. CASE PollAgain(p)
      BY <2>3, QuietRoom DEF PollAgain
    <2>4. CASE PollDone(p)
      BY <2>4, QuietRoom DEF PollDone
    <2>5. QED
      BY <1>2, <2>1, <2>2, <2>3, <2>4 DEF PollStep
  <1>3. ASSUME NEW p \in Procs, ClearStep(p) PROVE NoLostRoomWakeup'
    <2>1. CASE ClearZero(p)
      BY <2>1 DEF ClearZero, NoLostRoomWakeup
    <2>2. CASE ClearLock(p)
      BY <2>2, QuietRoom DEF ClearLock
    <2>3. CASE ClearOut(p)
      BY <2>3, QuietRoom DEF ClearOut
    <2>4. QED
      BY <1>3, <2>1, <2>2, <2>3 DEF ClearStep
  <1>4. ASSUME NEW p \in Procs, Environment(p) PROVE NoLostRoomWakeup'
    <2>1. CASE Enter(p)
      BY <2>1, QuietRoom DEF Enter
    <2>2. CASE Kill(p)
      BY <2>2, QuietRoom DEF Kill
    <2>3. CASE PollTimeout(p)
      BY <2>3, QuietRoom DEF PollTimeout
    <2>4. CASE Open(p) \/ Release(p) \/ Fasync(p)
      BY <2>4, QuietRoom DEF Open, Release, Fasync
    <2>5. QED
      BY <1>4, <2>1, <2>2, <2>3, <2>4 DEF Environment
  <1>5. CASE UNCHANGED vars
    BY <1>5 DEF vars, NoLostRoomWakeup, Blocked, Waking
  <1>6. QED
    BY <1>1, <1>2, <1>3, <1>4, <1>5 DEF Next, InCall

-----------------------------------------------------------------------------
(* The invariant and what follows from it                                  *)

LEMMA InitIInv == Init => IInv
  <1> SUFFICES ASSUME Init PROVE IInv
    OBVIOUS
  <1> USE Labels, Assumed DEF Init
  <1>1. TypeOK
    <2>1. DevType
      <3>1. mem \in [0..SIZE - 1 -> Byte \cup {0}]
        OBVIOUS
      <3>2. current_len \in 0..SIZE
        OBVIOUS
      <3>3. wait \in [Transfers -> SUBSET Procs]
        OBVIOUS
      <3>4. QED
        BY <3>1, <3>2, <3>3 DEF DevType
    <2>2. TaskType
      BY DEF TaskType
    <2>3. <<>> \in Seq(Byte \cup {0})
      OBVIOUS
    <2>4. CallType
      BY <2>3 DEF CallType
    <2>5. QED
      BY <2>1, <2>2, <2>4 DEF TypeOK
  <1>2. LockDiscipline /\ NoSleepElsewhere
    BY DEF LockDiscipline, HoldPCs, NoSleepElsewhere
  <1>3. EntryLifetime
    BY DEF EntryLifetime, QueuedPCs
  <1>4. ClipHolds /\ EOFGuard
    BY DEF ClipHolds, EOFGuard
  <1>5. NoLostDataWakeup /\ NoLostRoomWakeup
    BY DEF NoLostDataWakeup, NoLostRoomWakeup, Awaits
  <1>6. QED
    BY <1>1, <1>2, <1>3, <1>4, <1>5 DEF IInv

\* The inductive invariant holds in every reachable state, for any number of
\* tasks, any buffer size and any mix of calls.
THEOREM Invariance == Spec => []IInv
  <1>1. IInv /\ [Next]_vars => IInv'
    BY TypeStep, LockStep, QueueStep, SleepStep, ClipStep, EOFStep, DataWakeStep,
       RoomWakeStep DEF IInv
  <1>2. QED
    BY InitIInv, <1>1, PTL DEF Spec

\* Every variable stays in its range; current_len never leaves 0..SIZE.
THEOREM TypeCorrect == Spec => []TypeOK
  <1>1. IInv => TypeOK
    BY DEF IInv
  <1>2. QED
    BY <1>1, Invariance, PTL

\* dev->mutex is owned exactly by the task in the critical section, so no two
\* tasks are ever in it.
THEOREM MutualExclusion == Spec => []LockDiscipline
  <1>1. IInv => LockDiscipline
    BY DEF IInv
  <1>2. QED
    BY <1>1, Invariance, PTL

\* A wait queue entry is queued exactly while its call may sleep or be woken.
THEOREM QueueDiscipline == Spec => []EntryLifetime
  <1>1. IInv => EntryLifetime
    BY DEF IInv
  <1>2. QED
    BY <1>1, Invariance, PTL

\* A task is in TASK_INTERRUPTIBLE only around its call of schedule().
THEOREM SleepDiscipline == Spec => []NoSleepElsewhere
  <1>1. IInv => NoSleepElsewhere
    BY DEF IInv
  <1>2. QED
    BY <1>1, Invariance, PTL

\* No reader and no poller sleeps on while there are bytes for it.
THEOREM DataWakeups == Spec => []NoLostDataWakeup
  <1>1. IInv => NoLostDataWakeup
    BY DEF IInv
  <1>2. QED
    BY <1>1, Invariance, PTL

\* No writer and no poller sleeps on while there is room for it, unless the
\* room was made by FIFO_CLEAR.
THEOREM RoomWakeups == Spec => []NoLostRoomWakeup
  <1>1. IInv => NoLostRoomWakeup
    BY DEF IInv
  <1>2. QED
    BY <1>1, Invariance, PTL

\* Readers and writers never all wait for each other: an empty buffer is not
\* a full one, so one side has its wake-up under way.
THEOREM NeverStandoff == Spec => []NoStandoff
  <1>1. IInv => NoStandoff
    <2> SUFFICES ASSUME IInv, NEW p \in Procs, NEW q \in Procs,
                        Awaits(p, "read"), Awaits(q, "write"), ~cleared
                 PROVE  \E r \in Procs : /\ pc[r] # "idle"
                                         /\ ~Awaits(r, "read") /\ ~Awaits(r, "write")
      BY DEF NoStandoff
    <2>1. ~(Blocked("read") /\ Blocked("write"))
      BY Assumed DEF Blocked
    <2>2. Waking("read") \/ Waking("write")
      BY <2>1 DEF IInv, NoLostDataWakeup, NoLostRoomWakeup
    <2>3. PICK r \in Procs : pc[r] = "wake"
      BY <2>2 DEF Waking
    <2>4. QED
      BY <2>3 DEF Awaits
  <1>2. QED
    BY <1>1, Invariance, PTL

\* A blocking call for at least one byte never returns 0.
THEOREM NeverSpuriousEOF == Spec => []NoSpuriousEOF
  <1>1. IInv => NoSpuriousEOF
    BY DEF IInv, EOFGuard, NoSpuriousEOF
  <1>2. QED
    BY <1>1, Invariance, PTL

-----------------------------------------------------------------------------
(* GlobalFifo implements BoundedFifo: a read gets the bytes that are       *)
(* first.  copy_to_user and the shift of the buffer, copy_from_user and    *)
(* the new current_len, are two steps each.  What the first of the two has *)
(* done has to hold still until the second: that is the invariant added    *)
(* here.                                                                   *)

\* Between its two steps a read has the bytes that it is about to take out,
\* a write has put bytes behind the valid ones; nobody else has bytes of a
\* read that the device still holds.
DataOf(p) ==
    /\ ubuf[p] # <<>> => op[p] = "read" /\ pc[p] \in {"update", "wake", "out", "out2"}
    /\ pc[p] = "update" /\ op[p] = "read" => ubuf[p] = [i \in 1..count[p] |-> mem[i - 1]]
    /\ pc[p] = "update" /\ op[p] = "write"
         => \A i \in 0..SIZE - 1 : current_len <= i /\ i < current_len + count[p] => mem[i] \in Byte
DataInv == \A p \in Procs : DataOf(p)

\* The abstract variables.
Queue == [i \in 1..current_len |-> mem[i - 1]]
Given == [p \in Procs |-> IF pc[p] = "update" THEN <<>> ELSE ubuf[p]]

-----------------------------------------------------------------------------
(* The first n bytes of a buffer                                           *)

Bytes(m, n) == [i \in 1..n |-> m[i - 1]]

\* No bytes are the empty sequence.
LEMMA NoBytes == ASSUME NEW m PROVE Bytes(m, 0) = <<>>
  BY DEF Bytes

\* They are a sequence of that length.
LEMMA BytesSeq ==
    ASSUME NEW m, NEW n \in Nat
    PROVE  Bytes(m, n) \in Seq({m[i] : i \in 0..n - 1}) /\ Len(Bytes(m, n)) = n
  BY DEF Bytes

\* What a read hands over is a prefix of the queue, ...
LEMMA PrefixOfBytes ==
    ASSUME NEW m, NEW l \in Nat, NEW n \in 0..l
    PROVE  SubSeq(Bytes(m, l), 1, n) = Bytes(m, n)
  BY BytesSeq DEF Bytes

\* ... and more valid bytes are the old ones followed by the new ones.
LEMMA MoreBytes ==
    ASSUME NEW m, NEW l \in Nat, NEW n \in Nat
    PROVE  Bytes(m, l + n) = Bytes(m, l) \o [i \in 1..n |-> m[l + i - 1]]
  <1>1. Bytes(m, l) \in Seq({m[i] : i \in 0..l + n - 1})
    BY BytesSeq DEF Bytes
  <1>2. QED
    BY <1>1, BytesSeq DEF Bytes

-----------------------------------------------------------------------------
(* The added invariant                                                     *)

\* What one task does leaves alone what another one has copied.
LEMMA OthersRest ==
    ASSUME NEW q \in Procs, DataOf(q), pc'[q] = pc[q], op'[q] = op[q], count'[q] = count[q],
           ubuf'[q] = ubuf[q], pc[q] # "update" \/ UNCHANGED <<mem, current_len>>
    PROVE  DataOf(q)'
  BY DEF DataOf

\* What is half-way between the two steps of a transfer stays as it is.
LEMMA DataStep ==
    ASSUME TypeOK, LockDiscipline, EntryLifetime, DataInv, [Next]_vars PROVE DataInv'
  <1> USE Assumed, Labels DEF TypeOK, DevType, TaskType, CallType, Step, devVars, callVars
  <1>1. ASSUME NEW p \in Procs, NEW q \in Procs,
               \/ ReadShift(p) \/ WriteCopy(p) \/ WriteFault(p) \/ WriteCommit(p) \/ ClearZero(p),
               q # p
        PROVE  pc[q] # "update"
    BY <1>1, Excluded DEF ReadShift, WriteCopy, WriteFault, WriteCommit, ClearZero, HoldPCs
  <1>2. ASSUME NEW p \in Procs, ReadCopy(p) \/ ReadFault(p) PROVE DataInv'
    <2>1. ASSUME NEW q \in Procs, q # p PROVE DataOf(q)'
      BY <1>2, <2>1, OthersRest DEF ReadCopy, ReadFault, DataInv
    <2>2. CASE ReadCopy(p)
      <3>1. pc'[p] = "update" /\ op'[p] = "read" /\ ubuf'[p] = [i \in 1..count'[p] |-> mem'[i - 1]]
        BY <2>2 DEF ReadCopy
      <3>2. DataOf(p)'
        BY <3>1 DEF DataOf
      <3>3. QED
        BY <2>1, <3>2 DEF DataInv
    <2>3. CASE ReadFault(p)
      <3>1. pc'[p] = "out" /\ op'[p] = "read"
        BY <2>3 DEF ReadFault
      <3>2. DataOf(p)'
        BY <3>1 DEF DataOf
      <3>3. QED
        BY <2>1, <3>2 DEF DataInv
    <2>4. QED
      BY <1>2, <2>2, <2>3
  <1>3. ASSUME NEW p \in Procs, ReadShift(p) \/ WriteCommit(p) \/ WriteFault(p) PROVE DataInv'
    <2>1. ASSUME NEW q \in Procs, q # p PROVE DataOf(q)'
      BY <1>1, <1>3, <2>1, OthersRest DEF ReadShift, WriteCommit, WriteFault, DataInv
    <2>2. /\ pc'[p] \in {"wake", "out"} /\ op'[p] = op[p] /\ ubuf'[p] = ubuf[p]
          /\ \/ pc[p] = "update"
             \/ pc[p] = "copy" /\ op[p] = "write"
      <3>1. CASE ReadShift(p) \/ WriteCommit(p)
        BY <3>1 DEF ReadShift, WriteCommit
      <3>2. CASE WriteFault(p)
        BY <3>2 DEF WriteFault
      <3>3. QED
        BY <1>3, <3>1, <3>2
    <2>3. DataOf(p)'
      BY <2>2 DEF DataInv, DataOf
    <2>4. QED
      BY <2>1, <2>3 DEF DataInv
  <1>4. ASSUME NEW p \in Procs, WriteCopy(p) PROVE DataInv'
    <2>1. ASSUME NEW q \in Procs, q # p PROVE DataOf(q)'
      BY <1>1, <1>4, <2>1, OthersRest DEF WriteCopy, DataInv
    <2>2. /\ pc[p] = "copy" /\ pc'[p] = "update" /\ op'[p] = "write" /\ ubuf'[p] = ubuf[p]
          /\ current_len' = current_len
      BY <1>4 DEF WriteCopy
    <2>3. \A i \in 0..SIZE - 1 : current_len <= i /\ i < current_len + count'[p] => mem'[i] \in Byte
      BY <1>4 DEF WriteCopy, CopyFromUser
    <2>4. ubuf[p] = <<>>
      BY <2>2 DEF DataInv, DataOf
    <2>5. DataOf(p)'
      BY <2>2, <2>3, <2>4 DEF DataOf
    <2>6. QED
      BY <2>1, <2>5 DEF DataInv
  <1>5. ASSUME NEW p \in Procs,
               \/ TransferLock(p) \/ Go(p) \/ Again(p) \/ Prepare(p) \/ UnlockToSleep(p)
               \/ Woken(p) \/ Interrupted(p) \/ Relock(p) \/ TransferWake(p) \/ Sigio(p) \/ Out(p)
               \/ PollLock(p) \/ PollCheck(p) \/ PollAgain(p) \/ ClearLock(p)
        PROVE DataInv'
    <2>1. ASSUME NEW q \in Procs, q # p PROVE DataOf(q)'
      BY <1>5, <2>1, OthersRest DEF TransferLock, Go, Again, Prepare, UnlockToSleep, Woken,
         Interrupted, Relock, TransferWake, Sigio, Out, PollLock, PollCheck, PollAgain, ClearLock,
         DataInv
    <2>2. /\ op'[p] = op[p] /\ ubuf'[p] = ubuf[p] /\ pc'[p] # "update"
          /\ \/ pc[p] \notin {"update", "wake", "out", "out2"}
             \/ pc'[p] \in {"out", "out2"}
             \/ op[p] # "read"
      BY <1>5 DEF TransferLock, Go, Again, Prepare, UnlockToSleep, Woken, Interrupted, Relock,
         TransferWake, Sigio, Out, PollLock, PollCheck, PollAgain, ClearLock
    <2>3. DataOf(p)'
      BY <2>2 DEF DataInv, DataOf
    <2>4. QED
      BY <2>1, <2>3 DEF DataInv
  <1>6. ASSUME NEW p \in Procs, Open(p) \/ Release(p) \/ Fasync(p) \/ Kill(p) \/ PollTimeout(p)
        PROVE DataInv'
    <2>1. UNCHANGED <<mem, current_len, pc, op, count, ubuf>>
      BY <1>6 DEF Open, Release, Fasync, Kill, PollTimeout
    <2>2. QED
      BY <2>1, OthersRest DEF DataInv
  <1>7. ASSUME NEW p \in Procs, ClearZero(p) PROVE DataInv'
    <2>1. ASSUME NEW q \in Procs, q # p PROVE DataOf(q)'
      BY <1>1, <1>7, <2>1, OthersRest DEF ClearZero, DataInv
    <2>2. pc[p] = "zero" /\ pc'[p] = "clrout" /\ ubuf'[p] = ubuf[p]
      BY <1>7 DEF ClearZero
    <2>3. DataOf(p)'
      BY <2>2 DEF DataInv, DataOf
    <2>4. QED
      BY <2>1, <2>3 DEF DataInv
  <1>8. ASSUME NEW p \in Procs, Out2(p) \/ PollDone(p) \/ ClearOut(p) PROVE DataInv'
    <2>1. ASSUME NEW q \in Procs, q # p PROVE DataOf(q)'
      BY <1>8, <2>1, OthersRest DEF Out2, PollDone, ClearOut, ReturnToUser, DataInv
    <2>2. pc'[p] = "idle" /\ ubuf'[p] = <<>>
      BY <1>8 DEF Out2, PollDone, ClearOut, ReturnToUser
    <2>3. QED
      BY <2>1, <2>2 DEF DataInv, DataOf
  <1>9. ASSUME NEW p \in Procs, Enter(p) PROVE DataInv'
    <2>1. ASSUME NEW q \in Procs, q # p PROVE DataOf(q)'
      BY <1>9, <2>1, OthersRest DEF Enter, DataInv
    <2>2. pc[p] = "idle" /\ pc'[p] = "lock" /\ ubuf'[p] = ubuf[p]
      BY <1>9 DEF Enter
    <2>3. DataOf(p)'
      BY <2>2 DEF DataInv, DataOf
    <2>4. QED
      BY <2>1, <2>3 DEF DataInv
  <1>10. CASE UNCHANGED vars
    BY <1>10 DEF vars, DataInv, DataOf
  <1>11. QED
    BY <1>2, <1>3, <1>4, <1>5, <1>6, <1>7, <1>8, <1>9, <1>10
    DEF Next, InCall, TransferStep, Read, Write, PollStep, ClearStep, Environment

-----------------------------------------------------------------------------
(* The refinement                                                          *)

\* The abstract variables are those of the instance.
LEMMA Mapped == Queue = Bytes(mem, current_len) /\ Queue' = Bytes(mem', current_len')
  BY DEF Queue, Bytes

\* The first l - n bytes of m2 come from among the first l of m, as many
\* places further behind as the queue allows: for the buffer, and for the queue,
\* where a byte lies one further on.
Moved(l, n, m, m2) ==
    \E g \in [0..l - n - 1 -> 0..l - 1] :
        /\ \A i \in 0..l - n - 1 : \E k \in 1..SIZE : g[i] = i + k * n
        /\ \A i \in 0..l - n - 1 : m2[i] = m[g[i]]
QueueMoved(l, n, s, s2) ==
    \E from \in [1..l - n -> 1..l] :
        /\ \A i \in DOMAIN from : \E k \in 1..SIZE : from[i] = i + k * n
        /\ s2 = [i \in DOMAIN from |-> s[from[i]]]

\* The bytes of the queue come from as far behind as those of the buffer.
LEMMA Hops ==
    ASSUME NEW l \in Nat, NEW n \in 0..l, NEW m, NEW m2, Moved(l, n, m, m2)
    PROVE  QueueMoved(l, n, Bytes(m, l), Bytes(m2, l - n))
  <1> PICK g \in [0..l - n - 1 -> 0..l - 1] :
          /\ \A i \in 0..l - n - 1 : \E k \in 1..SIZE : g[i] = i + k * n
          /\ \A i \in 0..l - n - 1 : m2[i] = m[g[i]]
    BY DEF Moved
  <1> DEFINE from == [i \in 1..l - n |-> g[i - 1] + 1]
  <1>1. ASSUME NEW i \in 1..l - n
        PROVE  i - 1 \in 0..l - n - 1 /\ g[i - 1] \in 0..l - 1 /\ g[i - 1] + 1 \in 1..l
    <2>1. i - 1 \in 0..l - n - 1
      OBVIOUS
    <2>2. g[i - 1] \in 0..l - 1
      BY <2>1, Zenon
    <2>3. QED
      BY <2>1, <2>2
  <1>2. from \in [1..l - n -> 1..l]
    BY <1>1
  <1>3. ASSUME NEW i \in 1..l - n PROVE \E k \in 1..SIZE : from[i] = i + k * n
    <2>1. PICK k \in 1..SIZE : g[i - 1] = i - 1 + k * n
      BY <1>1
    <2>2. k * n \in Int
      BY Assumed
    <2>3. from[i] = i + k * n
      BY <2>1, <2>2
    <2>4. QED
      BY <2>3
  <1>4. ASSUME NEW i \in 1..l - n PROVE m2[i - 1] = Bytes(m, l)[from[i]]
    <2>1. from[i] \in 1..l /\ from[i] - 1 = g[i - 1]
      BY <1>1
    <2>2. QED
      BY <1>1, <2>1 DEF Bytes
  <1>5. Bytes(m2, l - n) = [i \in 1..l - n |-> Bytes(m, l)[from[i]]]
    <2> HIDE DEF from
    <2>1. QED
      BY <1>4 DEF Bytes
  <1>6. DOMAIN from = 1..l - n
    OBVIOUS
  <1> HIDE DEF from
  <1>7. QED
    BY <1>2, <1>3, <1>5, <1>6 DEF QueueMoved

\* What a step has to do to be a Get of the queue.
LEMMA GetIs ==
    ASSUME NEW p \in Procs, NEW n \in 1..Len(Queue), Given[p] = <<>>,
           Given' = [Given EXCEPT ![p] = SubSeq(Queue, 1, n)],
           QueueMoved(Len(Queue), n, Queue, Queue')
    PROVE  Fifo!Get(p)
  BY Zenon DEF Fifo!Get, QueueMoved, Queue, Given

\* That is what the memcpy of a shift does.
LEMMA ShiftMoves ==
    ASSUME TypeOK, NEW p \in Procs, ReadShift(p), count[p] \in 0..current_len
    PROVE  Moved(current_len, count[p], mem, mem')
  <1> USE DEF TypeOK, DevType
  <1> DEFINE left == current_len - count[p]
  <1> PICK g \in [0..left - 1 -> 0..current_len - 1] :
          /\ \A i \in 0..left - 1 : \E k \in 1..SIZE : g[i] = i + k * count[p]
          /\ mem' = [i \in 0..SIZE - 1 |-> IF i < left THEN mem[g[i]] ELSE mem[i]]
    BY DEF ReadShift, CopyDown
  <1>1. current_len \in Nat /\ count[p] \in Nat /\ current_len <= SIZE
    BY Assumed
  <1>2. \A i \in 0..left - 1 : mem'[i] = mem[g[i]]
    BY <1>1, Assumed
  <1>3. QED
    BY <1>2 DEF Moved

\* The shift of a read takes the bytes it has copied off the queue; a read of
\* no bytes is no step of the queue.
LEMMA ShiftGets ==
    ASSUME TypeOK, ClipHolds, DataInv, NEW p \in Procs, ReadShift(p)
    PROVE  [Fifo!Next]_(Fifo!fifoVars)
  <1> USE DEF TypeOK, DevType, TaskType, CallType
  <1>1. /\ pc[p] = "update" /\ op[p] = "read" /\ pc' = [pc EXCEPT ![p] = "wake"]
        /\ ubuf' = ubuf /\ current_len' = current_len - count[p]
    BY DEF ReadShift, Step, callVars
  <1>2. count[p] \in 0..current_len
    BY <1>1 DEF ClipHolds
  <1>3. ubuf[p] = Bytes(mem, count[p])
    BY <1>1 DEF DataInv, DataOf, Bytes
  <1>4. Given[p] = <<>> /\ Given' = [Given EXCEPT ![p] = ubuf[p]]
    BY <1>1 DEF Given
  <1>5. current_len \in Nat /\ count[p] \in Nat
    BY Assumed
  <1>6. SubSeq(Queue, 1, count[p]) = ubuf[p]
    BY <1>2, <1>3, <1>5, PrefixOfBytes, Mapped
  <1>7. Len(Queue) = current_len
    BY <1>5, BytesSeq, Mapped
  <1> DEFINE left == current_len - count[p]
  <1>8. PICK g \in [0..left - 1 -> 0..current_len - 1] :
          /\ \A i \in 0..left - 1 : \E k \in 1..SIZE : g[i] = i + k * count[p]
          /\ mem' = [i \in 0..SIZE - 1 |-> IF i < left THEN mem[g[i]] ELSE mem[i]]
    BY DEF ReadShift, CopyDown
  <1>9. CASE count[p] = 0
    <2>1. ubuf[p] = <<>>
      BY <1>3, <1>9, NoBytes
    <2>2. Given' = Given
      BY <1>1, <1>4, <2>1 DEF Given
    <2>3. Queue' = Queue
      <3>1. ASSUME NEW i \in 1..current_len PROVE mem'[i - 1] = mem[i - 1]
        <4>1. left = current_len /\ i - 1 \in 0..left - 1 /\ i - 1 \in 0..SIZE - 1
          BY <1>9, Assumed
        <4>2. g[i - 1] = i - 1
          BY <1>8, <1>9, <4>1
        <4>3. QED
          BY <1>8, <4>1, <4>2
      <3>2. current_len' = current_len
        BY <1>1, <1>9
      <3>3. QED
        BY <3>1, <3>2 DEF Queue
    <2>4. QED
      BY <2>2, <2>3 DEF Fifo!fifoVars, Queue, Given
  <1>10. CASE count[p] # 0
    <2>1. count[p] \in 1..Len(Queue)
      BY <1>2, <1>7, <1>10
    <2>2. Moved(current_len, count[p], mem, mem')
      BY <1>2, ShiftMoves
    <2>3. QueueMoved(current_len, count[p], Bytes(mem, current_len), Bytes(mem', left))
      BY <1>2, <1>5, <2>2, Hops
    <2>4. Given' = [Given EXCEPT ![p] = SubSeq(Queue, 1, count[p])]
      BY <1>4, <1>6
    <2>5. QueueMoved(Len(Queue), count[p], Queue, Queue')
      BY <1>1, <1>7, <2>3, Mapped
    <2>6. Fifo!Get(p)
      BY <1>4, <2>1, <2>4, <2>5, GetIs
    <2>7. QED
      BY <2>6 DEF Fifo!Next
  <1>11. QED
    BY <1>9, <1>10

\* Raising current_len appends the bytes that have been copied in; a write of
\* no bytes is no step of the queue.
LEMMA CommitPuts ==
    ASSUME TypeOK, ClipHolds, DataInv, NEW p \in Procs, WriteCommit(p)
    PROVE  [Fifo!Next]_(Fifo!fifoVars)
  <1> USE DEF TypeOK, DevType, TaskType, CallType
  <1>1. /\ pc[p] = "update" /\ op[p] = "write" /\ pc' = [pc EXCEPT ![p] = "wake"]
        /\ ubuf' = ubuf /\ mem' = mem /\ current_len' = current_len + count[p]
    BY DEF WriteCommit, Step, callVars
  <1>2. count[p] \in 0..SIZE - current_len
    BY <1>1, Assumed DEF ClipHolds
  <1>3. Given' = Given
    <2>1. ubuf[p] = <<>>
      BY <1>1 DEF DataInv, DataOf
    <2>2. QED
      BY <1>1, <2>1 DEF Given
  <1>4. current_len \in Nat /\ count[p] \in Nat
    BY Assumed
  <1>5. Len(Queue) = current_len
    BY <1>4, BytesSeq, Mapped, Assumed
  <1>6. CASE count[p] = 0
    <2>1. Queue' = Queue
      BY <1>1, <1>6 DEF Queue
    <2>2. QED
      BY <1>3, <2>1 DEF Fifo!fifoVars, Queue, Given
  <1>7. CASE count[p] # 0
    <2> DEFINE s == [i \in 1..count[p] |-> mem[current_len + i - 1]]
    <2>1. s \in [1..count[p] -> Byte] /\ count[p] \in 1..SIZE
      <3>1. current_len \in 0..SIZE /\ SIZE \in Nat
        BY Assumed
      <3>2. count[p] \in 1..SIZE
        BY <1>2, <1>4, <1>7, <3>1
      <3>3. DataOf(p)
        BY DEF DataInv
      <3>4. ASSUME NEW i \in 1..count[p] PROVE mem[current_len + i - 1] \in Byte
        <4>1. /\ current_len + i - 1 \in 0..SIZE - 1
              /\ current_len <= current_len + i - 1 /\ current_len + i - 1 < current_len + count[p]
          BY <1>2, <3>1, <3>2
        <4>2. QED
          BY <1>1, <3>3, <4>1 DEF DataOf
      <3>5. QED
        BY <3>2, <3>4
    <2>2. Queue' = Queue \o s
      <3>1. Bytes(mem, current_len + count[p]) = Bytes(mem, current_len) \o s
        BY <1>4, MoreBytes
      <3>2. Queue' = Bytes(mem, current_len + count[p])
        BY <1>1, Mapped
      <3>3. Queue = Bytes(mem, current_len)
        BY Mapped
      <3> HIDE DEF s
      <3>4. QED
        BY <3>1, <3>2, <3>3
    <2>3. Len(Queue) + count[p] <= SIZE
      BY <1>2, <1>5, Assumed
    <2>4. Fifo!Put
      <3> HIDE DEF s
      <3>1. QED
        BY <1>3, <2>1, <2>2, <2>3 DEF Fifo!Put, Queue, Given
    <2>5. QED
      BY <2>4 DEF Fifo!Next
  <1>8. QED
    BY <1>6, <1>7

\* Which step of the bounded FIFO each step of the device is.
LEMMA StepSimulates ==
    ASSUME IInv, DataInv, [Next]_vars PROVE [Fifo!Next]_(Fifo!fifoVars)
  <1> USE Assumed DEF IInv, TypeOK, DevType, TaskType, CallType, Step, devVars, callVars
  <1>1. Queue' = Queue /\ Given' = Given => [Fifo!Next]_(Fifo!fifoVars)
    BY DEF Fifo!fifoVars, Queue, Given
  <1>2. ASSUME NEW p \in Procs, ReadShift(p) \/ WriteCommit(p) PROVE [Fifo!Next]_(Fifo!fifoVars)
    BY <1>2, ShiftGets, CommitPuts
  <1>3. ASSUME NEW p \in Procs, ReadCopy(p) PROVE [Fifo!Next]_(Fifo!fifoVars)
    <2>1. Queue' = Queue
      BY <1>3 DEF ReadCopy, Queue
    <2>2. /\ pc[p] = "copy" /\ pc' = [pc EXCEPT ![p] = "update"]
          /\ \A q \in Procs : q # p => ubuf'[q] = ubuf[q]
      BY <1>3 DEF ReadCopy
    <2>3. ubuf[p] = <<>>
      BY <2>2 DEF DataInv, DataOf
    <2>4. Given' = Given
      BY <2>2, <2>3 DEF Given
    <2>5. QED
      BY <1>1, <2>1, <2>4
  <1>4. ASSUME NEW p \in Procs, WriteCopy(p) \/ WriteFault(p) PROVE [Fifo!Next]_(Fifo!fifoVars)
    <2>1. current_len' = current_len /\ \A i \in 1..current_len : mem'[i - 1] = mem[i - 1]
      BY <1>4 DEF WriteCopy, WriteFault, CopyFromUser
    <2>2. Queue' = Queue
      BY <2>1 DEF Queue
    <2>3. ubuf' = ubuf /\ pc[p] = "copy" /\ op[p] = "write" /\ \A q \in Procs : q # p => pc'[q] = pc[q]
      BY <1>4 DEF WriteCopy, WriteFault
    <2>4. ubuf[p] = <<>>
      BY <2>3 DEF DataInv, DataOf
    <2>5. Given' = Given
      BY <2>3, <2>4 DEF Given
    <2>6. QED
      BY <1>1, <2>2, <2>5
  <1>5. ASSUME NEW p \in Procs, ClearZero(p) PROVE [Fifo!Next]_(Fifo!fifoVars)
    <2>1. current_len' = 0 /\ ubuf' = ubuf /\ pc[p] = "zero" /\ pc' = [pc EXCEPT ![p] = "clrout"]
      BY <1>5 DEF ClearZero
    <2>2. Queue' = <<>>
      BY <2>1, NoBytes DEF Queue, Bytes
    <2>3. Given' = Given
      BY <2>1 DEF Given
    <2>4. Fifo!Clear
      BY <2>2, <2>3 DEF Fifo!Clear, Queue, Given
    <2>5. QED
      BY <2>4 DEF Fifo!Next
  <1>6. ASSUME NEW p \in Procs, Out2(p) \/ PollDone(p) \/ ClearOut(p)
        PROVE [Fifo!Next]_(Fifo!fifoVars)
    <2>1. /\ UNCHANGED <<mem, current_len>> /\ ubuf' = [ubuf EXCEPT ![p] = <<>>]
          /\ pc[p] # "update" /\ pc' = [pc EXCEPT ![p] = "idle"]
      BY <1>6 DEF Out2, PollDone, ClearOut, ReturnToUser
    <2>2. Queue' = Queue /\ Given' = [Given EXCEPT ![p] = <<>>]
      BY <2>1 DEF Queue, Given
    <2>3. Fifo!Return(p)
      BY <2>2 DEF Fifo!Return, Queue, Given
    <2>4. QED
      BY <2>3 DEF Fifo!Next
  <1>7. ASSUME NEW p \in Procs,
               \/ TransferLock(p) \/ Go(p) \/ Again(p) \/ Prepare(p) \/ UnlockToSleep(p)
               \/ Woken(p) \/ Interrupted(p) \/ Relock(p) \/ TransferWake(p) \/ Sigio(p) \/ Out(p)
               \/ PollLock(p) \/ PollCheck(p) \/ PollAgain(p) \/ ClearLock(p) \/ ReadFault(p)
               \/ Enter(p) \/ Open(p) \/ Release(p) \/ Fasync(p) \/ Kill(p) \/ PollTimeout(p)
        PROVE [Fifo!Next]_(Fifo!fifoVars)
    <2>1. UNCHANGED <<mem, current_len, ubuf>>
      BY <1>7 DEF TransferLock, Go, Again, Prepare, UnlockToSleep, Woken, Interrupted, Relock,
         TransferWake, Sigio, Out, PollLock, PollCheck, PollAgain, ClearLock, ReadFault, Enter,
         Open, Release, Fasync, Kill, PollTimeout
    <2>2. \A q \in Procs : \/ pc'[q] = pc[q]
                           \/ pc'[q] # "update" /\ pc[q] # "update"
      BY <1>7 DEF TransferLock, Go, Again, Prepare, UnlockToSleep, Woken, Interrupted, Relock,
         TransferWake, Sigio, Out, PollLock, PollCheck, PollAgain, ClearLock, ReadFault, Enter,
         Open, Release, Fasync, Kill, PollTimeout
    <2>3. Queue' = Queue /\ Given' = Given
      BY <2>1, <2>2 DEF Queue, Given
    <2>4. QED
      BY <1>1, <2>3
  <1>8. CASE UNCHANGED vars
    <2>1. Queue' = Queue /\ Given' = Given
      BY <1>8 DEF vars, Queue, Given
    <2>2. QED
      BY <1>1, <2>1
  <1>9. QED
    BY <1>2, <1>3, <1>4, <1>5, <1>6, <1>7, <1>8
    DEF Next, InCall, TransferStep, Read, Write, PollStep, ClearStep, Environment

-----------------------------------------------------------------------------
(* What a shift leaves in the queue                                        *)

\* A step moves one task; it gives the caller bytes only to hold them back
\* until the shift, and takes them from it at the end of the call.
LEMMA OneMoves ==
    ASSUME TypeOK, NEW q \in Procs, InCall(q) \/ Environment(q)
    PROVE  /\ \A r \in Procs : r # q => pc'[r] = pc[r] /\ ubuf'[r] = ubuf[r]
           /\ pc'[q] = "update" \/ ubuf'[q] \in {<<>>, ubuf[q]}
           /\ pc[q] = "update" /\ pc'[q] # "update" => ReadShift(q) \/ WriteCommit(q)
  <1> USE DEF TypeOK, TaskType, CallType, Step, callVars
  <1>1. CASE TransferStep(q)
    BY <1>1 DEF TransferStep, TransferLock, Go, Again, Prepare, UnlockToSleep, Woken,
      Interrupted, Relock, Read, ReadCopy, ReadFault, ReadShift, Write, WriteCopy,
      WriteFault, WriteCommit, Sigio, TransferWake, Out, Out2, ReturnToUser
  <1>2. CASE PollStep(q)
    BY <1>2 DEF PollStep, PollLock, PollCheck, PollAgain, PollDone, ReturnToUser
  <1>3. CASE ClearStep(q)
    BY <1>3 DEF ClearStep, ClearLock, ClearZero, ClearOut, ReturnToUser
  <1>4. CASE Environment(q)
    BY <1>4 DEF Environment, Open, Release, Fasync, Enter, Kill, PollTimeout
  <1>5. QED
    BY <1>1, <1>2, <1>3, <1>4 DEF InCall

\* A read gets bytes by the shift of the buffer and by nothing else.
LEMMA OnlyShiftGives ==
    ASSUME TypeOK, DataInv, [Next]_vars, NEW p \in Procs, Given[p] = <<>>, Given'[p] # <<>>
    PROVE  ReadShift(p)
  <1>1. /\ pc'[p] # "update" /\ ubuf'[p] # <<>>
        /\ pc[p] = "update" \/ ubuf[p] = <<>>
    BY DEF Given
  <1>2. PICK q \in Procs : InCall(q) \/ Environment(q)
    BY <1>1 DEF Next, vars, callVars
  <1>3. q = p /\ pc[p] = "update" /\ ubuf[p] # <<>>
    BY <1>1, <1>2, OneMoves
  <1>4. ReadShift(p) \/ WriteCommit(p)
    BY <1>1, <1>2, <1>3, OneMoves
  <1>5. op[p] = "read"
    BY <1>3 DEF DataInv, DataOf
  <1>6. QED
    BY <1>4, <1>5 DEF WriteCommit

\* If the regions are apart every byte comes from its own place.
LEMMA ApartHops ==
    ASSUME NEW l \in Nat, NEW n \in 1..l, l <= 2 * n, NEW m, NEW m2, Moved(l, n, m, m2)
    PROVE  \A i \in 0..l - n - 1 : m2[i] = m[i + n]
  <1> PICK g \in [0..l - n - 1 -> 0..l - 1] :
          /\ \A i \in 0..l - n - 1 : \E k \in 1..SIZE : g[i] = i + k * n
          /\ \A i \in 0..l - n - 1 : m2[i] = m[g[i]]
    BY DEF Moved
  <1> SUFFICES ASSUME NEW i \in 0..l - n - 1 PROVE g[i] = i + n
    OBVIOUS
  <1>1. g[i] \in 0..l - 1
    OBVIOUS
  <1>2. PICK k \in 1..SIZE : g[i] = i + k * n
    OBVIOUS
  <1>3. k \in Nat /\ k >= 1
    BY Assumed
  <1>4. CASE k = 1
    BY <1>2, <1>4
  <1>5. CASE k # 1
    <2>1. PICK j \in Nat : k = j + 2
      <3>1. k - 2 \in Nat /\ k = (k - 2) + 2
        BY <1>3, <1>5
      <3>2. QED
        BY <3>1
    <2>2. k * n = j * n + 2 * n /\ j * n \in Nat
      BY <2>1
    <2> DEFINE jn == j * n  kn == k * n
    <2>3. g[i] = i + kn /\ kn = jn + 2 * n /\ jn \in Nat
      BY <1>2, <2>2
    <2> HIDE DEF jn, kn
    <2>4. g[i] >= 2 * n
      BY <2>3
    <2>5. QED
      BY <1>1, <2>4
  <1>6. QED
    BY <1>4, <1>5

\* What a read takes and what it leaves is what there was, if the regions are
\* apart or memcpy copies like memmove.
LEMMA ShiftKeeps ==
    ASSUME TypeOK, ClipHolds, DataInv, NEW p \in Procs, ReadShift(p), Given'[p] # <<>>,
           Apart \/ LikeMemmove
    PROVE  Queue = Given'[p] \o Queue'
  <1> USE DEF TypeOK, DevType, TaskType, CallType
  <1>1. /\ pc[p] = "update" /\ op[p] = "read" /\ pc'[p] = "wake"
        /\ ubuf' = ubuf /\ current_len' = current_len - count[p]
    BY DEF ReadShift, Step, callVars
  <1>2. count[p] \in 0..current_len /\ current_len \in Nat /\ count[p] \in Nat
        /\ current_len <= SIZE
    BY <1>1, Assumed DEF ClipHolds
  <1>3. Given'[p] = Bytes(mem, count[p])
    BY <1>1 DEF Given, DataInv, DataOf, Bytes
  <1>4. count[p] # 0
    BY <1>3, NoBytes
  <1>5. \A i \in 0..current_len' - 1 : mem'[i] = mem[i + count[p]]
    <2>1. CASE LikeMemmove
      BY <1>1, <2>1 DEF LikeMemmove
    <2>2. CASE Apart
      <3>1. current_len <= 2 * count[p] /\ count[p] \in 1..current_len
        BY <1>1, <1>2, <1>4, <2>2 DEF Apart
      <3>2. Moved(current_len, count[p], mem, mem')
        BY <1>1, <1>2, ShiftMoves
      <3>3. \A i \in 0..current_len - count[p] - 1 : mem'[i] = mem[i + count[p]]
        <4> DEFINE l == current_len  n == count[p]  m == mem  m2 == mem'
        <4>1. l \in Nat /\ n \in 1..l /\ l <= 2 * n /\ Moved(l, n, m, m2)
          BY <1>2, <3>1, <3>2
        <4> HIDE DEF l, n, m, m2
        <4>2. \A i \in 0..l - n - 1 : m2[i] = m[i + n]
          BY <4>1, ApartHops
        <4>3. QED
          BY <4>2 DEF l, n, m, m2
      <3>4. QED
        BY <1>1, <3>3
    <2>3. QED
      BY <2>1, <2>2
  <1> DEFINE left == current_len - count[p]
  <1>6. left \in Nat /\ current_len = count[p] + left
    BY <1>2
  <1>7. Queue = Bytes(mem, count[p]) \o [i \in 1..left |-> mem[count[p] + i - 1]]
    <2> HIDE DEF left
    <2>1. Bytes(mem, count[p] + left)
            = Bytes(mem, count[p]) \o [i \in 1..left |-> mem[count[p] + i - 1]]
      BY <1>2, <1>6, MoreBytes
    <2>2. QED
      BY <1>6, <2>1, Mapped
  <1>8. Queue' = [i \in 1..left |-> mem[count[p] + i - 1]]
    <2>1. \A i \in 1..left : mem'[i - 1] = mem[count[p] + i - 1]
      <3>1. ASSUME NEW i \in 1..left PROVE mem'[i - 1] = mem[count[p] + i - 1]
        <4>1. i - 1 \in 0..current_len' - 1
          BY <1>1, <1>2
        <4>2. mem'[i - 1] = mem[(i - 1) + count[p]]
          BY <1>5, <4>1, Zenon
        <4>3. (i - 1) + count[p] = count[p] + i - 1
          BY <1>2
        <4>4. QED
          BY <4>2, <4>3, Zenon
      <3>2. QED
        BY <3>1
    <2>2. Queue' = [i \in 1..left |-> mem'[i - 1]]
      BY <1>1 DEF Queue
    <2> HIDE DEF left, Queue
    <2>3. QED
      BY <2>1, <2>2
  <1> HIDE DEF left, Queue
  <1>9. QED
    BY <1>3, <1>7, <1>8

\* So no step of the device takes bytes out of the queue and loses or spoils one.
LEMMA StepKeeps ==
    ASSUME IInv, DataInv, [Next]_vars, Apart \/ LikeMemmove PROVE Fifo!Kept
  <1>1. ASSUME NEW p \in Procs, Given[p] = <<>>, Given'[p] # <<>>
        PROVE  Queue = Given'[p] \o Queue'
    BY <1>1, OnlyShiftGives, ShiftKeeps DEF IInv
  <1>2. QED
    BY <1>1, Zenon DEF Fifo!Kept, Queue, Given

\* The device is a bounded FIFO: a read gets the bytes that are first, and
\* leaves the others in order and unchanged if they are no more than it takes,
\* or if memcpy copies like memmove.
THEOREM Refinement == Spec => ImplementsFifo
  <1>1. Init => DataInv /\ Fifo!Init
    <2> SUFFICES ASSUME Init PROVE DataInv /\ Fifo!Init
      OBVIOUS
    <2>1. DataInv
      BY DEF Init, DataInv, DataOf
    <2>2. Bytes(mem, current_len) = <<>>
      BY NoBytes DEF Init
    <2>3. Fifo!Init
      BY <2>2 DEF Init, Fifo!Init, Bytes
    <2>4. QED
      BY <2>1, <2>3
  <1>2. IInv /\ DataInv /\ [Next]_vars => DataInv'
    BY DataStep DEF IInv
  <1>3. IInv /\ DataInv /\ [Next]_vars => [Fifo!Next]_(Fifo!fifoVars)
    BY StepSimulates
  <1>4. IInv /\ DataInv /\ [Next]_vars => [Apart \/ LikeMemmove => Fifo!Kept]_vars
    BY StepKeeps
  <1>5. QED
    BY <1>1, <1>2, <1>3, <1>4, Invariance, PTL DEF Spec, ImplementsFifo, Fifo!Spec

\* In a build whose memcpy copies like memmove every byte that a writer has put
\* in comes out once, in order and unchanged, except what FIFO_CLEAR has dropped.
THEOREM InOrder == Spec /\ [][LikeMemmove]_vars => Fifo!Spec /\ [][Fifo!Kept]_vars
  <1>1. LikeMemmove /\ (Apart \/ LikeMemmove => Fifo!Kept) => Fifo!Kept
    OBVIOUS
  <1>2. QED
    BY <1>1, Refinement, PTL DEF ImplementsFifo

-----------------------------------------------------------------------------
(* ch8 and ch9: unless a call has come too early, the device is as ch12    *)
(* has it through loading, unloading and loading again.  What that rests   *)
(* on is that the mutex is taken only in a module that is loaded, and that *)
(* memory is given out and taken back while no file is open.               *)
Closed == {"out", "kzalloc", "setup", "kfree", "unregister"}
InTime ==
    /\ mod \in Closed \cup {"mutex", "r_wait", "w_wait", "loaded"}
    /\ dead = {}
    /\ mod # "loaded" => mutex = None
    /\ mod \in Closed => cdev = FALSE
    /\ \A t \in Procs : mod \in Closed => filp[t] = "closed"
    /\ \A t \in Procs : pc[t] # "idle" => filp[t] # "closed"
UpInTime == early \in BOOLEAN /\ (~early => IInv /\ InTime)

\* A step of GlobalFifo keeps its invariant.
LEMMA DeviceStep == ASSUME IInv, [Next]_vars PROVE IInv'
  BY TypeStep, LockStep, QueueStep, SleepStep, ClipStep, EOFStep, DataWakeStep,
     RoomWakeStep DEF IInv

\* What a call does to the mutex and to where the tasks are.
LEMMA CallMoves ==
    ASSUME TypeOK, NEW t \in Procs, InCall(t)
    PROVE  /\ pc[t] # "idle" /\ filp' = filp /\ mutex' \in {mutex, None, t}
           /\ \A s \in Procs : s # t => pc'[s] = pc[s]
  <1>0. pc \in [Procs -> PCs]
    BY DEF TypeOK, TaskType
  <1>1. CASE TransferStep(t)
    BY <1>0, <1>1 DEF TransferStep, TransferLock, Go, Again, Prepare, UnlockToSleep, Woken,
      Interrupted, Relock, Read, ReadCopy, ReadFault, ReadShift, Write, WriteCopy,
      WriteFault, WriteCommit, Sigio, TransferWake, Out, Out2, Step, Lock, Unlock,
      ReturnToUser, callVars
  <1>2. CASE PollStep(t)
    BY <1>0, <1>2 DEF PollStep, PollLock, PollCheck, PollAgain, PollDone, Step, Lock, Unlock,
      ReturnToUser, callVars
  <1>3. CASE ClearStep(t)
    BY <1>0, <1>3 DEF ClearStep, ClearLock, ClearZero, ClearOut, Step, Lock, Unlock,
      ReturnToUser, callVars
  <1> QED  BY <1>1, <1>2, <1>3 DEF InCall

\* kzalloc clears a device that nobody is at.
LEMMA ZeroedIInv ==
    ASSUME IInv, Kzalloc, \A t \in Procs : pc[t] = "idle"
    PROVE  IInv'
  <1>0. /\ mem' = [i \in 0..SIZE - 1 |-> 0] /\ current_len' = 0 /\ cleared' = FALSE
        /\ mutex' = None /\ wait' = [q \in Transfers |-> {}] /\ async_queue' = {}
        /\ UNCHANGED <<taskVars, pc, callVars>>
    BY DEF Kzalloc
  <1>1. TypeOK'
    <2>1. DevType'
      <3>1. mem' \in [0..SIZE - 1 -> Byte \cup {0}] /\ current_len' \in 0..SIZE
        BY <1>0, Assumed
      <3>2. /\ mutex' \in Procs \cup {None} /\ wait' \in [Transfers -> SUBSET Procs]
            /\ async_queue' \subseteq Procs
        BY <1>0
      <3>3. cleared' \in BOOLEAN
        BY <1>0
      <3> QED  BY <3>1, <3>2, <3>3 DEF DevType
    <2>2. TaskType' /\ CallType'
      BY <1>0, Zenon DEF IInv, TypeOK, TaskType, CallType, taskVars, callVars
    <2> QED  BY <2>1, <2>2 DEF TypeOK
  <1>2. \A t \in Procs : pc'[t] = "idle"
    BY <1>0, Zenon
  <1>3. LockDiscipline'
    BY <1>0, <1>2, Assumed DEF LockDiscipline, HoldPCs
  <1>4. NoSleepElsewhere'
    BY <1>0, Zenon DEF IInv, NoSleepElsewhere, taskVars
  <1>5. EntryLifetime'
    BY <1>0, <1>2 DEF EntryLifetime, QueuedPCs
  <1>6. ClipHolds' /\ EOFGuard'
    BY <1>2 DEF ClipHolds, EOFGuard
  <1>7. NoLostDataWakeup' /\ NoLostRoomWakeup'
    BY <1>2 DEF NoLostDataWakeup, NoLostRoomWakeup, Awaits
  <1> QED  BY <1>1, <1>3, <1>4, <1>5, <1>6, <1>7 DEF IInv

\* That a call came too early is never forgotten.
LEMMA EarlyStays ==
    ASSUME early \in BOOLEAN, [LoadNext]_<<vars, loadVars>>
    PROVE  early' \in BOOLEAN /\ (early => early')
  <1>1. CASE Module
    BY <1>1, Zenon DEF Module, RegisterRegion, Kzalloc, FailMalloc, SetupCdev, MutexInit,
       InitQueues, CdevDel, Kfree, Unregister
  <1>2. ASSUME NEW t \in Procs, Call(t) PROVE early' \in BOOLEAN /\ (early => early')
    BY <1>2, Zenon DEF Call, Early
  <1>3. ASSUME NEW t \in Procs, WaitOops(t) PROVE early' \in BOOLEAN /\ (early => early')
    BY <1>3, Zenon DEF WaitOops
  <1>4. ASSUME NEW t \in Procs, DeadCloses(t) \/ LockOops(t) PROVE early' = early
    BY <1>4, Zenon DEF DeadCloses, LockOops, loadVars
  <1>5. ASSUME NEW t \in Procs, OpenFile(t) \/ Close(t) \/ Sigio9(t) \/ Others(t)
        PROVE  early' = early
    BY <1>5, Zenon DEF OpenFile, Close, Sigio9, Others, loadVars
  <1>6. CASE UNCHANGED <<vars, loadVars>>
    BY <1>6, Zenon DEF loadVars
  <1> QED  BY <1>1, <1>2, <1>3, <1>4, <1>5, <1>6, Zenon
           DEF LoadNext, File, ReadCall, WriteCall, PollCall, IoctlCall

\* Loading and unloading.
LEMMA ModuleInTime == ASSUME IInv, InTime, Module PROVE IInv' /\ InTime'
  <1>0. \A t \in Procs : mod \in Closed => pc[t] = "idle"
    BY Zenon DEF InTime
  <1>1. ASSUME UNCHANGED vars PROVE IInv'
    BY <1>1, DeviceStep
  <1>2. CASE RegisterRegion \/ FailMalloc
    <2>1. /\ UNCHANGED vars /\ dead' = dead /\ cdev' = cdev /\ mod \in {"out", "kzalloc"}
          /\ mod' \in {"out", "kzalloc"}
      BY <1>2 DEF RegisterRegion, FailMalloc, Phase
    <2> QED  BY <1>1, <2>1 DEF InTime, Closed, vars, callVars
  <1>3. CASE Kzalloc
    <2>1. /\ mod = "kzalloc" /\ mod' = "setup" /\ dead' = dead /\ cdev' = cdev /\ mutex' = None
          /\ pc' = pc /\ filp' = filp
      BY <1>3 DEF Kzalloc, Phase, callVars
    <2>2. IInv'
      BY <1>0, <1>3, <2>1, ZeroedIInv DEF Closed
    <2> QED  BY <2>1, <2>2 DEF InTime, Closed
  <1>4. CASE SetupCdev
    <2>1. UNCHANGED vars /\ dead' = dead /\ mod = "setup" /\ mod' = "mutex"
      BY <1>4 DEF SetupCdev, Phase
    <2> QED  BY <1>1, <2>1 DEF InTime, Closed, vars, callVars
  <1>5. CASE MutexInit
    <2>1. mod = "mutex" /\ mutex = None /\ mutex' = None /\ mod' = "r_wait"
      BY <1>5 DEF MutexInit, Phase, InTime
    <2>2. UNCHANGED vars /\ dead' = dead
      BY <1>5, <2>1 DEF MutexInit, vars
    <2> QED  BY <1>1, <2>1, <2>2 DEF InTime, Closed, vars, callVars
  <1>6. CASE InitQueues
    <2>1. /\ UNCHANGED vars /\ dead' = dead
          /\ mod \in {"r_wait", "w_wait"} /\ mod' \in {"w_wait", "loaded"}
      BY <1>6 DEF InitQueues, Phase
    <2> QED  BY <1>1, <2>1 DEF InTime, Closed, vars, callVars
  <1>7. CASE CdevDel
    <2>1. /\ UNCHANGED vars /\ dead' = dead /\ mod = "loaded" /\ mod' = "kfree"
          /\ cdev' = FALSE /\ \A t \in Procs : filp[t] = "closed"
      BY <1>7 DEF CdevDel, Phase
    <2>2. mutex = None
      <3>1. \A t \in Procs : pc[t] = "idle"
        BY <2>1 DEF InTime
      <3>2. LockDiscipline /\ mutex \in Procs \cup {None}
        BY DEF IInv, TypeOK, DevType
      <3> QED  BY <3>1, <3>2 DEF LockDiscipline, HoldPCs
    <2> QED  BY <1>1, <2>1, <2>2 DEF InTime, Closed, vars, callVars
  <1>8. CASE Kfree \/ Unregister
    <2>1. /\ UNCHANGED vars /\ dead' = dead /\ cdev' = cdev
          /\ mod \in {"kfree", "unregister"} /\ mod' \in {"unregister", "out"}
      BY <1>8 DEF Kfree, Unregister, Phase
    <2> QED  BY <1>1, <2>1 DEF InTime, Closed, vars, callVars
  <1> QED  BY <1>2, <1>3, <1>4, <1>5, <1>6, <1>7, <1>8 DEF Module

\* The files.
LEMMA FileInTime ==
    ASSUME IInv, InTime, ~early', NEW t \in Procs, File(t) \/ DeadCloses(t)
    PROVE  IInv' /\ InTime'
  <1>0. TypeOK /\ dead = {}
    BY DEF IInv, InTime
  <1>1. ASSUME Environment(t), UNCHANGED loadVars, Open(t) => cdev PROVE IInv' /\ InTime'
    <2>1. IInv'
      BY <1>1, DeviceStep DEF Next
    <2>2. mod' = mod /\ dead' = dead /\ cdev' = cdev /\ mutex' = mutex
      BY <1>1 DEF loadVars, moduleVars, Environment, Open, Release, Fasync, Enter, Kill, PollTimeout
    <2>3. /\ \A s \in Procs : filp'[s] # filp[s] => s = t
          /\ \A s \in Procs : pc'[s] # pc[s] => s = t
      BY <1>0, <1>1 DEF TypeOK, TaskType, CallType, callVars, Step,
         Environment, Open, Release, Fasync, Enter, Kill, PollTimeout
    <2>4. pc'[t] # "idle" => filp'[t] # "closed"
      <3>1. CASE Open(t) \/ Release(t)
        BY <3>1 DEF Open, Release
      <3>2. CASE Enter(t)
        BY <3>2 DEF Enter
      <3>3. CASE Fasync(t) \/ Kill(t) \/ PollTimeout(t)
        BY <3>3 DEF Fasync, Kill, PollTimeout, callVars, InTime
      <3> QED  BY <1>1, <3>1, <3>2, <3>3 DEF Environment
    <2>5. mod \in Closed => filp'[t] = "closed"
      <3>1. CASE Open(t)
        BY <1>1, <3>1 DEF InTime
      <3>2. CASE Release(t)
        BY <1>0, <3>2 DEF Release, TypeOK, CallType
      <3>3. CASE Fasync(t) \/ Enter(t) \/ Kill(t) \/ PollTimeout(t)
        BY <3>3 DEF Fasync, Enter, Kill, PollTimeout, callVars, InTime
      <3> QED  BY <1>1, <3>1, <3>2, <3>3 DEF Environment
    <2> QED  BY <2>1, <2>2, <2>3, <2>4, <2>5 DEF InTime
  <1>2. CASE OpenFile(t) \/ Close(t) \/ Sigio9(t) \/ Others(t)
    <2>1. Environment(t) /\ UNCHANGED loadVars
      BY <1>2, Zenon DEF OpenFile, Close, Sigio9, Others, Environment
    <2>2. Open(t) => cdev
      <3>1. CASE OpenFile(t)
        BY <3>1, Zenon DEF OpenFile
      <3>2. CASE Close(t) \/ Sigio9(t) \/ Others(t)
        BY <3>2 DEF Close, Sigio9, Others, Open, Release, Fasync, Enter, Kill, PollTimeout, Step, InTime
      <3> QED  BY <1>2, <3>1, <3>2
    <2> QED  BY <1>1, <2>1, <2>2
  <1>3. CASE Call(t)
    <2>1. InCall(t) /\ mod' = mod /\ dead' = dead /\ cdev' = cdev
      BY <1>3, Zenon DEF Call, moduleVars
    <2>2. mod # "loaded" => mutex' # t \/ mutex = t
      BY <1>3, Zenon DEF Call, Early
    <2>3. IInv'
      BY <2>1, DeviceStep DEF Next
    <2>4. /\ pc[t] # "idle" /\ filp' = filp /\ mutex' \in {mutex, None, t}
          /\ \A s \in Procs : s # t => pc'[s] = pc[s]
      BY <1>0, <2>1, CallMoves
    <2>5. mod # "loaded" => mutex' = None
      BY <2>2, <2>4, Assumed DEF InTime
    <2>6. \A s \in Procs : pc'[s] # "idle" => filp'[s] # "closed"
      BY <2>4 DEF InTime
    <2> QED  BY <2>1, <2>3, <2>4, <2>5, <2>6 DEF InTime
  <1>4. ~LockOops(t) /\ ~WaitOops(t) /\ ~DeadCloses(t)
    <2>1. ~LockOops(t)
      BY DEF LockOops, InTime
    <2>2. ~WaitOops(t)
      BY DEF WaitOops
    <2>3. ~DeadCloses(t)
      BY <1>0 DEF DeadCloses
    <2> QED  BY <2>1, <2>2, <2>3
  <1> QED  BY <1>2, <1>3, <1>4, Zenon DEF File, ReadCall, WriteCall, PollCall, IoctlCall

\* Through loading, use, unloading and loading again the ch8 and ch9 drivers
\* are as the invariant says, and nobody dies, unless a call gets the mutex, or
\* a queue, before it is initialised.
THEOREM EarlierSound == LoadSpec => []SoundUnlessEarly
  <1>1. LoadInit => UpInTime
    <2> SUFFICES ASSUME LoadInit PROVE UpInTime
      OBVIOUS
    <2>1. IInv
      BY InitIInv DEF LoadInit
    <2>2. InTime
      BY DEF LoadInit, Init, InTime, Closed
    <2>3. early \in BOOLEAN
      BY DEF LoadInit
    <2> QED  BY <2>1, <2>2, <2>3, Zenon DEF UpInTime
  <1>2. UpInTime /\ [LoadNext]_<<vars, loadVars>> => UpInTime'
    <2> SUFFICES ASSUME UpInTime, [LoadNext]_<<vars, loadVars>> PROVE UpInTime'
      OBVIOUS
    <2>1. early' \in BOOLEAN /\ (early => early')
      BY EarlyStays DEF UpInTime
    <2> SUFFICES ASSUME ~early' PROVE IInv' /\ InTime'
      BY <2>1, Zenon DEF UpInTime
    <2>2. ~early /\ IInv /\ InTime
      BY <2>1, Zenon DEF UpInTime
    <2>3. CASE Module
      BY <2>2, <2>3, ModuleInTime
    <2>4. CASE \E t \in Procs : File(t) \/ DeadCloses(t)
      BY <2>2, <2>4, FileInTime
    <2>5. CASE UNCHANGED <<vars, loadVars>>
      <3>1. IInv'
        BY <2>2, <2>5, DeviceStep
      <3>2. InTime'
        BY <2>2, <2>5, Zenon DEF InTime, vars, callVars, loadVars, moduleVars
      <3> QED  BY <3>1, <3>2
    <2> QED  BY <2>3, <2>4, <2>5 DEF LoadNext
  <1>3. UpInTime => SoundUnlessEarly
    BY Zenon DEF UpInTime, InTime, SoundUnlessEarly
  <1> QED  BY <1>1, <1>2, <1>3, PTL DEF LoadSpec
=============================================================================
