------------------------- MODULE DriverDemosProofs --------------------------
(***************************************************************************)
(* The invariants of the earlier globalfifo drivers (N) and of the binding *)
(* of the last (V), and, with those of DataDemosProofs and FileDemosProofs,*)
(* of DriverDemos as a whole: whatever demo is loaded, and for any number  *)
(* of tasks and files and any bounds, it stays in its own memory, its      *)
(* structures are sound, and nothing is left behind.                       *)
(***************************************************************************)
EXTENDS DriverDemos, DataDemosProofs, FileDemosProofs

(* globalfifo of ch8 and ch9: how far loading is while files are open, on  *)
(* which queues a task in a call may have entries, and, unless one has     *)
(* come too early, that the mutex is taken only when all is initialised.   *)
Opened == {"mutex", "broken", "r_wait", "w_wait", "loaded"}
LoadPlaces == Opened \cup {"out", "kzalloc", "setup", "kfree", "unregister"}
LoadTyped ==
    /\ npc \in [Tasks -> N!PCs] /\ filp \in [Tasks -> {"closed", "block", "nonblock"}]
    /\ op \in [Tasks -> N!Transfers \cup N!Polls \cup {"clear", "none", "fasync"}]
    /\ wait \in [N!Transfers -> SUBSET Tasks] /\ async_queue \subseteq Tasks
    /\ dead \subseteq Tasks /\ lmod \in LoadPlaces
LoadPhase ==
    /\ lmod \notin Opened => lcdev = FALSE
    /\ lmod \in Opened \cup {"setup", "kfree"} => ldev = TRUE
    /\ lmod \notin Opened \cup {"setup", "kfree"} => ldev = FALSE
    /\ lmod # "out" => lregion = TRUE
    /\ lmod = "out" => lregion = FALSE
FilesOpen ==
    /\ \A t \in Tasks : filp[t] # "closed" => lmod \in Opened
    /\ \A t \in async_queue : filp[t] # "closed"
Waiting(t) ==
    /\ \A q \in N!Transfers : t \in wait[q] => npc[t] # "idle" /\ (op[t] = q \/ op[t] \in N!Polls)
    /\ npc[t] \in N!QueuedPCs => op[t] \in N!Transfers
    /\ npc[t] \in {"check", "pollwait", "polldone"} => op[t] \in N!Polls
    /\ npc[t] \in {"zero", "clrout"} => op[t] = "clear"
InTime ==
    /\ dead = {} /\ (lmod # "loaded" => mutex = NULL)
    /\ mutex \in Tasks \cup {NULL}
    /\ \A t \in Tasks : mutex = t => npc[t] \in N!HoldPCs
    /\ \A t \in Tasks : npc[t] # "idle" => filp[t] # "closed"
LoadInv ==
    /\ LoadTyped /\ LoadPhase /\ FilesOpen
    /\ \A t \in Tasks : Waiting(t)
    /\ ~early => InTime

\* The module starts out, with no file open and no call under way.
LEMMA LoadStart == ASSUME LoadParameters, N!LoadInit PROVE LoadInv
<1>1. /\ npc = [p \in Tasks |-> "idle"] /\ op = [p \in Tasks |-> "none"]
      /\ filp = [p \in Tasks |-> "closed"] /\ wait = [q \in N!Transfers |-> {}]
      /\ async_queue = {} /\ mutex = NULL /\ lmod = "out" /\ dead = {}
      /\ lregion = FALSE /\ ldev = FALSE /\ lcdev = FALSE
  BY DEF N!LoadInit, N!Init
<1>2. LoadTyped
  BY <1>1 DEF LoadTyped, LoadPlaces, N!PCs
<1>3. LoadPhase
  BY <1>1 DEF LoadPhase, Opened
<1>4. FilesOpen /\ InTime
  BY <1>1 DEF FilesOpen, InTime
<1>5. \A t \in Tasks : Waiting(t)
  BY <1>1 DEF Waiting, N!QueuedPCs
<1> QED  BY <1>2, <1>3, <1>4, <1>5 DEF LoadInv

\* What a step of a task inside a call may do: move that task, put it on and
\* take it off the queues, and take the mutex or give it back.
CallMoves(t) ==
    /\ npc' \in [Tasks -> N!PCs] /\ wait' \in [N!Transfers -> SUBSET Tasks]
    /\ op' \in [Tasks -> N!Transfers \cup N!Polls \cup {"clear", "none", "fasync"}]
    /\ filp' = filp /\ async_queue' = async_queue
    /\ \A u \in Tasks : u # t => npc'[u] = npc[u] /\ op'[u] = op[u]
    /\ \A q \in N!Transfers : \A u \in Tasks : u # t => (u \in wait'[q] => u \in wait[q])
    /\ Waiting(t)'
    /\ \/ mutex' = NULL
       \/ mutex' = t /\ mutex = NULL /\ npc'[t] \in N!HoldPCs
       \/ mutex' = mutex /\ (npc[t] \in N!HoldPCs => npc'[t] \in N!HoldPCs)
    /\ npc[t] # "idle"

\* Each step of a read or write is such a move.
LEMMA TransferMoves ==
    ASSUME LoadTyped, NEW t \in Tasks, Waiting(t), N!TransferStep(t) PROVE CallMoves(t)
<1>0. /\ npc \in [Tasks -> N!PCs] /\ wait \in [N!Transfers -> SUBSET Tasks]
      /\ op \in [Tasks -> N!Transfers \cup N!Polls \cup {"clear", "none", "fasync"}]
  BY DEF LoadTyped
\* Steps that move the task within the critical section, or outside of it.
<1>a. ASSUME NEW from \in N!PCs, NEW to \in N!PCs, N!Step(t, from, to),
             from \in N!QueuedPCs, to \in N!QueuedPCs, from \in N!HoldPCs => to \in N!HoldPCs,
             UNCHANGED <<mutex, wait, async_queue, op, filp>>
      PROVE  CallMoves(t)
  <2>1. npc[t] = from /\ npc' = [npc EXCEPT ![t] = to]
    BY <1>a DEF N!Step
  <2>2. npc'[t] = to /\ npc' \in [Tasks -> N!PCs] /\ \A u \in Tasks : u # t => npc'[u] = npc[u]
    BY <1>0, <2>1
  <2>3. Waiting(t)'
    BY <1>a, <2>1, <2>2 DEF Waiting, N!QueuedPCs
  <2>4. npc[t] # "idle"
    BY <1>a, <2>1 DEF N!QueuedPCs
  <2> QED  BY <1>0, <1>a, <2>1, <2>2, <2>3, <2>4 DEF CallMoves
<1>b. /\ "test" \in N!HoldPCs /\ "unlock" \in N!HoldPCs /\ "copy" \in N!HoldPCs /\ "update" \in N!HoldPCs
      /\ "wake" \in N!HoldPCs /\ "sigio" \in N!HoldPCs /\ "out" \in N!HoldPCs
      /\ "sched" \notin N!HoldPCs /\ "relock" \notin N!HoldPCs /\ "out2" \notin N!HoldPCs
  BY DEF N!HoldPCs
<1>c. /\ N!HoldPCs \subseteq N!PCs /\ "sched" \in N!PCs /\ "relock" \in N!PCs /\ "out2" \in N!PCs
      /\ "idle" \in N!PCs /\ "idle" \notin N!HoldPCs
  BY DEF N!PCs, N!HoldPCs
<1>d. /\ "test" \in N!QueuedPCs /\ "unlock" \in N!QueuedPCs /\ "copy" \in N!QueuedPCs
      /\ "update" \in N!QueuedPCs /\ "wake" \in N!QueuedPCs /\ "sigio" \in N!QueuedPCs
      /\ "out" \in N!QueuedPCs /\ "sched" \in N!QueuedPCs /\ "relock" \in N!QueuedPCs
      /\ "out2" \in N!QueuedPCs /\ "idle" \notin N!QueuedPCs
  BY DEF N!QueuedPCs
<1>1. CASE N!Go(t)
  <2>1. N!Step(t, "test", "copy") /\ UNCHANGED <<mutex, wait, async_queue, op, filp>>
    BY <1>1 DEF N!Go, N!waitVars, N!callVars
  <2> QED  BY <1>a, <1>b, <1>c, <1>d, <2>1
<1>2. CASE N!Again(t)
  <2>1. N!Step(t, "test", "out") /\ UNCHANGED <<mutex, wait, async_queue, op, filp>>
    BY <1>2 DEF N!Again, N!waitVars, N!callVars
  <2> QED  BY <1>a, <1>b, <1>c, <1>d, <2>1
<1>3. CASE N!Prepare(t)
  <2>1. N!Step(t, "test", "unlock") /\ UNCHANGED <<mutex, wait, async_queue, op, filp>>
    BY <1>3 DEF N!Prepare, N!waitVars, N!callVars
  <2> QED  BY <1>a, <1>b, <1>c, <1>d, <2>1
<1>4. CASE N!Woken(t)
  <2>1. N!Step(t, "sched", "relock") /\ UNCHANGED <<mutex, wait, async_queue, op, filp>>
    BY <1>4 DEF N!Woken, N!waitVars, N!callVars
  <2> QED  BY <1>a, <1>b, <1>c, <1>d, <2>1
<1>5. CASE N!Interrupted(t)
  <2>1. N!Step(t, "sched", "out2") /\ UNCHANGED <<mutex, wait, async_queue, op, filp>>
    BY <1>5 DEF N!Interrupted, N!waitVars, N!callVars
  <2> QED  BY <1>a, <1>b, <1>c, <1>d, <2>1
<1>6. CASE N!ReadCopy(t)
  <2>1. N!Step(t, "copy", "update") /\ UNCHANGED <<mutex, wait, async_queue, op, filp>>
    BY <1>6 DEF N!ReadCopy, N!waitVars, N!callVars
  <2> QED  BY <1>a, <1>b, <1>c, <1>d, <2>1
<1>7. CASE N!ReadFault(t)
  <2>1. N!Step(t, "copy", "out") /\ UNCHANGED <<mutex, wait, async_queue, op, filp>>
    BY <1>7 DEF N!ReadFault, N!waitVars, N!callVars
  <2> QED  BY <1>a, <1>b, <1>c, <1>d, <2>1
<1>8. CASE N!ReadShift(t)
  <2>1. N!Step(t, "update", "wake") /\ UNCHANGED <<mutex, wait, async_queue, op, filp>>
    BY <1>8 DEF N!ReadShift, N!waitVars, N!callVars
  <2> QED  BY <1>a, <1>b, <1>c, <1>d, <2>1
<1>9. CASE N!WriteCopy(t)
  <2>1. N!Step(t, "copy", "update") /\ UNCHANGED <<mutex, wait, async_queue, op, filp>>
    BY <1>9 DEF N!WriteCopy, N!waitVars, N!callVars
  <2> QED  BY <1>a, <1>b, <1>c, <1>d, <2>1
<1>10. CASE N!WriteFault(t)
  <2>1. N!Step(t, "copy", "out") /\ UNCHANGED <<mutex, wait, async_queue, op, filp>>
    BY <1>10 DEF N!WriteFault, N!waitVars, N!callVars
  <2> QED  BY <1>a, <1>b, <1>c, <1>d, <2>1
<1>11. CASE N!WriteCommit(t)
  <2>1. N!Step(t, "update", "wake") /\ UNCHANGED <<mutex, wait, async_queue, op, filp>>
    BY <1>11 DEF N!WriteCommit, N!waitVars, N!callVars
  <2> QED  BY <1>a, <1>b, <1>c, <1>d, <2>1
<1>12. CASE N!Sigio(t)
  <2>1. N!Step(t, "sigio", "out") /\ UNCHANGED <<mutex, wait, async_queue, op, filp>>
    BY <1>12 DEF N!Sigio, N!waitVars, N!callVars
  <2> QED  BY <1>a, <1>b, <1>c, <1>d, <2>1
<1>13. CASE N!TransferWake(t)
  <2>1. PICK to \in N!PCs : /\ N!Step(t, "wake", to) /\ to \in N!HoldPCs /\ to \in N!QueuedPCs
                            /\ UNCHANGED <<mutex, wait, async_queue, op, filp>>
    BY <1>13, <1>b, <1>c, <1>d DEF N!TransferWake, N!waitVars, N!callVars
  <2> QED  BY <1>a, <1>b, <1>c, <1>d, <2>1
<1>14. CASE N!TransferLock(t)
  <2>1. /\ op[t] \in N!Transfers /\ npc[t] = "lock" /\ npc' = [npc EXCEPT ![t] = "test"]
        /\ mutex = NULL /\ mutex' = t /\ wait' = [wait EXCEPT ![op[t]] = @ \cup {t}]
        /\ async_queue' = async_queue /\ op' = op /\ filp' = filp
    BY <1>14 DEF N!TransferLock, N!Step, N!Lock, N!callVars
  <2>2. npc'[t] = "test" /\ npc' \in [Tasks -> N!PCs] /\ \A u \in Tasks : u # t => npc'[u] = npc[u]
    BY <1>0, <1>b, <1>c, <2>1
  <2>3. /\ wait' \in [N!Transfers -> SUBSET Tasks]
        /\ \A q \in N!Transfers : wait'[q] = wait[q] \/ (q = op[t] /\ wait'[q] = wait[q] \cup {t})
    BY <1>0, <2>1
  <2>4. Waiting(t)'
    BY <2>1, <2>2, <2>3 DEF Waiting
  <2> QED  BY <1>0, <1>b, <2>1, <2>2, <2>3, <2>4 DEF CallMoves
<1>15. CASE N!Relock(t)
  <2>1. /\ npc[t] = "relock" /\ npc' = [npc EXCEPT ![t] = "test"] /\ mutex = NULL /\ mutex' = t
        /\ UNCHANGED <<wait, async_queue, op, filp>>
    BY <1>15 DEF N!Relock, N!Step, N!Lock, N!waitVars, N!callVars
  <2>2. npc'[t] = "test" /\ npc' \in [Tasks -> N!PCs] /\ \A u \in Tasks : u # t => npc'[u] = npc[u]
    BY <1>0, <1>b, <1>c, <2>1
  <2>3. Waiting(t)'
    BY <1>d, <2>1, <2>2 DEF Waiting
  <2> QED  BY <1>0, <1>b, <2>1, <2>2, <2>3 DEF CallMoves
<1>16. CASE N!UnlockToSleep(t)
  <2>1. /\ npc[t] = "unlock" /\ npc' = [npc EXCEPT ![t] = "sched"] /\ mutex' = NULL
        /\ UNCHANGED <<wait, async_queue, op, filp>>
    BY <1>16 DEF N!UnlockToSleep, N!Step, N!Unlock, N!waitVars, N!callVars
  <2>2. npc'[t] = "sched" /\ npc' \in [Tasks -> N!PCs] /\ \A u \in Tasks : u # t => npc'[u] = npc[u]
    BY <1>0, <1>c, <2>1
  <2>3. Waiting(t)'
    BY <1>d, <2>1, <2>2 DEF Waiting
  <2> QED  BY <1>0, <2>1, <2>2, <2>3 DEF CallMoves
<1>17. CASE N!Out(t)
  <2>1. /\ npc[t] = "out" /\ npc' = [npc EXCEPT ![t] = "out2"] /\ mutex' = NULL
        /\ UNCHANGED <<wait, async_queue, op, filp>>
    BY <1>17 DEF N!Out, N!Step, N!Unlock, N!waitVars, N!callVars
  <2>2. npc'[t] = "out2" /\ npc' \in [Tasks -> N!PCs] /\ \A u \in Tasks : u # t => npc'[u] = npc[u]
    BY <1>0, <1>c, <2>1
  <2>3. Waiting(t)'
    BY <1>d, <2>1, <2>2 DEF Waiting
  <2> QED  BY <1>0, <2>1, <2>2, <2>3 DEF CallMoves
<1>18. CASE N!Out2(t)
  <2>1. /\ npc[t] = "out2" /\ npc' = [npc EXCEPT ![t] = "idle"] /\ mutex' = mutex
        /\ op' = [op EXCEPT ![t] = "none"] /\ wait' = [wait EXCEPT ![op[t]] = @ \ {t}]
        /\ UNCHANGED <<async_queue, filp>>
    BY <1>18 DEF N!Out2, N!ReturnToUser, N!Step
  <2>2. npc'[t] = "idle" /\ npc' \in [Tasks -> N!PCs] /\ \A u \in Tasks : u # t => npc'[u] = npc[u]
    BY <1>0, <1>c, <2>1
  <2>3. op[t] \in N!Transfers
    BY <1>d, <2>1 DEF Waiting
  <2>4. \A q \in N!Transfers : t \in wait[q] => q = op[t]
    BY <2>3 DEF Waiting, N!Transfers, N!Polls
  <2>5. /\ wait' \in [N!Transfers -> SUBSET Tasks]
        /\ \A q \in N!Transfers : wait'[q] \subseteq wait[q] /\ t \notin wait'[q]
    BY <1>0, <2>1, <2>3, <2>4
  <2>6. Waiting(t)'
    BY <1>d, <2>2, <2>5 DEF Waiting
  <2>7. op' \in [Tasks -> N!Transfers \cup N!Polls \cup {"clear", "none", "fasync"}]
        /\ \A u \in Tasks : u # t => op'[u] = op[u]
    BY <1>0, <2>1
  <2> QED  BY <1>b, <2>1, <2>2, <2>5, <2>6, <2>7 DEF CallMoves
<1> QED
  BY <1>1, <1>2, <1>3, <1>4, <1>5, <1>6, <1>7, <1>8, <1>9, <1>10, <1>11, <1>12, <1>13, <1>14, <1>15, <1>16, <1>17, <1>18
  DEF N!TransferStep, N!Read, N!Write

\* Each step of a poll is such a move.
LEMMA PollMoves ==
    ASSUME LoadTyped, NEW t \in Tasks, Waiting(t), N!PollStep(t) PROVE CallMoves(t)
<1>0. /\ npc \in [Tasks -> N!PCs] /\ wait \in [N!Transfers -> SUBSET Tasks]
      /\ op \in [Tasks -> N!Transfers \cup N!Polls \cup {"clear", "none", "fasync"}]
  BY DEF LoadTyped
<1>a. /\ "check" \in N!HoldPCs /\ "pollwait" \notin N!HoldPCs /\ "polldone" \notin N!HoldPCs
      /\ "lock" \notin N!HoldPCs
  BY DEF N!HoldPCs
<1>b. /\ N!HoldPCs \subseteq N!PCs /\ "pollwait" \in N!PCs /\ "polldone" \in N!PCs
      /\ "lock" \in N!PCs /\ "idle" \in N!PCs
  BY DEF N!PCs
<1>c. /\ "check" \notin N!QueuedPCs /\ "pollwait" \notin N!QueuedPCs /\ "lock" \notin N!QueuedPCs
      /\ "polldone" \notin N!QueuedPCs /\ "idle" \notin N!QueuedPCs
  BY DEF N!QueuedPCs
<1>1. CASE N!PollLock(t)
  <2>1. /\ op[t] \in N!Polls /\ npc[t] = "lock" /\ npc' = [npc EXCEPT ![t] = "check"]
        /\ mutex = NULL /\ mutex' = t /\ UNCHANGED <<wait, async_queue, op, filp>>
    BY <1>1 DEF N!PollLock, N!Step, N!Lock, N!waitVars, N!callVars
  <2>2. npc'[t] = "check" /\ npc' \in [Tasks -> N!PCs] /\ \A u \in Tasks : u # t => npc'[u] = npc[u]
    BY <1>0, <1>a, <1>b, <2>1
  <2>3. Waiting(t)'
    BY <1>c, <2>1, <2>2 DEF Waiting
  <2> QED  BY <1>0, <1>a, <2>1, <2>2, <2>3 DEF CallMoves
<1>2. CASE N!PollCheck(t)
  <2>1. PICK to \in N!PCs :
           /\ npc[t] = "check" /\ npc' = [npc EXCEPT ![t] = to] /\ to \in {"polldone", "pollwait"}
           /\ mutex' = NULL /\ wait' = [q \in N!Transfers |-> wait[q] \cup {t}]
           /\ UNCHANGED <<async_queue, op, filp>>
    BY <1>2, <1>b DEF N!PollCheck, N!Unlock, N!Step, N!callVars
  <2>2. npc'[t] = to /\ npc' \in [Tasks -> N!PCs] /\ \A u \in Tasks : u # t => npc'[u] = npc[u]
    BY <1>0, <2>1
  <2>3. op[t] \in N!Polls
    BY <2>1 DEF Waiting
  <2>4. Waiting(t)'
    BY <1>c, <2>1, <2>2, <2>3 DEF Waiting
  <2>5. /\ wait' \in [N!Transfers -> SUBSET Tasks]
        /\ \A q \in N!Transfers : wait'[q] = wait[q] \cup {t}
    BY <1>0, <2>1
  <2> QED  BY <1>0, <2>1, <2>2, <2>4, <2>5 DEF CallMoves
<1>3. CASE N!PollAgain(t)
  <2>1. /\ npc[t] = "pollwait" /\ npc' = [npc EXCEPT ![t] = "lock"] /\ mutex' = mutex
        /\ UNCHANGED <<wait, async_queue, op, filp>>
    BY <1>3 DEF N!PollAgain, N!Step, N!waitVars, N!callVars
  <2>2. npc'[t] = "lock" /\ npc' \in [Tasks -> N!PCs] /\ \A u \in Tasks : u # t => npc'[u] = npc[u]
    BY <1>0, <1>b, <2>1
  <2>3. Waiting(t)'
    BY <1>c, <2>1, <2>2 DEF Waiting
  <2> QED  BY <1>0, <1>a, <2>1, <2>2, <2>3 DEF CallMoves
<1>4. CASE N!PollDone(t)
  <2>1. /\ npc[t] = "polldone" /\ npc' = [npc EXCEPT ![t] = "idle"] /\ mutex' = mutex
        /\ op' = [op EXCEPT ![t] = "none"] /\ wait' = [q \in N!Transfers |-> wait[q] \ {t}]
        /\ UNCHANGED <<async_queue, filp>>
    BY <1>4 DEF N!PollDone, N!ReturnToUser, N!Step
  <2>2. npc'[t] = "idle" /\ npc' \in [Tasks -> N!PCs] /\ \A u \in Tasks : u # t => npc'[u] = npc[u]
    BY <1>0, <1>b, <2>1
  <2>3. /\ wait' \in [N!Transfers -> SUBSET Tasks]
        /\ \A q \in N!Transfers : wait'[q] \subseteq wait[q] /\ t \notin wait'[q]
    BY <1>0, <2>1
  <2>4. Waiting(t)'
    BY <1>c, <2>2, <2>3 DEF Waiting
  <2>5. op' \in [Tasks -> N!Transfers \cup N!Polls \cup {"clear", "none", "fasync"}]
        /\ \A u \in Tasks : u # t => op'[u] = op[u]
    BY <1>0, <2>1
  <2> QED  BY <1>a, <2>1, <2>2, <2>3, <2>4, <2>5 DEF CallMoves
<1> QED  BY <1>1, <1>2, <1>3, <1>4 DEF N!PollStep

\* Each step of the clearing ioctl is such a move.
LEMMA ClearMoves ==
    ASSUME LoadTyped, NEW t \in Tasks, Waiting(t), N!ClearStep(t) PROVE CallMoves(t)
<1>0. /\ npc \in [Tasks -> N!PCs] /\ wait \in [N!Transfers -> SUBSET Tasks]
      /\ op \in [Tasks -> N!Transfers \cup N!Polls \cup {"clear", "none", "fasync"}]
  BY DEF LoadTyped
<1>a. /\ "zero" \in N!HoldPCs /\ "clrout" \in N!HoldPCs /\ N!HoldPCs \subseteq N!PCs
      /\ "idle" \in N!PCs
  BY DEF N!HoldPCs, N!PCs
<1>c. "zero" \notin N!QueuedPCs /\ "clrout" \notin N!QueuedPCs /\ "idle" \notin N!QueuedPCs
  BY DEF N!QueuedPCs
<1>1. CASE N!ClearLock(t)
  <2>1. /\ op[t] = "clear" /\ npc[t] = "lock" /\ npc' = [npc EXCEPT ![t] = "zero"]
        /\ mutex = NULL /\ mutex' = t /\ UNCHANGED <<wait, async_queue, op, filp>>
    BY <1>1 DEF N!ClearLock, N!Step, N!Lock, N!waitVars, N!callVars
  <2>2. npc'[t] = "zero" /\ npc' \in [Tasks -> N!PCs] /\ \A u \in Tasks : u # t => npc'[u] = npc[u]
    BY <1>0, <1>a, <2>1
  <2>3. Waiting(t)'
    BY <1>c, <2>1, <2>2 DEF Waiting
  <2> QED  BY <1>0, <1>a, <2>1, <2>2, <2>3 DEF CallMoves
<1>2. CASE N!ClearZero(t)
  <2>1. /\ npc[t] = "zero" /\ npc' = [npc EXCEPT ![t] = "clrout"]
        /\ mutex' = mutex /\ UNCHANGED <<wait, async_queue, op, filp>>
    BY <1>2 DEF N!ClearZero, N!Step, N!waitVars, N!callVars
  <2>2. npc'[t] = "clrout" /\ npc' \in [Tasks -> N!PCs] /\ \A u \in Tasks : u # t => npc'[u] = npc[u]
    BY <1>0, <1>a, <2>1
  <2>3. Waiting(t)'
    BY <1>c, <2>1, <2>2 DEF Waiting
  <2> QED  BY <1>0, <1>a, <2>1, <2>2, <2>3 DEF CallMoves
<1>3. CASE N!ClearOut(t)
  <2>1. /\ npc[t] = "clrout" /\ npc' = [npc EXCEPT ![t] = "idle"] /\ mutex' = NULL
        /\ op' = [op EXCEPT ![t] = "none"] /\ UNCHANGED <<wait, async_queue, filp>>
    BY <1>3 DEF N!ClearOut, N!ReturnToUser, N!Step, N!Unlock
  <2>2. npc'[t] = "idle" /\ npc' \in [Tasks -> N!PCs] /\ \A u \in Tasks : u # t => npc'[u] = npc[u]
    BY <1>0, <1>a, <2>1
  <2>3. \A q \in N!Transfers : t \notin wait[q]
    BY <2>1 DEF Waiting, N!Transfers, N!Polls
  <2>4. Waiting(t)'
    BY <1>c, <2>1, <2>2, <2>3 DEF Waiting
  <2>5. op' \in [Tasks -> N!Transfers \cup N!Polls \cup {"clear", "none", "fasync"}]
        /\ \A u \in Tasks : u # t => op'[u] = op[u]
    BY <1>0, <2>1
  <2> QED  BY <1>0, <2>1, <2>2, <2>4, <2>5 DEF CallMoves
<1> QED  BY <1>1, <1>2, <1>3 DEF N!ClearStep

\* A call that gets the mutex before all is initialised is early.
LEMMA LoadCallStep ==
    ASSUME LoadParameters, LoadInv, NEW t \in Tasks, N!Call(t) PROVE LoadInv'
<1>0. /\ LoadTyped /\ LoadPhase /\ FilesOpen /\ \A u \in Tasks : Waiting(u)
      /\ ~early => InTime
  BY DEF LoadInv
<1>1. CallMoves(t)
  BY <1>0, TransferMoves, PollMoves, ClearMoves DEF N!Call, N!InCall
<1>2. /\ lmod' = lmod /\ lregion' = lregion /\ ldev' = ldev /\ lcdev' = lcdev /\ dead' = dead
  BY DEF N!Call, N!moduleVars
<1>3. LoadTyped' /\ LoadPhase' /\ FilesOpen'
  BY <1>0, <1>1, <1>2 DEF CallMoves, LoadTyped, LoadPhase, FilesOpen
<1>4. ASSUME NEW u \in Tasks PROVE Waiting(u)'
  BY <1>0, <1>1 DEF CallMoves, Waiting
<1>5. ASSUME ~early' PROVE InTime'
  <2>1. ~early /\ ~(lmod # "loaded" /\ mutex # t /\ mutex' = t)
    <3>1. early' = (early \/ (lmod # "loaded" /\ mutex # t /\ mutex' = t))
      BY DEF N!Call, N!Early
    <3>2. ~(early \/ (lmod # "loaded" /\ mutex # t /\ mutex' = t))
      BY <1>5, <3>1
    <3> QED  BY <3>2
  <2>2. InTime
    BY <1>0, <2>1
  <2>3. NULL \notin Tasks
    BY DEF LoadParameters, N!ProcsAssumption
  <2>4. lmod # "loaded" => mutex' = NULL
    BY <1>1, <2>1, <2>2, <2>3 DEF CallMoves, InTime
  <2>5. mutex' \in Tasks \cup {NULL} /\ \A u \in Tasks : mutex' = u => npc'[u] \in N!HoldPCs
    BY <1>1, <2>2, <2>3 DEF CallMoves, InTime
  <2>6. \A u \in Tasks : npc'[u] # "idle" => filp'[u] # "closed"
    BY <1>1, <2>2 DEF CallMoves, InTime
  <2> QED  BY <1>2, <2>2, <2>4, <2>5, <2>6 DEF InTime
<1> QED  BY <1>3, <1>4, <1>5 DEF LoadInv

\* Opening, closing and asking for SIGIO, by a task that is in no call.
LEMMA LoadFilesMove ==
    ASSUME LoadInv, NEW t \in Tasks, npc[t] = "idle",
           UNCHANGED <<lmod, lregion, ldev, lcdev, dead, early, npc, op, wait, mutex>>,
           NEW m \in {"closed", "block", "nonblock"}, filp' = [filp EXCEPT ![t] = m],
           m # "closed" => lmod \in Opened,
           async_queue' \subseteq async_queue \cup {t},
           t \in async_queue' => m # "closed"
    PROVE  LoadInv'
<1>0. /\ LoadTyped /\ LoadPhase /\ FilesOpen /\ \A u \in Tasks : Waiting(u)
      /\ ~early => InTime
  BY DEF LoadInv
<1>1. filp' \in [Tasks -> {"closed", "block", "nonblock"}] /\ async_queue' \subseteq Tasks
      /\ filp'[t] = m /\ \A u \in Tasks : u # t => filp'[u] = filp[u]
  BY <1>0 DEF LoadTyped
<1>2. LoadTyped' /\ LoadPhase'
  BY <1>0, <1>1 DEF LoadTyped, LoadPhase
<1>3. FilesOpen'
  BY <1>0, <1>1 DEF FilesOpen
<1>4. \A u \in Tasks : Waiting(u)'
  BY <1>0 DEF Waiting
<1>5. InTime => InTime'
  BY <1>1 DEF InTime
<1>6. ~early' => InTime'
  BY <1>0, <1>5
<1> QED  BY <1>2, <1>3, <1>4, <1>6 DEF LoadInv

\* open, release and the start of a call, of a file that is open.
LEMMA LoadFileStep ==
    ASSUME LoadParameters, LoadInv, NEW t \in Tasks, N!File(t) PROVE LoadInv'
<1>0. /\ LoadTyped /\ LoadPhase /\ FilesOpen /\ \A u \in Tasks : Waiting(u)
      /\ ~early => InTime
  BY DEF LoadInv
<1>1. CASE N!OpenFile(t)
  <2>1. /\ npc[t] = "idle" /\ lcdev /\ filp[t] = "closed"
        /\ UNCHANGED <<lmod, lregion, ldev, lcdev, dead, early, npc, op, wait, mutex, async_queue>>
    BY <1>1 DEF N!OpenFile, N!Open, N!loadVars, N!moduleVars, N!waitVars
  <2>2. PICK m \in {"block", "nonblock"} : filp' = [filp EXCEPT ![t] = m]
    BY <1>1 DEF N!OpenFile, N!Open
  <2>3. lmod \in Opened /\ t \notin async_queue
    BY <1>0, <2>1 DEF LoadPhase, FilesOpen
  <2>4. m \in {"closed", "block", "nonblock"}
    BY <2>2
  <2> QED  BY <2>1, <2>2, <2>3, <2>4, LoadFilesMove
<1>2. CASE N!Close(t)
  <2>1. /\ npc[t] = "idle" /\ filp' = [filp EXCEPT ![t] = "closed"]
        /\ async_queue' = async_queue \ {t}
        /\ UNCHANGED <<lmod, lregion, ldev, lcdev, dead, early, npc, op, wait, mutex>>
    BY <1>2 DEF N!Close, N!Release, N!loadVars, N!moduleVars
  <2> QED  BY <2>1, LoadFilesMove
<1>3. CASE N!Sigio9(t)
  <2>1. /\ npc[t] = "idle" /\ filp[t] # "closed" /\ filp' = filp
        /\ async_queue' \in {async_queue \cup {t}, async_queue \ {t}}
        /\ UNCHANGED <<lmod, lregion, ldev, lcdev, dead, early, npc, op, wait, mutex>>
    BY <1>3 DEF N!Sigio9, N!Fasync, N!loadVars, N!moduleVars, N!callVars
  <2>2. filp' = [filp EXCEPT ![t] = filp[t]] /\ filp[t] \in {"closed", "block", "nonblock"}
    BY <1>0, <2>1 DEF LoadTyped
  <2>3. lmod \in Opened
    BY <1>0, <2>1 DEF FilesOpen
  <2> QED  BY <2>1, <2>2, <2>3, LoadFilesMove
<1>4. CASE N!Enter(t) /\ UNCHANGED N!loadVars
  <2>1. /\ npc[t] = "idle" /\ filp[t] # "closed" /\ npc' = [npc EXCEPT ![t] = "lock"]
        /\ UNCHANGED <<lmod, lregion, ldev, lcdev, dead, early, wait, mutex, async_queue, filp>>
    BY <1>4 DEF N!Enter, N!Step, N!loadVars, N!moduleVars, N!waitVars
  <2>2. PICK o \in CallsOf[t] \ {"fasync"} : op' = [op EXCEPT ![t] = o]
    BY <1>4 DEF N!Enter
  <2>3. o \in N!Transfers \cup N!Polls \cup {"clear", "none", "fasync"}
    BY <2>2 DEF LoadParameters, N!ProcsAssumption, N!CallsAssumption, N!Transfers, N!Polls
  <2>4. /\ npc'[t] = "lock" /\ \A u \in Tasks : u # t => npc'[u] = npc[u] /\ op'[u] = op[u]
        /\ op' \in [Tasks -> N!Transfers \cup N!Polls \cup {"clear", "none", "fasync"}]
        /\ npc' \in [Tasks -> N!PCs]
    BY <1>0, <2>1, <2>2, <2>3 DEF LoadTyped, N!PCs
  <2>5. LoadTyped' /\ LoadPhase' /\ FilesOpen'
    BY <1>0, <2>1, <2>4 DEF LoadTyped, LoadPhase, FilesOpen
  <2>6. \A q \in N!Transfers : t \notin wait[q]
    BY <1>0, <2>1 DEF Waiting
  <2>7. Waiting(t)'
    BY <2>1, <2>4, <2>6 DEF Waiting, N!QueuedPCs
  <2>8. \A u \in Tasks : Waiting(u)'
    BY <1>0, <2>1, <2>4, <2>7 DEF Waiting
  <2>9. InTime => InTime'
    <3>1. "idle" \notin N!HoldPCs
      BY DEF N!HoldPCs
    <3> QED  BY <2>1, <2>4, <3>1 DEF InTime
  <2>10. ~early' => InTime'
    BY <1>0, <2>1, <2>9
  <2> QED  BY <2>5, <2>8, <2>10 DEF LoadInv
<1>5. CASE (N!Kill(t) \/ N!PollTimeout(t)) /\ UNCHANGED N!loadVars
  <2>1. UNCHANGED <<lmod, lregion, ldev, lcdev, dead, early, npc, op, wait, mutex, async_queue, filp>>
    BY <1>5 DEF N!Kill, N!PollTimeout, N!loadVars, N!moduleVars, N!waitVars, N!callVars
  <2> QED  BY <1>0, <2>1 DEF LoadInv, LoadTyped, LoadPhase, FilesOpen, Waiting, InTime
<1>6. CASE N!LockOops(t)
  <2>1. /\ lmod = "mutex" /\ mutex # NULL /\ dead' = dead \cup {t}
        /\ UNCHANGED <<lmod, lregion, ldev, lcdev, early, npc, op, wait, mutex, async_queue, filp>>
    BY <1>6 DEF N!LockOops, N!moduleVars, N!vars, N!waitVars, N!callVars
  <2>2. ~InTime
    BY <2>1 DEF InTime
  <2>3. LoadTyped' /\ LoadPhase' /\ FilesOpen' /\ \A u \in Tasks : Waiting(u)'
    BY <1>0, <2>1 DEF LoadTyped, LoadPhase, FilesOpen, Waiting
  <2>4. ~early' => InTime'
    BY <1>0, <2>1, <2>2
  <2> QED  BY <2>3, <2>4 DEF LoadInv
<1>7. CASE N!WaitOops(t)
  <2>1. /\ dead' = dead \cup {t} /\ early' = TRUE
        /\ UNCHANGED <<lmod, lregion, ldev, lcdev, npc, op, wait, async_queue, filp>>
    BY <1>7 DEF N!WaitOops, N!moduleVars, N!waitVars, N!callVars
  <2>2. LoadTyped' /\ LoadPhase' /\ FilesOpen' /\ \A u \in Tasks : Waiting(u)'
    BY <1>0, <2>1 DEF LoadTyped, LoadPhase, FilesOpen, Waiting
  <2>3. ~early' => InTime'
    BY <2>1
  <2> QED  BY <2>2, <2>3 DEF LoadInv
<1> QED
  BY <1>1, <1>2, <1>3, <1>4, <1>5, <1>6, <1>7, LoadCallStep
  DEF N!File, N!Others, N!ReadCall, N!WriteCall, N!PollCall, N!IoctlCall

\* The files of a task that has died.
LEMMA LoadDeadStep == ASSUME LoadInv, NEW t \in Tasks, N!DeadCloses(t) PROVE LoadInv'
<1>0. /\ LoadTyped /\ LoadPhase /\ FilesOpen /\ \A u \in Tasks : Waiting(u)
      /\ ~early => InTime
  BY DEF LoadInv
<1>1. /\ t \in dead /\ filp' = [filp EXCEPT ![t] = "closed"] /\ async_queue' = async_queue \ {t}
      /\ UNCHANGED <<lmod, lregion, ldev, lcdev, dead, early, npc, op, wait, mutex>>
  BY DEF N!DeadCloses, N!loadVars, N!moduleVars
<1>2. filp' \in [Tasks -> {"closed", "block", "nonblock"}]
      /\ filp'[t] = "closed" /\ \A u \in Tasks : u # t => filp'[u] = filp[u]
  BY <1>0, <1>1 DEF LoadTyped
<1>3. LoadTyped' /\ LoadPhase'
  BY <1>0, <1>1, <1>2 DEF LoadTyped, LoadPhase
<1>4. FilesOpen' /\ \A u \in Tasks : Waiting(u)'
  BY <1>0, <1>1, <1>2 DEF FilesOpen, Waiting, LoadTyped
<1>5. ~InTime
  BY <1>1 DEF InTime
<1>6. ~early' => InTime'
  BY <1>0, <1>1, <1>5
<1> QED  BY <1>3, <1>4, <1>6 DEF LoadInv

\* Loading and unloading.
LEMMA LoadModuleMoves ==
    ASSUME LoadParameters, LoadInv, UNCHANGED <<npc, op, filp, dead, early>>,
           lmod' \in LoadPlaces, LoadPhase',
           lmod' \in Opened \/ \A t \in Tasks : filp[t] = "closed",
           wait' = wait \/ wait' = [q \in N!Transfers |-> {}],
           async_queue' = async_queue \/ async_queue' = {},
           ~early => (mutex' = NULL \/ (mutex' = mutex /\ lmod' = "loaded"))
    PROVE  LoadInv'
<1>0. /\ LoadTyped /\ LoadPhase /\ FilesOpen /\ \A u \in Tasks : Waiting(u)
      /\ ~early => InTime
  BY DEF LoadInv
<1>1. LoadTyped' /\ FilesOpen'
  BY <1>0 DEF LoadTyped, FilesOpen
<1>2. \A u \in Tasks : Waiting(u)'
  BY <1>0 DEF Waiting
<1>3. ASSUME ~early' PROVE InTime'
  <2>1. InTime /\ (mutex' = NULL \/ (mutex' = mutex /\ lmod' = "loaded"))
    BY <1>0, <1>3
  <2>2. (lmod' # "loaded" => mutex' = NULL) /\ mutex' \in Tasks \cup {NULL}
    BY <2>1 DEF InTime
  <2>3. \A t \in Tasks : mutex' = t => npc[t] \in N!HoldPCs
    BY <2>1 DEF InTime, LoadParameters, N!ProcsAssumption
  <2> QED  BY <2>1, <2>2, <2>3 DEF InTime
<1> QED  BY <1>1, <1>2, <1>3 DEF LoadInv

\* Each step of loading and unloading, also when it fails.
LEMMA LoadModuleStep == ASSUME LoadParameters, LoadInv, N!Module PROVE LoadInv'
<1>0. /\ LoadTyped /\ LoadPhase /\ FilesOpen /\ (~early => InTime)
  BY DEF LoadInv
<1>a. lmod \notin Opened => \A t \in Tasks : filp[t] = "closed"
  BY <1>0 DEF FilesOpen
<1>b. lmod # "loaded" => (~early => mutex = NULL)
  BY <1>0 DEF InTime
<1> USE DEF N!vars, N!devVars, N!waitVars, N!taskVars, N!callVars, N!Phase
<1>1. CASE N!RegisterRegion
  <2>1. /\ lmod = "out" /\ lmod' = "kzalloc" /\ lregion' = TRUE /\ UNCHANGED <<ldev, lcdev, dead, early>>
        /\ UNCHANGED <<npc, op, filp, wait, async_queue, mutex>>
    BY <1>1 DEF N!RegisterRegion
  <2>2. lmod' \in LoadPlaces /\ LoadPhase' /\ lmod \notin Opened /\ lmod # "loaded"
    BY <1>0, <2>1 DEF LoadPhase, LoadPlaces, Opened
  <2> QED  BY <1>a, <1>b, <2>1, <2>2, LoadModuleMoves
<1>2. CASE N!Kzalloc
  <2>1. /\ lmod = "kzalloc" /\ lmod' = "setup" /\ ldev' = TRUE /\ UNCHANGED <<lregion, lcdev, dead, early>>
        /\ UNCHANGED <<npc, op, filp>> /\ mutex' = NULL /\ async_queue' = {}
        /\ wait' = [q \in N!Transfers |-> {}]
    BY <1>2 DEF N!Kzalloc
  <2>2. lmod' \in LoadPlaces /\ LoadPhase' /\ lmod \notin Opened
    BY <1>0, <2>1 DEF LoadPhase, LoadPlaces, Opened
  <2> QED  BY <1>a, <2>1, <2>2, LoadModuleMoves
<1>3. CASE N!FailMalloc
  <2>1. /\ lmod = "kzalloc" /\ lmod' = "out" /\ lregion' = FALSE /\ UNCHANGED <<ldev, lcdev, dead, early>>
        /\ UNCHANGED <<npc, op, filp, wait, async_queue, mutex>>
    BY <1>3 DEF N!FailMalloc
  <2>2. lmod' \in LoadPlaces /\ LoadPhase' /\ lmod \notin Opened /\ lmod # "loaded"
    BY <1>0, <2>1 DEF LoadPhase, LoadPlaces, Opened
  <2> QED  BY <1>a, <1>b, <2>1, <2>2, LoadModuleMoves
<1>4. CASE N!SetupCdev
  <2>1. /\ lmod = "setup" /\ lmod' = "mutex" /\ UNCHANGED <<lregion, ldev, dead, early>>
        /\ UNCHANGED <<npc, op, filp, wait, async_queue, mutex>>
    BY <1>4 DEF N!SetupCdev
  <2>2. lmod' \in LoadPlaces /\ LoadPhase' /\ lmod' \in Opened /\ lmod # "loaded"
    BY <1>0, <2>1 DEF LoadPhase, LoadPlaces, Opened
  <2> QED  BY <1>b, <2>1, <2>2, LoadModuleMoves
<1>5. CASE N!MutexInit
  <2>1. /\ lmod = "mutex" /\ lmod' \in {"r_wait", "broken"} /\ mutex' = NULL
        /\ UNCHANGED <<lregion, ldev, lcdev, dead, early>>
        /\ UNCHANGED <<npc, op, filp, wait, async_queue>>
    BY <1>5 DEF N!MutexInit
  <2>2. lmod' \in LoadPlaces /\ LoadPhase' /\ lmod' \in Opened
    BY <1>0, <2>1 DEF LoadPhase, LoadPlaces, Opened
  <2> QED  BY <2>1, <2>2, LoadModuleMoves
<1>6. CASE N!InitQueues
  <2>1. /\ lmod \in {"r_wait", "w_wait"} /\ lmod' \in {"w_wait", "loaded"}
        /\ UNCHANGED <<lregion, ldev, lcdev, dead, early>>
        /\ UNCHANGED <<npc, op, filp, wait, async_queue, mutex>>
    BY <1>6 DEF N!InitQueues
  <2>2. lmod' \in LoadPlaces /\ LoadPhase' /\ lmod' \in Opened /\ lmod # "loaded"
    BY <1>0, <2>1 DEF LoadPhase, LoadPlaces, Opened
  <2> QED  BY <1>b, <2>1, <2>2, LoadModuleMoves
<1>7. CASE N!CdevDel
  <2>1. /\ lmod = "loaded" /\ lmod' = "kfree" /\ lcdev' = FALSE /\ \A t \in Tasks : filp[t] = "closed"
        /\ UNCHANGED <<lregion, ldev, dead, early>>
        /\ UNCHANGED <<npc, op, filp, wait, async_queue, mutex>>
    BY <1>7 DEF N!CdevDel
  <2>2. lmod' \in LoadPlaces /\ LoadPhase'
    BY <1>0, <2>1 DEF LoadPhase, LoadPlaces, Opened
  <2>3. ASSUME InTime PROVE mutex = NULL
    <3>1. \A t \in Tasks : npc[t] \notin N!HoldPCs
      BY <2>1, <2>3 DEF InTime, N!HoldPCs
    <3> QED  BY <2>3, <3>1 DEF InTime
  <2>4. ~early => mutex' = NULL
    BY <1>0, <2>1, <2>3
  <2> QED  BY <2>1, <2>2, <2>4, LoadModuleMoves
<1>8. CASE N!Kfree
  <2>1. /\ lmod = "kfree" /\ lmod' = "unregister" /\ ldev' = FALSE
        /\ UNCHANGED <<lregion, lcdev, dead, early>>
        /\ UNCHANGED <<npc, op, filp, wait, async_queue, mutex>>
    BY <1>8 DEF N!Kfree
  <2>2. lmod' \in LoadPlaces /\ LoadPhase' /\ lmod \notin Opened /\ lmod # "loaded"
    BY <1>0, <2>1 DEF LoadPhase, LoadPlaces, Opened
  <2> QED  BY <1>a, <1>b, <2>1, <2>2, LoadModuleMoves
<1>9. CASE N!Unregister
  <2>1. /\ lmod = "unregister" /\ lmod' = "out" /\ lregion' = FALSE
        /\ UNCHANGED <<ldev, lcdev, dead, early>>
        /\ UNCHANGED <<npc, op, filp, wait, async_queue, mutex>>
    BY <1>9 DEF N!Unregister
  <2>2. lmod' \in LoadPlaces /\ LoadPhase' /\ lmod \notin Opened /\ lmod # "loaded"
    BY <1>0, <2>1 DEF LoadPhase, LoadPlaces, Opened
  <2> QED  BY <1>a, <1>b, <2>1, <2>2, LoadModuleMoves
<1> QED  BY <1>1, <1>2, <1>3, <1>4, <1>5, <1>6, <1>7, <1>8, <1>9 DEF N!Module

\* Each step of ch8 and ch9 keeps the invariant.
LEMMA LoadStep == ASSUME LoadParameters, LoadInv, N!LoadNext PROVE LoadInv'
BY LoadModuleStep, LoadFileStep, LoadDeadStep DEF N!LoadNext

\* From the invariant: the device is there for each file, and unloading returns all.
LEMMA LoadSound == ASSUME LoadParameters, LoadInv PROVE N!DeviceLives /\ N!AllReturned
<1>0. /\ LoadTyped /\ LoadPhase /\ FilesOpen /\ (~early => InTime) /\ \A t \in Tasks : Waiting(t)
  BY DEF LoadInv
<1>1. N!DeviceLives
  <2>1. lmod \in Opened => ldev = TRUE /\ lregion = TRUE
    BY <1>0 DEF LoadPhase, Opened
  <2> QED  BY <1>0, <2>1 DEF FilesOpen, N!DeviceLives
<1>2. ASSUME lmod \in {"unregister", "out"}
      PROVE  /\ ~ldev /\ ~lcdev /\ (lmod = "out" => ~lregion)
             /\ async_queue = {} /\ (~early => \A q \in N!Transfers : wait[q] = {})
  <2>1. lmod \notin Opened \cup {"setup", "kfree"}
    BY <1>2 DEF Opened
  <2>2. ldev = FALSE /\ lcdev = FALSE /\ (lmod = "out" => lregion = FALSE)
    BY <1>0, <2>1 DEF LoadPhase
  <2>3. \A t \in Tasks : filp[t] = "closed"
    BY <1>0, <2>1 DEF FilesOpen
  <2>4. async_queue = {}
    BY <1>0, <2>3 DEF FilesOpen, LoadTyped
  <2>5. ASSUME ~early PROVE \A q \in N!Transfers : wait[q] = {}
    <3>1. \A t \in Tasks : npc[t] = "idle"
      BY <1>0, <2>3, <2>5 DEF InTime
    <3> QED  BY <1>0, <3>1 DEF Waiting, LoadTyped
  <2> QED  BY <2>2, <2>4, <2>5
<1>3. N!AllReturned
  BY <1>2 DEF N!AllReturned
<1> QED  BY <1>1, <1>3

-----------------------------------------------------------------------------
(* The binding of globalfifo: as in the platform driver demo; the memory   *)
(* is initialised before the misc device is there, every binding has a     *)
(* number of its own, and a file that was opened on this one keeps the     *)
(* device count up, so that taking the device away from it shows.          *)
OpenFiles == {t \in Tasks : file[t] # 0}

Bound ==
    /\ bmisc <=> bbound = "yes"
    /\ bdata <=> bbound \in {"register", "yes", "removed"}
    /\ bbound # "no" => bdrv # "out" /\ bdev \in {"added", "leaving"}
Numbered ==
    /\ bdata => gen > 0
    /\ ready => bdata
    /\ bbound = "yes" => ready
    /\ ~torn => \A t \in Tasks : file[t] # 0 => file[t] = gen /\ bbound = "yes"
Counted ==
    /\ IsFiniteSet(OpenFiles) /\ bfiles = Cardinality(OpenFiles)
    /\ bfiles > 0 => bdrv = "in"
BindingInv == V!BindTypeOK /\ Bound /\ Numbered /\ Counted

\* Neither device nor driver is there at the start, and no file is open.
LEMMA BindingStart == ASSUME FileParameters, V!BindInit PROVE BindingInv
<1>1. /\ bfiles \in 0..MaxFiles /\ gen \in 0..MaxBinds /\ file \in [Tasks -> 0..MaxBinds]
      /\ ~(bfiles > 0)
  BY DEF FileParameters, V!BindInit, V!Init
<1>2. OpenFiles = {}
  BY DEF OpenFiles, V!BindInit
<1>3. Counted
  BY <1>1, <1>2, FS_EmptySet DEF Counted, V!BindInit, V!Init
<1>4. Numbered
  BY Zenon DEF Numbered, V!BindInit, V!Init
<1> QED  BY <1>1, <1>3, <1>4, Zenon DEF V!BindInit, V!Init, BindingInv, Bound, V!BindTypeOK, V!TypeOK

\* A step that neither opens nor closes a file keeps the count of them.
LEMMA CountKept ==
    ASSUME Counted, UNCHANGED <<file, bfiles>>, bdrv = "in" => bdrv' = "in" \/ ~(bfiles > 0)
    PROVE  Counted'
  BY DEF Counted, OpenFiles

\* Each step of the two modules, of probe, remove and the files keeps it.
LEMMA BindingStep == ASSUME FileParameters, BindingInv, V!BindNext PROVE BindingInv'
<1> USE DEF FileParameters, V!BindTypeOK, V!TypeOK, BindingInv
<1>1. CASE V!DevInit \/ V!DevExit
  <2>1. UNCHANGED <<bdrv, bbound, bdata, bmisc, bfiles, ready, gen, file, torn>>
    BY <1>1 DEF V!DevInit, V!DevExit, V!AllocDev, V!AddDev, V!DevLeaves, V!DevGone, V!bindVars
  <2>2. /\ bdev' \in {"out", "alloc", "added", "leaving"}
        /\ bbound # "no" => bdev' \in {"added", "leaving"}
    BY <1>1 DEF V!DevInit, V!DevExit, V!AllocDev, V!AddDev, V!DevLeaves, V!DevGone, Bound
  <2>3. Counted'
    BY <2>1, CountKept
  <2> QED  BY <2>1, <2>2, <2>3 DEF Bound, Numbered
<1>2. CASE V!Driver
  <2>1. /\ UNCHANGED <<bdev, bdata, bmisc, bfiles, ready, gen, file, torn>>
        /\ bdrv' \in {"out", "in", "leaving"}
        /\ bdrv = "in" => bdrv' = "in" \/ ~(bfiles > 0)
    BY <1>2 DEF V!Driver, V!DrvRegister, V!DrvLeaves, V!DrvGone, V!Bind, V!bindVars
  <2>2. \/ bbound' = bbound /\ (bbound # "no" => bdrv' # "out")
        \/ bbound = "no" /\ bbound' = "probe" /\ bdrv' = "in" /\ bdev = "added"
    BY <1>2 DEF V!Driver, V!DrvRegister, V!DrvLeaves, V!DrvGone, V!Bind, Bound
  <2>3. Counted'
    BY <2>1, CountKept
  <2>4. Bound' /\ Numbered'
    BY <2>1, <2>2 DEF Bound, Numbered
  <2>5. V!BindTypeOK'
    BY <2>1, <2>2
  <2> QED  BY <2>3, <2>4, <2>5
<1>3. CASE V!Zalloc
  <2>1. UNCHANGED <<bdev, bdrv, bmisc, bfiles, ready, file, torn>> /\ bbound = "probe"
    BY <1>3 DEF V!Zalloc, V!ProbeAlloc
  <2>2. \/ bbound' = "register" /\ bdata' = TRUE /\ gen' = gen + 1 /\ gen < MaxBinds
        \/ bbound' = "no" /\ bdata' = bdata /\ gen' = gen
    BY <1>3, <2>1 DEF V!Zalloc, V!ProbeAlloc, Bound
  <2>3. Counted'
    BY <2>1, CountKept
  <2>4. CASE bbound' = "register" /\ bdata' = TRUE /\ gen' = gen + 1 /\ gen < MaxBinds
    BY <2>1, <2>3, <2>4 DEF Bound, Numbered
  <2>5. CASE bbound' = "no" /\ bdata' = bdata /\ gen' = gen
    BY <2>1, <2>3, <2>5 DEF Bound, Numbered
  <2> QED  BY <2>2, <2>4, <2>5
<1>4. CASE V!InitLocks
  BY <1>4, CountKept DEF V!InitLocks, V!vars, Bound, Numbered
<1>5. CASE V!Register
  <2>1. UNCHANGED <<bdev, bdrv, bfiles, gen, file, torn>> /\ bbound = "register" /\ ready
    BY <1>5 DEF V!Register, V!ProbeRegister
  <2>2. \/ bbound' = "yes" /\ bmisc' = TRUE /\ bdata' = bdata /\ ready' = bdata
        \/ bbound' = "no" /\ bmisc' = bmisc /\ bdata' = FALSE /\ ready' = FALSE
    BY <1>5 DEF V!Register, V!ProbeRegister
  <2>3. Counted'
    BY <2>1, CountKept
  <2>4. CASE bbound' = "yes" /\ bmisc' = TRUE /\ bdata' = bdata /\ ready' = bdata
    <3>1. Bound'
      BY <2>1, <2>4 DEF Bound
    <3>2. Numbered' /\ bdata = TRUE
      BY <2>1, <2>4, <3>1 DEF Bound, Numbered
    <3> QED  BY <2>1, <2>3, <2>4, <3>1, <3>2
  <2>5. CASE bbound' = "no" /\ bmisc' = bmisc /\ bdata' = FALSE /\ ready' = FALSE
    BY <2>1, <2>3, <2>5 DEF Bound, Numbered
  <2> QED  BY <2>2, <2>4, <2>5
<1>6. CASE V!Deregister
  <2>1. /\ UNCHANGED <<bdev, bdrv, bdata, bfiles, ready, gen, file>>
        /\ bbound = "yes" /\ bbound' = "removed" /\ bmisc' = FALSE
        /\ torn' = (torn \/ bfiles > 0)
    BY <1>6 DEF V!Deregister, V!Remove
  <2>2. Counted'
    BY <2>1, CountKept
  <2>3. ~torn' => ~torn /\ OpenFiles = {}
    <3>1. ~torn' => ~torn /\ ~(bfiles > 0)
      BY <2>1, Zenon
    <3>2. bfiles = 0 => OpenFiles = {}
      BY FS_EmptySet DEF Counted
    <3> QED  BY <3>1, <3>2
  <2>4. Numbered'
    BY <2>1, <2>3 DEF Numbered, OpenFiles, Bound
  <2>5. torn' \in BOOLEAN
    BY <2>1
  <2> QED  BY <2>1, <2>2, <2>4, <2>5 DEF Bound
<1>7. CASE V!DevmFree
  BY <1>7, CountKept DEF V!DevmFree, V!FreeData, Bound, Numbered
<1>8. ASSUME NEW t \in Tasks, V!OpenFile(t) PROVE BindingInv'
  <2>1. /\ UNCHANGED <<bdev, bdrv, bbound, bdata, bmisc, ready, gen, torn>>
        /\ bmisc /\ bdrv = "in" /\ bfiles < MaxFiles /\ bfiles' = bfiles + 1
        /\ file[t] = 0 /\ file' = [file EXCEPT ![t] = gen]
    BY <1>8 DEF V!OpenFile, V!Open
  <2>2. gen > 0 /\ bbound = "yes"
    BY <2>1 DEF Bound, Numbered
  <2>3. OpenFiles' = OpenFiles \cup {t} /\ t \notin OpenFiles
    BY <2>1, <2>2 DEF OpenFiles
  <2>4. Counted'
    BY <2>1, <2>3, FS_AddElement DEF Counted
  <2>5. file' \in [Tasks -> 0..MaxBinds] /\ bfiles' \in 0..MaxFiles
    BY <2>1
  <2>6. Numbered' /\ Bound'
    BY <2>1, <2>2 DEF Numbered, Bound
  <2> QED  BY <2>1, <2>4, <2>5, <2>6
<1>9. ASSUME NEW t \in Tasks, V!CloseFile(t) PROVE BindingInv'
  <2>1. /\ UNCHANGED <<bdev, bdrv, bbound, bdata, bmisc, ready, gen, torn>>
        /\ bfiles > 0 /\ bfiles' = bfiles - 1
        /\ file[t] # 0 /\ file' = [file EXCEPT ![t] = 0]
    BY <1>9 DEF V!CloseFile, V!Release
  <2>2. OpenFiles' = OpenFiles \ {t} /\ t \in OpenFiles
    BY <2>1 DEF OpenFiles
  <2>3. Counted'
    BY <2>1, <2>2, FS_RemoveElement DEF Counted
  <2>4. file' \in [Tasks -> 0..MaxBinds] /\ bfiles' \in 0..MaxFiles
    BY <2>1
  <2>5. Numbered' /\ Bound'
    BY <2>1 DEF Numbered, Bound
  <2> QED  BY <2>1, <2>3, <2>4, <2>5
<1> QED  BY <1>1, <1>2, <1>3, <1>4, <1>5, <1>6, <1>7, <1>8, <1>9 DEF V!BindNext

\* From the invariant: an open file that is not torn finds its globalfifo, the misc
\* device has data behind it, and unbinding leaves neither.
LEMMA BindingSound == BindingInv => V!FilesFindDevice /\ V!MiscBacked /\ V!NothingBound
  BY DEF BindingInv, Bound, Numbered, Counted, V!BindTypeOK, V!TypeOK, V!FilesFindDevice, V!MiscBacked, V!NothingBound

-----------------------------------------------------------------------------
(* The demos together.  The invariant of the demo that is loaded holds;    *)
(* the others, which take no step, are not asked.                          *)
IInv ==
    /\ loaded = "list" => ListInv
    /\ loaded = "fifo" => KfifoInv
    /\ loaded = "proc" => ProcInv
    /\ loaded = "globalmem" => MemInv
    /\ loaded = "frame" => FrameInv
    /\ loaded = "alloc_buf" => AllocInv
    /\ loaded = "atomic" => AtomicInv
    /\ loaded = "dump_fds" => DumpInv
    /\ loaded = "platform" => PlatformInv
    /\ loaded = "globalfifo" => LoadInv
    /\ loaded = "binding" => BindingInv
    /\ loaded = "kernel_file" => KernelFileInv
    /\ loaded = "sysfs" => SysfsInv
    /\ loaded = "file_opt" => FileOptInv

\* Each demo is at its start when it is loaded.
LEMMA DemosStart == ASSUME Init PROVE IInv
<1>1. ListInv
  BY ListStart DEF Init
<1>2. KfifoInv
  BY DataParameters, KfifoStart DEF Init
<1>3. ProcInv
  BY FileParameters, ProcStart DEF Init
<1>4. MemInv
  BY FileParameters, MemStart DEF Init
<1>5. FrameInv
  BY FileParameters, FrameStart DEF Init
<1>6. AllocInv
  BY DataParameters, AllocStart DEF Init
<1>7. AtomicInv
  BY DataParameters, AtomicStart DEF Init
<1>8. DumpInv
  BY DumpStart DEF Init
<1>9. PlatformInv
  BY FileParameters, PlatformStart DEF Init
<1>10. LoadInv
  BY LoadParameters, LoadStart DEF Init
<1>11. BindingInv
  BY FileParameters, BindingStart DEF Init
<1>12. KernelFileInv
  BY FileParameters, KernelFileStart DEF Init
<1>13. SysfsInv
  BY FileParameters, SysfsStart DEF Init
<1>14. FileOptInv
  BY FileParameters, FileOptStart DEF Init
<1> QED  BY <1>1, <1>2, <1>3, <1>4, <1>5, <1>6, <1>7, <1>8, <1>9, <1>10, <1>11, <1>12, <1>13, <1>14, Zenon DEF IInv

\* A demo stays loaded, and each step is one of its own or leaves it alone.
LEMMA DemoLoaded ==
    ASSUME [Next]_vars
    PROVE  /\ loaded' = loaded
           /\ loaded = "list" => L!Next \/ UNCHANGED listVars
           /\ loaded = "fifo" => K!Next \/ UNCHANGED kfifoVars
           /\ loaded = "proc" => P!Next \/ UNCHANGED procVars
           /\ loaded = "globalmem" => G!Next \/ UNCHANGED memVars
           /\ loaded = "frame" => F!Next \/ UNCHANGED frameVars
           /\ loaded = "alloc_buf" => B!Next \/ UNCHANGED allocVars
           /\ loaded = "atomic" => A!Next \/ UNCHANGED atomicVars
           /\ loaded = "dump_fds" => D!Next \/ UNCHANGED dumpVars
           /\ loaded = "platform" => M!Next \/ UNCHANGED pltVars
           /\ loaded = "globalfifo" => N!LoadNext \/ UNCHANGED loadVars
           /\ loaded = "binding" => V!BindNext \/ UNCHANGED bindVars
           /\ loaded = "kernel_file" => H!Next \/ UNCHANGED kfileVars
           /\ loaded = "sysfs" => S!Next \/ UNCHANGED sysfsVars
           /\ loaded = "file_opt" => O!Next \/ UNCHANGED fileVars
<1>1. CASE UNCHANGED vars
  BY <1>1, Zenon DEF vars
<1>2. CASE Next
  BY <1>2, Zenon DEF Next
<1> QED  BY <1>1, <1>2, Zenon

\* The invariant of the loaded demo is kept by its steps, and by those that
\* leave its variables alone.
LEMMA DemosStep == ASSUME IInv, [Next]_vars PROVE IInv'
<1>0. loaded' = loaded
  BY DemoLoaded
<1>1. ASSUME loaded = "list" PROVE ListInv'
  <2>1. ListInv /\ (L!Next \/ UNCHANGED listVars)
    BY <1>1, DemoLoaded DEF IInv
  <2>2. CASE L!Next
    BY <2>1, <2>2, ListStep
  <2>3. CASE UNCHANGED listVars
    BY <2>1, <2>3, ZenonT(30)
    DEF listVars, ListInv, ListSoFar, OnExtra, OnList, RingInv, Rising
  <2> QED  BY <2>1, <2>2, <2>3, Zenon
<1>2. ASSUME loaded = "fifo" PROVE KfifoInv'
  <2>1. KfifoInv /\ (K!Next \/ UNCHANGED kfifoVars)
    BY <1>2, DemoLoaded DEF IInv
  <2>2. CASE K!Next
    BY <2>1, <2>2, DataParameters, KfifoStep
  <2>3. CASE UNCHANGED kfifoVars
    BY <2>1, <2>3, ZenonT(30)
    DEF kfifoVars, CopiedIn, CopiedOut, K!Fill, K!TypeOK, KfifoInv, OnlyUsers
  <2> QED  BY <2>1, <2>2, <2>3, Zenon
<1>3. ASSUME loaded = "proc" PROVE ProcInv'
  <2>1. ProcInv /\ (P!Next \/ UNCHANGED procVars)
    BY <1>3, DemoLoaded DEF IInv
  <2>2. CASE P!Next
    BY <2>1, <2>2, FileParameters, ProcStep
  <2>3. CASE UNCHANGED procVars
    BY <2>1, <2>3, ZenonT(30)
    DEF procVars, EntriesPhase, OneRecord, OneWriteGot, P!Terminated, P!Using,
         ProcInv, ProcTask, ProcTyped, RecordWhole, SharedTyped
  <2> QED  BY <2>1, <2>2, <2>3, Zenon
<1>4. ASSUME loaded = "globalmem" PROVE MemInv'
  <2>1. MemInv /\ (G!Next \/ UNCHANGED memVars)
    BY <1>4, DemoLoaded DEF IInv
  <2>2. CASE G!Next
    BY <2>1, <2>2, FileParameters, MemStep
  <2>3. CASE UNCHANGED memVars
    BY <2>1, <2>3, ZenonT(30)
    DEF memVars, FilesPhase, MemCall, MemInv, MemPhase, MemTyped
  <2> QED  BY <2>1, <2>2, <2>3, Zenon
<1>5. ASSUME loaded = "frame" PROVE FrameInv'
  <2>1. FrameInv /\ (F!Next \/ UNCHANGED frameVars)
    BY <1>5, DemoLoaded DEF IInv
  <2>2. CASE F!Next
    BY <2>1, <2>2, FileParameters, FrameStep
  <2>3. CASE UNCHANGED frameVars
    BY <2>1, <2>3, ZenonT(30)
    DEF frameVars, F!TypeOK, F!UsersFindModule, FrameApart, FrameInv
  <2> QED  BY <2>1, <2>2, <2>3, Zenon
<1>6. ASSUME loaded = "alloc_buf" PROVE AllocInv'
  <2>1. AllocInv /\ (B!Next \/ UNCHANGED allocVars)
    BY <1>6, DemoLoaded DEF IInv
  <2>2. CASE B!Next
    BY <2>1, <2>2, DataParameters, AllocStep
  <2>3. CASE UNCHANGED allocVars
    BY <2>1, <2>3, ZenonT(30)
    DEF allocVars, AllocInv, B!TypeOK, HasBuf
  <2> QED  BY <2>1, <2>2, <2>3, Zenon
<1>7. ASSUME loaded = "atomic" PROVE AtomicInv'
  <2>1. AtomicInv /\ (A!Next \/ UNCHANGED atomicVars)
    BY <1>7, DemoLoaded DEF IInv
  <2>2. CASE A!Next
    BY <2>1, <2>2, DataParameters, AtomicStep
  <2>3. CASE UNCHANGED atomicVars
    BY <2>1, <2>3, ZenonT(30)
    DEF atomicVars, Added, AtomicInv, AtomicTyped, Begun, CounterIsTally, Holder,
         Tally
  <2> QED  BY <2>1, <2>2, <2>3, Zenon
<1>8. ASSUME loaded = "dump_fds" PROVE DumpInv'
  <2>1. DumpInv /\ (D!Next \/ UNCHANGED dumpVars)
    BY <1>8, DemoLoaded DEF IInv
  <2>2. CASE D!Next
    BY <2>1, <2>2, DumpStep
  <2>3. CASE UNCHANGED dumpVars
    BY <2>1, <2>3, ZenonT(30)
    DEF dumpVars, D!TypeOK, DumpInv, Pinning
  <2> QED  BY <2>1, <2>2, <2>3, Zenon
<1>9. ASSUME loaded = "platform" PROVE PlatformInv'
  <2>1. PlatformInv /\ (M!Next \/ UNCHANGED pltVars)
    BY <1>9, DemoLoaded DEF IInv
  <2>2. CASE M!Next
    BY <2>1, <2>2, FileParameters, PlatformStep
  <2>3. CASE UNCHANGED pltVars
    BY <2>1, <2>3, ZenonT(30)
    DEF pltVars, M!TypeOK, PlatformInv
  <2> QED  BY <2>1, <2>2, <2>3, Zenon
<1>10. ASSUME loaded = "globalfifo" PROVE LoadInv'
  <2>1. LoadInv /\ (N!LoadNext \/ UNCHANGED loadVars)
    BY <1>10, DemoLoaded DEF IInv
  <2>2. CASE N!LoadNext
    BY <2>1, <2>2, LoadParameters, LoadStep
  <2>3. CASE UNCHANGED loadVars
    BY <2>1, <2>3, ZenonT(30)
    DEF loadVars, FilesOpen, InTime, LoadInv, LoadPhase, LoadTyped, Waiting
  <2> QED  BY <2>1, <2>2, <2>3, Zenon
<1>11. ASSUME loaded = "binding" PROVE BindingInv'
  <2>1. BindingInv /\ (V!BindNext \/ UNCHANGED bindVars)
    BY <1>11, DemoLoaded DEF IInv
  <2>2. CASE V!BindNext
    BY <2>1, <2>2, FileParameters, BindingStep
  <2>3. CASE UNCHANGED bindVars
    BY <2>1, <2>3, ZenonT(30)
    DEF bindVars, BindingInv, Bound, Counted, Numbered, OpenFiles, V!BindTypeOK,
         V!TypeOK
  <2> QED  BY <2>1, <2>2, <2>3, Zenon
<1>12. ASSUME loaded = "kernel_file" PROVE KernelFileInv'
  <2>1. KernelFileInv /\ (H!Next \/ UNCHANGED kfileVars)
    BY <1>12, DemoLoaded DEF IInv
  <2>2. CASE H!Next
    BY <2>1, <2>2, FileParameters, KernelFileStep
  <2>3. CASE UNCHANGED kfileVars
    BY <2>1, <2>3, ZenonT(30)
    DEF kfileVars, H!FilesClosed, H!ReachesOpenFile, H!TypeOK, KernelFileInv
  <2> QED  BY <2>1, <2>2, <2>3, Zenon
<1>13. ASSUME loaded = "sysfs" PROVE SysfsInv'
  <2>1. SysfsInv /\ (S!Next \/ UNCHANGED sysfsVars)
    BY <1>13, DemoLoaded DEF IInv
  <2>2. CASE S!Next
    BY <2>1, <2>2, FileParameters, SysfsStep
  <2>3. CASE UNCHANGED sysfsVars
    BY <2>1, <2>3, ZenonT(30)
    DEF sysfsVars, S!CallsInModule, S!LeaksPerLoad, S!TypeOK, SysfsInv
  <2> QED  BY <2>1, <2>2, <2>3, Zenon
<1>14. ASSUME loaded = "file_opt" PROVE FileOptInv'
  <2>1. FileOptInv /\ (O!Next \/ UNCHANGED fileVars)
    BY <1>14, DemoLoaded DEF IInv
  <2>2. CASE O!Next
    BY <2>1, <2>2, FileParameters, FileOptStep
  <2>3. CASE UNCHANGED fileVars
    BY <2>1, <2>3, ZenonT(30)
    DEF fileVars, FileAt, FileOptInv, O!TypeOK, OthersIdle
  <2> QED  BY <2>1, <2>2, <2>3, Zenon
<1> QED  BY <1>0, <1>1, <1>2, <1>3, <1>4, <1>5, <1>6, <1>7, <1>8, <1>9, <1>10, <1>11, <1>12, <1>13, <1>14,
         ZenonT(40) DEF IInv

\* Any run of any of the demos keeps the invariant of the loaded one.
THEOREM Invariance == Spec => []IInv
<1>1. Init => IInv
  BY DemosStart
<1>2. IInv /\ [Next]_vars => IInv'
  BY DemosStep
<1> QED  BY <1>1, <1>2, PTL DEF Spec

\* No demo leaves its memory, and what it reaches is there: read, write and
\* llseek of globalmem keep to its buffer, entry_generic stays a text, and the
\* cdevs, buffers, tasks, devices and files that the other demos use are live.
THEOREM MemorySafe == Spec => []InOwnMemory
<1>1. IInv => InOwnMemory
  <2> SUFFICES ASSUME IInv PROVE InOwnMemory
    OBVIOUS
  <2>1. loaded = "globalmem" => G!InOwnMemory /\ G!PosInRange
    BY FileParameters, MemSound DEF IInv
  <2>2. loaded = "proc" => P!Terminated
    BY ProcSound DEF IInv
  <2>3. loaded = "frame" => F!NodeLeadsHome /\ F!UsersFindModule
    BY FileParameters, FrameSound DEF IInv
  <2>4. loaded = "alloc_buf" => B!FreesLive
    BY AllocSound DEF IInv
  <2>5. loaded = "dump_fds" => D!TaskPinned
    BY DumpSound DEF IInv
  <2>6. loaded = "platform" => M!MiscBacked
    BY PlatformSound DEF IInv
  <2>7. loaded = "globalfifo" => N!DeviceLives
    BY LoadParameters, LoadSound DEF IInv
  <2>8. loaded = "binding" => V!FilesFindDevice /\ V!MiscBacked
    BY BindingSound DEF IInv
  <2>9. loaded = "kernel_file" => H!ReachesOpenFile
    BY DEF IInv, KernelFileInv
  <2>10. loaded = "sysfs" => S!CallsInModule
    BY DEF IInv, SysfsInv
  <2>11. loaded = "file_opt" => O!UsesOpenFiles
    BY FileOptSound DEF IInv
  <2> QED  BY <2>1, <2>2, <2>3, <2>4, <2>5, <2>6, <2>7, <2>8, <2>9, <2>10, <2>11, Zenon
           DEF InOwnMemory
<1> QED  BY <1>1, Invariance, PTL

\* 3.list: both lists stay rings that hold all persons, and the sorted insert
\* sorts.  2.atomic_ops: one task at a time is inside the lock, and counter is
\* what the calls have added.  4.fifo: a reader gets each byte once, in the order
\* of the writes, and no more is in the fifo than it holds; a reader of entry_seq
\* gets the record of one write, never of two.
THEOREM KeepsStructures == Spec => []StructuresSound
<1>1. IInv => StructuresSound
  <2> SUFFICES ASSUME IInv PROVE StructuresSound
    OBVIOUS
  <2>1. loaded = "list" => L!Rings /\ L!Sorted
    BY ListSound DEF IInv
  <2>2. loaded = "atomic" => A!OneInside /\ A!CounterExact
    BY DataParameters, AtomicSound DEF IInv
  <2>3. loaded = "fifo" => K!ReadOnceInOrder /\ K!NeverOverfull
    BY DataParameters, KfifoSound DEF IInv
  <2>4. loaded = "proc" => P!ReadsOneWrite
    BY ProcSound DEF IInv
  <2> QED  BY <2>1, <2>2, <2>3, <2>4, Zenon DEF StructuresSound
<1> QED  BY <1>1, Invariance, PTL

\* Once it is unloaded, or has returned, no demo keeps what it has allocated or
\* registered; 6.alloc_buf and 2.sysfs lose no more than the code drops.
THEOREM GivesBack == Spec => []NothingLeft
<1>1. IInv => NothingLeft
  <2> SUFFICES ASSUME IInv PROVE NothingLeft
    OBVIOUS
  <2>1. loaded = "list" => L!AllFreed
    BY ListSound DEF IInv
  <2>2. loaded = "fifo" => K!NodesFreed
    BY DataParameters, KfifoSound DEF IInv
  <2>3. loaded = "proc" => P!EntriesGone
    BY ProcSound DEF IInv
  <2>4. loaded = "globalmem" => G!AllReturned
    BY FileParameters, MemSound DEF IInv
  <2>5. loaded = "frame" => F!NodesGone
    BY FileParameters, FrameSound DEF IInv
  <2>6. loaded = "alloc_buf" => B!LostAtMost
    BY AllocSound DEF IInv
  <2>7. loaded = "platform" => M!NothingBound
    BY PlatformSound DEF IInv
  <2>8. loaded = "globalfifo" => N!AllReturned
    BY LoadParameters, LoadSound DEF IInv
  <2>9. loaded = "binding" => V!NothingBound
    BY BindingSound DEF IInv
  <2>10. loaded = "kernel_file" => H!FilesClosed
    BY DEF IInv, KernelFileInv
  <2>11. loaded = "sysfs" => S!LeaksPerLoad
    BY DEF IInv, SysfsInv
  <2>12. loaded = "file_opt" => O!FilesClosed
    BY FileOptSound DEF IInv
  <2> QED  BY <2>1, <2>2, <2>3, <2>4, <2>5, <2>6, <2>7, <2>8, <2>9, <2>10, <2>11, <2>12, Zenon
           DEF NothingLeft
<1> QED  BY <1>1, Invariance, PTL
=============================================================================
