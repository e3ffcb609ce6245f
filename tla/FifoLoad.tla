------------------------------ MODULE FifoLoad ------------------------------
(***************************************************************************)
(* The ch8 and ch9 globalfifo, from loading to unloading.  Their read,     *)
(* write, poll, ioctl, fasync and release are those of GlobalFifo (ch8 has *)
(* no fasync, nobody asks it for SIGIO).  What differs from ch12 is how    *)
(* the device comes up: it is made visible first, and its mutex and queues *)
(* are initialised after that, so that calls may come too early.           *)
(***************************************************************************)
EXTENDS GlobalFifo

VARIABLES
    mod,           \* how far globalfifo_init or globalfifo_exit has come
    chapter,       \* the module that is loaded: both have the same number
    region, dev,   \* the device number is registered, globalfifo_devp allocated
    cdev,          \* the cdev is added
    early,         \* a call has taken the mutex before all was initialised
    dead           \* the tasks that have died of an oops

moduleVars == <<mod, chapter, region, dev, cdev>>
loadVars == <<moduleVars, early, dead>>

LoadInit ==
    /\ Init
    /\ mod = "out" /\ chapter = 0
    /\ region = FALSE /\ dev = FALSE /\ cdev = FALSE
    /\ early = FALSE /\ dead = {}

Phase(from, to) == mod = from /\ mod' = to

-----------------------------------------------------------------------------
(* globalfifo_init                                                         *)

\* A number that is refused ends the loading with nothing done.
RegisterRegion ==
    /\ Phase("out", "kzalloc") /\ region' = TRUE /\ chapter' \in {8, 9}
    /\ UNCHANGED <<dev, cdev, early, dead, vars>>

\* The memory is zero: an empty buffer, a mutex that is not locked.
Kzalloc ==
    /\ Phase("kzalloc", "setup") /\ dev' = TRUE
    /\ mem' = [i \in 0..SIZE - 1 |-> 0] /\ current_len' = 0 /\ cleared' = FALSE
    /\ mutex' = None
    /\ wait' = [q \in Transfers |-> {}] /\ async_queue' = {}
    /\ UNCHANGED <<chapter, region, cdev, early, dead, taskVars, pc, callVars>>

FailMalloc ==
    /\ Phase("kzalloc", "out") /\ region' = FALSE /\ chapter' = 0
    /\ UNCHANGED <<dev, cdev, early, dead, vars>>

\* An error of cdev_add is printed, and the module loads without a device.
SetupCdev ==
    /\ Phase("setup", "mutex") /\ cdev' \in BOOLEAN
    /\ UNCHANGED <<chapter, region, dev, early, dead, vars>>

\* If a task holds it, it is open now all the same: what becomes of the device
\* then, with two tasks at it, is not modelled.
MutexInit ==
    /\ Phase("mutex", IF mutex = None THEN "r_wait" ELSE "broken") /\ mutex' = None
    /\ UNCHANGED <<chapter, region, dev, cdev, early, dead,
                   devVars, waitVars, taskVars, pc, callVars>>

InitQueues ==
    /\ Phase("r_wait", "w_wait") \/ Phase("w_wait", "loaded")
    /\ UNCHANGED <<chapter, region, dev, cdev, early, dead, vars>>

-----------------------------------------------------------------------------
(* globalfifo_exit, which open files delay                                 *)

CdevDel ==
    /\ Phase("loaded", "kfree") /\ \A t \in Procs : filp[t] = "closed"
    /\ cdev' = FALSE /\ UNCHANGED <<chapter, region, dev, early, dead, vars>>
Kfree ==
    /\ Phase("kfree", "unregister") /\ dev' = FALSE
    /\ UNCHANGED <<chapter, region, cdev, early, dead, vars>>
Unregister ==
    /\ Phase("unregister", "out") /\ region' = FALSE /\ chapter' = 0
    /\ UNCHANGED <<dev, cdev, early, dead, vars>>

Module == RegisterRegion \/ Kzalloc \/ FailMalloc \/ SetupCdev \/ MutexInit
          \/ InitQueues \/ CdevDel \/ Kfree \/ Unregister

-----------------------------------------------------------------------------
(* The files                                                               *)

OpenFile(t) ==
    /\ cdev /\ Open(t) /\ UNCHANGED loadVars

\* Variant: the file stays on the list.
CloseKeepsAsync(t) ==
    /\ pc[t] = "idle" /\ filp[t] # "closed" /\ filp' = [filp EXCEPT ![t] = "closed"]
    /\ UNCHANGED <<devVars, mutex, waitVars, taskVars, pc, op, want, count, ret, ubuf, loadVars>>
Close(t) == Release(t) /\ UNCHANGED loadVars

Sigio9(t) == chapter = 9 /\ Fasync(t) /\ UNCHANGED loadVars

\* The wait queues that the next step of t puts an entry on, and those that
\* are initialised.
Uses(t) == IF pc[t] = "lock" /\ op[t] \in Transfers THEN {op[t]}
           ELSE IF pc[t] = "check" THEN Transfers ELSE {}
ReadyQueues == IF mod = "loaded" THEN Transfers ELSE IF mod = "w_wait" THEN {"read"} ELSE {}

\* A call that gets the mutex before all is initialised is early.
Early(t) == early' = (early \/ (mod # "loaded" /\ mutex # t /\ mutex' = t))

Call(t) ==
    /\ Uses(t) \subseteq ReadyQueues /\ InCall(t)
    /\ Early(t) /\ UNCHANGED <<moduleVars, dead>>
ReadCall(t)  == op[t] = "read" /\ Call(t)
WriteCall(t) == op[t] = "write" /\ Call(t)
PollCall(t)  == op[t] \in Polls /\ Call(t)
IoctlCall(t) == op[t] = "clear" /\ Call(t)

Others(t) == (Enter(t) \/ Kill(t) \/ PollTimeout(t)) /\ UNCHANGED loadVars

\* To wait for the mutex before its list of waiters is initialised is fatal, ...
LockOops(t) ==
    /\ mod = "mutex" /\ mutex # None /\ pc[t] \in {"lock", "relock"}
    /\ dead' = dead \cup {t} /\ UNCHANGED <<moduleVars, early, vars>>

\* ... to put an entry on a queue before that is, too, and the mutex stays locked.
WaitOops(t) ==
    /\ ~(Uses(t) \subseteq ReadyQueues) /\ mutex \in {None, t} /\ mutex' = t
    /\ dead' = dead \cup {t} /\ early' = TRUE
    /\ UNCHANGED <<moduleVars, devVars, waitVars, taskVars, pc, callVars>>

\* The files of a task that dies are closed.
DeadCloses(t) ==
    /\ t \in dead /\ filp[t] # "closed"
    /\ filp' = [filp EXCEPT ![t] = "closed"] /\ async_queue' = async_queue \ {t}
    /\ UNCHANGED <<loadVars, devVars, mutex, wait, taskVars, pc, op, want, count, ret, ubuf>>

File(t) ==
    /\ t \notin dead /\ mod # "broken"
    /\ \/ OpenFile(t) \/ Close(t) \/ Sigio9(t) \/ Others(t)
       \/ ReadCall(t) \/ WriteCall(t) \/ PollCall(t) \/ IoctlCall(t)
       \/ LockOops(t) \/ WaitOops(t)

LoadNext == Module \/ \E t \in Procs : File(t) \/ DeadCloses(t)

LoadSpec == LoadInit /\ [][LoadNext]_<<vars, loadVars>>

-----------------------------------------------------------------------------
(* Properties                                                              *)

LoadTypeOK ==
    /\ TypeOK
    /\ mod \in {"out", "kzalloc", "setup", "mutex", "broken", "r_wait", "w_wait", "loaded",
                  "kfree", "unregister"}
    /\ chapter \in {0, 8, 9} /\ region \in BOOLEAN /\ dev \in BOOLEAN /\ cdev \in BOOLEAN
    /\ early \in BOOLEAN /\ dead \subseteq Procs

\* An open file finds the device it points to, and whoever is to get SIGIO has
\* its file open: nothing refers to the device once it is freed.
DeviceLives ==
    /\ \A t \in Procs : filp[t] # "closed" => dev /\ region
    /\ \A t \in async_queue : filp[t] # "closed"

\* As long as no call has come too early, the device is what GlobalFifo says,
\* through loading, use, unloading and loading again; all its safety
\* properties follow from this invariant of its proofs, and nobody dies.
SoundUnlessEarly == ~early => IInv /\ dead = {}

\* ... and without that excuse.  This is not so: mutex_init opens the mutex
\* under the task that holds it.
Exclusion == LockDiscipline

\* What is out has left nothing: no device, no entry on a queue that is freed,
\* no file on the list for SIGIO.
AllReturned == mod \in {"unregister", "out"} =>
    /\ ~dev /\ ~cdev /\ (mod = "out" => ~region)
    /\ async_queue = {} /\ (~early => \A q \in Transfers : wait[q] = {})
=============================================================================
