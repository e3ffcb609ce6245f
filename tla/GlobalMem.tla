------------------------------ MODULE GlobalMem ------------------------------
(***************************************************************************)
(* globalmem without mutex, 06.char_drv/1.cdev/0.ch6: one block of memory  *)
(* per device behind read, write, llseek and an ioctl that clears it, none *)
(* of them under a lock.  multi_globalmem has DEVICE_NUM devices in one    *)
(* allocation, globalmem is the case of one.  Several tasks may share an   *)
(* open file, and with it its position.                                    *)
(***************************************************************************)
EXTENDS Integers

CONSTANTS
    Files, Tasks,
    Users,       \* the tasks that share each file
    DeviceNum,   \* bound: DEVICE_NUM
    Size,        \* bound: GLOBALMEM_SIZE
    UintModulus, \* bound: unsigned int is narrower than loff_t
    MaxDrift     \* bound: how far races drive a shared position off

\* Assumed of the constants.
GlobalMemAssumption ==
    /\ DeviceNum \in Nat \ {0} /\ Size \in Nat \ {0}
    /\ UintModulus \in Nat /\ UintModulus > Size /\ MaxDrift \in Nat
    /\ Users \in [Files -> SUBSET Tasks]

VARIABLES
    mod,      \* how far init or exit is
    region,   \* are the device numbers reserved?
    mem,      \* is globalmem_devp allocated?
    cdevs,    \* the devices that can be opened
    dev,      \* the device of each open file, None of a closed one
    f_pos,    \* its position
    pc,       \* where each task is
    arg       \* the file, position and count of its call

module == <<mod, region, mem, cdevs>>
vars == <<module, dev, f_pos, pc, arg>>

None == -1
Devices == 0..DeviceNum-1
NoCall == [file |-> CHOOSE f \in Files : TRUE, p |-> 0, n |-> 0]

Init ==
    /\ mod = "region" /\ region = FALSE /\ mem = FALSE /\ cdevs = {}
    /\ dev = [f \in Files |-> None] /\ f_pos = [f \in Files |-> 0]
    /\ pc = [t \in Tasks |-> "out"]
    /\ arg = [t \in Tasks |-> NoCall]

Goto(t, from, to) == pc[t] = from /\ pc' = [pc EXCEPT ![t] = to]

-----------------------------------------------------------------------------
(* Loading and unloading                                                   *)

\* register_chrdev_region or alloc_chrdev_region; refused, nothing is left.
RegisterRegion ==
    /\ mod = "region"
    /\ \/ mod' = "kzalloc" /\ region' = TRUE
       \/ mod' = "failed" /\ UNCHANGED region
    /\ UNCHANGED <<mem, cdevs, dev, f_pos, pc, arg>>
Kzalloc ==
    /\ mod = "kzalloc" /\ mod' = "setup" /\ mem' = TRUE
    /\ UNCHANGED <<region, cdevs, dev, f_pos, pc, arg>>
\* Variant: init returns where it stands.
FailMallocReturns ==
    /\ mod = "kzalloc" /\ mod' = "failed"
    /\ UNCHANGED <<region, mem, cdevs, dev, f_pos, pc, arg>>
\* fail_malloc: the device numbers are given back.
FailMalloc ==
    /\ mod = "kzalloc" /\ mod' = "failed" /\ region' = FALSE
    /\ UNCHANGED <<mem, cdevs, dev, f_pos, pc, arg>>
\* globalmem_setup_cdev, device after device; an error of cdev_add is
\* printed, and the next one tried.
SetupCdev(i) ==
    /\ mod = "setup" /\ \A j \in cdevs : j < i
    /\ cdevs' = cdevs \cup {i}
    /\ UNCHANGED <<mod, region, mem, dev, f_pos, pc, arg>>
Loaded ==
    /\ mod = "setup" /\ mod' = "loaded"
    /\ UNCHANGED <<region, mem, cdevs, dev, f_pos, pc, arg>>

\* Open files hold the module, so exit runs when all are closed.
Closed == \A f \in Files : dev[f] = None
CdevDel ==
    /\ mod = "loaded" /\ Closed /\ mod' = "kfree" /\ cdevs' = {}
    /\ UNCHANGED <<region, mem, dev, f_pos, pc, arg>>
Kfree ==
    /\ mod = "kfree" /\ mod' = "unregister" /\ mem' = FALSE
    /\ UNCHANGED <<region, cdevs, dev, f_pos, pc, arg>>
UnregisterRegion ==
    /\ mod = "unregister" /\ mod' = "gone" /\ region' = FALSE
    /\ UNCHANGED <<mem, cdevs, dev, f_pos, pc, arg>>

Open(f, i) ==
    /\ i \in cdevs /\ dev[f] = None
    /\ dev' = [dev EXCEPT ![f] = i]
    /\ UNCHANGED <<module, f_pos, pc, arg>>
Release(f) ==
    /\ dev[f] # None /\ \A t \in Tasks : pc[t] # "out" => arg[t].file # f
    /\ dev' = [dev EXCEPT ![f] = None] /\ f_pos' = [f_pos EXCEPT ![f] = 0]
    /\ UNCHANGED <<module, pc, arg>>

-----------------------------------------------------------------------------
(* read and write: the system call hands the driver a copy of the position *)
(* and stores it back when the driver returns no error.  pread and pwrite  *)
(* bring a position of their own.                                          *)

\* The counts and offsets that make a difference: an offset may be wider than
\* an unsigned int.
Counts  == {1, Size + 1}
Offsets == {-1, 1, UintModulus + 1}

Begin(t, f, p, n, to) ==
    /\ dev[f] # None /\ t \in Users[f]
    /\ Goto(t, "out", to)
    /\ arg' = [arg EXCEPT ![t] = [file |-> f, p |-> p, n |-> n]]
    /\ UNCHANGED <<module, dev, f_pos>>
Transfer(t, f) ==
    \/ f_pos[f] >= 0 /\ \E n \in Counts : Begin(t, f, f_pos[f], n, "transfer")
    \/ Begin(t, f, 1, Size + 1, "transfer at")

\* Variant: the count is clipped to the size, not to what is behind p.
ClipToSize(p, n) == IF n > Size THEN Size ELSE n
\* The count is clipped to what is behind p.
Clip(p, n) == IF n > Size - p THEN Size - p ELSE n

Finish(t) == pc' = [pc EXCEPT ![t] = "out"] /\ arg' = [arg EXCEPT ![t] = NoCall]
Store(t, p) == f_pos' = [f_pos EXCEPT ![arg[t].file] = p]

\* From the end on there is nothing: 0, and the position stays.
TransferNothing(t) ==
    /\ arg[t].p >= Size
    /\ \/ pc[t] = "transfer" /\ Store(t, arg[t].p)
       \/ pc[t] = "transfer at" /\ UNCHANGED f_pos
    /\ Finish(t)
    /\ UNCHANGED <<module, dev>>
TransferCopy(t) ==
    /\ arg[t].p < Size
    /\ \/ Goto(t, "transfer", "copy") \/ Goto(t, "transfer at", "copy at")
    /\ arg' = [arg EXCEPT ![t].n = Clip(arg[t].p, @)]
    /\ UNCHANGED <<module, dev, f_pos>>
\* copy_to_user or copy_from_user has done its work, or fails.
TransferEnds(t) ==
    /\ \/ pc[t] = "copy" /\ Store(t, arg[t].p + arg[t].n)
       \/ pc[t] \in {"copy", "copy at"} /\ UNCHANGED f_pos
    /\ Finish(t)
    /\ UNCHANGED <<module, dev>>

\* MEM_CLEAR
Clear(t, f) == Begin(t, f, 0, Size, "copy at")

-----------------------------------------------------------------------------
(* llseek                                                                  *)

\* (unsigned int)offset
Unsigned(offset) == offset % UintModulus

\* Variant: the offset is checked as an unsigned int but stored as it is.
SeekSetWide(t, f, offset) ==
    /\ dev[f] # None /\ t \in Users[f] /\ pc[t] = "out"
    /\ offset >= 0 /\ Unsigned(offset) <= Size
    /\ f_pos' = [f_pos EXCEPT ![f] = offset]
    /\ UNCHANGED <<module, dev, pc, arg>>
\* SEEK_SET
SeekSet(t, f, offset) ==
    /\ dev[f] # None /\ t \in Users[f] /\ pc[t] = "out"
    /\ offset >= 0 /\ Unsigned(offset) <= Size
    /\ f_pos' = [f_pos EXCEPT ![f] = Unsigned(offset)]
    /\ UNCHANGED <<module, dev, pc, arg>>

\* SEEK_CUR reads the position for each of its checks, and to add to it.
SeekCur(t, f, offset) == Begin(t, f, offset, 0, "seek")
Sought(t) == f_pos[arg[t].file] + arg[t].p
SeekRefused(t) ==
    /\ \/ pc[t] = "seek" /\ Sought(t) > Size
       \/ pc[t] = "seek low" /\ Sought(t) < 0
    /\ Finish(t)
    /\ UNCHANGED <<module, dev, f_pos>>
SeekLimit(t) ==
    /\ Sought(t) <= Size /\ Goto(t, "seek", "seek low")
    /\ UNCHANGED <<module, dev, f_pos, arg>>
SeekLow(t) ==
    /\ Sought(t) >= 0 /\ Goto(t, "seek low", "seek load")
    /\ UNCHANGED <<module, dev, f_pos, arg>>
SeekLoad(t) ==
    /\ Goto(t, "seek load", "seek store")
    /\ Sought(t) \in -MaxDrift .. Size + MaxDrift
    /\ arg' = [arg EXCEPT ![t].p = Sought(t)]
    /\ UNCHANGED <<module, dev, f_pos>>
SeekStore(t) ==
    /\ pc[t] = "seek store" /\ Store(t, arg[t].p) /\ Finish(t)
    /\ UNCHANGED <<module, dev>>

-----------------------------------------------------------------------------
Module ==
    \/ RegisterRegion \/ Kzalloc \/ FailMalloc \/ (\E i \in Devices : SetupCdev(i)) \/ Loaded
    \/ CdevDel \/ Kfree \/ UnregisterRegion
File(f) == (\E i \in Devices : Open(f, i)) \/ Release(f)
Call(t) ==
    \/ \E f \in Files : \/ Transfer(t, f) \/ Clear(t, f)
                        \/ \E o \in Offsets : SeekSet(t, f, o) \/ SeekCur(t, f, o)
    \/ TransferNothing(t) \/ TransferCopy(t) \/ TransferEnds(t)
    \/ SeekRefused(t) \/ SeekLimit(t) \/ SeekLow(t) \/ SeekLoad(t) \/ SeekStore(t)
Next == Module \/ (\E f \in Files : File(f)) \/ (\E t \in Tasks : Call(t))

Spec == Init /\ [][Next]_vars

-----------------------------------------------------------------------------
(* Properties                                                              *)

TypeOK ==
    /\ mod \in {"region", "kzalloc", "setup", "loaded", "failed", "kfree", "unregister", "gone"}
    /\ region \in BOOLEAN /\ mem \in BOOLEAN /\ cdevs \subseteq Devices
    /\ dev \in [Files -> Devices \cup {None}] /\ f_pos \in [Files -> -MaxDrift .. Size + MaxDrift]
    /\ pc \in [Tasks -> {"out", "transfer", "transfer at", "copy", "copy at",
                         "seek", "seek low", "seek load", "seek store"}]
    /\ \A t \in Tasks : arg[t].file \in Files

\* The bytes of globalmem_devp that a call copies to or from, or clears.
Touched(t) ==
    LET first == dev[arg[t].file] * Size + arg[t].p
    IN IF pc[t] \in {"copy", "copy at"} THEN first .. first + arg[t].n - 1 ELSE {}

\* Whatever other tasks do to the position meanwhile, a call copies inside
\* the memory of the device its file was opened on, and that is allocated.
InOwnMemory ==
    \A t \in Tasks : Touched(t) # {} =>
        LET d == dev[arg[t].file]
        IN mem /\ d # None /\ Touched(t) \subseteq d * Size .. d * Size + Size - 1

\* The position of a file that one task uses stays inside the memory or
\* right behind it.  (It does not for a file that tasks share: two SEEK_CUR
\* may pass their checks before either adds.)
PosInRange ==
    \A f \in Files :
        (\A s, t \in Users[f] : s = t) => f_pos[f] \in 0..Size

\* A load that fails, and an unload, leave nothing behind.
AllReturned == mod \in {"failed", "gone"} => ~region /\ ~mem /\ cdevs = {}
=============================================================================
