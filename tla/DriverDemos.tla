---------------------------- MODULE DriverDemos ----------------------------
(***************************************************************************)
(* A machine on which one of the demos of drivers, data structures and     *)
(* file interfaces is loaded.  They share nothing, so they are checked in  *)
(* one run, each with bounds of its own.                                   *)
(***************************************************************************)
EXTENDS DataDemos, FileDemos

CONSTANTS
    SIZE, Byte, MaxCount, CallsOf,        \* ch8 and ch9
    ArmTasks, NEnts, Uses0, Uses1         \* 2.dma_base_arm

VARIABLES
    loaded,
    bytes, current_len, mutex, wait, async_queue, cleared, state, sig, trig,
    npc, op, filp, want, count, ret, ubuf,
    lmod, chapter, lregion, ldev, lcdev, early, dead,
    bdev, bdrv, bbound, bdata, bmisc, bfiles, ready, gen, file, torn,
    mod0, count0, dd0, heap0, mapping0, pc0, i0,
    mod1, count1, dd1, heap1, mapping1, pc1, i1, prog, ran, call, status

\* 06.char_drv/2.platform_cdev/globalfifo/ch8 and ch9
N == INSTANCE FifoLoad WITH
        Procs <- Tasks, None <- NULL, Calls <- CallsOf,
        mem <- bytes, pc <- npc, mod <- lmod, region <- lregion, dev <- ldev, cdev <- lcdev
\* 06.char_drv/2.platform_cdev/globalfifo/ch12
V == INSTANCE FifoBinding WITH
        dev <- bdev, drv <- bdrv, bound <- bbound, data <- bdata, misc <- bmisc, files <- bfiles
\* 08.dma/2.dma_base_arm
X == INSTANCE DmaArm WITH Tasks <- ArmTasks

ASSUME LoadParameters == N!CallsAssumption /\ N!ProcsAssumption

loadVars   == <<bytes, current_len, mutex, wait, async_queue, cleared, state, sig, trig,
                npc, op, filp, want, count, ret, ubuf,
                lmod, chapter, lregion, ldev, lcdev, early, dead>>
bindVars   == <<bdev, bdrv, bbound, bdata, bmisc, bfiles, ready, gen, file, torn>>
armVars    == <<mod0, count0, dd0, heap0, mapping0, pc0, i0, mod1, count1, dd1, heap1,
                mapping1, pc1, i1, prog, ran, call, status>>
vars == <<loaded, listVars, kfifoVars, procVars, memVars, frameVars, allocVars, atomicVars,
          dumpVars, pltVars, loadVars, bindVars, kfileVars, sysfsVars, fileVars, armVars>>

Init ==
    /\ loaded \in {"list", "fifo", "proc", "globalmem", "frame", "alloc_buf", "atomic",
                   "dump_fds", "platform", "globalfifo", "binding", "kernel_file", "sysfs",
                   "file_opt", "dma_arm"}
    /\ L!Init /\ K!Init /\ P!Init /\ G!Init
    /\ F!Init /\ B!Init /\ A!Init /\ D!Init /\ M!Init
    /\ N!LoadInit /\ V!BindInit /\ H!Init /\ S!Init /\ O!Init
    /\ X!Init /\ (loaded # "dma_arm" => prog = {})

\* The variables of the demos that are not loaded stay as they are.
OthersUnchanged ==
    /\ loaded # "list" => UNCHANGED listVars
    /\ loaded # "fifo" => UNCHANGED kfifoVars
    /\ loaded # "proc" => UNCHANGED procVars
    /\ loaded # "globalmem" => UNCHANGED memVars
    /\ loaded # "frame" => UNCHANGED frameVars
    /\ loaded # "alloc_buf" => UNCHANGED allocVars
    /\ loaded # "atomic" => UNCHANGED atomicVars
    /\ loaded # "dump_fds" => UNCHANGED dumpVars
    /\ loaded # "platform" => UNCHANGED pltVars
    /\ loaded # "globalfifo" => UNCHANGED loadVars
    /\ loaded # "binding" => UNCHANGED bindVars
    /\ loaded # "kernel_file" => UNCHANGED kfileVars
    /\ loaded # "sysfs" => UNCHANGED sysfsVars
    /\ loaded # "file_opt" => UNCHANGED fileVars
    /\ loaded # "dma_arm" => UNCHANGED armVars

Next ==
    /\ UNCHANGED loaded
    /\ \/ loaded = "list" /\ L!Next
       \/ loaded = "fifo" /\ K!Next
       \/ loaded = "proc" /\ P!Next
       \/ loaded = "globalmem" /\ G!Next
       \/ loaded = "frame" /\ F!Next
       \/ loaded = "alloc_buf" /\ B!Next
       \/ loaded = "atomic" /\ A!Next
       \/ loaded = "dump_fds" /\ D!Next
       \/ loaded = "platform" /\ M!Next
       \/ loaded = "globalfifo" /\ N!LoadNext
       \/ loaded = "binding" /\ V!BindNext
       \/ loaded = "kernel_file" /\ H!Next
       \/ loaded = "sysfs" /\ S!Next
       \/ loaded = "file_opt" /\ O!Next
       \/ loaded = "dma_arm" /\ X!Next
    /\ OthersUnchanged

Spec == Init /\ [][Next]_vars
-----------------------------------------------------------------------------
\* Each property is asked of the demo that is loaded; the others are as they
\* start, which is a state of theirs, too.

\* The ranges of all of them.
TypeOK ==
    /\ loaded = "list" => L!TypeOK
    /\ loaded = "fifo" => K!TypeOK
    /\ loaded = "proc" => P!TypeOK
    /\ loaded = "globalmem" => G!TypeOK
    /\ loaded = "frame" => F!TypeOK
    /\ loaded = "alloc_buf" => B!TypeOK
    /\ loaded = "atomic" => A!TypeOK
    /\ loaded = "dump_fds" => D!TypeOK
    /\ loaded = "platform" => M!TypeOK
    /\ loaded = "globalfifo" => N!LoadTypeOK
    /\ loaded = "binding" => V!BindTypeOK
    /\ loaded = "kernel_file" => H!TypeOK
    /\ loaded = "sysfs" => S!TypeOK
    /\ loaded = "file_opt" => O!TypeOK
    /\ loaded = "dma_arm" => X!TypeOK

\* The lists of 3.list are whole, and sorted when the sorted insert returns;
\* the lock of atomic_ops lets in one task, and no update of counter is lost;
\* readers of 4.fifo and of entry_seq get what was written, each byte once.
StructuresSound ==
    /\ loaded = "list" => L!Rings /\ L!Sorted
    /\ loaded = "atomic" => A!OneInside /\ A!CounterExact
    /\ loaded = "fifo" => K!ReadOnceInOrder /\ K!NeverOverfull
    /\ loaded = "proc" => P!ReadsOneWrite

\* globalfifo is as its invariant says unless a task has come too early; both
\* minors of the DMA demo account for all memory and all mappings, also behind
\* its test program, and unloading takes both.
DriversSound ==
    /\ loaded = "globalfifo" => N!SoundUnlessEarly
    /\ loaded = "dma_arm" => X!TouchesLive /\ X!NoLeak /\ X!CleanUnload /\ X!ProgramsClean

\* No call of globalmem leaves the memory of its device, entry_generic stays
\* a text; and what is reached is there: the cdev behind a node of the frame,
\* what release of alloc_buf frees, the task that dump_fds shows, the memory
\* of the platform driver's misc device, the globalfifo behind an open file,
\* the module behind an attribute, and the files that the kernel has open.
InOwnMemory ==
    /\ loaded = "globalmem" => G!InOwnMemory /\ G!PosInRange
    /\ loaded = "proc" => P!Terminated
    /\ loaded = "frame" => F!NodeLeadsHome /\ F!UsersFindModule
    /\ loaded = "alloc_buf" => B!FreesLive
    /\ loaded = "dump_fds" => D!TaskPinned
    /\ loaded = "platform" => M!MiscBacked
    /\ loaded = "globalfifo" => N!DeviceLives
    /\ loaded = "binding" => V!FilesFindDevice /\ V!MiscBacked
    /\ loaded = "kernel_file" => H!ReachesOpenFile
    /\ loaded = "sysfs" => S!CallsInModule
    /\ loaded = "file_opt" => O!UsesOpenFiles

\* What a demo allocates or registers, it gives back.
NothingLeft ==
    /\ loaded = "list" => L!AllFreed
    /\ loaded = "fifo" => K!NodesFreed
    /\ loaded = "proc" => P!EntriesGone
    /\ loaded = "globalmem" => G!AllReturned
    /\ loaded = "frame" => F!NodesGone
    /\ loaded = "alloc_buf" => B!LostAtMost
    /\ loaded = "platform" => M!NothingBound
    /\ loaded = "globalfifo" => N!AllReturned
    /\ loaded = "binding" => V!NothingBound
    /\ loaded = "kernel_file" => H!FilesClosed
    /\ loaded = "sysfs" => S!LeaksPerLoad
    /\ loaded = "file_opt" => O!FilesClosed
=============================================================================
