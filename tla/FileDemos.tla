----------------------------- MODULE FileDemos -----------------------------
(***************************************************************************)
(* The demos of devices, files and entries, and the frame of all modules,  *)
(* each with variables of its own.                                         *)
(***************************************************************************)
EXTENDS DemoTasks, Integers, Sequences

CONSTANTS
    ProcSize, MaxWrites,                                  \* 3.proc
    Files, Users, DeviceNum, MemSize, UintModulus, MaxDrift,    \* globalmem
    Demos, Base, Majors,                                  \* 01.base_demo
    MaxFiles, MaxBinds,                   \* 04.platform_driver, and ch12
    MaxOpens, MaxLoads, MaxOpened         \* the file demos and 2.sysfs

VARIABLES
    pmod, entries, ppc, version, mine, proc_buf, buf_lock,
    m_seq_buf, m_seq_buf_len, m_seq_buf_lock, failed, counter, pos, got, mixed,
    gmod, region, mem, cdevs, dev, f_pos, pc, arg,
    at, idx, dev_major, regions, class, cdev_map, node, refused, demo2, upc, ufile,
    dpc, own, target_pid, life, usage,
    pdev, drv, bound, data, misc, files,
    fp, kfiles, kopened, kfpc, koverlap,
    smod, kobj, attr, buffer, spc, loads, leaked,
    file_test, log_file, ofiles, oopened, exists, undeleted, opc, ooverlap

\* 03.file_sysfs/3.proc
P == INSTANCE ProcDemo WITH
        Size <- ProcSize, None <- NULL, mod <- pmod, pc <- ppc
\* 06.char_drv/1.cdev/0.ch6
G == INSTANCE GlobalMem WITH Size <- MemSize, mod <- gmod
\* 01.base_demo
F == INSTANCE DemoFrame WITH None <- NULL
\* 03.file_sysfs/5.dump_fd_info
D == INSTANCE FdDump WITH Readers <- Tasks, pc <- dpc
\* 04.platform_driver
M == INSTANCE PlatformDemo WITH dev <- pdev
\* 03.file_sysfs/1.kernel_file_opt
H == INSTANCE KernelFile WITH
        files <- kfiles, opened <- kopened, pc <- kfpc, overlap <- koverlap
\* 03.file_sysfs/2.sysfs
S == INSTANCE SysfsDemo WITH mod <- smod, pc <- spc
\* 03.file_sysfs/4.file_opt
O == INSTANCE FileOpt WITH
        MaxFiles <- MaxOpened, files <- ofiles, opened <- oopened, pc <- opc,
        overlap <- ooverlap

ASSUME FileParameters ==
    /\ ProcSize \in Nat /\ ProcSize > 1
    /\ G!GlobalMemAssumption /\ F!FrameAssumption
    /\ MaxFiles \in Nat /\ MaxBinds \in Nat
    /\ MaxOpens \in Nat /\ MaxLoads \in Nat /\ MaxOpened \in Nat
    /\ NULL \notin Nat /\ NULL \notin Tasks

procVars   == <<pmod, entries, ppc, version, mine, proc_buf, buf_lock, m_seq_buf,
                m_seq_buf_len, m_seq_buf_lock, failed, counter, pos, got, mixed>>
memVars    == <<gmod, region, mem, cdevs, dev, f_pos, pc, arg>>
frameVars  == <<at, idx, dev_major, regions, class, cdev_map, node, refused, demo2, upc, ufile>>
dumpVars   == <<dpc, own, target_pid, life, usage>>
pltVars    == <<pdev, drv, bound, data, misc, files>>
kfileVars  == <<fp, kfiles, kopened, kfpc, koverlap>>
sysfsVars  == <<smod, kobj, attr, buffer, spc, loads, leaked>>
fileVars   == <<file_test, log_file, ofiles, oopened, exists, undeleted, opc, ooverlap>>
=============================================================================
