---------------------------- MODULE PlatformDemo ----------------------------
(***************************************************************************)
(* The platform driver demo, 04.platform_driver: one module registers a    *)
(* device, another the driver, in any order.  When both are there the      *)
(* driver core binds them: probe allocates the driver's data, which the    *)
(* core frees after remove, and registers a misc device in it.             *)
(***************************************************************************)
EXTENDS Integers

CONSTANTS MaxFiles    \* bound: the files open at a time

VARIABLES
    dev,     \* kDemo_dev: "out", "alloc" within its init, "added", "leaving"
    drv,     \* kDemo: "out", "in", "leaving"
    bound,   \* "no", "probe", "register", "yes", "removed"
    data,    \* the devm memory of the device: there or not
    misc,    \* the misc device is registered
    files    \* open files of the misc device

vars == <<dev, drv, bound, data, misc, files>>

Init ==
    /\ dev = "out" /\ drv = "out" /\ bound = "no"
    /\ data = FALSE /\ misc = FALSE /\ files = 0

-----------------------------------------------------------------------------
(* kDemo_dev.c                                                             *)

\* platform_device_alloc; without memory the module is not loaded.
AllocDev == dev = "out" /\ dev' = "alloc" /\ UNCHANGED <<drv, bound, data, misc, files>>

\* platform_device_add; if it fails the device is put, and init fails.
AddDev == dev = "alloc" /\ dev' \in {"added", "out"} /\ UNCHANGED <<drv, bound, data, misc, files>>

\* platform_device_unregister takes the driver off the device first.  Open
\* files do not keep this module.
DevLeaves == dev = "added" /\ dev' = "leaving" /\ UNCHANGED <<drv, bound, data, misc, files>>
DevGone ==
    /\ dev = "leaving" /\ bound = "no" /\ dev' = "out"
    /\ UNCHANGED <<drv, bound, data, misc, files>>

-----------------------------------------------------------------------------
(* kDemo.c: module_platform_driver                                         *)

DrvRegister == drv = "out" /\ drv' = "in" /\ UNCHANGED <<dev, bound, data, misc, files>>

\* Open files keep the driver, the owner of the file operations.
DrvLeaves ==
    /\ drv = "in" /\ files = 0 /\ drv' = "leaving"
    /\ UNCHANGED <<dev, bound, data, misc, files>>
DrvGone ==
    /\ drv = "leaving" /\ bound = "no" /\ drv' = "out"
    /\ UNCHANGED <<dev, bound, data, misc, files>>

\* The core binds the two when either comes, or when told so through sysfs.
Bind ==
    /\ dev = "added" /\ drv = "in" /\ bound = "no" /\ bound' = "probe"
    /\ UNCHANGED <<dev, drv, data, misc, files>>

\* m_plt_probe: devm_kzalloc ...
ProbeAlloc ==
    /\ bound = "probe"
    /\ \/ bound' = "register" /\ data' = TRUE
       \/ bound' = "no" /\ UNCHANGED data
    /\ UNCHANGED <<dev, drv, misc, files>>

\* ... and misc_register; when that fails the core frees the data.
ProbeRegister ==
    /\ bound = "register"
    /\ \/ bound' = "yes" /\ misc' = TRUE /\ UNCHANGED data
       \/ bound' = "no" /\ data' = FALSE /\ UNCHANGED misc
    /\ UNCHANGED <<dev, drv, files>>

\* m_plt_remove, when either module goes, or through sysfs.
\* Variant: the misc device is left to the core, which knows nothing of it.
RemoveNot ==
    /\ bound = "yes" /\ bound' = "removed"
    /\ UNCHANGED <<dev, drv, data, misc, files>>
Remove ==
    /\ bound = "yes" /\ bound' = "removed" /\ misc' = FALSE
    /\ UNCHANGED <<dev, drv, data, files>>

\* devres_release_all
FreeData ==
    /\ bound = "removed" /\ bound' = "no" /\ data' = FALSE
    /\ UNCHANGED <<dev, drv, misc, files>>

\* misc_open finds the registered device only, and takes a reference to its
\* module; there is none to take once that is on its way out.
Open ==
    /\ misc /\ drv = "in" /\ files < MaxFiles /\ files' = files + 1
    /\ UNCHANGED <<dev, drv, bound, data, misc>>
Release == files > 0 /\ files' = files - 1 /\ UNCHANGED <<dev, drv, bound, data, misc>>

Next ==
    \/ AllocDev \/ AddDev \/ DevLeaves \/ DevGone
    \/ DrvRegister \/ DrvLeaves \/ DrvGone
    \/ Bind \/ ProbeAlloc \/ ProbeRegister \/ Remove \/ FreeData
    \/ Open \/ Release

Spec == Init /\ [][Next]_vars

-----------------------------------------------------------------------------
(* Properties                                                              *)

TypeOK ==
    /\ dev \in {"out", "alloc", "added", "leaving"} /\ drv \in {"out", "in", "leaving"}
    /\ bound \in {"no", "probe", "register", "yes", "removed"}
    /\ data \in BOOLEAN /\ misc \in BOOLEAN /\ files \in 0..MaxFiles

\* A misc device that can be opened lies in memory that is allocated, and its
\* operations in a module that is loaded; also an open file finds the module,
\* although the device, with the data behind private_data, may be gone.
MiscBacked == (misc => data /\ drv # "out" /\ dev # "out") /\ (files > 0 => drv = "in")

\* Whichever module goes first takes everything with it.
NothingBound == dev = "out" \/ drv = "out" => ~data /\ ~misc
=============================================================================
