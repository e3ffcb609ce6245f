---------------------------- MODULE FifoBinding ----------------------------
(***************************************************************************)
(* How the ch12 globalfifo comes to its device: globalfifo-dev.c adds a    *)
(* platform device, globalfifo.c registers the driver, and the core binds  *)
(* them, as in PlatformDemo.  Here the memory of the device also holds the *)
(* mutex and the wait queues, and every open file keeps a pointer into it. *)
(* (What the calls do with it is in GlobalFifo.)                           *)
(***************************************************************************)
EXTENDS PlatformDemo

CONSTANTS
    Tasks,
    MaxBinds    \* bound: how often the two are bound

VARIABLES
    ready,    \* mutex and wait queues of gl are initialised
    gen,      \* which gl this is, they are counted
    file,     \* the gl that each task's file points to, 0 without a file
    torn      \* the misc device has been taken away from an open file

bindVars == <<ready, gen, file, torn>>

BindInit ==
    /\ Init
    /\ ready = FALSE /\ gen = 0 /\ file = [t \in Tasks |-> 0] /\ torn = FALSE

-----------------------------------------------------------------------------
(* globalfifo-dev.c                                                        *)

DevInit == (AllocDev \/ AddDev) /\ UNCHANGED bindVars
DevExit == (DevLeaves \/ DevGone) /\ UNCHANGED bindVars

-----------------------------------------------------------------------------
(* globalfifo.c                                                            *)

Driver == (DrvRegister \/ DrvLeaves \/ DrvGone \/ Bind) /\ UNCHANGED bindVars

\* globalfifo_probe: devm_kzalloc, ...
Zalloc ==
    /\ gen < MaxBinds /\ ProbeAlloc
    /\ gen' = IF data' THEN gen + 1 ELSE gen
    /\ UNCHANGED <<ready, file, torn>>

\* ... mutex and queues, ...
InitLocks ==
    /\ data /\ ~ready /\ ready' = TRUE
    /\ UNCHANGED <<vars, gen, file, torn>>

\* Variant: the order of ch9, with the device visible at once.
RegisterAtOnce ==
    /\ ProbeRegister /\ ready' = (ready /\ data') /\ UNCHANGED <<gen, file, torn>>

\* ... and only then the misc device.
Register ==
    /\ ready /\ ProbeRegister
    /\ ready' = data' /\ UNCHANGED <<gen, file, torn>>

\* globalfifo_remove takes the misc device, not the files that are open.
Deregister ==
    /\ Remove /\ torn' = (torn \/ files > 0)
    /\ UNCHANGED <<ready, gen, file>>

DevmFree == FreeData /\ ready' = FALSE /\ UNCHANGED <<gen, file, torn>>

\* misc_open leaves a pointer to gl's miscdevice in private_data.
OpenFile(t) ==
    /\ file[t] = 0 /\ Open /\ file' = [file EXCEPT ![t] = gen]
    /\ UNCHANGED <<ready, gen, torn>>
CloseFile(t) ==
    /\ file[t] # 0 /\ Release /\ file' = [file EXCEPT ![t] = 0]
    /\ UNCHANGED <<ready, gen, torn>>

BindNext ==
    \/ DevInit \/ DevExit \/ Driver
    \/ Zalloc \/ InitLocks \/ Register \/ Deregister \/ DevmFree
    \/ \E t \in Tasks : OpenFile(t) \/ CloseFile(t)

BindSpec == BindInit /\ [][BindNext]_<<vars, bindVars>>

-----------------------------------------------------------------------------
(* Properties                                                              *)

BindTypeOK ==
    /\ TypeOK /\ ready \in BOOLEAN /\ torn \in BOOLEAN
    /\ gen \in 0..MaxBinds /\ file \in [Tasks -> 0..MaxBinds]

\* Every call on an open file, the close included, finds the gl that its file
\* was opened on, allocated and with its mutex and queues initialised, however
\* often the modules come and go; unless somebody has unbound the driver or
\* removed the device module with a file open, which only the driver's own
\* module is kept from.
FilesFindDevice == ~torn => \A t \in Tasks :
    file[t] # 0 => file[t] = gen /\ data /\ ready

\* ... and without that exception.  This is not so: the memory goes with the
\* platform device, and a task that sleeps in read then wakes on a freed queue.
FilesKeepDevice == \A t \in Tasks : file[t] # 0 => file[t] = gen /\ data
=============================================================================
