----------------------------- MODULE KernelFile -----------------------------
(***************************************************************************)
(* The demo 03.file_sysfs/1.kernel_file_opt: open of the device opens a    *)
(* file of the file system behind the global fp, read and write go to it,  *)
(* release closes it.  With two open files of the device there is still    *)
(* one fp.                                                                 *)
(***************************************************************************)
EXTENDS Integers

CONSTANTS
    Tasks,
    MaxOpens    \* bound: the opens of the device

VARIABLES
    fp,        \* the file opened last, 0 for NULL, or -1 for ERR_PTR
    files,     \* the files of the file system that are open
    opened,    \* how many have been opened
    pc,        \* each task: "closed", "open", or "dead" of an oops
    overlap    \* two files of the device have been open together

vars == <<fp, files, opened, pc, overlap>>

Init ==
    /\ fp = 0 /\ files = {} /\ opened = 0
    /\ pc = [t \in Tasks |-> "closed"] /\ overlap = FALSE

Open(t) ==
    /\ pc[t] = "closed" /\ pc' = [pc EXCEPT ![t] = "open"]
    /\ opened < MaxOpens /\ opened' = opened + 1
    /\ fp' = opened' /\ files' = files \cup {fp'}
    /\ overlap' = (overlap \/ \E u \in Tasks : pc[u] # "closed")

\* filp_open fails, and open returns -1.
OpenFails(t) ==
    /\ pc[t] = "closed" /\ fp' = -1
    /\ overlap' = (overlap \/ \E u \in Tasks : pc[u] # "closed")
    /\ UNCHANGED <<files, opened, pc>>

\* kernel_read, kernel_write
Use(t) ==
    /\ pc[t] = "open"
    /\ pc' = [pc EXCEPT ![t] = IF fp = -1 THEN "dead" ELSE "open"]
    /\ UNCHANGED <<fp, files, opened, overlap>>

\* Variant: fp is closed by whoever opens next.
ReleaseNot(t) ==
    /\ pc[t] = "open" /\ pc' = [pc EXCEPT ![t] = "closed"]
    /\ UNCHANGED <<fp, files, opened, overlap>>
\* fp keeps its value.
Release(t) ==
    /\ pc[t] = "open" /\ pc' = [pc EXCEPT ![t] = IF fp = -1 THEN "dead" ELSE "closed"]
    /\ files' = files \ {fp}
    /\ UNCHANGED <<fp, opened, overlap>>

Next == \E t \in Tasks : Open(t) \/ OpenFails(t) \/ Use(t) \/ Release(t)

Spec == Init /\ [][Next]_vars

-----------------------------------------------------------------------------
(* Properties                                                              *)

TypeOK ==
    /\ fp \in -1..MaxOpens /\ files \subseteq 1..MaxOpens /\ opened \in 0..MaxOpens
    /\ pc \in [Tasks -> {"closed", "open", "dead"}] /\ overlap \in BOOLEAN

\* As long as one file of the device is open at a time, its reads and writes
\* go to a file that is open, whatever earlier opens have left in fp, and
\* nobody dies.
ReachesOpenFile == ~overlap => \A t \in Tasks :
    pc[t] # "dead" /\ (pc[t] = "open" => fp \in files)

\* ... and every file that was opened is closed.
FilesClosed == ~overlap => \A f \in files : \E t \in Tasks : pc[t] = "open" /\ f = fp
=============================================================================
