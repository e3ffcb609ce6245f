------------------------------- MODULE FdDump -------------------------------
(***************************************************************************)
(* /proc/dump_fds, 03.file_sysfs/5.dump_fd_info: a read shows the open     *)
(* files of the task target_pid, or of the reader itself.  The target may  *)
(* exit meanwhile, and target_pid, a module parameter, may be written.     *)
(***************************************************************************)
EXTENDS Integers, FiniteSets

CONSTANTS Readers

VARIABLES
    pc,          \* where each reader is in dump_fds_show
    own,         \* whether it shows its own files
    target_pid,  \* -1, or that of the target
    life,        \* the target: "running", without "nofiles", "unhashed", or "reaped"
    usage        \* references to its task_struct, which goes with the last

vars == <<pc, own, target_pid, life, usage>>

Target == 7

Init ==
    /\ pc = [r \in Readers |-> "idle"] /\ own = [r \in Readers |-> TRUE]
    /\ target_pid = -1 /\ life = "running" /\ usage = 1

Go(r, from, to) == pc[r] = from /\ pc' = [pc EXCEPT ![r] = to]

-----------------------------------------------------------------------------
(* The target and the parameter                                            *)

SetTarget == target_pid' \in {-1, Target} /\ UNCHANGED <<pc, own, life, usage>>

\* exit_files, and release_task, after which no look-up finds the task.
Exit ==
    /\ \/ life = "running" /\ life' = "nofiles"
       \/ life = "nofiles" /\ life' = "unhashed"
    /\ UNCHANGED <<pc, own, target_pid, usage>>

\* The RCU read-side critical section of a reader that has found the task.
\* Variant: it ends before get_task_struct.
SectionTooShort == {"unlock"}
Section == {"get", "unlock"}

\* The kernel gives its own reference up when those readers are gone.
Reap ==
    /\ life = "unhashed" /\ life' = "reaped"
    /\ \A r \in Readers : pc[r] \notin Section
    /\ usage' = usage - 1
    /\ UNCHANGED <<pc, own, target_pid>>

-----------------------------------------------------------------------------
(* dump_fds_show                                                           *)

Show(r) ==
    /\ Go(r, "idle", IF target_pid = -1 THEN "files" ELSE "find")
    /\ own' = [own EXCEPT ![r] = target_pid = -1]
    /\ UNCHANGED <<target_pid, life, usage>>

\* target_pid is read again, and may have changed.
Find(r) ==
    /\ Go(r, "find", IF target_pid = Target /\ life \in {"running", "nofiles"} THEN "get" ELSE "idle")
    /\ UNCHANGED <<own, target_pid, life, usage>>

Get(r) ==
    /\ Go(r, "get", "unlock") /\ usage' = usage + 1
    /\ UNCHANGED <<own, target_pid, life>>

Unlock(r) == Go(r, "unlock", "files") /\ UNCHANGED <<own, target_pid, life, usage>>

\* task->files, without task_lock; and its reference count is not raised.
FilesOf(r) ==
    /\ Go(r, "files", IF own[r] \/ life = "running" THEN "walk" ELSE "put")
    /\ UNCHANGED <<own, target_pid, life, usage>>

\* The walk through the table, under files->file_lock; a page that cannot be
\* had, or a path that cannot be shown, only ends the line.
Walk(r) == Go(r, "walk", "put") /\ UNCHANGED <<own, target_pid, life, usage>>

Put(r) ==
    /\ Go(r, "put", "idle")
    /\ usage' = IF own[r] THEN usage ELSE usage - 1
    /\ UNCHANGED <<own, target_pid, life>>

Next ==
    \/ SetTarget \/ Exit \/ Reap
    \/ \E r \in Readers : Show(r) \/ Find(r) \/ Get(r) \/ Unlock(r) \/ FilesOf(r) \/ Walk(r) \/ Put(r)

Spec == Init /\ [][Next]_vars

-----------------------------------------------------------------------------
(* Properties                                                              *)

TypeOK ==
    /\ pc \in [Readers -> {"idle", "find", "get", "unlock", "files", "walk", "put"}]
    /\ own \in [Readers -> BOOLEAN] /\ target_pid \in {-1, Target}
    /\ life \in {"running", "nofiles", "unhashed", "reaped"} /\ usage \in Int

\* From its look-up to its put a reader has a task_struct that is still there,
\* although the target may be gone, and in the end all references are returned.
TaskPinned ==
    /\ \A r \in Readers : ~own[r] /\ pc[r] \in {"get", "unlock", "files", "walk", "put"} => usage > 0
    /\ usage = (IF life = "reaped" THEN 0 ELSE 1)
               + Cardinality({r \in Readers : ~own[r] /\ pc[r] \in {"unlock", "files", "walk", "put"}})

\* The table that is walked is still there.  This is not so for the files of
\* another task: it may exit between the look at task->files and the lock.
FilesPinned == \A r \in Readers : pc[r] = "walk" => own[r] \/ life = "running"
=============================================================================
