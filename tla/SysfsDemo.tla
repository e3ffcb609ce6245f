------------------------------ MODULE SysfsDemo ------------------------------
(***************************************************************************)
(* The sysfs demo, 03.file_sysfs/2.sysfs: an attribute that is stored into *)
(* and shown from one buffer.  The init function looks at no result, and   *)
(* the exit function frees no buffer.  A text may be longer than the       *)
(* buffer; what memory is like after that is not followed any further.     *)
(***************************************************************************)
EXTENDS Integers

CONSTANTS
    Tasks,
    MaxLoads    \* bound: how often the module is loaded

VARIABLES
    mod,       \* how far m_chr_init or m_chr_exit has come
    kobj,      \* m_kobj is not NULL
    attr,      \* the attribute is there to be opened
    buffer,    \* m_internal_buffer: "NULL", "unset", "text", or
               \* "overrun": written beyond its end
    pc,        \* each task: "idle", in "show" or "store", or "dead"
    loads, leaked

vars == <<mod, kobj, attr, buffer, pc, loads, leaked>>

Init ==
    /\ mod = "out" /\ kobj = FALSE /\ attr = FALSE /\ buffer = "NULL"
    /\ pc = [t \in Tasks |-> "idle"] /\ loads = 0 /\ leaked = 0

Phase(from, to) == mod = from /\ mod' = to

CreateKobj ==
    /\ Phase("out", "kmalloc") /\ loads < MaxLoads /\ loads' = loads + 1
    /\ kobj' \in BOOLEAN /\ UNCHANGED <<attr, buffer, pc, leaked>>

Kmalloc ==
    /\ Phase("kmalloc", "create") /\ buffer' \in {"NULL", "unset"}
    /\ UNCHANGED <<kobj, attr, pc, loads, leaked>>

\* It fails without a kobject, and the module is loaded all the same.
CreateFile ==
    /\ Phase("create", "loaded") /\ attr' \in {FALSE, kobj}
    /\ UNCHANGED <<kobj, buffer, pc, loads, leaked>>

Begin(t, call) ==
    /\ attr /\ pc[t] = "idle" /\ pc' = [pc EXCEPT ![t] = call]
    /\ UNCHANGED <<mod, kobj, attr, buffer, loads, leaked>>

\* sprintf from NULL prints (null).
Show(t) ==
    /\ pc[t] = "show" /\ pc' = [pc EXCEPT ![t] = "idle"]
    /\ UNCHANGED <<mod, kobj, attr, buffer, loads, leaked>>

\* sprintf to NULL is fatal, and the task is never out of the attribute.  A
\* text that does not fit into the 100 bytes may be fatal at once or later.
Store(t) ==
    /\ pc[t] = "store"
    /\ \E p \in {"idle", "dead"} :
        /\ pc' = [pc EXCEPT ![t] = p]
        /\ \/ buffer = "NULL" /\ p = "dead" /\ UNCHANGED buffer
           \/ buffer # "NULL" /\ p = "idle" /\ buffer' = "text"
           \/ buffer # "NULL" /\ buffer' = "overrun"
    /\ UNCHANGED <<mod, kobj, attr, loads, leaked>>

\* Without a kobject sysfs_remove_file is fatal for rmmod.
RemoveFile ==
    /\ Phase("loaded", IF kobj THEN "drain" ELSE "halted") /\ attr' = FALSE
    /\ UNCHANGED <<kobj, buffer, pc, loads, leaked>>

\* Variant: sysfs_remove_file does not wait.
DrainNot == Phase("drain", "out")
\* It waits for the calls under way.
Drain == Phase("drain", "out") /\ \A t \in Tasks : pc[t] = "idle"

\* The module goes, and with it the pointer to the buffer.
Unload ==
    /\ Drain
    /\ kobj' = FALSE /\ buffer' = "NULL"
    /\ leaked' = IF buffer = "NULL" THEN leaked ELSE leaked + 1
    /\ UNCHANGED <<attr, pc, loads>>

Next ==
    /\ buffer # "overrun"
    /\ \/ CreateKobj \/ Kmalloc \/ CreateFile \/ RemoveFile \/ Unload
       \/ \E t \in Tasks : Begin(t, "show") \/ Begin(t, "store") \/ Show(t) \/ Store(t)

Spec == Init /\ [][Next]_vars

-----------------------------------------------------------------------------
(* Properties                                                              *)

TypeOK ==
    /\ mod \in {"out", "kmalloc", "create", "loaded", "drain", "halted"}
    /\ kobj \in BOOLEAN /\ attr \in BOOLEAN
    /\ buffer \in {"NULL", "unset", "text", "overrun"}
    /\ pc \in [Tasks -> {"idle", "show", "store", "dead"}]
    /\ loads \in 0..MaxLoads /\ leaked \in 0..MaxLoads

\* No m_show or m_store runs in a module that is gone or has not got its buffer
\* yet; and none of them has died if the buffer was got and every text fits.
CallsInModule == \A t \in Tasks :
    /\ pc[t] # "idle" => mod \in {"loaded", "drain"} /\ kobj
    /\ pc[t] = "dead" => buffer \in {"NULL", "overrun"}

\* A load leaks at most its one buffer, and only a load that is over.
LeaksPerLoad == leaked <= IF mod = "out" THEN loads ELSE loads - 1

\* A stored text ends within the buffer.  This is not so: a store of sysfs may
\* bring a page, the buffer has 100 bytes, and sprintf does not know.
StoresFit == buffer # "overrun"

\* What is shown has been stored.  This is not so: the buffer is shown as
\* kmalloc has left it.
ShownIsStored == \A t \in Tasks : pc[t] = "show" => buffer # "unset"
=============================================================================
