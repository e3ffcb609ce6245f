----------------------------- MODULE DemoFrame -----------------------------
(***************************************************************************)
(* The frame the demos of 00.mDemo share, as 01.base_demo/1.base has it:   *)
(* loading asks for a region of device numbers, creates the class and then *)
(* a cdev and a device node for each minor; unloading takes some of that   *)
(* back.  No result is looked at.                                          *)
(*                                                                         *)
(* All demos name their class and their nodes alike, so they get into each *)
(* other's way: the model has several of them, built under different names *)
(* (the kernel takes one kDemo at a time), loaded and unloaded time after  *)
(* time.  userDemoBase.c opens what it finds under their names, and        *)
(* kDemo_2 links to a symbol of the first.                                 *)
(***************************************************************************)
EXTENDS Integers, FiniteSets

CONSTANTS
    Demos,    \* the modules built from the frame
    Base,     \* that of 1.base, which exports demo1_export_test
    Majors,   \* the major numbers that are given out dynamically
    None

FrameAssumption == IsFiniteSet(Majors) /\ Majors \subseteq Nat \ {0} /\ None \notin Demos /\ Base \in Demos

VARIABLES
    at,          \* how far each demo has come
    idx,         \* the minor it is at
    dev_major,
    regions,     \* [major, count] that the kernel has given out
    class,       \* the demo that has created m_chrdev_cls, or None
    cdev_map,    \* the cdev a device number leads to: the demo's, None, ...
    node,        \* the demo whose device has the number and the node, or None
    refused,     \* whether a region has ever been refused
    demo2,       \* kDemo_2 is loaded
    upc,         \* where the program is in test_base
    ufile        \* the demo whose file it has open, or None

userVars == <<demo2, upc, ufile>>
vars == <<at, idx, dev_major, regions, class, cdev_map, node, refused, userVars>>

MAX_DEV == 2
Minors == 0..MAX_DEV - 1
Devs == Majors \X Minors
\* ... or one in the memory of a module that is no longer there.
Freed == "freed"

Init ==
    /\ at = [d \in Demos |-> "out"] /\ idx = [d \in Demos |-> 0]
    /\ dev_major = [d \in Demos |-> 0]
    /\ regions = {} /\ class = None
    /\ cdev_map = [n \in Devs |-> None] /\ node = [n \in Devs |-> None]
    /\ refused = FALSE
    /\ demo2 = FALSE /\ upc = "out" /\ ufile = None

Go(d, from, to) == at[d] = from /\ at' = [at EXCEPT ![d] = to]
Dev(d) == <<dev_major[d], idx[d]>>

-----------------------------------------------------------------------------
(* m_chr_init                                                              *)

\* alloc_chrdev_region: the highest major number that is free.
FreeMajors == Majors \ {r.major : r \in regions}
AllocRegion(d) ==
    /\ Go(d, "out", "region") /\ FreeMajors # {}
    /\ LET m == CHOOSE m \in FreeMajors : \A n \in FreeMajors : n <= m
       IN  /\ regions' = regions \cup {[major |-> m, count |-> MAX_DEV]}
           /\ dev_major' = [dev_major EXCEPT ![d] = m]
    /\ UNCHANGED <<idx, class, cdev_map, node, refused, userVars>>

\* There is none, or no memory: devno keeps whatever is on the stack.
RegionRefused(d) ==
    /\ Go(d, "out", "region")
    /\ \E m \in Majors : dev_major' = [dev_major EXCEPT ![d] = m]
    /\ refused' = TRUE
    /\ UNCHANGED <<idx, regions, class, cdev_map, node, userVars>>

CreateClass(d) ==
    /\ Go(d, "region", "cdev") /\ class = None /\ class' = d
    /\ idx' = [idx EXCEPT ![d] = 0]
    /\ UNCHANGED <<dev_major, regions, cdev_map, node, refused, userVars>>

\* It exists, or there is no memory: dev_uevent is set in what is no class.
\* The module can neither go on nor be unloaded.
ClassOops(d) ==
    /\ Go(d, "region", "oops")
    /\ UNCHANGED <<idx, dev_major, regions, class, cdev_map, node, refused, userVars>>

\* The cdev that is added last is found first.
AddCdev(d) ==
    /\ Go(d, "cdev", "node")
    /\ cdev_map' \in {cdev_map, [cdev_map EXCEPT ![Dev(d)] = d]}
    /\ UNCHANGED <<idx, dev_major, regions, class, node, refused, userVars>>

\* device_create fails if the number has a device already, or for want of memory.
CreateDevice(d) ==
    /\ Go(d, "node", IF idx[d] + 1 < MAX_DEV THEN "cdev" ELSE "loaded")
    /\ \/ node[Dev(d)] = None /\ node' = [node EXCEPT ![Dev(d)] = d]
       \/ UNCHANGED node
    /\ idx' = [idx EXCEPT ![d] = IF @ + 1 < MAX_DEV THEN @ + 1 ELSE 0]
    /\ UNCHANGED <<dev_major, regions, class, cdev_map, refused, userVars>>

-----------------------------------------------------------------------------
(* m_chr_exit                                                              *)

\* What keeps a module: the file, whose cdev names its owner, and the symbol.
\* Variant: without .owner = THIS_MODULE.
PinnedBySymbol(d) == demo2 /\ d = Base
Pinned(d) == ufile = d \/ (demo2 /\ d = Base)

\* rmmod: from here on the module is not to be had.
Leave(d) ==
    /\ Go(d, "loaded", "destroy") /\ ~Pinned(d)
    /\ UNCHANGED <<idx, dev_major, regions, class, cdev_map, node, refused, userVars>>

\* device_destroy looks for the number among the devices of the class.
DestroyDevice(d) ==
    /\ Go(d, "destroy", IF idx[d] + 1 < MAX_DEV THEN "destroy" ELSE "class")
    /\ node' = [node EXCEPT ![Dev(d)] = IF @ = d THEN None ELSE @]
    /\ idx' = [idx EXCEPT ![d] = IF @ + 1 < MAX_DEV THEN @ + 1 ELSE 0]
    /\ UNCHANGED <<dev_major, regions, class, cdev_map, refused, userVars>>

DestroyClass(d) ==
    /\ Go(d, "class", "unregister") /\ class' = None
    /\ UNCHANGED <<idx, dev_major, regions, cdev_map, node, refused, userVars>>

\* Variant: the count that was asked for.
ExitCountMatches == MAX_DEV
\* MINORMASK
ExitCount == 1048575

\* unregister_chrdev_region takes back a region of exactly this count.  There
\* is no cdev_del: the kernel keeps the cdevs, whose memory goes with the module.
Unregister(d) ==
    /\ Go(d, "unregister", "out")
    /\ regions' = regions \ {[major |-> dev_major[d], count |-> ExitCount]}
    /\ cdev_map' = [n \in Devs |-> IF cdev_map[n] = d THEN Freed ELSE cdev_map[n]]
    /\ dev_major' = [dev_major EXCEPT ![d] = 0]
    /\ UNCHANGED <<idx, class, node, refused, userVars>>

Load(d) == AllocRegion(d) \/ RegionRefused(d) \/ CreateClass(d) \/ ClassOops(d)
           \/ AddCdev(d) \/ CreateDevice(d)
Unload(d) == Leave(d) \/ DestroyDevice(d) \/ DestroyClass(d) \/ Unregister(d)

-----------------------------------------------------------------------------
(* kDemo_2.c, which cannot be loaded before the symbol is there            *)

LoadDemo2   == at[Base] = "loaded" /\ ~demo2 /\ demo2' = TRUE
UnloadDemo2 == demo2 /\ demo2' = FALSE

-----------------------------------------------------------------------------
(* userDemoBase.c: test_base.  What it writes and reads keeps no state.     *)

\* open goes from the name to the number, on to the cdev and its module.
Leads(minor) ==
    {cdev_map[n] : n \in {x \in Devs : x[2] = minor /\ node[x] # None}} \cap
    {d \in Demos : at[d] \in {"cdev", "node", "loaded"}}

\* The program dies if this fails, fwrite gets a null pointer.
OpenFirst   == upc = "out" /\ ufile' \in Leads(0) /\ upc' = "first"
CloseFirst  == upc = "first" /\ ufile' = None /\ upc' = "between"
\* If this fails nobody looks, ioctl and close fail as well.
OpenSecond  == upc = "between" /\ ufile' \in Leads(1) \cup {None} /\ upc' = "second"
CloseSecond == upc = "second" /\ ufile' = None /\ upc' = "out"

UserProgram ==
    /\ \/ (LoadDemo2 \/ UnloadDemo2) /\ UNCHANGED <<upc, ufile>>
       \/ (OpenFirst \/ CloseFirst \/ OpenSecond \/ CloseSecond) /\ UNCHANGED demo2
    /\ UNCHANGED <<at, idx, dev_major, regions, class, cdev_map, node, refused>>

Next == UserProgram \/ \E d \in Demos : Load(d) \/ Unload(d)

Spec == Init /\ [][Next]_vars

-----------------------------------------------------------------------------
(* Properties                                                              *)

TypeOK ==
    /\ at \in [Demos -> {"out", "region", "cdev", "node", "loaded", "destroy", "class",
                       "unregister", "oops"}]
    /\ idx \in [Demos -> Minors] /\ dev_major \in [Demos -> Majors \cup {0}]
    /\ regions \subseteq [major : Majors, count : {MAX_DEV}]
    /\ class \in Demos \cup {None}
    /\ cdev_map \in [Devs -> Demos \cup {None, Freed}]
    /\ node \in [Devs -> Demos \cup {None}] /\ refused \in BOOLEAN
    /\ demo2 \in BOOLEAN /\ upc \in {"out", "first", "between", "second"}
    /\ ufile \in Demos \cup {None}

\* A node never leads into a module that is gone, nor to another demo's
\* cdev, as long as no region has been refused.  The cdevs of unloaded demos
\* stay in the kernel's map; what keeps new nodes from them is that the
\* regions stay taken, too.
NodeLeadsHome == ~refused => \A n \in Devs : node[n] # None => cdev_map[n] \in {node[n], None}

\* A call on the open file runs in a module that has its devices, and kDemo_2
\* finds the string it is linked to.
UsersFindModule ==
    /\ ufile # None => at[ufile] \in {"cdev", "node", "loaded"}
    /\ demo2 => at[Base] = "loaded"

\* A demo that is out has left neither a node nor the class, and none of the
\* demos is in the middle of the class of another.
NodesGone ==
    /\ \A d \in Demos : at[d] = "out" => class # d /\ \A n \in Devs : node[n] # d
    /\ \A n \in Devs : node[n] \in {None, class}

\* A demo that is out has returned its region.  This is not so: it asks for
\* the return of another count than it has been given, and after as many
\* loads as there are major numbers no demo gets one.
RegionReturned == (\A d \in Demos : at[d] = "out") => regions = {}
=============================================================================
