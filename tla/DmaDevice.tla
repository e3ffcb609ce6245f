----------------------------- MODULE DmaDevice -----------------------------
(***************************************************************************)
(* The DMA demo, 08.dma/1.dma_base: one minor device that hands out a      *)
(* coherent buffer, a streaming mapping, a scatter-gather mapping and a    *)
(* buffer from a DMA pool, each at most once, through ioctl.  The driver   *)
(* takes no lock: the fields of struct m_chr_device_data are tested, used  *)
(* and cleared by whatever tasks have the device open.                     *)
(*                                                                         *)
(* Memory is counted, not addressed: heap[k] is the number of live objects *)
(* of kind k, mapping[s] the number of mappings the DMA layer holds, and a *)
(* pointer field says whether it is non-NULL.  A leak is an object more    *)
(* than the fields account for, a double free one less.                    *)
(***************************************************************************)
EXTENDS Integers

CONSTANTS
    Tasks,    \* the tasks that use the device
    Uses,     \* the classes of resource each task uses
    NEnts     \* SG_NENTS

Classes == {"coherent", "single", "sg", "pool"}

ASSUME NEntsAssumption == NEnts \in Nat \ {0}
ASSUME UsesAssumption == Uses \in [Tasks -> SUBSET Classes]

VARIABLES
    mod,      \* m_chr_init and m_chr_exit
    count,    \* ioctl_count
    dd,       \* the fields of the device data that are non-NULL, true or non-zero
    heap, mapping,
    pc, i     \* each task: where it is, and the i of dma_map_sg_dev

vars == <<mod, count, dd, heap, mapping, pc, i>>

Kinds == {"coherent", "single", "array", "page", "table", "pool", "poolbuf"}
Flags == {"coherent_buf", "coherent_size", "single_buf", "single_mapped",
          "sg_pages", "sg_mapped", "dma_pool", "pool_buf", "mask64"}

\* The steps of the ioctls on each class of resource.
CoherentSteps == {"coh_alloc", "coh_size", "coh_free", "coh_clear", "coh_copy"}
SingleSteps == {"single_alloc", "single_map", "single_on", "single_unmap",
                "single_free", "single_off", "single_sync"}
SgSteps == {"sg_array", "sg_page", "sg_table", "sg_map", "sg_on", "sg_unmap",
            "sg_free", "sg_off", "sg_sync"}
PoolSteps == {"pool_create", "pool_buf", "pool_free", "pool_clear", "pool_drop", "pool_destroy"}
Inside == CoherentSteps \cup SingleSteps \cup SgSteps \cup PoolSteps

Init ==
    /\ mod = "loading" /\ count = 0
    /\ dd = {"mask64"}
    /\ heap = [k \in Kinds |-> 0]
    /\ mapping = [s \in {"single", "sg"} |-> 0]
    /\ pc = [t \in Tasks |-> "closed"] /\ i = [t \in Tasks |-> 0]

-----------------------------------------------------------------------------
(* Helpers                                                                 *)

Go(t, from, to) == pc[t] = from /\ pc' = [pc EXCEPT ![t] = to] /\ UNCHANGED <<mod, count>>
Put(f) == dd' = dd \cup {f}
Clear(f) == dd' = dd \ {f}
Take(k) == heap' = [heap EXCEPT ![k] = @ + 1]
Drop(k) == heap' = [heap EXCEPT ![k] = @ - 1]
Map(s) == mapping' = [mapping EXCEPT ![s] = @ + 1]
Unmap(s) == mapping' = [mapping EXCEPT ![s] = @ - 1]

\* An ioctl begins with the test of a field: -EBUSY or -EINVAL, and nothing
\* done, unless it is met.
Enter(t, c, met, step) ==
    /\ c \in Uses[t] /\ met
    /\ Go(t, "idle", step)
    /\ UNCHANGED <<dd, heap, mapping, i>>

-----------------------------------------------------------------------------
(* m_chr_init, open, release                                               *)

\* cdev_add and device_create: the node is there, or the loop goes on without.
CreateNode ==
    /\ mod = "loading" /\ mod' \in {"node", "nonode"}
    /\ UNCHANGED <<count, dd, heap, mapping, pc, i>>

\* dd->dev and its masks are set once the node can be opened.
SetUpDma ==
    /\ mod = "node" /\ mod' = "loaded"
    /\ UNCHANGED <<count, dd, heap, mapping, pc, i>>

Open(t) ==
    /\ mod \in {"node", "loaded"}
    /\ pc[t] = "closed" /\ pc' = [pc EXCEPT ![t] = "idle"]
    /\ count' = count + 1
    /\ UNCHANGED <<mod, dd, heap, mapping, i>>

\* What has been allocated stays with the device.
Release(t) ==
    /\ pc[t] = "idle" /\ pc' = [pc EXCEPT ![t] = "closed"]
    /\ count' = count - 1
    /\ UNCHANGED <<mod, dd, heap, mapping, i>>

-----------------------------------------------------------------------------
(* The coherent buffer                                                     *)

CoherentAlloc(t) ==
    /\ \/ Go(t, "coh_alloc", "coh_size") /\ Put("coherent_buf") /\ Take("coherent")
       \/ Go(t, "coh_alloc", "idle") /\ Clear("coherent_buf") /\ UNCHANGED heap
    /\ UNCHANGED <<mapping, i>>

\* A failing copy_to_user of the reply comes after this and undoes nothing;
\* so it is with the other ioctls that allocate.
CoherentSize(t) ==
    /\ Go(t, "coh_size", "idle") /\ Put("coherent_size")
    /\ UNCHANGED <<heap, mapping, i>>

CoherentFree(t) ==
    /\ Go(t, "coh_free", "coh_clear") /\ Drop("coherent")
    /\ UNCHANGED <<dd, mapping, i>>

CoherentClear(t) ==
    /\ Go(t, "coh_clear", "idle")
    /\ dd' = dd \ {"coherent_buf", "coherent_size"}
    /\ UNCHANGED <<heap, mapping, i>>

\* dma_read_coherent, dma_write_coherent: copy_from_user of the parameters
\* lies between the test and the copy.
CoherentCopy(t) == Go(t, "coh_copy", "idle") /\ UNCHANGED <<dd, heap, mapping, i>>

Coherent(t) ==
    \/ Enter(t, "coherent", "coherent_buf" \notin dd, "coh_alloc")
    \/ Enter(t, "coherent", "coherent_buf" \in dd, "coh_free")
    \/ Enter(t, "coherent", "coherent_buf" \in dd, "coh_copy")
    \/ CoherentAlloc(t) \/ CoherentSize(t) \/ CoherentFree(t) \/ CoherentClear(t) \/ CoherentCopy(t)

-----------------------------------------------------------------------------
(* The streaming mapping                                                   *)

SingleAlloc(t) ==
    /\ \/ Go(t, "single_alloc", "single_map") /\ Put("single_buf") /\ Take("single")
       \/ Go(t, "single_alloc", "idle") /\ Clear("single_buf") /\ UNCHANGED heap
    /\ UNCHANGED <<mapping, i>>

SingleMap(t) ==
    /\ \/ Go(t, "single_map", "single_on") /\ Map("single") /\ UNCHANGED <<dd, heap>>
       \/ Go(t, "single_map", "idle") /\ Clear("single_buf") /\ Drop("single") /\ UNCHANGED mapping
    /\ UNCHANGED i

SingleOn(t) == Go(t, "single_on", "idle") /\ Put("single_mapped") /\ UNCHANGED <<heap, mapping, i>>

\* Variant: the buffer is freed first and its mapping undone afterwards.
SingleUnmapLate(t) ==
    /\ Go(t, "single_unmap", "single_free") /\ Drop("single") /\ Clear("single_buf")
    /\ UNCHANGED <<mapping, i>>
SingleUnmap(t) == Go(t, "single_unmap", "single_free") /\ Unmap("single") /\ UNCHANGED <<dd, heap, i>>

SingleFree(t) ==
    /\ Go(t, "single_free", "single_off") /\ Drop("single") /\ Clear("single_buf")
    /\ UNCHANGED <<mapping, i>>

\* Variant: single_mapped keeps its value.
SingleOffNot(t) == Go(t, "single_off", "idle") /\ UNCHANGED <<dd, heap, mapping, i>>
SingleOff(t) == Go(t, "single_off", "idle") /\ Clear("single_mapped") /\ UNCHANGED <<heap, mapping, i>>

SingleSync(t) == Go(t, "single_sync", "idle") /\ UNCHANGED <<dd, heap, mapping, i>>

Single(t) ==
    \/ Enter(t, "single", "single_mapped" \notin dd, "single_alloc")
    \/ Enter(t, "single", "single_mapped" \in dd, "single_unmap")
    \/ Enter(t, "single", "single_mapped" \in dd, "single_sync")
    \/ SingleAlloc(t) \/ SingleMap(t) \/ SingleOn(t)
    \/ SingleUnmap(t) \/ SingleFree(t) \/ SingleOff(t) \/ SingleSync(t)

-----------------------------------------------------------------------------
(* The scatter-gather mapping                                              *)

SgArray(t) ==
    /\ \/ Go(t, "sg_array", "sg_page") /\ Put("sg_pages") /\ Take("array")
       \/ Go(t, "sg_array", "idle") /\ Clear("sg_pages") /\ UNCHANGED heap
    /\ i' = [i EXCEPT ![t] = 0]
    /\ UNCHANGED mapping

\* The error paths: n pages are freed, the array, and the table if there is one.
SgUndo(t, from, n, tables) ==
    /\ Go(t, from, "idle") /\ Clear("sg_pages")
    /\ heap' = [heap EXCEPT !["page"] = @ - n, !["array"] = @ - 1, !["table"] = @ - tables]
    /\ UNCHANGED <<mapping, i>>

\* Variant: the clean-up after a failed page leaves page 0 (--i > 0).
SgPageKeepsFirst(t) ==
    \/ /\ Go(t, "sg_page", IF i[t] + 1 < NEnts THEN "sg_page" ELSE "sg_table")
       /\ Take("page") /\ i' = [i EXCEPT ![t] = @ + 1]
       /\ UNCHANGED <<dd, mapping>>
    \/ SgUndo(t, "sg_page", IF i[t] = 0 THEN 0 ELSE i[t] - 1, 0)
\* Variant: one page more than the array has room for (i <= nents).
SgPageOneMore(t) ==
    \/ /\ Go(t, "sg_page", IF i[t] + 1 <= NEnts THEN "sg_page" ELSE "sg_table")
       /\ Take("page") /\ i' = [i EXCEPT ![t] = @ + 1]
       /\ UNCHANGED <<dd, mapping>>
    \/ SgUndo(t, "sg_page", i[t], 0)
SgPage(t) ==
    \/ /\ Go(t, "sg_page", IF i[t] + 1 < NEnts THEN "sg_page" ELSE "sg_table")
       /\ Take("page") /\ i' = [i EXCEPT ![t] = @ + 1]
       /\ UNCHANGED <<dd, mapping>>
    \/ SgUndo(t, "sg_page", i[t], 0)

SgTable(t) ==
    \/ Go(t, "sg_table", "sg_map") /\ Take("table") /\ UNCHANGED <<dd, mapping, i>>
    \/ SgUndo(t, "sg_table", NEnts, 0)

SgMap(t) ==
    \/ Go(t, "sg_map", "sg_on") /\ Map("sg") /\ UNCHANGED <<dd, heap, i>>
    \/ SgUndo(t, "sg_map", NEnts, 1)

SgOn(t) == Go(t, "sg_on", "idle") /\ Put("sg_mapped") /\ UNCHANGED <<heap, mapping, i>>

SgUnmap(t) == Go(t, "sg_unmap", "sg_free") /\ Unmap("sg") /\ UNCHANGED <<dd, heap, i>>

SgFree(t) ==
    /\ Go(t, "sg_free", "sg_off") /\ Clear("sg_pages")
    /\ heap' = [heap EXCEPT !["page"] = @ - NEnts, !["array"] = @ - 1, !["table"] = @ - 1]
    /\ UNCHANGED <<mapping, i>>

SgOff(t) == Go(t, "sg_off", "idle") /\ Clear("sg_mapped") /\ UNCHANGED <<heap, mapping, i>>

\* dma_sync_sg_dev; DMA_IOCTL_GET_INFO reads the table just so.
SgSync(t) == Go(t, "sg_sync", "idle") /\ UNCHANGED <<dd, heap, mapping, i>>

Sg(t) ==
    \/ Enter(t, "sg", "sg_mapped" \notin dd, "sg_array")
    \/ Enter(t, "sg", "sg_mapped" \in dd, "sg_unmap")
    \/ Enter(t, "sg", "sg_mapped" \in dd, "sg_sync")
    \/ SgArray(t) \/ SgPage(t) \/ SgTable(t) \/ SgMap(t) \/ SgOn(t)
    \/ SgUnmap(t) \/ SgFree(t) \/ SgOff(t) \/ SgSync(t)

-----------------------------------------------------------------------------
(* The pool                                                                *)

PoolCreate(t) ==
    /\ \/ Go(t, "pool_create", "idle") /\ Put("dma_pool") /\ Take("pool")
       \/ Go(t, "pool_create", "idle") /\ Clear("dma_pool") /\ UNCHANGED heap
    /\ UNCHANGED <<mapping, i>>

PoolAlloc(t) ==
    /\ \/ Go(t, "pool_buf", "idle") /\ Put("pool_buf") /\ Take("poolbuf")
       \/ Go(t, "pool_buf", "idle") /\ Clear("pool_buf") /\ UNCHANGED heap
    /\ UNCHANGED <<mapping, i>>

PoolFree(t) == Go(t, "pool_free", "pool_clear") /\ Drop("poolbuf") /\ UNCHANGED <<dd, mapping, i>>
PoolClear(t) == Go(t, "pool_clear", "idle") /\ Clear("pool_buf") /\ UNCHANGED <<heap, mapping, i>>

\* dma_pool_destroy_dev gives a buffer back before it destroys the pool.
PoolDrop(t) ==
    /\ Go(t, "pool_drop", "pool_destroy")
    /\ IF "pool_buf" \in dd THEN Drop("poolbuf") /\ Clear("pool_buf") ELSE UNCHANGED <<heap, dd>>
    /\ UNCHANGED <<mapping, i>>

PoolDestroy(t) ==
    /\ Go(t, "pool_destroy", "idle") /\ Drop("pool") /\ Clear("dma_pool")
    /\ UNCHANGED <<mapping, i>>

Pool(t) ==
    \/ Enter(t, "pool", "dma_pool" \notin dd, "pool_create")
    \/ Enter(t, "pool", "dma_pool" \in dd /\ "pool_buf" \notin dd, "pool_buf")
    \/ Enter(t, "pool", "pool_buf" \in dd /\ "dma_pool" \in dd, "pool_free")
    \/ Enter(t, "pool", "dma_pool" \in dd, "pool_drop")
    \/ PoolCreate(t) \/ PoolAlloc(t) \/ PoolFree(t) \/ PoolClear(t) \/ PoolDrop(t) \/ PoolDestroy(t)

-----------------------------------------------------------------------------
(* The mask, unloading                                                     *)

\* DMA_IOCTL_SET_MASK; the platform may refuse.
SetMask(t) ==
    /\ pc[t] = "idle"
    /\ (Put("mask64") \/ Clear("mask64"))
    /\ UNCHANGED <<mod, count, heap, mapping, pc, i>>

One(b) == IF b THEN 1 ELSE 0

\* What m_chr_exit gives back, by the fields it looks at.
\* Variant: the pool is destroyed with the buffer in it.
OwnedButBuffer ==
    [coherent |-> One("coherent_buf" \in dd), single |-> One("single_mapped" \in dd),
     array |-> One("sg_mapped" \in dd), table |-> One("sg_mapped" \in dd),
     page |-> IF "sg_mapped" \in dd THEN NEnts ELSE 0,
     pool |-> One("dma_pool" \in dd), poolbuf |-> 0]
Owned ==
    [coherent |-> One("coherent_buf" \in dd), single |-> One("single_mapped" \in dd),
     array |-> One("sg_mapped" \in dd), table |-> One("sg_mapped" \in dd),
     page |-> IF "sg_mapped" \in dd THEN NEnts ELSE 0,
     pool |-> One("dma_pool" \in dd), poolbuf |-> One("pool_buf" \in dd)]

\* m_chr_exit, for a device that nobody has open: the open files pin the module.
Exit ==
    /\ mod \in {"loaded", "nonode"} /\ mod' = "gone"
    /\ \A t \in Tasks : pc[t] = "closed"
    /\ heap' = [k \in Kinds |-> heap[k] - Owned[k]]
    /\ mapping' = [s \in {"single", "sg"} |->
          mapping[s] - One(IF s = "single" THEN "single_mapped" \in dd ELSE "sg_mapped" \in dd)]
    /\ UNCHANGED <<count, dd, pc, i>>

Ioctl(t) == Coherent(t) \/ Single(t) \/ Sg(t) \/ Pool(t) \/ SetMask(t)

Next == CreateNode \/ SetUpDma \/ Exit \/ \E t \in Tasks : Open(t) \/ Release(t) \/ Ioctl(t)

Spec == Init /\ [][Next]_vars

-----------------------------------------------------------------------------
(* Properties                                                              *)

TypeOK ==
    /\ mod \in {"loading", "node", "nonode", "loaded", "gone"}
    /\ count \in Int /\ dd \subseteq Flags
    /\ heap \in [Kinds -> Int] /\ mapping \in [{"single", "sg"} -> Int]
    /\ pc \in [Tasks -> {"closed", "idle"} \cup Inside] /\ i \in [Tasks -> 0..NEnts]

Outside(steps) == \A t \in Tasks : pc[t] \notin steps

\* What the fields of a class account for.
CoherentBalanced ==
    heap["coherent"] = One("coherent_buf" \in dd) /\ ("coherent_size" \in dd <=> "coherent_buf" \in dd)
SingleBalanced ==
    /\ heap["single"] = One("single_mapped" \in dd) /\ mapping["single"] = One("single_mapped" \in dd)
    /\ ("single_buf" \in dd <=> "single_mapped" \in dd)
SgBalanced ==
    /\ heap["array"] = One("sg_mapped" \in dd) /\ heap["table"] = One("sg_mapped" \in dd)
    /\ heap["page"] = IF "sg_mapped" \in dd THEN NEnts ELSE 0
    /\ mapping["sg"] = One("sg_mapped" \in dd) /\ ("sg_pages" \in dd <=> "sg_mapped" \in dd)
PoolBalanced ==
    /\ heap["pool"] = One("dma_pool" \in dd) /\ heap["poolbuf"] = One("pool_buf" \in dd)
    /\ "pool_buf" \in dd => "dma_pool" \in dd

\* Whatever way the ioctls on a class of resource have gone, with all their
\* error paths: between two of them its memory and mappings are exactly
\* those its fields account for.
NoLeak ==
    mod # "gone" => /\ Outside(CoherentSteps) => CoherentBalanced
                    /\ Outside(SingleSteps) => SingleBalanced
                    /\ Outside(SgSteps) => SgBalanced
                    /\ Outside(PoolSteps) => PoolBalanced

\* A step that uses, unmaps or frees something finds it live, mapped if it
\* must be, and free of mappings or of buffers if it must be.
TouchesLive == \A t \in Tasks :
    /\ pc[t] = "coh_free" => heap["coherent"] = 1 /\ "coherent_size" \in dd
    /\ pc[t] = "coh_copy" => heap["coherent"] = 1
    /\ pc[t] \in {"single_unmap", "single_sync"} => mapping["single"] = 1
    /\ pc[t] = "single_free" => heap["single"] = 1 /\ mapping["single"] = 0
    /\ pc[t] \in {"sg_unmap", "sg_sync"} => mapping["sg"] = 1 /\ heap["table"] = 1
    /\ pc[t] = "sg_free" => heap["page"] = NEnts /\ heap["table"] = 1 /\ mapping["sg"] = 0
    /\ pc[t] = "pool_free" => heap["poolbuf"] = 1 /\ heap["pool"] = 1
    /\ pc[t] = "pool_destroy" => heap["pool"] = 1 /\ heap["poolbuf"] = 0

\* The device never has a mapping of memory that has been given back.
MappingsBacked ==
    /\ mapping["single"] <= heap["single"]
    /\ mapping["sg"] > 0 => heap["page"] = NEnts /\ heap["table"] = 1

\* Unloading the module gives back all DMA resources (ReadMe.md:251).
CleanUnload ==
    mod = "gone" => (\A k \in Kinds : heap[k] = 0) /\ (\A s \in {"single", "sg"} : mapping[s] = 0)

\* No two tasks use the same class of resource: what the driver relies on.
Disjoint == \A s, t \in Tasks : s # t => Uses[s] \cap Uses[t] = {}

\* The mask is set up before any function of the DMA API is called
\* (kDemo.c:961-964).
DmaCalls == {"coh_alloc", "single_map", "sg_map", "pool_create"}
MaskFirst == \A t \in Tasks : pc[t] \in DmaCalls => mod = "loaded"
=============================================================================
