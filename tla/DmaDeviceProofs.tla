-------------------------- MODULE DmaDeviceProofs --------------------------
(***************************************************************************)
(* For any number of tasks and any SG_NENTS: if no two tasks use the same  *)
(* class of resource, the DMA demo neither leaks nor touches anything that *)
(* is not live.                                                            *)
(*                                                                         *)
(* The inductive invariant is one conjunct for each class: who may be      *)
(* inside its ioctls, what its fields and counters are at each step of     *)
(* them, and that they balance between them.  A step of a class preserves  *)
(* its own conjunct because no other task is inside, and the conjuncts of  *)
(* the other classes because it leaves their fields alone.                 *)
(***************************************************************************)
EXTENDS DmaDevice, TLAPS

Alive == mod # "gone"
Own(c, steps) == \A t \in Tasks : pc[t] \in steps => c \in Uses[t]

-----------------------------------------------------------------------------
(* The conjuncts of the inductive invariant                                *)

CoherentIs(n, buf, size) ==
    heap["coherent"] = n /\ ("coherent_buf" \in dd <=> buf) /\ ("coherent_size" \in dd <=> size)
CoherentAt(p) ==
    /\ p = "coh_alloc" => CoherentIs(0, FALSE, FALSE)
    /\ p = "coh_size" => CoherentIs(1, TRUE, FALSE)
    /\ p \in {"coh_free", "coh_copy"} => CoherentIs(1, TRUE, TRUE)
    /\ p = "coh_clear" => CoherentIs(0, TRUE, TRUE)
CoherentInv ==
    /\ Own("coherent", CoherentSteps)
    /\ Alive /\ Outside(CoherentSteps) => CoherentBalanced
    /\ \A t \in Tasks : CoherentAt(pc[t])

SingleIs(n, m, buf, on) ==
    /\ heap["single"] = n /\ mapping["single"] = m
    /\ ("single_buf" \in dd <=> buf) /\ ("single_mapped" \in dd <=> on)
SingleAt(p) ==
    /\ p = "single_alloc" => SingleIs(0, 0, FALSE, FALSE)
    /\ p = "single_map" => SingleIs(1, 0, TRUE, FALSE)
    /\ p = "single_on" => SingleIs(1, 1, TRUE, FALSE)
    /\ p \in {"single_unmap", "single_sync"} => SingleIs(1, 1, TRUE, TRUE)
    /\ p = "single_free" => SingleIs(1, 0, TRUE, TRUE)
    /\ p = "single_off" => SingleIs(0, 0, FALSE, TRUE)
SingleInv ==
    /\ Own("single", SingleSteps)
    /\ Alive /\ Outside(SingleSteps) => SingleBalanced
    /\ \A t \in Tasks : SingleAt(pc[t])

SgIs(a, p, tab, m, ptr, on) ==
    /\ heap["array"] = a /\ heap["page"] = p /\ heap["table"] = tab /\ mapping["sg"] = m
    /\ ("sg_pages" \in dd <=> ptr) /\ ("sg_mapped" \in dd <=> on)
SgAt(t) ==
    /\ pc[t] = "sg_array" => SgIs(0, 0, 0, 0, FALSE, FALSE)
    /\ pc[t] = "sg_page" => SgIs(1, i[t], 0, 0, TRUE, FALSE) /\ i[t] < NEnts
    /\ pc[t] = "sg_table" => SgIs(1, NEnts, 0, 0, TRUE, FALSE)
    /\ pc[t] = "sg_map" => SgIs(1, NEnts, 1, 0, TRUE, FALSE)
    /\ pc[t] = "sg_on" => SgIs(1, NEnts, 1, 1, TRUE, FALSE)
    /\ pc[t] \in {"sg_unmap", "sg_sync"} => SgIs(1, NEnts, 1, 1, TRUE, TRUE)
    /\ pc[t] = "sg_free" => SgIs(1, NEnts, 1, 0, TRUE, TRUE)
    /\ pc[t] = "sg_off" => SgIs(0, 0, 0, 0, FALSE, TRUE)
SgInv ==
    /\ Own("sg", SgSteps)
    /\ Alive /\ Outside(SgSteps) => SgBalanced
    /\ \A t \in Tasks : SgAt(t)

PoolIs(n, m, pool, buf) ==
    /\ heap["pool"] = n /\ heap["poolbuf"] = m
    /\ ("dma_pool" \in dd <=> pool) /\ ("pool_buf" \in dd <=> buf)
PoolAt(p) ==
    /\ p = "pool_create" => PoolIs(0, 0, FALSE, FALSE)
    /\ p = "pool_buf" => PoolIs(1, 0, TRUE, FALSE)
    /\ p = "pool_free" => PoolIs(1, 1, TRUE, TRUE)
    /\ p = "pool_clear" => PoolIs(1, 0, TRUE, TRUE)
    /\ p = "pool_drop" => PoolIs(1, One("pool_buf" \in dd), TRUE, "pool_buf" \in dd)
    /\ p = "pool_destroy" => PoolIs(1, 0, TRUE, FALSE)
PoolInv ==
    /\ Own("pool", PoolSteps)
    /\ Alive /\ Outside(PoolSteps) => PoolBalanced
    /\ \A t \in Tasks : PoolAt(pc[t])

GoneInv == ~Alive => CleanUnload /\ \A t \in Tasks : pc[t] = "closed"

IInv == TypeOK /\ CoherentInv /\ SingleInv /\ SgInv /\ PoolInv /\ GoneInv

-----------------------------------------------------------------------------
(* What a step leaves alone                                                *)

\* Nobody goes in or out of the ioctls of a class, nor on inside them.
Still(steps) == \A s \in Tasks : pc'[s] = pc[s] \/ (pc[s] \notin steps /\ pc'[s] \notin steps)

SameCoherent ==
    /\ Still(CoherentSteps) /\ (Alive' => Alive)
    /\ heap'["coherent"] = heap["coherent"]
    /\ ("coherent_buf" \in dd' <=> "coherent_buf" \in dd) /\ ("coherent_size" \in dd' <=> "coherent_size" \in dd)

SameSingle ==
    /\ Still(SingleSteps) /\ (Alive' => Alive)
    /\ heap'["single"] = heap["single"] /\ mapping'["single"] = mapping["single"]
    /\ ("single_buf" \in dd' <=> "single_buf" \in dd) /\ ("single_mapped" \in dd' <=> "single_mapped" \in dd)

SameSg ==
    /\ Still(SgSteps) /\ (Alive' => Alive) /\ i' = i
    /\ heap'["array"] = heap["array"] /\ heap'["page"] = heap["page"]
    /\ heap'["table"] = heap["table"] /\ mapping'["sg"] = mapping["sg"]
    /\ ("sg_pages" \in dd' <=> "sg_pages" \in dd) /\ ("sg_mapped" \in dd' <=> "sg_mapped" \in dd)

SamePool ==
    /\ Still(PoolSteps) /\ (Alive' => Alive)
    /\ heap'["pool"] = heap["pool"] /\ heap'["poolbuf"] = heap["poolbuf"]
    /\ ("dma_pool" \in dd' <=> "dma_pool" \in dd) /\ ("pool_buf" \in dd' <=> "pool_buf" \in dd)

\* The helpers keep the types.
LEMMA HelpersType ==
    ASSUME TypeOK
    PROVE  /\ \A k \in Kinds : Take(k) \/ Drop(k) => heap' \in [Kinds -> Int]
           /\ \A s \in {"single", "sg"} : Map(s) \/ Unmap(s) => mapping' \in [{"single", "sg"} -> Int]
  <1> USE DEF TypeOK
  <1>2. ASSUME NEW k \in Kinds, Take(k) \/ Drop(k) PROVE heap' \in [Kinds -> Int]
    BY <1>2 DEF Take, Drop
  <1>3. ASSUME NEW s \in {"single", "sg"}, Map(s) \/ Unmap(s)
        PROVE  mapping' \in [{"single", "sg"} -> Int]
    BY <1>3 DEF Map, Unmap
  <1>4. QED
    BY <1>2, <1>3

\* What the helpers do.
LEMMA HelpersValue ==
    ASSUME TypeOK
    PROVE  /\ \A k \in Kinds : Take(k) => heap'[k] = heap[k] + 1
           /\ \A k \in Kinds : Drop(k) => heap'[k] = heap[k] - 1
           /\ \A k \in Kinds, j \in Kinds : (Take(k) \/ Drop(k)) /\ j # k => heap'[j] = heap[j]
           /\ \A s \in {"single", "sg"} : Map(s) => mapping'[s] = mapping[s] + 1
           /\ \A s \in {"single", "sg"} : Unmap(s) => mapping'[s] = mapping[s] - 1
  BY DEF TypeOK, Take, Drop, Map, Unmap

LEMMA CoherentFrame == ASSUME CoherentInv, SameCoherent PROVE CoherentInv'
  <1> USE DEF CoherentInv, SameCoherent, Still
  <1>1. Own("coherent", CoherentSteps)'
    BY DEF Own
  <1>2. (Alive /\ Outside(CoherentSteps) => CoherentBalanced)'
    BY DEF Outside, CoherentBalanced, One
  <1>3. (\A t \in Tasks : CoherentAt(pc[t]))'
    BY DEF CoherentAt, CoherentIs, CoherentSteps
  <1>4. QED
    BY <1>1, <1>2, <1>3

LEMMA SingleFrame == ASSUME SingleInv, SameSingle PROVE SingleInv'
  <1> USE DEF SingleInv, SameSingle, Still
  <1>1. Own("single", SingleSteps)'
    BY DEF Own
  <1>2. (Alive /\ Outside(SingleSteps) => SingleBalanced)'
    BY DEF Outside, SingleBalanced, One
  <1>3. (\A t \in Tasks : SingleAt(pc[t]))'
    BY DEF SingleAt, SingleIs, SingleSteps
  <1>4. QED
    BY <1>1, <1>2, <1>3

LEMMA SgFrame == ASSUME SgInv, SameSg PROVE SgInv'
  <1> USE DEF SgInv, SameSg, Still
  <1>1. Own("sg", SgSteps)'
    BY DEF Own
  <1>2. (Alive /\ Outside(SgSteps) => SgBalanced)'
    BY DEF Outside, SgBalanced, One
  <1>3. (\A t \in Tasks : SgAt(t))'
    BY DEF SgAt, SgIs, SgSteps
  <1>4. QED
    BY <1>1, <1>2, <1>3

LEMMA PoolFrame == ASSUME PoolInv, SamePool PROVE PoolInv'
  <1> USE DEF PoolInv, SamePool, Still
  <1>1. Own("pool", PoolSteps)'
    BY DEF Own
  <1>2. (Alive /\ Outside(PoolSteps) => PoolBalanced)'
    BY DEF Outside, PoolBalanced, One
  <1>3. (\A t \in Tasks : PoolAt(pc[t]))'
    BY DEF PoolAt, PoolIs, PoolSteps, One
  <1>4. QED
    BY <1>1, <1>2, <1>3

-----------------------------------------------------------------------------
(* The coherent buffer                                                     *)

\* While a task is inside, or enters, no other one is inside.
LEMMA CoherentAlone ==
    ASSUME CoherentInv, Disjoint, NEW t \in Tasks,
           pc[t] \in CoherentSteps \/ "coherent" \in Uses[t],
           NEW s \in Tasks, s # t
    PROVE  pc[s] \notin CoherentSteps
  BY DEF CoherentInv, Own, Disjoint

LEMMA CoherentType == ASSUME TypeOK, NEW t \in Tasks, Coherent(t) PROVE TypeOK'
  <1> USE HelpersType, NEntsAssumption DEF Put, Clear, Kinds, Flags, Inside, CoherentSteps
  <1>1. CASE CoherentAlloc(t)
    BY <1>1 DEF TypeOK, Go, CoherentAlloc
  <1>2. CASE CoherentSize(t) \/ CoherentFree(t) \/ CoherentCopy(t)
    BY <1>2 DEF TypeOK, Go, CoherentSize, CoherentFree, CoherentCopy
  <1>3. CASE CoherentClear(t)
    BY <1>3 DEF TypeOK, Go, CoherentClear
  <1>4. QED
    BY <1>1, <1>2, <1>3 DEF TypeOK, Coherent, Enter, Go

LEMMA CoherentElsewhere ==
    ASSUME TypeOK, NEW t \in Tasks, Coherent(t) PROVE SameSingle /\ SameSg /\ SamePool
  BY DEF TypeOK, Coherent, Enter, Go, Put, Clear, Take, Drop, Kinds, Flags, Alive,
       Still, CoherentSteps, CoherentAlloc, CoherentSize, CoherentFree, CoherentClear,
       CoherentCopy, SameSingle, SameSg, SamePool, SingleSteps, SgSteps, PoolSteps

LEMMA CoherentStep ==
    ASSUME TypeOK, CoherentInv, Disjoint, Alive, NEW t \in Tasks, Coherent(t)
    PROVE  CoherentInv'
  <1>1. \A s \in Tasks : s # t => pc[s] \notin CoherentSteps /\ pc'[s] = pc[s]
    BY CoherentAlone DEF Coherent, Enter, Go, TypeOK, CoherentSteps, CoherentAlloc,
       CoherentSize, CoherentFree, CoherentClear, CoherentCopy
  <1>2. pc[t] = "idle" => "coherent" \in Uses[t] /\ CoherentBalanced
    BY <1>1 DEF Coherent, Enter, Go, TypeOK, CoherentSteps, CoherentInv, Outside,
       CoherentAlloc, CoherentSize, CoherentFree, CoherentClear, CoherentCopy
  <1>3. pc[t] \in CoherentSteps => "coherent" \in Uses[t] /\ CoherentAt(pc[t])
    BY DEF CoherentInv, Own
  <1>4. pc'[t] \in CoherentSteps \/ pc'[t] = "idle"
    BY DEF Coherent, Enter, Go, TypeOK, CoherentSteps, CoherentAlloc, CoherentSize,
       CoherentFree, CoherentClear, CoherentCopy
  <1>5. "coherent" \in Uses[t]
    BY <1>2, <1>3 DEF Coherent, Enter, Go, CoherentSteps, CoherentAlloc, CoherentSize,
       CoherentFree, CoherentClear, CoherentCopy
  <1>6. Own("coherent", CoherentSteps)'
    BY <1>1, <1>5 DEF Own
  <1>7. (CoherentAt(pc[t]) /\ (pc[t] = "idle" => CoherentBalanced))'
    <2> USE <1>2, <1>3, NEntsAssumption DEF Go, Put, Clear, TypeOK, Kinds, Flags, One, CoherentSteps,
         CoherentAt, CoherentIs, CoherentBalanced
    <2>1. CASE CoherentAlloc(t)
      BY <2>1, HelpersValue DEF CoherentAlloc
    <2>2. CASE CoherentSize(t) \/ CoherentFree(t) \/ CoherentCopy(t)
      BY <2>2, HelpersValue DEF CoherentSize, CoherentFree, CoherentCopy
    <2>3. CASE CoherentClear(t)
      BY <2>3, HelpersValue DEF CoherentClear
    <2>4. QED
      BY <2>1, <2>2, <2>3 DEF Coherent, Enter
  <1>8. \A s \in Tasks : CoherentAt(pc[s])'
    BY <1>1, <1>7 DEF CoherentAt, CoherentSteps
  <1>9. QED
    BY <1>4, <1>6, <1>7, <1>8 DEF CoherentInv, Outside

-----------------------------------------------------------------------------
(* The streaming mapping                                                   *)

\* While a task is inside, or enters, no other one is inside.
LEMMA SingleAlone ==
    ASSUME SingleInv, Disjoint, NEW t \in Tasks,
           pc[t] \in SingleSteps \/ "single" \in Uses[t],
           NEW s \in Tasks, s # t
    PROVE  pc[s] \notin SingleSteps
  BY DEF SingleInv, Own, Disjoint

LEMMA SingleType == ASSUME TypeOK, NEW t \in Tasks, Single(t) PROVE TypeOK'
  <1> USE HelpersType, NEntsAssumption DEF Put, Clear, Kinds, Flags, Inside, SingleSteps
  <1>1. CASE SingleAlloc(t)
    BY <1>1 DEF TypeOK, Go, SingleAlloc
  <1>2. CASE SingleMap(t)
    BY <1>2 DEF TypeOK, Go, SingleMap
  <1>3. CASE SingleOn(t) \/ SingleOff(t) \/ SingleSync(t)
    BY <1>3 DEF TypeOK, Go, SingleOn, SingleOff, SingleSync
  <1>4. CASE SingleUnmap(t)
    BY <1>4 DEF TypeOK, Go, SingleUnmap
  <1>5. CASE SingleFree(t)
    BY <1>5 DEF TypeOK, Go, SingleFree
  <1>6. QED
    BY <1>1, <1>2, <1>3, <1>4, <1>5 DEF TypeOK, Single, Enter, Go

LEMMA SingleElsewhere ==
    ASSUME TypeOK, NEW t \in Tasks, Single(t) PROVE SameCoherent /\ SameSg /\ SamePool
  BY DEF TypeOK, Single, Enter, Go, Put, Clear, Take, Drop, Map, Unmap, Kinds, Flags,
       Alive, Still, SingleSteps, SingleAlloc, SingleMap, SingleOn, SingleUnmap,
       SingleFree, SingleOff, SingleSync, SameCoherent, SameSg, SamePool,
       CoherentSteps, SgSteps, PoolSteps

LEMMA SingleStep ==
    ASSUME TypeOK, SingleInv, Disjoint, Alive, NEW t \in Tasks, Single(t)
    PROVE  SingleInv'
  <1>1. \A s \in Tasks : s # t => pc[s] \notin SingleSteps /\ pc'[s] = pc[s]
    BY SingleAlone DEF Single, Enter, Go, TypeOK, SingleSteps, SingleAlloc, SingleMap,
       SingleOn, SingleUnmap, SingleFree, SingleOff, SingleSync
  <1>2. pc[t] = "idle" => "single" \in Uses[t] /\ SingleBalanced
    BY <1>1 DEF Single, Enter, Go, TypeOK, SingleSteps, SingleInv, Outside,
       SingleAlloc, SingleMap, SingleOn, SingleUnmap, SingleFree, SingleOff,
       SingleSync
  <1>3. pc[t] \in SingleSteps => "single" \in Uses[t] /\ SingleAt(pc[t])
    BY DEF SingleInv, Own
  <1>4. pc'[t] \in SingleSteps \/ pc'[t] = "idle"
    BY DEF Single, Enter, Go, TypeOK, SingleSteps, SingleAlloc, SingleMap, SingleOn,
       SingleUnmap, SingleFree, SingleOff, SingleSync
  <1>5. "single" \in Uses[t]
    BY <1>2, <1>3 DEF Single, Enter, Go, SingleSteps, SingleAlloc, SingleMap, SingleOn,
       SingleUnmap, SingleFree, SingleOff, SingleSync
  <1>6. Own("single", SingleSteps)'
    BY <1>1, <1>5 DEF Own
  <1>7. (SingleAt(pc[t]) /\ (pc[t] = "idle" => SingleBalanced))'
    <2> USE <1>2, <1>3, NEntsAssumption DEF Go, Put, Clear, TypeOK, Kinds, Flags, One, SingleSteps,
         SingleAt, SingleIs, SingleBalanced
    <2>1. CASE SingleAlloc(t)
      BY <2>1, HelpersValue DEF SingleAlloc
    <2>2. CASE SingleMap(t)
      BY <2>2, HelpersValue DEF SingleMap
    <2>3. CASE SingleOn(t) \/ SingleOff(t) \/ SingleSync(t)
      BY <2>3, HelpersValue DEF SingleOn, SingleOff, SingleSync
    <2>4. CASE SingleUnmap(t)
      BY <2>4, HelpersValue DEF SingleUnmap
    <2>5. CASE SingleFree(t)
      BY <2>5, HelpersValue DEF SingleFree
    <2>6. QED
      BY <2>1, <2>2, <2>3, <2>4, <2>5 DEF Single, Enter
  <1>8. \A s \in Tasks : SingleAt(pc[s])'
    BY <1>1, <1>7 DEF SingleAt, SingleSteps
  <1>9. QED
    BY <1>4, <1>6, <1>7, <1>8 DEF SingleInv, Outside

-----------------------------------------------------------------------------
(* The scatter-gather mapping                                              *)

\* While a task is inside, or enters, no other one is inside.
LEMMA SgAlone ==
    ASSUME SgInv, Disjoint, NEW t \in Tasks,
           pc[t] \in SgSteps \/ "sg" \in Uses[t],
           NEW s \in Tasks, s # t
    PROVE  pc[s] \notin SgSteps
  BY DEF SgInv, Own, Disjoint

LEMMA SgUndoType ==
    ASSUME TypeOK, NEW t \in Tasks, NEW from, NEW n \in Int, NEW tables \in Int, SgUndo(t, from, n, tables)
    PROVE  TypeOK'
  <1>1. heap' \in [Kinds -> Int]
    BY DEF TypeOK, SgUndo, Kinds
  <1>2. QED
    BY <1>1 DEF TypeOK, SgUndo, Go, Clear

\* The index of dma_map_sg_dev is a place in the array.
IndexInArray == \A t \in Tasks : pc[t] = "sg_page" => i[t] < NEnts

LEMMA SgType == ASSUME TypeOK, IndexInArray, NEW t \in Tasks, Sg(t) PROVE TypeOK'
  <1> USE NEntsAssumption DEF Inside, SgSteps
  <1>1. CASE SgArray(t)
    <2>1. heap' \in [Kinds -> Int]
      BY <1>1, HelpersType DEF SgArray, Kinds, TypeOK
    <2>2. i' \in [Tasks -> 0..NEnts]
      BY <1>1 DEF SgArray, TypeOK
    <2>3. QED
      BY <1>1, <2>1, <2>2 DEF SgArray, TypeOK, Go, Put, Clear, Flags
  <1>2. CASE SgPage(t)
    <2>1. CASE SgUndo(t, "sg_page", i[t], 0)
      BY <2>1, SgUndoType DEF TypeOK
    <2>2. CASE ~SgUndo(t, "sg_page", i[t], 0)
      <3>1. Take("page") /\ i' = [i EXCEPT ![t] = @ + 1] /\ UNCHANGED <<dd, mapping>>
        BY <1>2, <2>2 DEF SgPage
      <3>2. Go(t, "sg_page", IF i[t] + 1 < NEnts THEN "sg_page" ELSE "sg_table")
        BY <1>2, <2>2 DEF SgPage
      <3>3. heap' \in [Kinds -> Int]
        BY <3>1, HelpersType DEF Kinds
      <3>4. i[t] < NEnts
        BY <3>2 DEF Go, IndexInArray
      <3>5. i' \in [Tasks -> 0..NEnts]
        BY <3>1, <3>4 DEF TypeOK
      <3>6. QED
        BY <3>1, <3>2, <3>3, <3>5 DEF TypeOK, Go
    <2>3. QED
      BY <2>1, <2>2
  <1>3. CASE SgTable(t)
    <2>1. CASE SgUndo(t, "sg_table", NEnts, 0)
      BY <2>1, SgUndoType
    <2>2. CASE ~SgUndo(t, "sg_table", NEnts, 0)
      <3>1. heap' \in [Kinds -> Int]
        BY <1>3, <2>2, HelpersType DEF SgTable, Kinds
      <3>2. QED
        BY <1>3, <2>2, <3>1 DEF SgTable, TypeOK, Go
    <2>3. QED
      BY <2>1, <2>2
  <1>4. CASE SgMap(t)
    <2>1. CASE SgUndo(t, "sg_map", NEnts, 1)
      BY <2>1, SgUndoType
    <2>2. CASE ~SgUndo(t, "sg_map", NEnts, 1)
      <3>1. mapping' \in [{"single", "sg"} -> Int]
        BY <1>4, <2>2, HelpersType DEF SgMap
      <3>2. QED
        BY <1>4, <2>2, <3>1 DEF SgMap, TypeOK, Go
    <2>3. QED
      BY <2>1, <2>2
  <1>5. CASE SgOn(t) \/ SgOff(t) \/ SgSync(t)
    BY <1>5 DEF TypeOK, Go, Put, Clear, Flags, SgOn, SgOff, SgSync
  <1>6. CASE SgUnmap(t)
    <2>1. mapping' \in [{"single", "sg"} -> Int]
      BY <1>6, HelpersType DEF SgUnmap
    <2>2. QED
      BY <1>6, <2>1 DEF TypeOK, Go, SgUnmap
  <1>7. CASE SgFree(t)
    <2>1. heap' \in [Kinds -> Int]
      BY <1>7 DEF TypeOK, SgFree, Kinds
    <2>2. QED
      BY <1>7, <2>1 DEF TypeOK, Go, Clear, SgFree
  <1>8. QED
    BY <1>1, <1>2, <1>3, <1>4, <1>5, <1>6, <1>7 DEF TypeOK, Sg, Enter, Go

LEMMA SgElsewhere ==
    ASSUME TypeOK, NEW t \in Tasks, Sg(t) PROVE SameCoherent /\ SameSingle /\ SamePool
  BY DEF TypeOK, Sg, Enter, Go, Put, Clear, Take, Drop, Map, Unmap, SgUndo, Kinds,
       Flags, Alive, Still, SgSteps, SgArray, SgPage, SgTable, SgMap, SgOn, SgUnmap,
       SgFree, SgOff, SgSync, SameCoherent, SameSingle, SamePool, CoherentSteps,
       SingleSteps, PoolSteps

LEMMA SgStep ==
    ASSUME TypeOK, SgInv, Disjoint, Alive, NEW t \in Tasks, Sg(t)
    PROVE  SgInv'
  <1>1. \A s \in Tasks : s # t => pc[s] \notin SgSteps /\ pc'[s] = pc[s]
    BY SgAlone DEF Sg, Enter, Go, TypeOK, SgSteps, SgArray, SgPage, SgTable, SgMap,
       SgOn, SgUnmap, SgFree, SgOff, SgSync, SgUndo
  <1>2. pc[t] = "idle" => "sg" \in Uses[t] /\ SgBalanced
    BY <1>1 DEF Sg, Enter, Go, TypeOK, SgSteps, SgInv, Outside, SgArray, SgPage,
       SgTable, SgMap, SgOn, SgUnmap, SgFree, SgOff, SgSync, SgUndo
  <1>3. pc[t] \in SgSteps => "sg" \in Uses[t] /\ SgAt(t)
    BY DEF SgInv, Own
  <1>4. pc'[t] \in SgSteps \/ pc'[t] = "idle"
    BY DEF Sg, Enter, Go, TypeOK, SgSteps, SgArray, SgPage, SgTable, SgMap, SgOn,
       SgUnmap, SgFree, SgOff, SgSync, SgUndo
  <1>5. "sg" \in Uses[t]
    BY <1>2, <1>3 DEF Sg, Enter, Go, SgSteps, SgArray, SgPage, SgTable, SgMap, SgOn,
       SgUnmap, SgFree, SgOff, SgSync, SgUndo
  <1>6. Own("sg", SgSteps)'
    BY <1>1, <1>5 DEF Own
  <1>7. (SgAt(t) /\ (pc[t] = "idle" => SgBalanced))'
    <2> USE <1>2, <1>3, NEntsAssumption DEF Go, Put, Clear, TypeOK, Kinds, Flags, One, SgSteps,
         SgAt, SgIs, SgBalanced
    <2>1. CASE SgArray(t)
      BY <2>1, HelpersValue DEF SgArray, SgUndo
    <2>2. CASE SgPage(t)
      BY <2>2, HelpersValue DEF SgPage, SgUndo
    <2>3. CASE SgTable(t)
      BY <2>3, HelpersValue DEF SgTable, SgUndo
    <2>4. CASE SgMap(t)
      BY <2>4, HelpersValue DEF SgMap, SgUndo
    <2>5. CASE SgOn(t) \/ SgOff(t) \/ SgSync(t)
      BY <2>5, HelpersValue DEF SgOn, SgOff, SgSync, SgUndo
    <2>6. CASE SgUnmap(t)
      BY <2>6, HelpersValue DEF SgUnmap, SgUndo
    <2>7. CASE SgFree(t)
      BY <2>7, HelpersValue DEF SgFree, SgUndo
    <2>8. QED
      BY <2>1, <2>2, <2>3, <2>4, <2>5, <2>6, <2>7 DEF Sg, Enter
  <1>8. \A s \in Tasks : SgAt(s)'
    BY <1>1, <1>7 DEF SgAt, SgSteps
  <1>9. QED
    BY <1>4, <1>6, <1>7, <1>8 DEF SgInv, Outside

-----------------------------------------------------------------------------
(* The pool                                                                *)

\* While a task is inside, or enters, no other one is inside.
LEMMA PoolAlone ==
    ASSUME PoolInv, Disjoint, NEW t \in Tasks,
           pc[t] \in PoolSteps \/ "pool" \in Uses[t],
           NEW s \in Tasks, s # t
    PROVE  pc[s] \notin PoolSteps
  BY DEF PoolInv, Own, Disjoint

LEMMA PoolType == ASSUME TypeOK, NEW t \in Tasks, Pool(t) PROVE TypeOK'
  <1> USE HelpersType, NEntsAssumption DEF Put, Clear, Kinds, Flags, Inside, PoolSteps
  <1>1. CASE PoolCreate(t)
    BY <1>1 DEF TypeOK, Go, PoolCreate
  <1>2. CASE PoolAlloc(t)
    BY <1>2 DEF TypeOK, Go, PoolAlloc
  <1>3. CASE PoolFree(t) \/ PoolClear(t)
    BY <1>3 DEF TypeOK, Go, PoolFree, PoolClear
  <1>4. CASE PoolDrop(t)
    BY <1>4 DEF TypeOK, Go, PoolDrop
  <1>5. CASE PoolDestroy(t)
    BY <1>5 DEF TypeOK, Go, PoolDestroy
  <1>6. QED
    BY <1>1, <1>2, <1>3, <1>4, <1>5 DEF TypeOK, Pool, Enter, Go

LEMMA PoolElsewhere ==
    ASSUME TypeOK, NEW t \in Tasks, Pool(t) PROVE SameCoherent /\ SameSingle /\ SameSg
  BY DEF TypeOK, Pool, Enter, Go, Put, Clear, Take, Drop, Kinds, Flags, Alive, Still,
       PoolSteps, PoolCreate, PoolAlloc, PoolFree, PoolClear, PoolDrop, PoolDestroy,
       SameCoherent, SameSingle, SameSg, CoherentSteps, SingleSteps, SgSteps

LEMMA PoolStep ==
    ASSUME TypeOK, PoolInv, Disjoint, Alive, NEW t \in Tasks, Pool(t)
    PROVE  PoolInv'
  <1>1. \A s \in Tasks : s # t => pc[s] \notin PoolSteps /\ pc'[s] = pc[s]
    BY PoolAlone DEF Pool, Enter, Go, TypeOK, PoolSteps, PoolCreate, PoolAlloc,
       PoolFree, PoolClear, PoolDrop, PoolDestroy
  <1>2. pc[t] = "idle" => "pool" \in Uses[t] /\ PoolBalanced
    BY <1>1 DEF Pool, Enter, Go, TypeOK, PoolSteps, PoolInv, Outside, PoolCreate,
       PoolAlloc, PoolFree, PoolClear, PoolDrop, PoolDestroy
  <1>3. pc[t] \in PoolSteps => "pool" \in Uses[t] /\ PoolAt(pc[t])
    BY DEF PoolInv, Own
  <1>4. pc'[t] \in PoolSteps \/ pc'[t] = "idle"
    BY DEF Pool, Enter, Go, TypeOK, PoolSteps, PoolCreate, PoolAlloc, PoolFree,
       PoolClear, PoolDrop, PoolDestroy
  <1>5. "pool" \in Uses[t]
    BY <1>2, <1>3 DEF Pool, Enter, Go, PoolSteps, PoolCreate, PoolAlloc, PoolFree,
       PoolClear, PoolDrop, PoolDestroy
  <1>6. Own("pool", PoolSteps)'
    BY <1>1, <1>5 DEF Own
  <1>7. (PoolAt(pc[t]) /\ (pc[t] = "idle" => PoolBalanced))'
    <2> USE <1>2, <1>3, NEntsAssumption DEF Go, Put, Clear, TypeOK, Kinds, Flags, One, PoolSteps,
         PoolAt, PoolIs, PoolBalanced
    <2>1. CASE PoolCreate(t)
      BY <2>1, HelpersValue DEF PoolCreate
    <2>2. CASE PoolAlloc(t)
      BY <2>2, HelpersValue DEF PoolAlloc
    <2>3. CASE PoolFree(t) \/ PoolClear(t)
      BY <2>3, HelpersValue DEF PoolFree, PoolClear
    <2>4. CASE PoolDrop(t)
      BY <2>4, HelpersValue DEF PoolDrop
    <2>5. CASE PoolDestroy(t)
      BY <2>5, HelpersValue DEF PoolDestroy
    <2>6. QED
      BY <2>1, <2>2, <2>3, <2>4, <2>5 DEF Pool, Enter
  <1>8. \A s \in Tasks : PoolAt(pc[s])'
    BY <1>1, <1>7 DEF PoolAt, PoolSteps
  <1>9. QED
    BY <1>4, <1>6, <1>7, <1>8 DEF PoolInv, Outside

-----------------------------------------------------------------------------
(* The invariant                                                           *)

\* Opening, closing, SET_MASK and loading concern no class.
LEMMA QuietStep ==
    ASSUME IInv,
           \/ CreateNode \/ SetUpDma
           \/ \E t \in Tasks : Open(t) \/ Release(t) \/ SetMask(t)
           \/ UNCHANGED vars
    PROVE  IInv'
  <1> USE DEF IInv, TypeOK, Kinds, Flags
  <1>1. TypeOK' /\ GoneInv' /\ SameCoherent /\ SameSingle /\ SameSg /\ SamePool
    <2> USE DEF GoneInv, CleanUnload, Alive, Still, SameCoherent, SameSingle, SameSg, SamePool,
         CoherentSteps, SingleSteps, SgSteps, PoolSteps
    <2>1. CASE CreateNode \/ SetUpDma
      BY <2>1 DEF CreateNode, SetUpDma
    <2>2. ASSUME NEW t \in Tasks, Open(t) \/ Release(t)
          PROVE  TypeOK' /\ GoneInv' /\ SameCoherent /\ SameSingle /\ SameSg /\ SamePool
      <3>1. \/ pc[t] = "closed" /\ pc' = [pc EXCEPT ![t] = "idle"] /\ mod # "gone"
            \/ pc[t] = "idle" /\ pc' = [pc EXCEPT ![t] = "closed"] /\ mod # "gone"
        BY <2>2 DEF Open, Release
      <3>2. count' \in Int /\ UNCHANGED <<mod, dd, heap, mapping, i>>
        BY <2>2 DEF Open, Release
      <3>3. QED
        BY <3>1, <3>2
    <2>3. CASE \E t \in Tasks : SetMask(t)
      BY <2>3 DEF SetMask, Put, Clear
    <2>4. CASE UNCHANGED vars
      BY <2>4 DEF vars
    <2>5. QED
      BY <2>1, <2>2, <2>3, <2>4
  <1>2. QED
    BY <1>1, CoherentFrame, SingleFrame, SgFrame, PoolFrame

\* An ioctl is only under way while the module is there.
LEMMA IoctlStep ==
    ASSUME IInv, Disjoint, NEW t \in Tasks, Coherent(t) \/ Single(t) \/ Sg(t) \/ Pool(t)
    PROVE  IInv'
  <1>1. pc[t] # "closed" /\ mod' = mod
    BY DEF Coherent, Single, Sg, Pool, Enter, Go,
       CoherentAlloc, CoherentSize, CoherentFree, CoherentClear, CoherentCopy,
       SingleAlloc, SingleMap, SingleOn, SingleUnmap, SingleFree, SingleOff, SingleSync,
       SgArray, SgPage, SgTable, SgMap, SgOn, SgUnmap, SgFree, SgOff, SgSync, SgUndo,
       PoolCreate, PoolAlloc, PoolFree, PoolClear, PoolDrop, PoolDestroy
  <1>2. Alive /\ GoneInv'
    BY <1>1 DEF IInv, GoneInv, Alive
  <1>3. CASE Coherent(t)
    BY <1>2, <1>3, CoherentType, CoherentStep, CoherentElsewhere, SingleFrame, SgFrame, PoolFrame DEF IInv
  <1>4. CASE Single(t)
    BY <1>2, <1>4, SingleType, SingleStep, SingleElsewhere, CoherentFrame, SgFrame, PoolFrame DEF IInv
  <1>5. CASE Sg(t)
    <2>1. IndexInArray
      BY DEF IInv, SgInv, SgAt, IndexInArray
    <2>2. QED
      BY <1>2, <1>5, <2>1, SgType, SgStep, SgElsewhere, CoherentFrame, SingleFrame, PoolFrame DEF IInv
  <1>6. CASE Pool(t)
    BY <1>2, <1>6, PoolType, PoolStep, PoolElsewhere, CoherentFrame, SingleFrame, SgFrame DEF IInv
  <1>7. QED
    BY <1>3, <1>4, <1>5, <1>6

\* Nobody is inside when the module goes, so the fields account for all.
LEMMA ExitStep == ASSUME IInv, Exit PROVE IInv'
  <1>1. /\ Outside(CoherentSteps) /\ Outside(SingleSteps) /\ Outside(SgSteps) /\ Outside(PoolSteps)
        /\ Alive /\ ~Alive' /\ UNCHANGED <<count, dd, pc, i>>
        /\ \A t \in Tasks : pc[t] = "closed"
    BY DEF Exit, Alive, Outside, CoherentSteps, SingleSteps, SgSteps, PoolSteps
  <1>2. CoherentBalanced /\ SingleBalanced /\ SgBalanced /\ PoolBalanced
    BY <1>1 DEF IInv, CoherentInv, SingleInv, SgInv, PoolInv
  <1>3. \A k \in Kinds : heap[k] = Owned[k]
    BY <1>2 DEF Kinds, Owned, CoherentBalanced, SingleBalanced, SgBalanced, PoolBalanced
  <1>4. \A k \in Kinds : heap[k] \in Int
    BY DEF IInv, TypeOK
  <1>5. heap' = [k \in Kinds |-> 0]
    BY <1>3, <1>4 DEF Exit
  <1>6. mapping' = [s \in {"single", "sg"} |-> 0]
    BY <1>2 DEF Exit, SingleBalanced, SgBalanced, One
  <1>7. TypeOK'
    BY <1>1, <1>5, <1>6 DEF IInv, TypeOK, Exit
  <1>8. GoneInv'
    BY <1>1, <1>5, <1>6 DEF GoneInv, CleanUnload
  <1>9. CoherentInv' /\ SingleInv' /\ SgInv' /\ PoolInv'
    BY <1>1 DEF CoherentInv, SingleInv, SgInv, PoolInv, Own, CoherentSteps, SingleSteps, SgSteps,
       PoolSteps, CoherentAt, SingleAt, SgAt, PoolAt
  <1>10. QED
    BY <1>7, <1>8, <1>9 DEF IInv

\* The inductive invariant, if no two tasks use the same class of resource.
THEOREM Invariance == ASSUME Disjoint PROVE Spec => []IInv
  <1>1. Init => IInv
    <2> SUFFICES ASSUME Init PROVE IInv
      OBVIOUS
    <2>1. TypeOK
      BY NEntsAssumption DEF Init, TypeOK, Kinds, Flags
    <2>2. CoherentInv /\ SingleInv
      BY DEF Init, CoherentInv, SingleInv, Own, CoherentSteps, SingleSteps, CoherentAt, SingleAt,
         CoherentBalanced, SingleBalanced, One, Kinds
    <2>3. SgInv /\ PoolInv
      BY DEF Init, SgInv, PoolInv, Own, SgSteps, PoolSteps, SgAt, PoolAt,
         SgBalanced, PoolBalanced, One, Kinds
    <2>4. QED
      BY <2>1, <2>2, <2>3 DEF IInv, GoneInv, Alive, Init
  <1>2. IInv /\ [Next]_vars => IInv'
    <2> SUFFICES ASSUME IInv, [Next]_vars PROVE IInv'
      OBVIOUS
    <2>1. CASE Exit
      BY <2>1, ExitStep
    <2>2. CASE \E t \in Tasks : Coherent(t) \/ Single(t) \/ Sg(t) \/ Pool(t)
      BY <2>2, IoctlStep
    <2>3. QED
      BY <2>1, <2>2, QuietStep DEF Next, Ioctl
  <1>3. QED
    BY <1>1, <1>2, PTL DEF Spec

\* Every error path of every ioctl balances.
THEOREM NeverLeaks == ASSUME Disjoint PROVE Spec => []NoLeak
  <1>1. IInv => NoLeak
    BY DEF IInv, NoLeak, CoherentInv, SingleInv, SgInv, PoolInv, Alive
  <1>2. QED
    BY <1>1, Invariance, PTL

\* Nothing is used or given back that is not live.
THEOREM AlwaysLive == ASSUME Disjoint PROVE Spec => []TouchesLive
  <1>1. IInv => TouchesLive
    BY DEF IInv, TouchesLive, CoherentInv, SingleInv, SgInv, PoolInv, CoherentAt, SingleAt, SgAt, PoolAt,
       CoherentIs, SingleIs, SgIs, PoolIs
  <1>2. QED
    BY <1>1, Invariance, PTL

\* Memory the device has a mapping of is not given back.
THEOREM AlwaysBacked == ASSUME Disjoint PROVE Spec => []MappingsBacked
  <1>1. ASSUME IInv PROVE mapping["single"] <= heap["single"]
    <2>1. CASE Alive /\ Outside(SingleSteps)
      BY <1>1, <2>1 DEF IInv, SingleInv, SingleBalanced, One
    <2>2. CASE ~Alive
      BY <1>1, <2>2 DEF IInv, GoneInv, Alive, CleanUnload, Kinds
    <2>3. ASSUME NEW t \in Tasks, pc[t] \in SingleSteps PROVE mapping["single"] <= heap["single"]
      BY <1>1, <2>3 DEF IInv, SingleInv, SingleAt, SingleIs, SingleSteps
    <2>4. QED
      BY <2>1, <2>2, <2>3 DEF Outside
  <1>2. ASSUME IInv, mapping["sg"] > 0 PROVE heap["page"] = NEnts /\ heap["table"] = 1
    <2>1. CASE Alive /\ Outside(SgSteps)
      BY <1>2, <2>1 DEF IInv, SgInv, SgBalanced, One
    <2>2. CASE ~Alive
      BY <1>2, <2>2 DEF IInv, GoneInv, Alive, CleanUnload, Kinds
    <2>3. ASSUME NEW t \in Tasks, pc[t] \in SgSteps PROVE heap["page"] = NEnts /\ heap["table"] = 1
      BY <1>2, <2>3 DEF IInv, SgInv, SgAt, SgIs, SgSteps
    <2>4. QED
      BY <2>1, <2>2, <2>3 DEF Outside
  <1>3. IInv => MappingsBacked
    BY <1>1, <1>2 DEF MappingsBacked
  <1>4. QED
    BY <1>3, Invariance, PTL

\* Unloading gives everything back.
THEOREM AlwaysClean == ASSUME Disjoint PROVE Spec => []CleanUnload
  <1>1. IInv => CleanUnload
    BY DEF IInv, GoneInv, Alive, CleanUnload
  <1>2. QED
    BY <1>1, Invariance, PTL
=============================================================================
