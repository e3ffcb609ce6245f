------------------------------- MODULE DmaArm -------------------------------
(***************************************************************************)
(* The DMA demo for ARM, 08.dma/2.dma_base_arm, with both its minors.      *)
(* What differs from 1.dma_base is the zone the pages come from, and how   *)
(* the 64 bit mask is written: each minor behaves as DmaDevice.  What the  *)
(* two have in common is the module: minors are set up one after the       *)
(* other, the first can be used before the second is there, and both go    *)
(* when no task has either open.  uDemo, the same as that of 1.dma_base,   *)
(* opens the first minor, whatever others do with the second.              *)
(***************************************************************************)
EXTENDS Integers

CONSTANTS
    Tasks,
    Uses0, Uses1,    \* the classes of resource each task uses of each minor
    NEnts            \* SG_NENTS

VARIABLES
    mod0, count0, dd0, heap0, mapping0, pc0, i0,
    mod1, count1, dd1, heap1, mapping1, pc1, i1,
    prog, ran, call, status    \* uDemo, see DmaClient

minor0 == <<mod0, count0, dd0, heap0, mapping0, pc0, i0>>
minor1 == <<mod1, count1, dd1, heap1, mapping1, pc1, i1>>
user == <<prog, ran, call, status>>
vars == <<minor0, minor1, user>>

Minor0 == INSTANCE DmaClient WITH
    Uses <- Uses0, mod <- mod0, count <- count0, dd <- dd0, heap <- heap0,
    mapping <- mapping0, pc <- pc0, i <- i0, at <- call
Minor1 == INSTANCE DmaDevice WITH
    Uses <- Uses1, mod <- mod1, count <- count1, dd <- dd1, heap <- heap1,
    mapping <- mapping1, pc <- pc1, i <- i1

Init == Minor0!ClientInit /\ Minor1!Init

-----------------------------------------------------------------------------
(* Loading and unloading                                                   *)

SetUp(m) == m \in {"loaded", "nonode"}

CreateNode ==
    /\ \/ Minor0!CreateNode /\ UNCHANGED minor1
       \/ SetUp(mod0) /\ Minor1!CreateNode /\ UNCHANGED minor0
    /\ UNCHANGED user

SetUpDma ==
    /\ \/ Minor0!SetUpDma /\ UNCHANGED minor1
       \/ Minor1!SetUpDma /\ UNCHANGED minor0
    /\ UNCHANGED user

\* Variant: the second minor is forgotten (idx < MAX_DEV - 1).
ExitNotSecond ==
    /\ Minor0!Exit /\ SetUp(mod1) /\ \A t \in Tasks : pc1[t] = "closed"
    /\ mod1' = "gone" /\ UNCHANGED <<count1, dd1, heap1, mapping1, pc1, i1, user>>
Exit == Minor0!Exit /\ Minor1!Exit /\ UNCHANGED user

-----------------------------------------------------------------------------
(* The files; a task may be in calls on both minors                        *)

\* A task that does not run uDemo calls the first minor as it likes.
Free(t) == t \notin prog /\ UNCHANGED <<user, minor1>>

Open(t) ==
    \/ Minor0!Open(t) /\ Free(t)
    \/ Minor1!Open(t) /\ UNCHANGED <<user, minor0>>
Release(t) ==
    \/ Minor0!Release(t) /\ Free(t)
    \/ Minor1!Release(t) /\ UNCHANGED <<user, minor0>>

Coherent(t) ==
    \/ Minor0!Coherent(t) /\ Free(t)
    \/ Minor1!Coherent(t) /\ UNCHANGED <<user, minor0>>
Single(t) ==
    \/ Minor0!Single(t) /\ Free(t)
    \/ Minor1!Single(t) /\ UNCHANGED <<user, minor0>>
Sg(t) ==
    \/ Minor0!Sg(t) /\ Free(t)
    \/ Minor1!Sg(t) /\ UNCHANGED <<user, minor0>>
Pool(t) ==
    \/ Minor0!Pool(t) /\ Free(t)
    \/ Minor1!Pool(t) /\ UNCHANGED <<user, minor0>>
SetMask(t) ==
    \/ Minor0!SetMask(t) /\ Free(t)
    \/ Minor1!SetMask(t) /\ UNCHANGED <<user, minor0>>

Ioctl(t) == Coherent(t) \/ Single(t) \/ Sg(t) \/ Pool(t) \/ SetMask(t)

-----------------------------------------------------------------------------
(* uDemo on the first minor.  The single, scatter-gather and information    *)
(* tests are left to DmaClient.                                            *)

Main(t) == (Minor0!Start(t) \/ Minor0!Finish(t)) /\ UNCHANGED minor1

InTest(t) ==
    /\ Minor0!Issue(t) \/ Minor0!Refused(t) \/ Minor0!NoMemory(t) \/ Minor0!Running(t)
    /\ UNCHANGED minor1
TestCoherentDma(t) == call[t] \in {"alloc", "write", "read", "free"} /\ InTest(t)
TestDmaPool(t) ==
    call[t] \in {"create", "pool_alloc", "pool_free", "destroy"} /\ InTest(t)
TestDmaMask(t) == Minor0!Mask(t) /\ UNCHANGED minor1

UDemo(t) == Main(t) \/ TestCoherentDma(t) \/ TestDmaPool(t) \/ TestDmaMask(t)

Next ==
    \/ CreateNode \/ SetUpDma \/ Exit
    \/ \E t \in Tasks : Open(t) \/ Release(t) \/ Ioctl(t) \/ UDemo(t)

Spec == Init /\ [][Next]_vars

-----------------------------------------------------------------------------
(* Properties                                                              *)

TypeOK == Minor0!TypeOK /\ Minor0!ClientTypeOK /\ Minor1!TypeOK

\* No ioctl on one minor leaks what belongs to it or to the other, whether
\* or not the other is there yet.
NoLeak == Minor0!NoLeak /\ Minor1!NoLeak

\* ... or touches what is not live.
TouchesLive == Minor0!TouchesLive /\ Minor1!TouchesLive

\* Unloading takes both minors, with all that their files have left.
CleanUnload ==
    /\ (mod0 = "gone") <=> (mod1 = "gone")
    /\ Minor0!CleanUnload /\ Minor1!CleanUnload

\* A run that has passed leaves nothing on the first minor, whether or not
\* the second is there and whatever is done with it.
ProgramsClean == Minor0!ProgramsClean
=============================================================================
