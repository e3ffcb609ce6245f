----------------------------- MODULE DataDemos -----------------------------
(***************************************************************************)
(* The demos of data structures, each with variables of its own.           *)
(***************************************************************************)
EXTENDS DemoTasks, Integers, FiniteSets, Sequences

CONSTANTS
    FifoSize, FifoModulus, DemoBytes, FifoBytes,          \* 4.fifo
    HighMem, MaxLost,                                     \* 6.alloc_buf
    MaxCalls                                              \* 2.atomic_ops

VARIABLES
    step, next, prev, lmem,
    kmod, opened, in, out, buf, ring, nodes, lock, kpc, moved, sent, kgot,
    bat, k, ptr, live, lost,
    apc, calls, acounter, bitflags, spinlock, swapped

\* 02.base/3.list
L == INSTANCE ListDemo WITH mem <- lmem
\* 02.base/4.fifo
K == INSTANCE KfifoDemo WITH
        Size <- FifoSize, Modulus <- FifoModulus, MaxBytes <- FifoBytes,
        None <- NULL, mod <- kmod, pc <- kpc, got <- kgot
\* 02.base/6.alloc_buf
B == INSTANCE AllocBuf WITH at <- bat
\* 02.base/2.atomic_ops
A == INSTANCE AtomicDemo WITH pc <- apc, counter <- acounter

ASSUME DataParameters ==
    /\ K!KfifoAssumption /\ MaxLost \in Nat /\ MaxCalls \in Nat
    /\ IsFiniteSet(Tasks)
    /\ NULL \notin Nat /\ NULL \notin Tasks

listVars   == <<step, next, prev, lmem>>
kfifoVars  == <<kmod, opened, in, out, buf, ring, nodes, lock, kpc, moved, sent, kgot>>
allocVars  == <<bat, k, ptr, live, lost>>
atomicVars == <<apc, calls, acounter, bitflags, spinlock, swapped>>
=============================================================================
