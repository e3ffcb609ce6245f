----------------------------- MODULE AtomicDemo -----------------------------
(***************************************************************************)
(* The demo of atomic operations, 02.base/2.atomic_ops: an ioctl does      *)
(* arithmetic and bit operations on two shared words, a compare-and-swap,  *)
(* and takes a spin lock made from a third word, in whatever tasks call    *)
(* it at the same time.                                                    *)
(***************************************************************************)
EXTENDS Integers, FiniteSets

CONSTANTS
    Tasks,
    MaxCalls    \* bound: the ioctls of each task; far too few for counter to
                \* overflow

VARIABLES
    pc,        \* the operation each task comes to
    calls,     \* how many ioctls it has begun
    counter,
    bitflags,  \* the numbers of the bits that are set
    spinlock,
    swapped    \* how often the compare-and-swap has found what it expected

vars == <<pc, calls, counter, bitflags, spinlock, swapped>>

Init ==
    /\ pc = [t \in Tasks |-> "idle"] /\ calls = [t \in Tasks |-> 0]
    /\ counter = 0 /\ bitflags = {3, 2} /\ spinlock = 0 /\ swapped = 0

Go(t, from, to) == pc[t] = from /\ pc' = [pc EXCEPT ![t] = to]

Ioctl(t) ==
    /\ Go(t, "idle", "add") /\ calls[t] < MaxCalls
    /\ calls' = [calls EXCEPT ![t] = @ + 1]
    /\ UNCHANGED <<counter, bitflags, spinlock, swapped>>

\* arithmetic_demo
Add(t, from, to, n) ==
    /\ Go(t, from, to) /\ counter' = counter + n
    /\ UNCHANGED <<calls, bitflags, spinlock, swapped>>
Arithmetic(t) ==
    \/ Add(t, "add", "sub", 5) \/ Add(t, "sub", "inc", -3)
    \/ Add(t, "inc", "dec", 1) \/ Add(t, "dec", "or", -1)

\* bitwise_demo
SymDiff(S, T) == (S \ T) \cup (T \ S)
Bitwise(t) ==
    /\ \/ Go(t, "or", "and") /\ bitflags' = bitflags \cup {1, 0}
       \/ Go(t, "and", "xor") /\ bitflags' = bitflags \cap {3, 2, 1}
       \/ Go(t, "xor", "cas") /\ bitflags' = SymDiff(bitflags, {2, 0})
    /\ UNCHANGED <<calls, counter, spinlock, swapped>>

\* cas_demo
Cas(t) ==
    /\ Go(t, "cas", "lock")
    /\ IF counter = 0 THEN counter' = 100 /\ swapped' = swapped + 1
                      ELSE UNCHANGED <<counter, swapped>>
    /\ UNCHANGED <<calls, bitflags, spinlock>>

\* spinlock_demo
\* Variant: the word is read and then set.
LockInTwoSteps(t) ==
    /\ \/ Go(t, "lock", "set") /\ spinlock = 0 /\ UNCHANGED spinlock
       \/ Go(t, "set", "inside") /\ spinlock' = 1
    /\ UNCHANGED <<calls, counter, bitflags, swapped>>
Lock(t) ==
    /\ Go(t, "lock", "inside") /\ spinlock = 0 /\ spinlock' = 1
    /\ UNCHANGED <<calls, counter, bitflags, swapped>>

Inside(t) == Add(t, "inside", "unlock", 1)

Unlock(t) ==
    /\ Go(t, "unlock", "idle") /\ spinlock' = 0
    /\ UNCHANGED <<calls, counter, bitflags, swapped>>

Next == \E t \in Tasks :
    Ioctl(t) \/ Arithmetic(t) \/ Bitwise(t) \/ Cas(t) \/ Lock(t) \/ Inside(t) \/ Unlock(t)

Spec == Init /\ [][Next]_vars

-----------------------------------------------------------------------------
(* Properties                                                              *)

TypeOK ==
    /\ pc \in [Tasks -> {"idle", "add", "sub", "inc", "dec", "or", "and", "xor", "cas",
                         "lock", "set", "inside", "unlock"}]
    /\ calls \in [Tasks -> 0..MaxCalls] /\ counter \in Nat
    /\ bitflags \subseteq 0..3 /\ spinlock \in {0, 1} /\ swapped \in Nat

\* The lock made from a compare-and-swap lets in one task at a time, and is
\* held by it.
OneInside ==
    Cardinality({t \in Tasks : pc[t] \in {"inside", "unlock"}}) = spinlock

\* No update of counter is lost, whatever tasks are in between: each ioctl adds
\* three in the end, and a task that is inside one owes what Owed says.  Units
\* are what t has added so far, one by one.  And the compare-and-swap, which
\* expects the 0 that counter starts with, never finds it, not even between the
\* steps of other tasks.
Owed == [idle |-> 0, add |-> 3, sub |-> -2, inc |-> 1, dec |-> 0, or |-> 1, and |-> 1,
         xor |-> 1, cas |-> 1, lock |-> 1, set |-> 1, inside |-> 1, unlock |-> 0]
Units(t) == {t} \X (1..3 * calls[t] - Owed[pc[t]])
CounterExact ==
    /\ counter = Cardinality(UNION {Units(t) : t \in Tasks})
    /\ swapped = 0
=============================================================================
