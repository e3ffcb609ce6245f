------------------------------ MODULE AllocBuf ------------------------------
(***************************************************************************)
(* The allocation demo, 02.base/6.alloc_buf: open allocates from every     *)
(* allocator of the kernel into one global pointer each, release frees     *)
(* what is not NULL.  An open that fails half-way frees little and clears  *)
(* nothing, and the pointers of the file before are still there.           *)
(*                                                                         *)
(* One file is open at a time; two would share the pointers.               *)
(***************************************************************************)
EXTENDS Integers, Sequences

CONSTANTS
    HighMem,    \* CONFIG_HIGHMEM
    MaxLost     \* bound: the opens that fail

VARIABLES
    at,      \* what the file is doing
    k,       \* the place in Order it has come to
    ptr,     \* each pointer: "NULL", to a "live" object, or to a "freed" one
    live,    \* the objects of each kind that are allocated
    lost     \* the opens that have failed

vars == <<at, k, ptr, live, lost>>

\* In the order of open; release goes backwards.
Order == <<"kmalloc_mem", "kzalloc_mem", "vmalloc_mem", "vzalloc_mem", "page_mem", "free_pages_mem">>
         \o (IF HighMem THEN <<"highmem_page", "mapped_high_mem">> ELSE <<>>)
         \o <<"my_cache", "slab_obj">>
Pointers == {Order[n] : n \in DOMAIN Order}

Init ==
    /\ at = "closed" /\ k = 0
    /\ ptr = [p \in Pointers |-> "NULL"] /\ live = [p \in Pointers |-> 0]
    /\ lost = 0

-----------------------------------------------------------------------------
(* m_chrdev_open                                                           *)

Open == at = "closed" /\ at' = "opening" /\ k' = 1 /\ UNCHANGED <<ptr, live, lost>>

\* Variant: what is there already is kept.
AllocUnlessThere ==
    /\ at = "opening"
    /\ IF ptr[Order[k]] # "NULL" THEN UNCHANGED <<ptr, live>>
       ELSE /\ ptr' = [ptr EXCEPT ![Order[k]] = "live"]
            /\ live' = [live EXCEPT ![Order[k]] = @ + 1]
    /\ IF k < Len(Order) THEN k' = k + 1 /\ UNCHANGED at ELSE at' = "open" /\ UNCHANGED k
    /\ UNCHANGED lost
Alloc ==
    /\ at = "opening"
    /\ ptr' = [ptr EXCEPT ![Order[k]] = "live"]
    /\ live' = [live EXCEPT ![Order[k]] = @ + 1]
    /\ IF k < Len(Order) THEN k' = k + 1 /\ UNCHANGED at ELSE at' = "open" /\ UNCHANGED k
    /\ UNCHANGED lost

\* What is freed before open returns -ENOMEM; at the label fail nothing is.
Undone(p) == CASE p = "vmalloc_mem" -> {"kmalloc_mem"}
               [] p = "page_mem" -> {"vmalloc_mem", "kmalloc_mem"}
               [] OTHER -> {}

\* alloc_pages fails into a variable of its own, so page_mem keeps its value.
AllocFails ==
    /\ at = "opening" /\ at' = "closed" /\ k' = 0
    /\ lost < MaxLost /\ lost' = lost + 1
    /\ LET undone == Undone(Order[k])
       IN  /\ live' = [p \in Pointers |-> IF p \in undone THEN live[p] - 1 ELSE live[p]]
           /\ ptr' = [p \in Pointers |-> IF p \in undone THEN "freed"
                                         ELSE IF p = Order[k] /\ p # "page_mem" THEN "NULL"
                                         ELSE ptr[p]]

-----------------------------------------------------------------------------
(* m_chrdev_release                                                        *)

Release == at = "open" /\ at' = "releasing" /\ k' = Len(Order) /\ UNCHANGED <<ptr, live, lost>>

\* The pointers keep their values.
Free ==
    /\ at = "releasing"
    /\ IF ptr[Order[k]] = "NULL" THEN UNCHANGED <<ptr, live>>
       ELSE /\ ptr' = [ptr EXCEPT ![Order[k]] = "freed"]
            /\ live' = [live EXCEPT ![Order[k]] = @ - 1]
    /\ k' = k - 1 /\ at' = IF k = 1 THEN "closed" ELSE "releasing"
    /\ UNCHANGED lost

Next == Open \/ Alloc \/ AllocFails \/ Release \/ Free

Spec == Init /\ [][Next]_vars

-----------------------------------------------------------------------------
(* Properties                                                              *)

TypeOK ==
    /\ at \in {"closed", "opening", "open", "releasing"} /\ k \in 0..Len(Order)
    /\ ptr \in [Pointers -> {"NULL", "live", "freed"}]
    /\ live \in [Pointers -> Int] /\ lost \in 0..MaxLost

\* release never frees through a pointer that is left from an earlier file,
\* for all that open and release clear none of them.
FreesLive == at = "releasing" => \A n \in 1..k : ptr[Order[n]] = "live"

\* Nothing outlives its file but what a failed open has left, at most one
\* object of a kind each time.
LostAtMost == at = "closed" => \A p \in Pointers : live[p] <= lost
=============================================================================
