------------------------------ MODULE KfifoDemo ------------------------------
(***************************************************************************)
(* The kfifo demo, 02.base/4.fifo, as it is configured (USE_INIT_DECLARE   *)
(* and USE_INIT_PTR): a byte fifo that read and write move user data       *)
(* through, an ioctl that plays with the same fifo and with a fifo of      *)
(* pointers, and a spin lock around each.  Tasks that share one open file  *)
(* call it at the same time.                                               *)
(***************************************************************************)
EXTENDS Naturals, Sequences

CONSTANTS
    Tasks,
    Size,       \* bound: FIFO_SIZE
    Modulus,    \* bound: the indices are unsigned int
    DemoBytes,  \* bound: what fifo_demo puts into the fifo at a time
    MaxBytes,   \* bound: bytes that users ever write
    None

\* Assumed of the constants: the size is a power of two, and hence divides
\* the modulus.
KfifoAssumption ==
    /\ Size \in Nat \ {0} /\ Modulus \in Nat \ {0} /\ MaxBytes \in Nat
    /\ DemoBytes \in 1..Size
    /\ Modulus % Size = 0 /\ Modulus > Size

VARIABLES
    mod,       \* "register", "loaded" or "gone"
    opened,    \* is the file open?
    in, out,   \* the indices of m_fifo, never reduced to the size
    buf,       \* its bytes: the number of the byte in what users wrote, or Demo
    ring,      \* has cls_fifo its buffer?
    nodes,     \* the nodes of fifo_demo that are allocated
    lock,      \* who holds fifo_lock
    pc,        \* where each task is
    moved,     \* how many bytes it has copied and not yet counted
    sent,      \* how many bytes users wrote
    got        \* the bytes users read, in order

indices == <<in, out>>
vars == <<mod, opened, in, out, buf, ring, nodes, lock, pc, moved, sent, got>>

Demo == 0
NodeCount == 3

Init ==
    /\ mod = "register" /\ opened = FALSE
    /\ in = 0 /\ out = 0 /\ buf = [i \in 0..Size-1 |-> Demo]
    /\ ring = FALSE /\ nodes = 0
    /\ lock = None
    /\ pc = [t \in Tasks |-> "out"] /\ moved = [t \in Tasks |-> 0]
    /\ sent = 0 /\ got = <<>>

Goto(t, from, to) == pc[t] = from /\ pc' = [pc EXCEPT ![t] = to]
\* A task that died of an oops gives its files back, too.
Idle == \A t \in Tasks : pc[t] \in {"out", "oops"}

-----------------------------------------------------------------------------
(* linux/kfifo.h                                                           *)

Fill == (in + Modulus - out) % Modulus
Room == Size - Fill
Lesser(a, b) == IF a < b THEN a ELSE b
Slot(i) == i % Size

\* The first n bytes that wait in the fifo.
FirstBytes(n) == [i \in 1..n |-> buf[Slot(out + i - 1)]]
\* The bytes put behind the last.
Store(bytes) ==
    buf' = [s \in 0..Size-1 |->
              IF \E i \in DOMAIN bytes : Slot(in + i - 1) = s
              THEN bytes[CHOOSE i \in DOMAIN bytes : Slot(in + i - 1) = s] ELSE buf[s]]
Advance(index, n) == (index + n) % Modulus

-----------------------------------------------------------------------------
(* Loading, open and release                                               *)

Register ==
    /\ mod = "register" /\ mod' = "loaded"
    /\ UNCHANGED <<opened, in, out, buf, ring, nodes, lock, pc, moved, sent, got>>

\* INIT_KFIFO of m_fifo; kfifo_alloc of cls_fifo, whose failure is printed
\* and nothing else.
Open ==
    /\ mod = "loaded" /\ ~opened /\ opened' = TRUE
    /\ in' = 0 /\ out' = 0
    /\ ring' \in BOOLEAN
    /\ UNCHANGED <<mod, buf, nodes, lock, pc, moved, sent, got>>

\* The last reference goes when no call is under way: kfifo_free.
Release ==
    /\ opened /\ Idle /\ opened' = FALSE
    /\ ring' = FALSE
    /\ UNCHANGED <<mod, in, out, buf, nodes, lock, pc, moved, sent, got>>

Unregister ==
    /\ mod = "loaded" /\ ~opened /\ mod' = "gone"
    /\ UNCHANGED <<opened, in, out, buf, ring, nodes, lock, pc, moved, sent, got>>

-----------------------------------------------------------------------------
(* fifo_lock                                                               *)

Lock(t, from, to) ==
    /\ Goto(t, from, to) /\ lock = None /\ lock' = t
    /\ UNCHANGED <<mod, opened, in, out, buf, ring, nodes, moved, sent, got>>
Unlock(t) ==
    /\ Goto(t, "unlock", "out") /\ lock' = None
    /\ UNCHANGED <<mod, opened, in, out, buf, ring, nodes, moved, sent, got>>

-----------------------------------------------------------------------------
(* read and write                                                          *)

\* m_chrdev_read looks, without the lock, whether there is anything to read;
\* m_chrdev_write whether there is room.
Enter(t, to) ==
    /\ opened /\ Goto(t, "out", to)
    /\ UNCHANGED <<mod, opened, in, out, buf, ring, nodes, lock, moved, sent, got>>
ReadCheck(t)  == in # out /\ Enter(t, "read")
WriteCheck(t) == Fill < Size /\ Enter(t, "write")

\* Variant: the copy is made without the lock, which is taken to move out.
ReadUnlocked(t) ==
    /\ Goto(t, "read", "to user")
    /\ UNCHANGED <<mod, opened, in, out, buf, ring, nodes, lock, moved, sent, got>>
ReadLock(t)  == Lock(t, "read", "to user")
WriteLock(t) == Lock(t, "write", "from user")

\* kfifo_to_user copies what is there, at most count bytes; the copy may
\* fail part of the way, and then moves out over what was copied.
KfifoToUser(t) ==
    /\ Goto(t, "to user", "move out")
    /\ \E count \in 1..Size : \E n \in 0..Lesser(count, Fill) :
          /\ moved' = [moved EXCEPT ![t] = n]
          /\ got' = got \o FirstBytes(n)
    /\ UNCHANGED <<mod, opened, in, out, buf, ring, nodes, lock, sent>>
MoveOut(t) ==
    /\ Goto(t, "move out", "unlock")
    /\ out' = Advance(out, moved[t]) /\ moved' = [moved EXCEPT ![t] = 0]
    /\ UNCHANGED <<mod, opened, in, buf, ring, nodes, lock, sent, got>>

\* kfifo_from_user likewise, as far as there is room.
KfifoFromUser(t) ==
    /\ Goto(t, "from user", "move in")
    /\ \E count \in 1..Size : \E n \in 0..Lesser(count, Room) :
          /\ sent + n <= MaxBytes
          /\ moved' = [moved EXCEPT ![t] = n]
          /\ Store([i \in 1..n |-> sent + i]) /\ sent' = sent + n
    /\ UNCHANGED <<mod, opened, in, out, ring, nodes, lock, got>>
MoveIn(t) ==
    /\ Goto(t, "move in", "unlock")
    /\ in' = Advance(in, moved[t]) /\ moved' = [moved EXCEPT ![t] = 0]
    /\ UNCHANGED <<mod, opened, out, buf, ring, nodes, lock, sent, got>>

-----------------------------------------------------------------------------
(* ioctl: fifo_demo                                                        *)

Ioctl(t) == Enter(t, "ioctl")
DemoLock(t) == Lock(t, "ioctl", "reset")

\* kfifo_reset drops what users wrote.
DemoReset(t) ==
    /\ Goto(t, "reset", "put") /\ in' = 0 /\ out' = 0
    /\ UNCHANGED <<mod, opened, buf, ring, nodes, lock, moved, sent, got>>

\* kfifo_in, later kfifo_put: bytes of the demo, as far as there is room, ...
DemoPut(t, from, to) ==
    /\ Goto(t, from, to)
    /\ LET n == Lesser(DemoBytes, Room)
       IN Store([i \in 1..n |-> Demo]) /\ in' = Advance(in, n)
    /\ UNCHANGED <<mod, opened, out, ring, nodes, lock, moved, sent, got>>
\* Variant: a byte is left in the fifo.
DemoGetKeepsOne(t, from, to) ==
    /\ Goto(t, from, to) /\ out' = Advance(out, Fill - 1)
    /\ UNCHANGED <<mod, opened, in, buf, ring, nodes, lock, moved, sent, got>>
\* ... and kfifo_out, later kfifo_get, until the fifo is empty.
DemoGet(t, from, to) ==
    /\ Goto(t, from, to) /\ out' = Advance(out, Fill)
    /\ UNCHANGED <<mod, opened, in, buf, ring, nodes, lock, moved, sent, got>>

\* Three nodes into cls_fifo.  Without its buffer kfifo_put stores through a
\* null pointer.
PutNode(t) ==
    /\ nodes < NodeCount
    /\ Goto(t, "node", IF ring THEN "node" ELSE "oops") /\ nodes' = nodes + 1
    /\ UNCHANGED <<mod, opened, in, out, buf, ring, lock, moved, sent, got>>
\* No memory for a node: return -ENOMEM, with the lock and what is in the
\* fifo.
NodeFails(t) ==
    /\ nodes < NodeCount /\ Goto(t, "node", "out")
    /\ UNCHANGED <<mod, opened, in, out, buf, ring, nodes, lock, moved, sent, got>>
\* Variant: the nodes are taken out and forgotten.
GetNodesKeeps(t) ==
    /\ nodes = NodeCount /\ Goto(t, "node", "unlock")
    /\ UNCHANGED <<mod, opened, in, out, buf, ring, nodes, lock, moved, sent, got>>
\* All of them are taken out and freed.
GetNodes(t) ==
    /\ nodes = NodeCount /\ Goto(t, "node", "unlock") /\ nodes' = 0
    /\ UNCHANGED <<mod, opened, in, out, buf, ring, lock, moved, sent, got>>

-----------------------------------------------------------------------------
Read(t)  == ReadCheck(t) \/ ReadLock(t) \/ KfifoToUser(t) \/ MoveOut(t)
Write(t) == WriteCheck(t) \/ WriteLock(t) \/ KfifoFromUser(t) \/ MoveIn(t)
FifoDemo(t) ==
    \/ Ioctl(t) \/ DemoLock(t) \/ DemoReset(t)
    \/ DemoPut(t, "put", "get") \/ DemoGet(t, "get", "put again")
    \/ DemoPut(t, "put again", "get again") \/ DemoGet(t, "get again", "node")
    \/ PutNode(t) \/ NodeFails(t) \/ GetNodes(t)
Next ==
    \/ Register \/ Open \/ Release \/ Unregister
    \/ \E t \in Tasks : Read(t) \/ Write(t) \/ FifoDemo(t) \/ Unlock(t)

Spec == Init /\ [][Next]_vars

-----------------------------------------------------------------------------
(* Properties                                                              *)

TypeOK ==
    /\ mod \in {"register", "loaded", "gone"} /\ opened \in BOOLEAN /\ ring \in BOOLEAN
    /\ in \in 0..Modulus-1 /\ out \in 0..Modulus-1
    /\ buf \in [0..Size-1 -> 0..MaxBytes]
    /\ nodes \in 0..NodeCount /\ lock \in Tasks \cup {None}
    /\ pc \in [Tasks -> {"out", "read", "to user", "move out", "write", "from user", "move in",
                         "ioctl", "reset", "put", "get",
                         "put again", "get again", "node", "oops", "unlock"}]
    /\ moved \in [Tasks -> 0..Size] /\ sent \in 0..MaxBytes /\ got \in Seq(1..MaxBytes)

\* Users read what users wrote, every byte at most once and in the order it
\* was written, through the wrap-around of the indices and the failures of
\* copies; they never see the bytes the ioctl plays with.
ReadOnceInOrder ==
    /\ \A i \in DOMAIN got : got[i] # Demo
    /\ \A i, j \in DOMAIN got : i < j => got[i] < got[j]

\* The fifo never holds more than its size.
NeverOverfull == Fill <= Size

\* A run of fifo_demo that gives the lock back has freed its nodes.
NodesFreed == lock = None => nodes = 0
=============================================================================
