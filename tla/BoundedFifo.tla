----------------------------- MODULE BoundedFifo -----------------------------
(***************************************************************************)
(* What the globalfifo character device promises to its callers: a queue   *)
(* of at most SIZE bytes.  A write appends some bytes at once, a read      *)
(* removes a prefix and hands exactly that prefix to its caller, FIFO_CLEAR *)
(* empties the queue.  out[p] is what the last read of p handed over, until *)
(* the call returns and the caller has it.                                 *)
(*                                                                         *)
(* A read that leaves more bytes than it takes may spoil those: any of them *)
(* may be replaced by one from further behind.  Kept says that it does not. *)
(***************************************************************************)
EXTENDS Naturals, Sequences

CONSTANTS Procs,  \* the tasks that call the device
          SIZE,   \* GLOBALFIFO_SIZE
          Byte    \* the values of a byte

VARIABLES queue, out

fifoVars == <<queue, out>>

Init ==
    /\ queue = <<>>
    /\ out = [p \in Procs |-> <<>>]

Put ==
    \E n \in 1..SIZE : \E s \in [1..n -> Byte] :
        /\ Len(queue) + n <= SIZE
        /\ queue' = queue \o s
        /\ UNCHANGED out

Get(p) ==
    /\ out[p] = <<>>
    /\ \E n \in 1..Len(queue) :
        /\ out' = [out EXCEPT ![p] = SubSeq(queue, 1, n)]
        /\ \E from \in [1..Len(queue) - n -> 1..Len(queue)] :
            /\ \A i \in DOMAIN from : \E k \in 1..SIZE : from[i] = i + k * n
            /\ queue' = [i \in DOMAIN from |-> queue[from[i]]]

Return(p) ==
    /\ out' = [out EXCEPT ![p] = <<>>]
    /\ UNCHANGED queue

Clear ==
    /\ queue' = <<>>
    /\ UNCHANGED out

Next == Put \/ Clear \/ \E p \in Procs : Get(p) \/ Return(p)

Spec == Init /\ [][Next]_fifoVars

\* What a read takes and what it leaves is what there was.
Kept == \A p \in Procs : out[p] = <<>> /\ out'[p] # <<>> => queue = out'[p] \o queue'
=============================================================================
