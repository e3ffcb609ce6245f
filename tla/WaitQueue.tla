----------------------------- MODULE WaitQueue -----------------------------
(***************************************************************************)
(* What a wait queue promises its users, and what GlobalFifo takes it for: *)
(* a set of entries; adding, removing and waking are one step each, and a  *)
(* wake-up reaches exactly the entries that are there.                     *)
(***************************************************************************)
CONSTANTS
    Sleepers, Wakers,
    None          \* no wake-up has been made

VARIABLES
    queue,    \* the entries
    reached   \* whom the wake-up of each waker has reached, until it returns

vars == <<queue, reached>>

Init == queue = {} /\ reached = [w \in Wakers |-> None]

\* add_wait_queue, remove_wait_queue
Add(s)    == s \notin queue /\ queue' = queue \cup {s} /\ UNCHANGED reached
Remove(s) == s \in queue /\ queue' = queue \ {s} /\ UNCHANGED reached

\* wake_up_interruptible
WakeUp(w) ==
    /\ reached[w] = None /\ reached' = [reached EXCEPT ![w] = queue]
    /\ UNCHANGED queue
Return(w) ==
    /\ reached[w] # None /\ reached' = [reached EXCEPT ![w] = None]
    /\ UNCHANGED queue

Next == \/ \E s \in Sleepers : Add(s) \/ Remove(s)
        \/ \E w \in Wakers : WakeUp(w) \/ Return(w)

Spec == Init /\ [][Next]_vars
=============================================================================
