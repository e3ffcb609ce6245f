---------------------------- MODULE MCGlobalFifo ----------------------------
(* Small instances of GlobalFifo: who the tasks are and what each may call. *)
EXTENDS GlobalFifo, TLC

CONSTANTS a, b, c

TwoProcs == {a, b}
ThreeProcs == {a, b, c}

\* One task reads, with SIGIO, the other one writes, and both clear.
DataCalls == a :> {"read", "clear", "fasync"} @@ b :> {"write", "clear"}

\* Two readers compete for the bytes of a writer, two writers for the room
\* that a reader makes, and beside a reader and a writer a third task polls
\* for bytes or for room.
WaitCalls == a :> {"read"} @@ b :> {"read", "write"}
                @@ c :> {"write", "pollin", "pollout"}

\* A writer and a task that clears.
ClearCalls == a :> {"write"} @@ b :> {"clear"}
=============================================================================
