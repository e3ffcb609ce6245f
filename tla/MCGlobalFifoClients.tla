------------------------ MODULE MCGlobalFifoClients ------------------------
(* One task runs a test program, or reads; the other one writes and reads.  *)
EXTENDS GlobalFifoClients, TLC

CONSTANTS a, b

TwoProcs == {a, b}

LiveCalls == a :> {"read", "pollin", "select", "clear", "fasync"} @@ b :> {"read", "write"}
LivePrograms == a :> {"rw", "poll", "epoll", "test"} @@ b :> {"rw"}
=============================================================================
