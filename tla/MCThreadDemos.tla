--------------------------- MODULE MCThreadDemos ---------------------------
(* A small instance of ThreadDemos. *)
EXTENDS ThreadDemos

CONSTANTS f1, f2, d1, d2

TwoFiles == {f1, f2}
TwoObjects == {d1, d2}

\* One of the three threads that are alone with their locks, and the others.
FiveThreads == <<"mutex", "reader", "writer", "rcu_reader", "rcu_writer">>
=============================================================================
