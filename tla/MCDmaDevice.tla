---------------------------- MODULE MCDmaDevice ----------------------------
(***************************************************************************)
(* Instances of DmaDevice and of its test program: who uses which class    *)
(* of resource.                                                            *)
(***************************************************************************)
EXTENDS DmaClient, TLC

CONSTANTS t1, t2
MCTasks == {t1, t2}

\* Two tasks that keep apart; one does half the classes, the other the rest.
Apart == (t1 :> {"coherent", "sg"}) @@ (t2 :> {"single", "pool"})
\* Two tasks that both use the coherent buffer, as two runs of uDemo -c do.
Together == (t1 :> {"coherent"}) @@ (t2 :> {"coherent"})
=============================================================================
