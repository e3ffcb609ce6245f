--------------------------- MODULE MCDriverDemos ---------------------------
(* A small instance of DriverDemos. *)
EXTENDS DriverDemos, TLC

CONSTANTS t1, t2, f1, f2

TwoTasks == {t1, t2}
TwoFiles == {f1, f2}
OneTask  == {t1}

\* globalmem: t1 has f1 for itself, and shares f2 with t2.
UsersOfFiles == f1 :> {t1} @@ f2 :> {t1, t2}
\* The frame: kDemo of 1.base, and m_kDemo of 2.cmake_build_simple.  All other
\* demos are called kDemo, too, and the kernel takes one of that name at a time.
TwoMajors == {253, 254}
\* ch8 and ch9: a reader, and a task that writes, polls and clears.
OneByte == {1}
ReadOrWrite == t1 :> {"read", "fasync"} @@ t2 :> {"write", "clear", "pollin"}
\* 2.dma_base_arm: two classes of resource on each minor; on the first uDemo
\* runs, or else calls as they come.
FirstMinor  == t1 :> {"coherent", "pool"}
SecondMinor == t1 :> {"single", "sg"}
=============================================================================
