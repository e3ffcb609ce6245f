----------------------------- MODULE DmaClient -----------------------------
(***************************************************************************)
(* uDemo, the test program of the DMA demo                                 *)
(* (08.dma/1.dma_base/userDemoBase.c), run against the driver.  Some of    *)
(* the tasks of DmaDevice run it, again and again and with any selection   *)
(* of its tests; the others call the driver as they like.                  *)
(*                                                                         *)
(* A call that fails ends most of the tests at once, and what they have    *)
(* allocated stays with the device; only the pool test cleans up.          *)
(***************************************************************************)
EXTENDS DmaDevice, Sequences

VARIABLES
    prog,     \* the tasks that run uDemo
    ran,      \* each program: the tests it was told to run, last
    at,       \* its next call
    status    \* ret of main

clientVars == <<prog, ran, at, status>>

\* The tests in the order of main, and the first call of each.
Order == <<"coherent", "single", "sg", "pool", "info", "mask">>
First == [coherent |-> "alloc", single |-> "map", sg |-> "sg_map",
          pool |-> "create", info |-> "info", mask |-> "mask32"]

\* The tests a task may be told to run: GET_INFO reads the scatter-gather table.
Tests(t) == Uses[t] \cup {"mask"} \cup {x \in {"info"} : "sg" \in Uses[t]}

\* A call: the number of its test, the step it takes in the driver, the flags
\* that must be set and clear for it, and the next call.
Call(n, step, set, clear, next) ==
    [n |-> n, step |-> step, set |-> set, clear |-> clear, next |-> next]
Calls ==
    [alloc |-> Call(1, "coh_alloc", {}, {"coherent_buf"}, "write"),
     write |-> Call(1, "coh_copy", {"coherent_buf"}, {}, "read"),
     read |-> Call(1, "coh_copy", {"coherent_buf"}, {}, "free"),
     free |-> Call(1, "coh_free", {"coherent_buf"}, {}, "end"),
     map |-> Call(2, "single_alloc", {}, {"single_mapped"}, "unmap"),
     unmap |-> Call(2, "single_unmap", {"single_mapped"}, {}, "end"),
     sg_map |-> Call(3, "sg_array", {}, {"sg_mapped"}, "to_device"),
     to_device |-> Call(3, "sg_sync", {"sg_mapped"}, {}, "from_device"),
     from_device |-> Call(3, "sg_sync", {"sg_mapped"}, {}, "sg_unmap"),
     sg_unmap |-> Call(3, "sg_unmap", {"sg_mapped"}, {}, "end"),
     create |-> Call(4, "pool_create", {}, {"dma_pool"}, "pool_alloc"),
     pool_alloc |-> Call(4, "pool_buf", {"dma_pool"}, {"pool_buf"}, "pool_free"),
     pool_free |-> Call(4, "pool_free", {"dma_pool", "pool_buf"}, {}, "destroy"),
     destroy |-> Call(4, "pool_drop", {"dma_pool"}, {}, "end")]

\* Where the pool test goes on when a call of it fails.
\* Variant: a failing POOL_ALLOC ends it.
CleanUpNot == [pool_free |-> "destroy"]
CleanUp == [pool_alloc |-> "destroy", pool_free |-> "destroy"]

\* The program has to allocate memory of its own before these calls, and ends
\* the test if it cannot; before pool_free it just goes on to the call.
Mallocs == {"write", "read", "unmap"}

ClientInit ==
    /\ Init
    /\ prog \in SUBSET Tasks
    /\ ran = [t \in Tasks |-> {}]
    /\ at = [t \in Tasks |-> "out"]
    /\ status = [t \in Tasks |-> "passed"]

\* Where main goes after its n-th test.
After(n, tests) ==
    LET left == {m \in (n + 1)..Len(Order) : Order[m] \in tests}
    IN  IF left = {} THEN "close"
        ELSE First[Order[CHOOSE m \in left : \A o \in left : m <= o]]

MoveTo(t, n, place) ==
    at' = [at EXCEPT ![t] = IF place = "end" THEN After(n, ran[t]) ELSE place]

\* The call at[t] returns 0.
Returns(t) ==
    /\ MoveTo(t, Calls[at[t]].n, Calls[at[t]].next)
    /\ UNCHANGED <<prog, ran, status>>

\* It fails: the test fails too, unless it cleans up and goes on.
Fails(t) ==
    /\ IF at[t] \in DOMAIN CleanUp
       THEN MoveTo(t, Calls[at[t]].n, CleanUp[at[t]]) /\ UNCHANGED status
       ELSE /\ MoveTo(t, Calls[at[t]].n, "end")
            /\ status' = [status EXCEPT ![t] = "failed"]
    /\ UNCHANGED <<prog, ran>>

Idle(t) == t \in prog /\ pc[t] = "idle"

-----------------------------------------------------------------------------
(* Actions                                                                 *)

\* main opens the device and runs the tests it is told to.
Start(t) ==
    /\ t \in prog /\ at[t] = "out" /\ Open(t)
    /\ \E tests \in SUBSET Tests(t) \ {{}} :
          ran' = [ran EXCEPT ![t] = tests] /\ at' = [at EXCEPT ![t] = After(0, tests)]
    /\ status' = [status EXCEPT ![t] = "passed"]
    /\ UNCHANGED prog

\* It closes the device and says whether all tests have passed.
Finish(t) ==
    /\ t \in prog /\ at[t] = "close" /\ Release(t)
    /\ at' = [at EXCEPT ![t] = "out"]
    /\ UNCHANGED <<prog, ran, status>>

\* The driver takes the call,
Issue(t) ==
    /\ Idle(t) /\ at[t] \in DOMAIN Calls
    /\ Ioctl(t) /\ pc'[t] = Calls[at[t]].step
    /\ UNCHANGED clientVars

\* refuses it,
Refused(t) ==
    /\ Idle(t) /\ at[t] \in DOMAIN Calls
    /\ ~ (Calls[at[t]].set \subseteq dd /\ Calls[at[t]].clear \cap dd = {})
    /\ Fails(t)
    /\ UNCHANGED vars

\* or is not even asked.
NoMemory(t) ==
    /\ Idle(t) /\ at[t] \in Mallocs
    /\ Fails(t)
    /\ UNCHANGED vars

\* The driver goes on with the call, and sooner or later returns: from these
\* steps, or when there is nothing to show for it, with an error.
ErrorReturns == {"coh_alloc", "single_alloc", "single_map", "sg_array", "sg_page", "sg_table", "sg_map"}
Running(t) ==
    /\ t \in prog /\ pc[t] \in Inside /\ Ioctl(t)
    /\ \/ pc'[t] # "idle" /\ UNCHANGED clientVars
       \/ /\ pc'[t] = "idle" /\ at[t] # "info"
          /\ IF pc[t] \in ErrorReturns \/ (pc[t] \in {"pool_create", "pool_buf"} /\ heap' = heap)
             THEN Fails(t) ELSE Returns(t)
       \/ /\ pc'[t] = "idle" /\ at[t] = "info"
          /\ MoveTo(t, 5, "end") /\ UNCHANGED <<prog, ran, status>>

\* GET_INFO, which always works; it looks at a table that is there.
Info(t) ==
    /\ Idle(t) /\ at[t] = "info"
    /\ \/ "sg_mapped" \in dd /\ Ioctl(t) /\ pc'[t] = "sg_sync" /\ UNCHANGED clientVars
       \/ "sg_mapped" \notin dd /\ MoveTo(t, 5, "end") /\ UNCHANGED <<vars, prog, ran, status>>

\* The mask test, which passes whatever the platform says.
Mask(t) ==
    /\ Idle(t)
    /\ \/ at[t] = "mask32" /\ (Clear("mask64") \/ UNCHANGED dd) /\ MoveTo(t, 6, "mask64")
       \/ at[t] = "mask64" /\ (Put("mask64") \/ UNCHANGED dd) /\ MoveTo(t, 6, "end")
    /\ UNCHANGED <<mod, count, heap, mapping, pc, i, prog, ran, status>>

Program(t) ==
    \/ Start(t) \/ Issue(t) \/ Refused(t) \/ NoMemory(t) \/ Running(t)
    \/ Info(t) \/ Mask(t) \/ Finish(t)

ClientNext ==
    \/ (CreateNode \/ SetUpDma \/ Exit) /\ UNCHANGED clientVars
    \/ \E t \in Tasks \ prog : (Open(t) \/ Release(t) \/ Ioctl(t)) /\ UNCHANGED clientVars
    \/ \E t \in Tasks : Program(t)

ClientSpec == ClientInit /\ [][ClientNext]_<<vars, clientVars>>

-----------------------------------------------------------------------------
(* Properties                                                              *)

ClientTypeOK ==
    /\ prog \subseteq Tasks
    /\ ran \in [Tasks -> SUBSET {Order[n] : n \in DOMAIN Order}]
    /\ at \in [Tasks -> {"out", "close", "info", "mask32", "mask64"} \cup DOMAIN Calls]
    /\ status \in [Tasks -> {"passed", "failed"}]

TypesOK == TypeOK /\ ClientTypeOK

\* What the device holds of a class.
Holds == [coherent |-> heap["coherent"], single |-> heap["single"] + mapping["single"],
          sg |-> heap["array"] + heap["page"] + heap["table"] + mapping["sg"],
          pool |-> heap["pool"] + heap["poolbuf"]]

\* A run that says "All tests PASSED" has given back whatever its tests have
\* allocated, also where earlier runs have failed and left something behind.
PassedClean == \A t \in prog :
    at[t] = "out" /\ status[t] = "passed" => \A c \in ran[t] \cap Classes : Holds[c] = 0

\* The pool test leaves nothing even when it fails, however it fails: outside
\* of it there is neither a pool nor a buffer.
PoolTest == {"create", "pool_alloc", "pool_free", "destroy"}
PoolReturned == \A t \in prog :
    "pool" \in Uses[t] /\ at[t] \notin PoolTest /\ mod # "gone" => Holds["pool"] = 0

\* What a run of the test program leaves behind: nothing of a test that has
\* passed, and never a pool.
ProgramsClean == PassedClean /\ PoolReturned

\* Every run gives back what it has allocated, also one that fails.  This is
\* not so: without memory for its own buffers the coherent and the single test
\* return with the device's still allocated, and the next run of them gets
\* -EBUSY until the module is unloaded.
RunsClean == \A t \in prog : at[t] = "out" => \A c \in ran[t] \cap Classes : Holds[c] = 0
=============================================================================
