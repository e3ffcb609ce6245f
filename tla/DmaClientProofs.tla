-------------------------- MODULE DmaClientProofs --------------------------
(***************************************************************************)
(* What the test program of the DMA demo leaves behind, for any number of  *)
(* tasks, any of which run it, and any SG_NENTS.                           *)
(*                                                                         *)
(* Every step of a program is a step of the driver or none, so whatever    *)
(* DmaDeviceProofs shows of the driver holds of it with its programs, too. *)
(* The invariant about the programs has two parts.  ClientFlow relates the *)
(* next call of a program to the ioctl it is inside of; it holds whatever  *)
(* the tasks do to each other.  ClientHeld says what the device holds for  *)
(* a program between two of its tests; that is so only if no other task    *)
(* uses the same class of resource.                                        *)
(***************************************************************************)
EXTENDS DmaClient, DmaDeviceProofs

Names == {Order[n] : n \in DOMAIN Order}
Places == {"out", "close", "info", "mask32", "mask64"} \cup DOMAIN Calls

\* The steps that the driver takes for a call.
Course ==
    [alloc |-> {"coh_alloc", "coh_size"}, write |-> {"coh_copy"}, read |-> {"coh_copy"},
     free |-> {"coh_free", "coh_clear"},
     map |-> {"single_alloc", "single_map", "single_on"},
     unmap |-> {"single_unmap", "single_free", "single_off"},
     sg_map |-> {"sg_array", "sg_page", "sg_table", "sg_map", "sg_on"},
     to_device |-> {"sg_sync"}, from_device |-> {"sg_sync"},
     sg_unmap |-> {"sg_unmap", "sg_free", "sg_off"},
     create |-> {"pool_create"}, pool_alloc |-> {"pool_buf"},
     pool_free |-> {"pool_free", "pool_clear"}, destroy |-> {"pool_drop", "pool_destroy"},
     info |-> {"sg_sync"}]

\* The number of the test that a place belongs to.
Number(a) ==
    IF a \in {"out", "close"} THEN 7
    ELSE IF a = "info" THEN 5
    ELSE IF a \in {"mask32", "mask64"} THEN 6
    ELSE Calls[a].n

ClientFlow ==
    /\ ClientTypeOK
    /\ \A t \in Tasks : ran[t] \subseteq Tests(t)
    /\ \A t \in prog : pc[t] = "closed" <=> at[t] = "out"
    /\ \A t \in prog : pc[t] \in Inside => at[t] \in DOMAIN Course /\ pc[t] \in Course[at[t]]

\* The field that tells whether the device holds anything of a class.
Field == [coherent |-> "coherent_buf", single |-> "single_mapped",
          sg |-> "sg_mapped", pool |-> "dma_pool"]
Held(c) == Field[c] \in dd
ClassNumber == [coherent |-> 1, single |-> 2, sg |-> 3, pool |-> 4]

\* Of the tests of a run that has not failed, those before the current one
\* have left nothing; and there is no pool outside the pool test.
TestsClean(t) ==
    status[t] = "passed" =>
        \A c \in ran[t] \cap Classes : ClassNumber[c] < Number(at[t]) => ~Held(c)
PoolClean(t) ==
    "pool" \in Uses[t] /\ (at[t] \notin PoolTest \/ (at[t] = "create" /\ pc[t] = "idle"))
        => ~Held("pool")
ClientHeld == \A t \in prog : TestsClean(t) /\ PoolClean(t)

-----------------------------------------------------------------------------
(* The steps of the driver                                                 *)

\* In an ioctl a task moves alone, and goes on with the same call or returns.
Moves(t, steps) ==
    /\ pc[t] \in steps \cup {"idle"} /\ pc'[t] \in steps \cup {"idle"}
    /\ \A s \in Tasks : s # t => pc'[s] = pc[s]
    /\ \A a \in DOMAIN Course : pc[t] \in Course[a] => pc'[t] \in Course[a] \cup {"idle"}

LEMMA CoherentMoves == ASSUME TypeOK, NEW t \in Tasks, Coherent(t) PROVE Moves(t, CoherentSteps)
  BY DEF TypeOK, Moves, Course, Coherent, Enter, Go, CoherentSteps, CoherentAlloc, CoherentSize,
     CoherentFree, CoherentClear, CoherentCopy

LEMMA SingleMoves == ASSUME TypeOK, NEW t \in Tasks, Single(t) PROVE Moves(t, SingleSteps)
  BY DEF TypeOK, Moves, Course, Single, Enter, Go, SingleSteps, SingleAlloc, SingleMap, SingleOn,
     SingleUnmap, SingleFree, SingleOff, SingleSync

LEMMA SgMoves == ASSUME TypeOK, NEW t \in Tasks, Sg(t) PROVE Moves(t, SgSteps)
  BY DEF TypeOK, Moves, Course, Sg, Enter, Go, SgSteps, SgArray, SgPage, SgTable, SgMap, SgOn,
     SgUnmap, SgFree, SgOff, SgSync, SgUndo

LEMMA PoolMoves == ASSUME TypeOK, NEW t \in Tasks, Pool(t) PROVE Moves(t, PoolSteps)
  BY DEF TypeOK, Moves, Course, Pool, Enter, Go, PoolSteps, PoolCreate, PoolAlloc, PoolFree,
     PoolClear, PoolDrop, PoolDestroy

LEMMA IoctlMoves == ASSUME TypeOK, NEW t \in Tasks, Ioctl(t) PROVE Moves(t, Inside)
  <1>1. CASE Coherent(t)
    BY <1>1, CoherentMoves DEF Moves, Inside
  <1>2. CASE Single(t)
    BY <1>2, SingleMoves DEF Moves, Inside
  <1>3. CASE Sg(t)
    BY <1>3, SgMoves DEF Moves, Inside
  <1>4. CASE Pool(t)
    BY <1>4, PoolMoves DEF Moves, Inside
  <1>5. CASE SetMask(t)
    BY <1>5 DEF SetMask, Moves
  <1> QED  BY <1>1, <1>2, <1>3, <1>4, <1>5 DEF Ioctl

-----------------------------------------------------------------------------
(* What comes after a test                                                 *)

\* Main goes on with the next test that it is told to run.
LEMMA AfterIs ==
    ASSUME NEW tests, NEW n \in 0..6
    PROVE  /\ After(n, tests) \in Places \ {"out"}
           /\ After(n, tests) \in {"create"} \/ After(n, tests) \notin PoolTest
           /\ \A m \in 1..6 : Order[m] \in tests /\ m < Number(After(n, tests)) => m <= n
  <1> DEFINE left == {m \in (n + 1)..6 : Order[m] \in tests}
             first == CHOOSE m \in left : \A o \in left : m <= o
  <1>1. Len(Order) = 6
    BY DEF Order
  <1>2. CASE left = {}
    <2>1. After(n, tests) = "close"
      BY <1>1, <1>2 DEF After
    <2> QED  BY <1>2, <2>1 DEF Places, PoolTest, Number
  <1>3. CASE left # {}
    <2>1. \E m \in left : \A o \in left : m <= o
      <3>1. \A m \in left : m \in {1, 2, 3, 4, 5, 6}
        OBVIOUS
      <3> HIDE DEF left
      <3>2. CASE 1 \in left
        BY <3>1, <3>2
      <3>3. CASE 1 \notin left /\ 2 \in left
        BY <3>1, <3>3
      <3>4. CASE 1 \notin left /\ 2 \notin left /\ 3 \in left
        BY <3>1, <3>4
      <3>5. CASE 1 \notin left /\ 2 \notin left /\ 3 \notin left /\ 4 \in left
        BY <3>1, <3>5
      <3>6. CASE left \subseteq {5, 6} /\ 5 \in left
        BY <3>1, <3>6
      <3>7. CASE left = {6}
        BY <3>7
      <3> QED  BY <1>3, <3>1, <3>2, <3>3, <3>4, <3>5, <3>6, <3>7
    <2>2. first \in left /\ \A o \in left : first <= o
      <3> HIDE DEF left
      <3> QED  BY <2>1
    <2>3. After(n, tests) = First[Order[first]]
      BY <1>1, <1>3 DEF After
    <2>4. first \in 1..6 /\ first > n
      BY <2>2
    <2> HIDE DEF first
    <2>5. /\ First[Order[first]] \in Places \ {"out"}
          /\ First[Order[first]] \in {"create"} \/ First[Order[first]] \notin PoolTest
          /\ Number(First[Order[first]]) = first
      <3>1. first \in {1, 2, 3, 4, 5, 6}
        BY <2>4
      <3> QED  BY <3>1 DEF First, Order, Places, PoolTest, Number, Calls, Call
    <2>6. ASSUME NEW m \in 1..6, Order[m] \in tests, m < first
          PROVE  m <= n
      BY <2>2, <2>4, <2>6
    <2> QED  BY <2>3, <2>5, <2>6
  <1> QED  BY <1>2, <1>3

\* The driver takes no step of its own at a place between two calls.
LEMMA CallsAre ==
    /\ DOMAIN Calls = DOMAIN Course \ {"info"}
    /\ \A a \in DOMAIN Calls : /\ Calls[a].n \in 1..4
                               /\ Calls[a].next \in DOMAIN Calls \cup {"end"}
                               /\ Calls[a].step \in Course[a]
    /\ \A a \in DOMAIN Course : "idle" \notin Course[a] /\ "closed" \notin Course[a] /\ Course[a] \subseteq Inside
    /\ DOMAIN CleanUp \subseteq DOMAIN Calls
    /\ \A a \in DOMAIN CleanUp : CleanUp[a] = "destroy"
  BY DEF Calls, Call, Course, CleanUp, Inside, CoherentSteps, SingleSteps, SgSteps, PoolSteps

-----------------------------------------------------------------------------
(* The flow of the programs                                                *)

\* Where t goes to when call or test n is followed by next.
Follows(t, n, next, a) ==
    IF next = "end"
    THEN /\ a = "create" \/ a \notin PoolTest
         /\ \A m \in 1..6 : Order[m] \in ran[t] /\ m < Number(a) => m <= n
    ELSE a = next

LEMMA MoveToIs ==
    ASSUME NEW t \in Tasks, NEW n \in 0..6, NEW next \in (Places \ {"out"}) \cup {"end"},
           MoveTo(t, n, next)
    PROVE  \E a \in Places \ {"out"} : at' = [at EXCEPT ![t] = a] /\ Follows(t, n, next, a)
<1>1. CASE next = "end"
  BY <1>1, AfterIs DEF MoveTo, Follows
<1>2. CASE next # "end"
  BY <1>2 DEF MoveTo, Follows
<1> QED  BY <1>1, <1>2

\* A program goes to a, with its status st.
Goes(t, a, st) ==
    /\ at' = [at EXCEPT ![t] = a] /\ status' = [status EXCEPT ![t] = st]
    /\ UNCHANGED <<prog, ran>>

LEMMA ReturnsIs ==
    ASSUME ClientTypeOK, NEW t \in Tasks, at[t] \in DOMAIN Calls, Returns(t)
    PROVE  \E a \in Places \ {"out"} :
              Goes(t, a, status[t]) /\ Follows(t, Calls[at[t]].n, Calls[at[t]].next, a)
<1>1. Calls[at[t]].n \in 0..6 /\ Calls[at[t]].next \in (Places \ {"out"}) \cup {"end"}
  BY CallsAre DEF Places, Course
<1>2. PICK a \in Places \ {"out"} :
         at' = [at EXCEPT ![t] = a] /\ Follows(t, Calls[at[t]].n, Calls[at[t]].next, a)
  BY <1>1, MoveToIs DEF Returns
<1>3. Goes(t, a, status[t])
  BY <1>2 DEF Goes, Returns, ClientTypeOK
<1> QED  BY <1>2, <1>3

\* A failing call fails the test, or leads to where the test cleans up.
LEMMA FailsIs ==
    ASSUME ClientTypeOK, NEW t \in Tasks, at[t] \in DOMAIN Calls, Fails(t)
    PROVE  \E a \in Places \ {"out"}, st \in {"passed", "failed"} :
              /\ Goes(t, a, st)
              /\ IF at[t] \in DOMAIN CleanUp THEN a = "destroy" /\ st = status[t]
                 ELSE st = "failed" /\ (a = "create" \/ a \notin PoolTest)
<1>1. Calls[at[t]].n \in 0..6
  BY CallsAre
<1>2. CASE at[t] \in DOMAIN CleanUp
  <2>1. MoveTo(t, Calls[at[t]].n, "destroy") /\ UNCHANGED status
    BY <1>2, CallsAre DEF Fails
  <2>2. at' = [at EXCEPT ![t] = "destroy"]
    BY <2>1 DEF MoveTo
  <2>3. "destroy" \in Places \ {"out"}
    BY CallsAre DEF Places, Course
  <2>4. Goes(t, "destroy", status[t]) /\ status[t] \in {"passed", "failed"}
    BY <2>1, <2>2 DEF Goes, Fails, ClientTypeOK
  <2> QED  BY <1>2, <2>3, <2>4
<1>3. CASE at[t] \notin DOMAIN CleanUp
  <2>1. MoveTo(t, Calls[at[t]].n, "end") /\ status' = [status EXCEPT ![t] = "failed"]
    BY <1>3 DEF Fails
  <2>2. PICK a \in Places \ {"out"} :
           at' = [at EXCEPT ![t] = a] /\ Follows(t, Calls[at[t]].n, "end", a)
    BY <1>1, <2>1, MoveToIs
  <2>3. Goes(t, a, "failed")
    BY <2>1, <2>2 DEF Goes, Fails
  <2> QED  BY <1>3, <2>2, <2>3 DEF Follows
<1> QED  BY <1>2, <1>3

-----------------------------------------------------------------------------
(* The flow of the programs                                                *)

\* The part of one task.
Flow(t) ==
    /\ ran[t] \subseteq Tests(t)
    /\ t \in prog => (pc[t] = "closed" <=> at[t] = "out")
    /\ t \in prog /\ pc[t] \in Inside => at[t] \in DOMAIN Course /\ pc[t] \in Course[at[t]]

\* Nobody moves but t, if anybody does.
LEMMA FlowStep ==
    ASSUME ClientFlow, NEW t \in Tasks, \A s \in Tasks : s # t => pc'[s] = pc[s],
           NEW a \in Places, NEW st \in {"passed", "failed"}, Goes(t, a, st), Flow(t)'
    PROVE  ClientFlow'
<1>1. ClientTypeOK'
  BY DEF ClientFlow, ClientTypeOK, Goes, Places
<1>2. ASSUME NEW s \in Tasks, s # t PROVE Flow(s)'
  BY <1>2 DEF ClientFlow, ClientTypeOK, Flow, Goes, Tests
<1> QED  BY <1>1, <1>2 DEF ClientFlow, ClientTypeOK, Flow

LEMMA StayFlow ==
    ASSUME ClientFlow, UNCHANGED clientVars, NEW t \in Tasks, Flow(t)',
           \A s \in Tasks : s # t => pc'[s] = pc[s]
    PROVE  ClientFlow'
<1>1. at[t] \in Places /\ status[t] \in {"passed", "failed"}
  BY DEF ClientFlow, ClientTypeOK, Places
<1>2. Goes(t, at[t], status[t])
  BY DEF ClientFlow, ClientTypeOK, Goes, clientVars
<1> QED  BY <1>1, <1>2, FlowStep

\* A program that goes to a place while it is outside.
LEMMA OutsideFlow ==
    ASSUME TypeOK, ClientFlow, NEW t \in Tasks, pc'[t] = "idle", \A s \in Tasks : s # t => pc'[s] = pc[s],
           NEW a \in Places \ {"out"}, NEW st \in {"passed", "failed"}, Goes(t, a, st)
    PROVE  ClientFlow'
<1>1. "idle" \notin Inside
  BY DEF Inside, CoherentSteps, SingleSteps, SgSteps, PoolSteps
<1>2. Flow(t)'
  BY <1>1 DEF Flow, ClientFlow, ClientTypeOK, Goes, Tests
<1> QED  BY <1>2, FlowStep

LEMMA ProgramFlow ==
    ASSUME TypeOK, ClientFlow, NEW t \in Tasks, Program(t)
    PROVE  ClientFlow'
<1>1. CASE Start(t)
  <2>1. PICK tests \in SUBSET Tests(t) :
           /\ ran' = [ran EXCEPT ![t] = tests]
           /\ at' = [at EXCEPT ![t] = After(0, tests)]
    BY <1>1 DEF Start
  <2>2. After(0, tests) \in Places \ {"out"}
    BY AfterIs
  <2>3. tests \subseteq Names
    BY UsesAssumption DEF Tests, Names, Order, Classes
  <2>4. pc' = [pc EXCEPT ![t] = "idle"] /\ status' = [status EXCEPT ![t] = "passed"] /\ prog' = prog
    BY <1>1 DEF Start, Open
  <2>5. ClientTypeOK'
    BY <2>1, <2>2, <2>3, <2>4 DEF ClientFlow, ClientTypeOK, Places, Names
  <2>6. "idle" \notin Inside
    BY DEF Inside, CoherentSteps, SingleSteps, SgSteps, PoolSteps
  <2>7. ASSUME NEW s \in Tasks PROVE Flow(s)'
    BY <2>1, <2>2, <2>4, <2>6 DEF Flow, TypeOK, ClientFlow, ClientTypeOK, Tests
  <2> QED  BY <2>5, <2>7 DEF ClientFlow, ClientTypeOK, Flow
<1>2. CASE Finish(t)
  <2>1. pc' = [pc EXCEPT ![t] = "closed"] /\ Goes(t, "out", status[t])
    BY <1>2 DEF Finish, Release, Goes, ClientFlow, ClientTypeOK
  <2>2. "closed" \notin Inside /\ "out" \in Places /\ status[t] \in {"passed", "failed"}
    BY DEF Inside, CoherentSteps, SingleSteps, SgSteps, PoolSteps, Places, ClientFlow, ClientTypeOK
  <2>3. Flow(t)' /\ \A s \in Tasks : s # t => pc'[s] = pc[s]
    BY <2>1, <2>2 DEF Flow, TypeOK, ClientFlow, ClientTypeOK, Goes, Tests
  <2> QED  BY <2>1, <2>2, <2>3, FlowStep
<1>3. CASE Issue(t)
  <2>1. Ioctl(t) /\ UNCHANGED clientVars /\ at[t] \in DOMAIN Calls /\ pc'[t] = Calls[at[t]].step
    BY <1>3 DEF Issue
  <2>2. at[t] \in DOMAIN Course /\ pc'[t] \in Course[at[t]] /\ pc'[t] # "closed"
    BY <2>1, CallsAre
  <2>3. Flow(t)'
    BY <2>1, <2>2, CallsAre DEF Flow, ClientFlow, ClientTypeOK, clientVars, Tests, Course
  <2> QED  BY <2>1, <2>3, IoctlMoves, StayFlow DEF Moves
<1>4. CASE Refused(t) \/ NoMemory(t)
  <2>1. Fails(t) /\ at[t] \in DOMAIN Calls /\ pc[t] = "idle" /\ pc' = pc
    BY <1>4, CallsAre DEF Refused, NoMemory, Idle, Mallocs, vars, Course
  <2>2. PICK a \in Places \ {"out"}, st \in {"passed", "failed"} : Goes(t, a, st)
    BY <2>1, FailsIs DEF ClientFlow
  <2> QED  BY <2>1, <2>2, OutsideFlow
<1>5. CASE Running(t)
  <2>1. t \in prog /\ Ioctl(t) /\ at[t] \in DOMAIN Course /\ pc[t] \in Course[at[t]]
    BY <1>5 DEF Running, ClientFlow
  <2>2. /\ \A s \in Tasks : s # t => pc'[s] = pc[s]
        /\ pc'[t] \in Course[at[t]] \cup {"idle"}
    BY <2>1, IoctlMoves DEF Moves
  <2>3. CASE pc'[t] # "idle"
    <3>1. UNCHANGED clientVars
      BY <1>5, <2>3 DEF Running
    <3>2. Flow(t)'
      BY <2>1, <2>2, <2>3, <3>1, CallsAre DEF Flow, ClientFlow, ClientTypeOK, clientVars, Tests, Course
    <3> QED  BY <2>2, <3>1, <3>2, StayFlow
  <2>4. CASE pc'[t] = "idle" /\ at[t] # "info"
    <3>1. at[t] \in DOMAIN Calls /\ (Fails(t) \/ Returns(t))
      BY <1>5, <2>1, <2>4, CallsAre DEF Running
    <3>2. PICK a \in Places \ {"out"}, st \in {"passed", "failed"} : Goes(t, a, st)
      BY <3>1, FailsIs, ReturnsIs DEF ClientFlow, ClientTypeOK
    <3> QED  BY <2>2, <2>4, <3>2, OutsideFlow
  <2>5. CASE pc'[t] = "idle" /\ at[t] = "info"
    <3>1. MoveTo(t, 5, "end") /\ UNCHANGED <<prog, ran, status>>
      BY <1>5, <2>5 DEF Running
    <3>2. PICK a \in Places \ {"out"} : at' = [at EXCEPT ![t] = a]
      BY <3>1, MoveToIs
    <3>3. Goes(t, a, status[t]) /\ status[t] \in {"passed", "failed"}
      BY <3>1, <3>2 DEF Goes, ClientFlow, ClientTypeOK
    <3> QED  BY <2>2, <2>5, <3>3, OutsideFlow
  <2> QED  BY <2>3, <2>4, <2>5
<1>6. CASE Info(t)
  <2>1. CASE Ioctl(t) /\ pc'[t] = "sg_sync" /\ UNCHANGED clientVars
    <3>1. t \in prog /\ at[t] = "info" /\ "sg_sync" \in Course["info"]
      BY <1>6 DEF Info, Idle, Course
    <3>2. Flow(t)'
      BY <2>1, <3>1 DEF Flow, ClientFlow, ClientTypeOK, clientVars, Tests, Course
    <3> QED  BY <2>1, <3>2, IoctlMoves, StayFlow DEF Moves
  <2>2. CASE MoveTo(t, 5, "end") /\ UNCHANGED <<vars, prog, ran, status>>
    <3>1. PICK a \in Places \ {"out"} : at' = [at EXCEPT ![t] = a]
      BY <2>2, MoveToIs
    <3>2. Goes(t, a, status[t]) /\ status[t] \in {"passed", "failed"} /\ pc' = pc /\ pc[t] = "idle"
      BY <1>6, <2>2, <3>1 DEF Goes, ClientFlow, ClientTypeOK, vars, Info, Idle
    <3> QED  BY <3>2, OutsideFlow
  <2> QED  BY <1>6, <2>1, <2>2 DEF Info
<1>7. CASE Mask(t)
  <2>1. /\ MoveTo(t, 6, "mask64") \/ MoveTo(t, 6, "end")
        /\ UNCHANGED <<pc, prog, ran, status>> /\ pc[t] = "idle"
    BY <1>7 DEF Mask, Idle
  <2>2. "mask64" \in (Places \ {"out"}) \cup {"end"}
    BY DEF Places
  <2>3. PICK a \in Places \ {"out"} : at' = [at EXCEPT ![t] = a]
    BY <2>1, <2>2, MoveToIs
  <2>4. Goes(t, a, status[t]) /\ status[t] \in {"passed", "failed"}
    BY <2>1, <2>3 DEF Goes, ClientFlow, ClientTypeOK
  <2> QED  BY <2>1, <2>4, OutsideFlow
<1> QED  BY <1>1, <1>2, <1>3, <1>4, <1>5, <1>6, <1>7 DEF Program

-----------------------------------------------------------------------------
(* Types, whatever the tasks do to each other                              *)

LEMMA IndexStep ==
    ASSUME TypeOK, IndexInArray, NEW t \in Tasks, Ioctl(t)
    PROVE  IndexInArray'
<1>1. CASE Sg(t)
  <2>1. \A s \in Tasks : s # t => pc'[s] = pc[s]
    BY <1>1, SgMoves DEF Moves
  <2>2. \A s \in Tasks : s # t => i'[s] = i[s]
    BY <1>1 DEF TypeOK, Sg, Enter, SgArray, SgPage, SgTable, SgMap, SgOn, SgUnmap, SgFree, SgOff,
       SgSync, SgUndo
  <2>3. pc'[t] = "sg_page" => i'[t] < NEnts
    BY <1>1, NEntsAssumption DEF TypeOK, Go, Sg, Enter, SgArray, SgPage, SgTable, SgMap, SgOn,
       SgUnmap, SgFree, SgOff, SgSync, SgUndo
  <2> QED  BY <2>1, <2>2, <2>3 DEF IndexInArray
<1>2. CASE Coherent(t)
  <2>1. i' = i
    BY <1>2 DEF Coherent, Enter, CoherentAlloc, CoherentSize, CoherentFree, CoherentClear, CoherentCopy
  <2>2. pc'[t] # "sg_page"
    BY <1>2, CoherentMoves DEF Moves, CoherentSteps
  <2> QED  BY <1>2, <2>1, <2>2, CoherentMoves DEF Moves, IndexInArray
<1>3. CASE Single(t)
  <2>1. i' = i
    BY <1>3 DEF Single, Enter, SingleAlloc, SingleMap, SingleOn, SingleUnmap, SingleFree,
       SingleOff, SingleSync
  <2>2. pc'[t] # "sg_page"
    BY <1>3, SingleMoves DEF Moves, SingleSteps
  <2> QED  BY <1>3, <2>1, <2>2, SingleMoves DEF Moves, IndexInArray
<1>4. CASE Pool(t)
  <2>1. i' = i
    BY <1>4 DEF Pool, Enter, PoolCreate, PoolAlloc, PoolFree, PoolClear, PoolDrop, PoolDestroy
  <2>2. pc'[t] # "sg_page"
    BY <1>4, PoolMoves DEF Moves, PoolSteps
  <2> QED  BY <1>4, <2>1, <2>2, PoolMoves DEF Moves, IndexInArray
<1>5. CASE SetMask(t)
  BY <1>5 DEF SetMask, IndexInArray
<1> QED  BY <1>1, <1>2, <1>3, <1>4, <1>5 DEF Ioctl

\* Opening, closing, loading and unloading.
Frame(t) == Open(t) \/ Release(t)
Load == CreateNode \/ SetUpDma \/ Exit

LEMMA DeviceTypes ==
    ASSUME TypeOK, IndexInArray, \/ Load
                                 \/ \E t \in Tasks : Frame(t) \/ Ioctl(t)
                                 \/ UNCHANGED vars
    PROVE  TypeOK' /\ IndexInArray'
<1>1. CASE Load
  <2>1. CASE CreateNode \/ SetUpDma
    BY <2>1 DEF CreateNode, SetUpDma, TypeOK, IndexInArray
  <2>2. CASE Exit
    <3>1. \A k \in Kinds : Owned[k] \in Int
      BY NEntsAssumption DEF Kinds, Owned, One
    <3>2. heap' \in [Kinds -> Int]
      BY <2>2, <3>1 DEF Exit, TypeOK
    <3>3. mapping' \in [{"single", "sg"} -> Int]
      BY <2>2 DEF Exit, TypeOK, One
    <3> QED  BY <2>2, <3>2, <3>3 DEF Exit, TypeOK, IndexInArray
  <2> QED  BY <1>1, <2>1, <2>2 DEF Load
<1>2. ASSUME NEW t \in Tasks, Frame(t) PROVE TypeOK' /\ IndexInArray'
  <2>1. /\ pc' = [pc EXCEPT ![t] = "idle"] \/ pc' = [pc EXCEPT ![t] = "closed"]
        /\ count' \in Int /\ UNCHANGED <<mod, dd, heap, mapping, i>>
    BY <1>2 DEF Frame, Open, Release, TypeOK
  <2> QED  BY <2>1 DEF TypeOK, IndexInArray
<1>3. ASSUME NEW t \in Tasks, Ioctl(t) PROVE TypeOK' /\ IndexInArray'
  <2>1. IndexInArray'
    BY <1>3, IndexStep
  <2>2. CASE SetMask(t)
    BY <2>1, <2>2 DEF SetMask, Put, Clear, TypeOK, Flags
  <2> QED  BY <1>3, <2>1, <2>2, CoherentType, SingleType, SgType, PoolType DEF Ioctl
<1>4. CASE UNCHANGED vars
  BY <1>4 DEF vars, TypeOK, IndexInArray
<1> QED  BY <1>1, <1>2, <1>3, <1>4

\* Whatever a program does, the driver makes a step of its own or none.
LEMMA ProgramCalls ==
    ASSUME NEW t \in Tasks, Program(t)
    PROVE  Frame(t) \/ Ioctl(t) \/ UNCHANGED vars
<1>1. CASE Mask(t)
  BY <1>1 DEF Mask, Idle, Ioctl, SetMask, Put, Clear, vars
<1> QED  BY <1>1 DEF Program, Start, Finish, Issue, Refused, NoMemory, Running, Info, Frame

LEMMA ClientCalls ==
    ClientNext => Load \/ (\E t \in Tasks : Frame(t) \/ Ioctl(t)) \/ UNCHANGED vars
  BY ProgramCalls DEF ClientNext, Load, Frame

\* The driver with its test programs is the driver.
THEOREM ClientsAreTasks == ClientSpec => Spec
<1>1. ClientInit => Init
  BY DEF ClientInit
<1>2. [ClientNext]_<<vars, clientVars>> => [Next]_vars
  BY ClientCalls DEF Next, Load, Frame
<1> QED  BY <1>1, <1>2, PTL DEF ClientSpec, Spec

TypeInv == TypeOK /\ IndexInArray /\ ClientFlow

\* A step of a task that runs no program, or of none, leaves the programs alone.
LEMMA OtherFlow ==
    ASSUME ClientFlow, UNCHANGED clientVars, \A t \in prog : pc'[t] = pc[t]
    PROVE  ClientFlow'
  BY DEF ClientFlow, ClientTypeOK, clientVars, Tests

LEMMA FrameMoves ==
    ASSUME TypeOK, NEW t \in Tasks, Frame(t) \/ Ioctl(t)
    PROVE  \A s \in Tasks : s # t => pc'[s] = pc[s]
<1>1. CASE Ioctl(t)
  BY <1>1, IoctlMoves DEF Moves
<1>2. CASE Frame(t)
  BY <1>2 DEF Frame, Open, Release, TypeOK
<1> QED  BY <1>1, <1>2

LEMMA FlowInvariance ==
    ASSUME TypeInv, [ClientNext]_<<vars, clientVars>>
    PROVE  ClientFlow'
<1>1. CASE (CreateNode \/ SetUpDma \/ Exit) /\ UNCHANGED clientVars
  <2>1. pc' = pc
    BY <1>1 DEF CreateNode, SetUpDma, Exit
  <2> QED  BY <1>1, <2>1, OtherFlow DEF TypeInv
<1>2. ASSUME NEW t \in Tasks \ prog, Open(t) \/ Release(t) \/ Ioctl(t), UNCHANGED clientVars
      PROVE  ClientFlow'
  <2>1. \A s \in Tasks : s # t => pc'[s] = pc[s]
    BY <1>2, FrameMoves DEF TypeInv, Frame
  <2>2. prog \subseteq Tasks
    BY DEF TypeInv, ClientFlow, ClientTypeOK
  <2> QED  BY <1>2, <2>1, <2>2, OtherFlow DEF TypeInv
<1>3. ASSUME NEW t \in Tasks, Program(t) PROVE ClientFlow'
  BY <1>3, ProgramFlow DEF TypeInv
<1>4. CASE UNCHANGED <<vars, clientVars>>
  BY <1>4, OtherFlow DEF TypeInv, vars
<1> QED  BY <1>1, <1>2, <1>3, <1>4 DEF ClientNext

LEMMA FlowInit == ClientInit => ClientFlow
<1> SUFFICES ASSUME ClientInit PROVE ClientFlow
  OBVIOUS
<1>1. "closed" \notin Inside
  BY DEF Inside, CoherentSteps, SingleSteps, SgSteps, PoolSteps
<1> QED  BY <1>1 DEF ClientInit, Init, ClientFlow, ClientTypeOK

\* The variables of the driver and of its programs keep to their ranges,
\* whichever tasks share a class of resource.
THEOREM TypeCorrect == ClientSpec => []TypesOK
<1>1. ClientInit => TypeInv
  <2>1. Init => TypeOK /\ IndexInArray
    BY NEntsAssumption DEF Init, TypeOK, IndexInArray, Kinds, Flags
  <2> QED  BY <2>1, FlowInit DEF ClientInit, TypeInv
<1>2. TypeInv /\ [ClientNext]_<<vars, clientVars>> => TypeInv'
  <2> SUFFICES ASSUME TypeInv, [ClientNext]_<<vars, clientVars>> PROVE TypeInv'
    OBVIOUS
  <2>1. Load \/ (\E t \in Tasks : Frame(t) \/ Ioctl(t)) \/ UNCHANGED vars
    BY ClientCalls
  <2> QED  BY <2>1, DeviceTypes, FlowInvariance DEF TypeInv
<1>3. TypeInv => TypesOK
  BY DEF TypeInv, TypesOK, ClientFlow
<1> QED  BY <1>1, <1>2, <1>3, PTL DEF ClientSpec

-----------------------------------------------------------------------------
(* What the device holds for a program                                     *)

StepsOf == [coherent |-> CoherentSteps, single |-> SingleSteps, sg |-> SgSteps, pool |-> PoolSteps]

\* An ioctl leaves the fields of all classes alone but its own, and begins
\* without a change.
LEMMA IoctlKeeps ==
    ASSUME IInv, NEW t \in Tasks, Ioctl(t), NEW c \in Classes,
           \/ c \notin Uses[t]
           \/ pc[t] \in Inside /\ pc[t] \notin StepsOf[c]
           \/ pc[t] = "idle" /\ pc'[t] # "idle"
    PROVE  Held(c)' <=> Held(c)
<1>0. TypeOK /\ "idle" \notin Inside
  BY DEF IInv, Inside, CoherentSteps, SingleSteps, SgSteps, PoolSteps
<1>1. CASE Coherent(t)
  <2>1. CASE c # "coherent"
    BY <1>0, <1>1, <2>1, CoherentElsewhere DEF SameSingle, SameSg, SamePool, Held, Field, Classes
  <2>2. CASE c = "coherent"
    <3>1. "coherent" \in Uses[t] /\ pc[t] \in CoherentSteps \cup {"idle"}
      <4>1. pc[t] \in CoherentSteps \/ (pc[t] = "idle" /\ "coherent" \in Uses[t])
        BY <1>1 DEF Coherent, Enter, Go, CoherentSteps, CoherentAlloc, CoherentSize, CoherentFree,
           CoherentClear, CoherentCopy
      <4> QED  BY <4>1 DEF IInv, CoherentInv, Own
    <3>2. pc[t] = "idle" /\ pc'[t] # "idle"
      BY <1>0, <2>2, <3>1 DEF StepsOf
    <3>3. dd' = dd
      BY <1>1, <3>2 DEF Coherent, Enter, Go, CoherentAlloc, CoherentSize, CoherentFree,
         CoherentClear, CoherentCopy
    <3> QED  BY <3>3 DEF Held
  <2> QED  BY <2>1, <2>2
<1>2. CASE Single(t)
  <2>1. CASE c # "single"
    BY <1>0, <1>2, <2>1, SingleElsewhere DEF SameCoherent, SameSg, SamePool, Held, Field, Classes
  <2>2. CASE c = "single"
    <3>1. "single" \in Uses[t] /\ pc[t] \in SingleSteps \cup {"idle"}
      <4>1. pc[t] \in SingleSteps \/ (pc[t] = "idle" /\ "single" \in Uses[t])
        BY <1>2 DEF Single, Enter, Go, SingleSteps, SingleAlloc, SingleMap, SingleOn, SingleUnmap,
           SingleFree, SingleOff, SingleSync
      <4> QED  BY <4>1 DEF IInv, SingleInv, Own
    <3>2. pc[t] = "idle" /\ pc'[t] # "idle"
      BY <1>0, <2>2, <3>1 DEF StepsOf
    <3>3. dd' = dd
      BY <1>2, <3>2 DEF Single, Enter, Go, SingleAlloc, SingleMap, SingleOn, SingleUnmap,
         SingleFree, SingleOff, SingleSync
    <3> QED  BY <3>3 DEF Held
  <2> QED  BY <2>1, <2>2
<1>3. CASE Sg(t)
  <2>1. CASE c # "sg"
    BY <1>0, <1>3, <2>1, SgElsewhere DEF SameCoherent, SameSingle, SamePool, Held, Field, Classes
  <2>2. CASE c = "sg"
    <3>1. "sg" \in Uses[t] /\ pc[t] \in SgSteps \cup {"idle"}
      <4>1. pc[t] \in SgSteps \/ (pc[t] = "idle" /\ "sg" \in Uses[t])
        BY <1>3 DEF Sg, Enter, Go, SgSteps, SgArray, SgPage, SgTable, SgMap, SgOn, SgUnmap, SgFree,
           SgOff, SgSync, SgUndo
      <4> QED  BY <4>1 DEF IInv, SgInv, Own
    <3>2. pc[t] = "idle" /\ pc'[t] # "idle"
      BY <1>0, <2>2, <3>1 DEF StepsOf
    <3>3. dd' = dd
      BY <1>3, <3>2 DEF Sg, Enter, Go, SgArray, SgPage, SgTable, SgMap, SgOn, SgUnmap, SgFree,
         SgOff, SgSync, SgUndo
    <3> QED  BY <3>3 DEF Held
  <2> QED  BY <2>1, <2>2
<1>4. CASE Pool(t)
  <2>1. CASE c # "pool"
    BY <1>0, <1>4, <2>1, PoolElsewhere DEF SameCoherent, SameSingle, SameSg, Held, Field, Classes
  <2>2. CASE c = "pool"
    <3>1. "pool" \in Uses[t] /\ pc[t] \in PoolSteps \cup {"idle"}
      <4>1. pc[t] \in PoolSteps \/ (pc[t] = "idle" /\ "pool" \in Uses[t])
        BY <1>4 DEF Pool, Enter, Go, PoolSteps, PoolCreate, PoolAlloc, PoolFree, PoolClear,
           PoolDrop, PoolDestroy
      <4> QED  BY <4>1 DEF IInv, PoolInv, Own
    <3>2. pc[t] = "idle" /\ pc'[t] # "idle"
      BY <1>0, <2>2, <3>1 DEF StepsOf
    <3>3. dd' = dd
      BY <1>4, <3>2 DEF Pool, Enter, Go, PoolCreate, PoolAlloc, PoolFree, PoolClear, PoolDrop, PoolDestroy
    <3> QED  BY <3>3 DEF Held
  <2> QED  BY <2>1, <2>2
<1>5. CASE SetMask(t)
  BY <1>5 DEF SetMask, Put, Clear, Held, Field, Classes
<1> QED  BY <1>1, <1>2, <1>3, <1>4, <1>5 DEF Ioctl

\* A program is left alone by the other tasks.
LEMMA OthersHeld ==
    ASSUME Disjoint, ClientFlow, NEW s \in Tasks, NEW t \in prog, t # s,
           TestsClean(t), PoolClean(t),
           \A c \in Classes : c \notin Uses[s] => (Held(c)' <=> Held(c)),
           pc'[t] = pc[t], at'[t] = at[t], ran'[t] = ran[t], status'[t] = status[t]
    PROVE  (TestsClean(t) /\ PoolClean(t))'
<1>1. t \in Tasks /\ ran[t] \cap Classes \subseteq Uses[t]
  BY DEF ClientFlow, ClientTypeOK, Tests, Classes
<1>2. \A c \in Uses[t] \cap Classes : Held(c)' <=> Held(c)
  BY <1>1 DEF Disjoint
<1>3. TestsClean(t)'
  BY <1>1, <1>2 DEF TestsClean
<1>4. PoolClean(t)'
  BY <1>1, <1>2 DEF PoolClean, Classes
<1> QED  BY <1>3, <1>4

\* The call of a place belongs to one class, and the last call of a test
\* gives back what the others have allocated.
LEMMA CallsOfClass ==
    /\ \A c \in Classes : ClassNumber[c] \in 1..4 /\ Order[ClassNumber[c]] = c
    /\ \A c \in Classes, d \in Classes : ClassNumber[c] = ClassNumber[d] => c = d
    /\ \A a \in DOMAIN Calls, c \in Classes :
          Course[a] \cap StepsOf[c] # {} => ClassNumber[c] = Calls[a].n
    /\ \A a \in DOMAIN Calls : \/ Calls[a].next = "end"
                               \/ Calls[a].next \in DOMAIN Calls /\ Calls[Calls[a].next].n = Calls[a].n
    /\ \A a \in DOMAIN Calls : Calls[a].next = "end" => a \in {"free", "unmap", "sg_unmap", "destroy"}
    /\ \A a \in DOMAIN Calls : a \in PoolTest <=> Calls[a].n = 4
    /\ \A a \in DOMAIN Calls : Number(a) = Calls[a].n
<1>1. \A c \in Classes : ClassNumber[c] \in 1..4 /\ Order[ClassNumber[c]] = c
  BY DEF Classes, ClassNumber, Order
<1>2. \A c \in Classes, d \in Classes : ClassNumber[c] = ClassNumber[d] => c = d
  BY DEF Classes, ClassNumber
<1>3. ASSUME NEW a \in DOMAIN Calls, NEW c \in Classes, Course[a] \cap StepsOf[c] # {}
      PROVE  ClassNumber[c] = Calls[a].n
  <2>1. a \in DOMAIN Course \ {"info"}
    BY CallsAre
  <2>2. CASE c = "coherent"
    BY <1>3, <2>1, <2>2 DEF Calls, Call, Course, StepsOf, CoherentSteps, ClassNumber
  <2>3. CASE c = "single"
    BY <1>3, <2>1, <2>3 DEF Calls, Call, Course, StepsOf, SingleSteps, ClassNumber
  <2>4. CASE c = "sg"
    BY <1>3, <2>1, <2>4 DEF Calls, Call, Course, StepsOf, SgSteps, ClassNumber
  <2>5. CASE c = "pool"
    BY <1>3, <2>1, <2>5 DEF Calls, Call, Course, StepsOf, PoolSteps, ClassNumber
  <2> QED  BY <2>2, <2>3, <2>4, <2>5 DEF Classes
<1>4. \A a \in DOMAIN Calls :
         /\ \/ Calls[a].next = "end"
            \/ Calls[a].next \in DOMAIN Calls /\ Calls[Calls[a].next].n = Calls[a].n
         /\ Calls[a].next = "end" => a \in {"free", "unmap", "sg_unmap", "destroy"}
  BY DEF Calls, Call
<1>5. \A a \in DOMAIN Calls : (a \in PoolTest <=> Calls[a].n = 4) /\ Number(a) = Calls[a].n
  BY DEF Calls, Call, PoolTest, Number
<1> QED  BY <1>1, <1>2, <1>3, <1>4, <1>5

LEMMA LastCall ==
    ASSUME TypeOK, NEW t \in Tasks, Ioctl(t), pc'[t] = "idle",
           NEW a \in {"free", "unmap", "sg_unmap", "destroy"}, pc[t] \in Course[a],
           NEW c \in Classes, ClassNumber[c] = Calls[a].n
    PROVE  ~Held(c)'
<1>1. CASE a = "free"
  <2>1. Coherent(t) /\ c = "coherent" /\ pc[t] \in {"coh_free", "coh_clear"}
    <3>1. pc[t] \in {"coh_free", "coh_clear"} /\ c = "coherent"
      BY <1>1 DEF Course, Calls, Call, ClassNumber, Classes
    <3> QED  BY <3>1, SingleMoves, SgMoves, PoolMoves DEF Ioctl, SetMask, Moves, SingleSteps, SgSteps, PoolSteps
  <2> QED  BY <2>1 DEF Coherent, Enter, Go, CoherentAlloc, CoherentSize, CoherentFree, CoherentClear,
              CoherentCopy, TypeOK, Held, Field
<1>2. CASE a = "unmap"
  <2>1. Single(t) /\ c = "single" /\ pc[t] \in {"single_unmap", "single_free", "single_off"}
    <3>1. pc[t] \in {"single_unmap", "single_free", "single_off"} /\ c = "single"
      BY <1>2 DEF Course, Calls, Call, ClassNumber, Classes
    <3> QED  BY <3>1, CoherentMoves, SgMoves, PoolMoves
             DEF Ioctl, SetMask, Moves, CoherentSteps, SgSteps, PoolSteps
  <2> QED  BY <2>1 DEF Single, Enter, Go, SingleAlloc, SingleMap, SingleOn, SingleUnmap, SingleFree,
              SingleOff, SingleSync, Clear, TypeOK, Held, Field
<1>3. CASE a = "sg_unmap"
  <2>1. Sg(t) /\ c = "sg" /\ pc[t] \in {"sg_unmap", "sg_free", "sg_off"}
    <3>1. pc[t] \in {"sg_unmap", "sg_free", "sg_off"} /\ c = "sg"
      BY <1>3 DEF Course, Calls, Call, ClassNumber, Classes
    <3> QED  BY <3>1, CoherentMoves, SingleMoves, PoolMoves
             DEF Ioctl, SetMask, Moves, CoherentSteps, SingleSteps, PoolSteps
  <2>2. SgOff(t)
    BY <2>1 DEF Sg, Enter, Go, SgArray, SgPage, SgTable, SgMap, SgOn, SgUnmap, SgFree, SgSync, SgUndo, TypeOK
  <2> QED  BY <2>1, <2>2 DEF SgOff, Clear, Held, Field
<1>4. CASE a = "destroy"
  <2>1. Pool(t) /\ c = "pool" /\ pc[t] \in {"pool_drop", "pool_destroy"}
    <3>1. pc[t] \in {"pool_drop", "pool_destroy"} /\ c = "pool"
      BY <1>4 DEF Course, Calls, Call, ClassNumber, Classes
    <3> QED  BY <3>1, CoherentMoves, SingleMoves, SgMoves
             DEF Ioctl, SetMask, Moves, CoherentSteps, SingleSteps, SgSteps
  <2> QED  BY <2>1 DEF Pool, Enter, Go, PoolCreate, PoolAlloc, PoolFree, PoolClear, PoolDrop,
              PoolDestroy, Clear, TypeOK, Held, Field
<1> QED  BY <1>1, <1>2, <1>3, <1>4

\* A program that moves within a test, or on from it, has left nothing
\* before if it had not; of the test it leaves it may have passed.
LEMMA TestsGoOn ==
    ASSUME ClientFlow, NEW t \in prog, TestsClean(t), NEW a \in Places, NEW st, Goes(t, a, st),
           NEW n \in 1..6, NEW next, n = Number(at[t]), Follows(t, n, next, a),
           next = "end" \/ Number(next) = n,
           st = "passed" => status[t] = "passed",
           \A c \in Classes : ClassNumber[c] < n => (Held(c)' <=> Held(c)),
           next = "end" => \A c \in Classes : ClassNumber[c] = n => ~Held(c)'
    PROVE  TestsClean(t)'
<1>1. t \in Tasks /\ ran' = ran /\ at'[t] = a /\ status'[t] = st
  BY DEF ClientFlow, ClientTypeOK, Goes, Places
<1> SUFFICES ASSUME st = "passed", NEW c \in ran[t] \cap Classes, ClassNumber[c] < Number(a)
             PROVE  ~Held(c)'
  BY <1>1 DEF TestsClean
<1>2. ClassNumber[c] \in 1..6 /\ Order[ClassNumber[c]] = c
  BY CallsOfClass
<1>3. CASE next = "end"
  <2>1. ClassNumber[c] <= n
    BY <1>2, <1>3 DEF Follows
  <2>2. CASE ClassNumber[c] = n
    BY <1>3, <2>2
  <2>3. CASE ClassNumber[c] < n
    BY <2>3 DEF TestsClean
  <2> QED  BY <1>2, <2>1, <2>2, <2>3
<1>4. CASE next # "end"
  <2>1. ClassNumber[c] < n
    BY <1>4 DEF Follows
  <2> QED  BY <2>1 DEF TestsClean
<1> QED  BY <1>3, <1>4

\* A test that fails ends the run's claim to have passed.
LEMMA TestFails ==
    ASSUME ClientFlow, NEW t \in prog, NEW a \in Places, Goes(t, a, "failed")
    PROVE  TestsClean(t)'
  BY DEF ClientFlow, ClientTypeOK, Goes, TestsClean

LEMMA NoPoolOutside ==
    ASSUME NEW t \in prog, ~Held("pool")' \/ at'[t] \in PoolTest \ {"create"} PROVE PoolClean(t)'
  BY DEF PoolClean

\* The program goes on to another place, and the driver has done nothing.
LEMMA RefusedHeld ==
    ASSUME ClientFlow, NEW t \in prog, TestsClean(t), PoolClean(t), Refused(t) \/ NoMemory(t)
    PROVE  (TestsClean(t) /\ PoolClean(t))'
<1>1. /\ t \in Tasks /\ at[t] \in DOMAIN Calls /\ Fails(t) /\ dd' = dd /\ pc' = pc /\ pc[t] = "idle"
      /\ at[t] = "destroy" => ~Held("pool")
  BY CallsAre DEF Refused, NoMemory, Idle, Mallocs, vars, Calls, Call, Held, Field, ClientFlow,
     ClientTypeOK
<1>2. PICK a \in Places \ {"out"}, st \in {"passed", "failed"} :
         /\ Goes(t, a, st)
         /\ IF at[t] \in DOMAIN CleanUp THEN a = "destroy" /\ st = status[t]
            ELSE st = "failed" /\ (a = "create" \/ a \notin PoolTest)
  BY <1>1, FailsIs DEF ClientFlow
<1>3. at'[t] = a /\ (\A c : Held(c)' <=> Held(c))
  BY <1>1, <1>2 DEF Goes, ClientFlow, ClientTypeOK, Held
<1>4. CASE at[t] \in DOMAIN CleanUp
  <2>1. Number(at[t]) = 4 /\ Number("destroy") = 4 /\ "destroy" \in PoolTest \ {"create"}
    BY <1>4 DEF CleanUp, Number, Calls, Call, PoolTest
  <2>2. Follows(t, 4, "destroy", "destroy")
    BY DEF Follows
  <2>3. TestsClean(t)'
    BY <1>2, <1>3, <1>4, <2>1, <2>2, TestsGoOn
  <2> QED  BY <1>2, <1>3, <1>4, <2>1, <2>3, NoPoolOutside
<1>5. CASE at[t] \notin DOMAIN CleanUp
  <2>1. at[t] \notin PoolTest \/ at[t] = "create" \/ at[t] = "destroy"
    BY <1>5 DEF CleanUp, PoolTest
  <2>2. "pool" \in Uses[t] => ~Held("pool")
    BY <1>1, <2>1 DEF PoolClean
  <2>3. PoolClean(t)'
    BY <1>3, <2>2 DEF PoolClean
  <2> QED  BY <1>2, <1>5, <2>3, TestFails
<1> QED  BY <1>4, <1>5

\* The driver goes on with a call, or returns from it.
LEMMA RunningHeld ==
    ASSUME IInv, ClientFlow, NEW t \in prog, TestsClean(t), PoolClean(t), Running(t)
    PROVE  (TestsClean(t) /\ PoolClean(t))'
<1>1. /\ t \in Tasks /\ TypeOK /\ Ioctl(t) /\ pc[t] \in Inside
      /\ at[t] \in DOMAIN Course /\ pc[t] \in Course[at[t]]
  BY DEF IInv, ClientFlow, ClientTypeOK, Running
<1>2. \A c \in Classes : pc[t] \notin StepsOf[c] => (Held(c)' <=> Held(c))
  BY <1>1, IoctlKeeps
<1>3. pc'[t] \in Course[at[t]] \cup {"idle"}
  BY <1>1, IoctlMoves DEF Moves
<1>4. CASE at[t] = "info"
  <2>1. pc[t] = "sg_sync"
    BY <1>1, <1>4 DEF Course
  <2>2. pc'[t] = "idle" /\ dd' = dd
    BY <1>1, <2>1 DEF Ioctl, Coherent, Single, Sg, Pool, SetMask, Enter, Go, TypeOK,
       CoherentAlloc, CoherentSize, CoherentFree, CoherentClear, CoherentCopy,
       SingleAlloc, SingleMap, SingleOn, SingleUnmap, SingleFree, SingleOff, SingleSync,
       SgArray, SgPage, SgTable, SgMap, SgOn, SgUnmap, SgFree, SgOff, SgSync, SgUndo,
       PoolCreate, PoolAlloc, PoolFree, PoolClear, PoolDrop, PoolDestroy
  <2>3. MoveTo(t, 5, "end") /\ UNCHANGED <<prog, ran, status>>
    BY <1>4, <2>2 DEF Running
  <2>4. PICK a \in Places \ {"out"} : at' = [at EXCEPT ![t] = a] /\ Follows(t, 5, "end", a)
    BY <1>1, <2>3, MoveToIs
  <2>5. Goes(t, a, status[t])
    BY <1>1, <2>3, <2>4 DEF Goes, ClientFlow, ClientTypeOK
  <2>6. Number(at[t]) = 5 /\ \A c \in Classes : ClassNumber[c] < 5
    BY <1>4, CallsOfClass DEF Number
  <2>7. TestsClean(t)'
    BY <2>2, <2>4, <2>5, <2>6, TestsGoOn DEF Held
  <2>8. PoolClean(t)'
    BY <1>4, <2>2 DEF PoolClean, PoolTest, Held
  <2> QED  BY <2>7, <2>8
<1>5. CASE at[t] # "info"
  <2> DEFINE n == Calls[at[t]].n
  <2>1. at[t] \in DOMAIN Calls /\ n \in 1..4 /\ Number(at[t]) = n
    BY <1>1, <1>5, CallsAre, CallsOfClass
  <2>2. \A c \in Classes : ClassNumber[c] # n => (Held(c)' <=> Held(c))
    BY <1>1, <1>2, <2>1, CallsOfClass
  <2>3. ~(at[t] \in PoolTest) => (Held("pool")' <=> Held("pool"))
    BY <2>1, <2>2, CallsOfClass DEF Classes, ClassNumber
  <2>4. at[t] \notin PoolTest /\ "pool" \in Uses[t] => ~Held("pool")'
    BY <2>3 DEF PoolClean
  <2>5. CASE pc'[t] # "idle"
    <3>1. UNCHANGED clientVars
      BY <1>5, <2>5 DEF Running
    <3>2. TestsClean(t)'
      BY <2>1, <2>2, <3>1 DEF TestsClean, clientVars
    <3>3. PoolClean(t)'
      BY <2>4, <2>5, <3>1 DEF PoolClean, clientVars
    <3> QED  BY <3>2, <3>3
  <2>6. CASE pc'[t] = "idle" /\ Returns(t)
    <3>1. PICK a \in Places \ {"out"} : Goes(t, a, status[t]) /\ Follows(t, n, Calls[at[t]].next, a)
      BY <1>1, <2>1, <2>6, ReturnsIs DEF ClientFlow
    <3>2. \/ Calls[at[t]].next = "end"
          \/ Number(Calls[at[t]].next) = n /\ Calls[at[t]].next \in DOMAIN Calls
      BY <2>1, CallsOfClass
    <3>3. Calls[at[t]].next = "end" => \A c \in Classes : ClassNumber[c] = n => ~Held(c)'
      BY <1>1, <2>1, <2>6, CallsOfClass, LastCall
    <3>4. TestsClean(t)'
      BY <2>1, <2>2, <3>1, <3>2, <3>3, TestsGoOn
    <3>5. at'[t] = a
      BY <1>1, <3>1 DEF Goes, ClientFlow, ClientTypeOK
    <3>6. CASE at[t] \notin PoolTest
      BY <2>4, <3>1, <3>4, <3>6 DEF PoolClean, Goes
    <3>7. CASE at[t] \in PoolTest /\ Calls[at[t]].next = "end"
      <4>1. ~Held("pool")'
        BY <2>1, <3>3, <3>7, CallsOfClass DEF Classes, ClassNumber
      <4> QED  BY <3>4, <4>1, NoPoolOutside
    <3>8. CASE at[t] \in PoolTest /\ Calls[at[t]].next # "end"
      <4>1. a \in PoolTest \ {"create"}
        BY <3>1, <3>8 DEF Follows, PoolTest, Calls, Call
      <4> QED  BY <3>4, <3>5, <4>1, NoPoolOutside
    <3> QED  BY <3>4, <3>6, <3>7, <3>8
  <2>7. CASE pc'[t] = "idle" /\ ~Returns(t)
    <3>1. /\ Fails(t)
          /\ pc[t] \in ErrorReturns \/ (pc[t] \in {"pool_create", "pool_buf"} /\ heap' = heap)
      BY <1>5, <2>7 DEF Running
    <3>2. PICK a \in Places \ {"out"}, st \in {"passed", "failed"} :
             /\ Goes(t, a, st)
             /\ IF at[t] \in DOMAIN CleanUp THEN a = "destroy" /\ st = status[t]
                ELSE st = "failed" /\ (a = "create" \/ a \notin PoolTest)
      BY <1>1, <2>1, <3>1, FailsIs DEF ClientFlow
    <3>3. at'[t] = a
      BY <1>1, <3>2 DEF Goes, ClientFlow, ClientTypeOK
    <3>4. CASE at[t] \in DOMAIN CleanUp
      <4>1. Number(at[t]) = 4 /\ Number("destroy") = 4 /\ "destroy" \in PoolTest \ {"create"}
        BY <3>4 DEF CleanUp, Number, Calls, Call, PoolTest
      <4>2. Follows(t, 4, "destroy", "destroy")
        BY DEF Follows
      <4>3. TestsClean(t)'
        BY <2>1, <2>2, <3>2, <3>4, <4>1, <4>2, TestsGoOn
      <4> QED  BY <3>2, <3>3, <3>4, <4>1, <4>3, NoPoolOutside
    <3>5. CASE at[t] \notin DOMAIN CleanUp
      <4>1. TestsClean(t)'
        BY <3>2, <3>5, TestFails
      <4>2. CASE at[t] \notin PoolTest
        BY <2>4, <3>2, <4>1, <4>2 DEF PoolClean, Goes
      <4>3. CASE at[t] = "create"
        <5>1. pc[t] = "pool_create" /\ heap' = heap
          BY <1>1, <3>1, <4>3 DEF Course, ErrorReturns
        <5>2. ~Take("pool")
          BY <1>1, <5>1, HelpersValue DEF Kinds, TypeOK
        <5>3. ~Held("pool")'
          BY <1>1, <5>1, <5>2 DEF Ioctl, Coherent, Single, Sg, Pool, SetMask, Enter, Go, TypeOK,
             CoherentAlloc, CoherentSize, CoherentFree, CoherentClear, CoherentCopy,
             SingleAlloc, SingleMap, SingleOn, SingleUnmap, SingleFree, SingleOff, SingleSync,
             SgArray, SgPage, SgTable, SgMap, SgOn, SgUnmap, SgFree, SgOff, SgSync, SgUndo,
             PoolCreate, PoolAlloc, PoolFree, PoolClear, PoolDrop, PoolDestroy, Clear, Held, Field
        <5> QED  BY <4>1, <5>3, NoPoolOutside
      <4>4. CASE at[t] = "destroy"
        BY <1>1, <3>1, <4>4 DEF Course, ErrorReturns
      <4> QED  BY <3>5, <4>1, <4>2, <4>3, <4>4 DEF PoolTest, CleanUp
    <3> QED  BY <3>4, <3>5
  <2> QED  BY <2>5, <2>6, <2>7
<1> QED  BY <1>4, <1>5

\* A step of a program keeps what is said of that program ...
LEMMA OwnHeld ==
    ASSUME IInv, ClientFlow, NEW t \in prog, TestsClean(t), PoolClean(t), Program(t)
    PROVE  (TestsClean(t) /\ PoolClean(t))'
<1>0. t \in Tasks /\ TypeOK /\ ClientTypeOK
  BY DEF IInv, ClientFlow, ClientTypeOK
<1>1. CASE Start(t)
  <2>1. PICK tests \in SUBSET Tests(t) :
           ran' = [ran EXCEPT ![t] = tests] /\ at' = [at EXCEPT ![t] = After(0, tests)]
    BY <1>1 DEF Start
  <2>2. dd' = dd /\ ran'[t] = tests /\ at'[t] = After(0, tests) /\ at[t] = "out"
    BY <1>0, <1>1, <2>1 DEF Start, Open, ClientTypeOK
  <2>3. TestsClean(t)'
    <3> SUFFICES ASSUME NEW c \in tests \cap Classes, ClassNumber[c] < Number(After(0, tests))
                 PROVE  FALSE
      BY <2>2 DEF TestsClean
    <3>1. ClassNumber[c] \in 1..6 /\ Order[ClassNumber[c]] = c
      BY CallsOfClass
    <3>2. ClassNumber[c] <= 0
      BY <3>1, AfterIs
    <3> QED  BY <3>1, <3>2
  <2>4. PoolClean(t)'
    BY <2>2 DEF PoolClean, PoolTest, Held
  <2> QED  BY <2>3, <2>4
<1>2. CASE Finish(t)
  <2>1. dd' = dd /\ at[t] = "close" /\ at'[t] = "out" /\ UNCHANGED <<prog, ran, status>>
    BY <1>0, <1>2 DEF Finish, Release, ClientTypeOK
  <2> QED  BY <2>1 DEF TestsClean, PoolClean, PoolTest, Held, Number
<1>3. CASE Issue(t)
  <2>1. /\ Ioctl(t) /\ UNCHANGED clientVars /\ at[t] \in DOMAIN Calls
        /\ pc[t] = "idle" /\ pc'[t] = Calls[at[t]].step
    BY <1>3 DEF Issue, Idle
  <2>2. pc'[t] # "idle"
    BY <2>1, CallsAre
  <2>3. \A c \in Classes : Held(c)' <=> Held(c)
    BY <1>0, <2>1, <2>2, IoctlKeeps
  <2> QED  BY <2>1, <2>2, <2>3 DEF TestsClean, PoolClean, clientVars, Classes
<1>4. CASE Refused(t) \/ NoMemory(t)
  BY <1>4, RefusedHeld
<1>5. CASE Running(t)
  BY <1>5, RunningHeld
<1>6. CASE Info(t)
  <2>1. at[t] = "info" /\ pc[t] = "idle"
    BY <1>6 DEF Info, Idle
  <2>2. CASE Ioctl(t) /\ pc'[t] = "sg_sync" /\ UNCHANGED clientVars
    <3>1. \A c \in Classes : Held(c)' <=> Held(c)
      BY <1>0, <2>1, <2>2, IoctlKeeps
    <3> QED  BY <2>1, <2>2, <3>1 DEF TestsClean, PoolClean, PoolTest, clientVars, Classes
  <2>3. CASE MoveTo(t, 5, "end") /\ UNCHANGED <<vars, prog, ran, status>>
    <3>1. PICK a \in Places \ {"out"} : at' = [at EXCEPT ![t] = a] /\ Follows(t, 5, "end", a)
      BY <1>0, <2>3, MoveToIs
    <3>2. Goes(t, a, status[t]) /\ dd' = dd
      BY <1>0, <2>3, <3>1 DEF Goes, ClientTypeOK, vars
    <3>3. Number(at[t]) = 5 /\ \A c \in Classes : ClassNumber[c] < 5
      BY <2>1, CallsOfClass DEF Number
    <3>4. TestsClean(t)'
      BY <3>1, <3>2, <3>3, TestsGoOn DEF Held
    <3>5. PoolClean(t)'
      BY <2>1, <3>2 DEF PoolClean, PoolTest, Held
    <3> QED  BY <3>4, <3>5
  <2> QED  BY <1>6, <2>2, <2>3 DEF Info
<1>7. CASE Mask(t)
  <2>1. /\ dd' = dd \cup {"mask64"} \/ dd' = dd \ {"mask64"} \/ dd' = dd
        /\ UNCHANGED <<pc, prog, ran, status>>
    BY <1>7 DEF Mask, Put, Clear
  <2>2. \A c \in Classes : Held(c)' <=> Held(c)
    BY <2>1 DEF Held, Field, Classes
  <2>3. PICK next \in {"mask64", "end"} : MoveTo(t, 6, next) /\ at[t] \in {"mask32", "mask64"}
    BY <1>7 DEF Mask
  <2>4. PICK a \in Places \ {"out"} : at' = [at EXCEPT ![t] = a] /\ Follows(t, 6, next, a)
    BY <1>0, <2>3, MoveToIs DEF Places
  <2>5. Goes(t, a, status[t])
    BY <1>0, <2>1, <2>4 DEF Goes, ClientTypeOK
  <2>6. Number(at[t]) = 6 /\ Number("mask64") = 6 /\ \A c \in Classes : ClassNumber[c] < 6
    BY <2>3, CallsOfClass DEF Number
  <2>7. TestsClean(t)'
    BY <2>2, <2>3, <2>4, <2>5, <2>6, TestsGoOn
  <2>8. PoolClean(t)'
    BY <2>2, <2>3 DEF PoolClean, PoolTest, Classes
  <2> QED  BY <2>7, <2>8
<1> QED  BY <1>1, <1>2, <1>3, <1>4, <1>5, <1>6, <1>7 DEF Program

\* ... and of the other programs.
LEMMA ProgramHeld ==
    ASSUME Disjoint, IInv, ClientFlow, ClientHeld, NEW t \in Tasks, Program(t)
    PROVE  ClientHeld'
<1>1. TypeOK /\ ClientTypeOK /\ prog' = prog /\ t \in prog
  BY DEF IInv, ClientFlow, ClientTypeOK, Program, Start, Finish, Issue, Refused, NoMemory, Running,
     Info, Mask, Idle, Returns, Fails, clientVars
<1>2. \A s \in Tasks : s # t => at'[s] = at[s] /\ ran'[s] = ran[s] /\ status'[s] = status[s]
  <2> USE <1>1 DEF ClientTypeOK, MoveTo, Returns, Fails, clientVars
  <2>1. CASE Start(t)
    BY <2>1 DEF Start
  <2>2. CASE Finish(t) \/ Issue(t) \/ Info(t) \/ Mask(t)
    BY <2>2 DEF Finish, Issue, Info, Mask
  <2>3. CASE Refused(t) \/ NoMemory(t)
    BY <2>3 DEF Refused, NoMemory
  <2>4. CASE Running(t)
    BY <2>4 DEF Running
  <2> QED  BY <2>1, <2>2, <2>3, <2>4 DEF Program
<1>3. (TestsClean(t) /\ PoolClean(t))'
  BY <1>1, OwnHeld DEF ClientHeld
<1>4. ASSUME NEW s \in prog, s # t PROVE (TestsClean(s) /\ PoolClean(s))'
  <2>1. s \in Tasks /\ pc'[s] = pc[s]
    BY <1>1, <1>4, ProgramCalls, FrameMoves DEF vars, ClientTypeOK
  <2>2. \A c \in Classes : c \notin Uses[t] => (Held(c)' <=> Held(c))
    <3>1. CASE Ioctl(t)
      BY <3>1, IoctlKeeps
    <3>2. CASE Frame(t) \/ UNCHANGED vars
      BY <3>2 DEF Frame, Open, Release, vars, Held
    <3> QED  BY <3>1, <3>2, ProgramCalls
  <2> QED  BY <1>2, <1>4, <2>1, <2>2, OthersHeld DEF ClientHeld
<1> QED  BY <1>1, <1>3, <1>4 DEF ClientHeld

LEMMA HeldStep ==
    ASSUME Disjoint, IInv, ClientFlow, ClientHeld, [ClientNext]_<<vars, clientVars>>
    PROVE  ClientHeld'
<1>1. CASE (CreateNode \/ SetUpDma \/ Exit) /\ UNCHANGED clientVars
  <2>1. pc' = pc /\ dd' = dd
    BY <1>1 DEF CreateNode, SetUpDma, Exit
  <2> QED  BY <1>1, <2>1 DEF ClientHeld, TestsClean, PoolClean, Held, clientVars
<1>2. ASSUME NEW t \in Tasks \ prog, Open(t) \/ Release(t) \/ Ioctl(t), UNCHANGED clientVars
      PROVE  ClientHeld'
  <2>1. TypeOK /\ prog \subseteq Tasks
    BY DEF IInv, ClientFlow, ClientTypeOK
  <2>2. \A c \in Classes : c \notin Uses[t] => (Held(c)' <=> Held(c))
    <3>1. CASE Ioctl(t)
      BY <3>1, IoctlKeeps
    <3>2. CASE Open(t) \/ Release(t)
      BY <3>2 DEF Open, Release, Held
    <3> QED  BY <1>2, <3>1, <3>2
  <2>3. ASSUME NEW s \in prog PROVE (TestsClean(s) /\ PoolClean(s))'
    <3>1. s # t /\ pc'[s] = pc[s]
      BY <1>2, <2>1, FrameMoves DEF Frame
    <3> QED  BY <1>2, <2>2, <3>1, OthersHeld DEF ClientHeld, clientVars
  <2> QED  BY <1>2, <2>3 DEF ClientHeld, clientVars
<1>3. CASE \E t \in Tasks : Program(t)
  BY <1>3, ProgramHeld
<1>4. CASE UNCHANGED <<vars, clientVars>>
  BY <1>4 DEF ClientHeld, TestsClean, PoolClean, Held, vars, clientVars
<1> QED  BY <1>1, <1>2, <1>3, <1>4 DEF ClientNext

\* Where the device holds nothing of a class and no task is inside of it,
\* there is no memory or mapping of that class.
LEMMA NothingHeld ==
    ASSUME Disjoint, IInv, NEW t \in Tasks, NEW c \in Classes \cap Uses[t], pc[t] \notin StepsOf[c],
           ~Held(c) \/ ~Alive
    PROVE  Holds[c] = 0
<1>1. CASE ~Alive
  <2>1. /\ heap["coherent"] = 0 /\ heap["single"] = 0 /\ mapping["single"] = 0
        /\ heap["array"] = 0 /\ heap["page"] = 0 /\ heap["table"] = 0 /\ mapping["sg"] = 0
        /\ heap["pool"] = 0 /\ heap["poolbuf"] = 0
    BY <1>1 DEF IInv, GoneInv, Alive, CleanUnload, Kinds
  <2> QED  BY <2>1 DEF Holds, Classes
<1>2. CASE Alive /\ c = "coherent"
  <2>1. Outside(CoherentSteps)
    BY <1>2 DEF IInv, CoherentInv, Own, Disjoint, Outside, StepsOf
  <2> QED  BY <1>2, <2>1 DEF IInv, CoherentInv, CoherentBalanced, One, Holds, Held, Field
<1>3. CASE Alive /\ c = "single"
  <2>1. Outside(SingleSteps)
    BY <1>3 DEF IInv, SingleInv, Own, Disjoint, Outside, StepsOf
  <2> QED  BY <1>3, <2>1 DEF IInv, SingleInv, SingleBalanced, One, Holds, Held, Field
<1>4. CASE Alive /\ c = "sg"
  <2>1. Outside(SgSteps)
    BY <1>4 DEF IInv, SgInv, Own, Disjoint, Outside, StepsOf
  <2> QED  BY <1>4, <2>1 DEF IInv, SgInv, SgBalanced, One, Holds, Held, Field
<1>5. CASE Alive /\ c = "pool"
  <2>1. Outside(PoolSteps)
    BY <1>5 DEF IInv, PoolInv, Own, Disjoint, Outside, StepsOf
  <2> QED  BY <1>5, <2>1 DEF IInv, PoolInv, PoolBalanced, One, Holds, Held, Field
<1> QED  BY <1>1, <1>2, <1>3, <1>4, <1>5 DEF Classes

ProgInv == IInv /\ ClientFlow /\ ClientHeld

LEMMA ProgInvClean == ASSUME Disjoint, ProgInv PROVE ProgramsClean
<1> USE DEF ProgInv
<1>1. ASSUME NEW t \in prog, at[t] = "out", status[t] = "passed", NEW c \in ran[t] \cap Classes
      PROVE  Holds[c] = 0
  <2>1. t \in Tasks /\ c \in Classes \cap Uses[t] /\ pc[t] = "closed"
    BY <1>1 DEF ClientFlow, ClientTypeOK, Tests, Classes
  <2>2. pc[t] \notin StepsOf[c]
    BY <2>1 DEF StepsOf, Classes, CoherentSteps, SingleSteps, SgSteps, PoolSteps
  <2>3. ClassNumber[c] < Number(at[t])
    BY <1>1, CallsOfClass DEF Number
  <2>4. ~Held(c)
    BY <1>1, <2>3 DEF ClientHeld, TestsClean
  <2> QED  BY <2>1, <2>2, <2>4, NothingHeld
<1>2. ASSUME NEW t \in prog, "pool" \in Uses[t], at[t] \notin PoolTest PROVE Holds["pool"] = 0
  <2>1. t \in Tasks /\ ~Held("pool") /\ "pool" \in Classes
    BY <1>2 DEF ClientFlow, ClientTypeOK, ClientHeld, PoolClean, Classes
  <2>2. pc[t] \notin PoolSteps
    <3> SUFFICES ASSUME pc[t] \in PoolSteps PROVE FALSE
      OBVIOUS
    <3>1. at[t] \in DOMAIN Course /\ pc[t] \in Course[at[t]]
      BY DEF ClientFlow, Inside
    <3> QED  BY <1>2, <3>1 DEF Course, PoolSteps, PoolTest
  <2> QED  BY <1>2, <2>1, <2>2, NothingHeld DEF StepsOf
<1> QED  BY <1>1, <1>2 DEF ProgramsClean, PassedClean, PoolReturned

\* A run of the test program that has passed has given back whatever its
\* tests have allocated, and the pool test leaves nothing however it fails:
\* for any number of tasks and programs, as long as no two tasks use the same
\* class of resource.
THEOREM RunsLeaveNothing == ASSUME Disjoint PROVE ClientSpec => []ProgramsClean
<1>1. ClientInit => ClientFlow /\ ClientHeld
  BY FlowInit DEF ClientInit, Init, ClientHeld, TestsClean, PoolClean, Held, Field, Classes
<1>2. IInv /\ IInv' /\ ClientFlow /\ ClientHeld /\ [ClientNext]_<<vars, clientVars>>
        => ClientFlow' /\ ClientHeld'
  <2>1. IInv => TypeOK /\ IndexInArray
    BY DEF IInv, SgInv, SgAt, IndexInArray
  <2> QED  BY <2>1, FlowInvariance, HeldStep DEF TypeInv
<1>3. IInv /\ ClientFlow /\ ClientHeld => ProgramsClean
  BY ProgInvClean DEF ProgInv
<1> QED  BY <1>1, <1>2, <1>3, ClientsAreTasks, Invariance, PTL DEF ClientSpec
=============================================================================
