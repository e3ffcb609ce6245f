------------------------------ MODULE TaskDemo ------------------------------
(***************************************************************************)
(* The two demos that make one kernel thread when they are loaded and stop *)
(* it when they are unloaded: 06.thread/1.task_struct, and 07.thread_sync/ *)
(* 3.sync_completion, whose loading waits for the work of the thread.  The *)
(* variable demo says which one is loaded.                                 *)
(***************************************************************************)
EXTENDS Naturals

VARIABLES
    demo,        \* "task" or "completion"
    mod,         \* where m_chr_init or m_chr_exit is
    nodes,       \* are the device nodes there?
    thread,      \* where the thread is
    stop,        \* KTHREAD_SHOULD_STOP
    completion   \* my_completion.done

vars == <<demo, mod, nodes, thread, stop, completion>>

Init ==
    /\ demo \in {"task", "completion"} /\ mod = "register" /\ nodes = FALSE
    /\ thread = "none" /\ stop = FALSE /\ completion = 0

Load(from, to) == mod = from /\ mod' = to
Go(from, to) == thread = from /\ thread' = to

-----------------------------------------------------------------------------
(* m_chr_init                                                              *)

RegisterTask ==
    /\ demo = "task" /\ Load("register", "create") /\ nodes' = TRUE
    /\ UNCHANGED <<demo, thread, stop, completion>>

\* kthread_create; without a thread the module goes, and its nodes stay.
CreateTask ==
    /\ demo = "task"
    /\ \/ Load("create", "wake") /\ Go("none", "created")
       \/ Load("create", "failed") /\ UNCHANGED thread
    /\ UNCHANGED <<demo, nodes, stop, completion>>

WakeTask ==
    /\ Load("wake", "loaded") /\ Go("created", "start")
    /\ UNCHANGED <<demo, nodes, stop, completion>>

RegisterCompletion ==
    /\ demo = "completion" /\ Load("register", "init") /\ nodes' = TRUE
    /\ UNCHANGED <<demo, thread, stop, completion>>

InitCompletion ==
    /\ Load("init", "run") /\ completion' = 0
    /\ UNCHANGED <<demo, nodes, thread, stop>>

\* kthread_run.
RunThread ==
    /\ \/ Load("run", "wait") /\ Go("none", "start")
       \/ Load("run", "failed") /\ UNCHANGED thread
    /\ UNCHANGED <<demo, nodes, stop, completion>>

\* Variant: loading does not wait.
WaitNot ==
    /\ Load("wait", "loaded")
    /\ UNCHANGED <<demo, nodes, thread, stop, completion>>
WaitForCompletion ==
    /\ Load("wait", "loaded") /\ completion > 0 /\ completion' = completion - 1
    /\ UNCHANGED <<demo, nodes, thread, stop>>

-----------------------------------------------------------------------------
(* kthread: a thread told to stop before it has run never gets to its      *)
(* function                                                                *)

Start ==
    /\ Go("start", IF stop THEN "done" ELSE IF demo = "task" THEN "loop" ELSE "work")
    /\ UNCHANGED <<demo, mod, nodes, stop, completion>>

\* m_kthread_func.  Between two looks at the flag it sleeps for a second.
TaskLoop ==
    /\ demo = "task" /\ Go("loop", IF stop THEN "done" ELSE "sleep")
    /\ UNCHANGED <<demo, mod, nodes, stop, completion>>

TaskSleep ==
    /\ Go("sleep", "loop")
    /\ UNCHANGED <<demo, mod, nodes, stop, completion>>

\* Variant: the thread ends with its work and completes nothing.
WorkEnds ==
    /\ Go("work", "done")
    /\ UNCHANGED <<demo, mod, nodes, stop, completion>>
\* thread_func: the work, complete, ...
Work ==
    /\ Go("work", "loop") /\ completion' = completion + 1
    /\ UNCHANGED <<demo, mod, nodes, stop>>

\* ... schedule() until it is told to stop.
CompletionLoop ==
    /\ demo = "completion" /\ stop /\ Go("loop", "done")
    /\ UNCHANGED <<demo, mod, nodes, stop, completion>>

Thread == Start \/ TaskLoop \/ TaskSleep \/ Work \/ CompletionLoop

-----------------------------------------------------------------------------
(* m_chr_exit                                                              *)

\* Variant: the flag is not set.
ExitSilently ==
    /\ demo = "task" /\ Load("loaded", "join")
    /\ UNCHANGED <<demo, nodes, thread, stop, completion>>
\* kthread_stop sets the flag, ...
ExitTask ==
    /\ demo = "task" /\ Load("loaded", "join") /\ stop' = TRUE
    /\ UNCHANGED <<demo, nodes, thread, completion>>

ExitCompletion ==
    /\ demo = "completion" /\ Load("loaded", "join") /\ stop' = TRUE
    /\ UNCHANGED <<demo, nodes, thread, completion>>

\* Variant: it does not wait for the thread to return.
JoinNot ==
    /\ Load("join", "gone") /\ nodes' = FALSE
    /\ UNCHANGED <<demo, thread, stop, completion>>
\* ... and returns when the thread has; nodes, class and region go.
Join ==
    /\ Load("join", "gone") /\ thread = "done" /\ nodes' = FALSE
    /\ UNCHANGED <<demo, thread, stop, completion>>

-----------------------------------------------------------------------------
Module == \/ RegisterTask \/ CreateTask \/ WakeTask
          \/ RegisterCompletion \/ InitCompletion \/ RunThread \/ WaitForCompletion
          \/ Join

Next == Module \/ ExitTask \/ ExitCompletion \/ Thread

Spec == Init /\ [][Next]_vars
\* insmod, rmmod and the thread are scheduled; nobody has to unload.
Fairness == WF_vars(Module) /\ WF_vars(Thread)
FairSpec == Spec /\ Fairness

-----------------------------------------------------------------------------
(* Properties                                                              *)

TypeOK ==
    /\ demo \in {"task", "completion"} /\ {nodes, stop} \subseteq BOOLEAN
    /\ mod \in {"register", "create", "wake", "init", "run", "wait", "loaded", "join", "gone", "failed"}
    /\ thread \in {"none", "created", "start", "work", "loop", "sleep", "done"}
    /\ completion \in 0..1

\* insmod of the completion demo returns after the work of the thread.
LoadedAfterWork ==
    demo = "completion" /\ mod \in {"loaded", "join"} => thread \in {"loop", "done"}

\* The completion is not lost, whether the thread is faster or the loader.
LoadReturns == mod = "wait" ~> mod = "loaded"

\* The thread has left the code of the module before it goes.
TaskJoined == mod = "gone" => thread = "done"

\* kthread_stop returns, even for a thread that has not run yet.
StopReturns == mod = "join" ~> mod = "gone"
=============================================================================
