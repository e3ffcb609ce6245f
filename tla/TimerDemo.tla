------------------------------ MODULE TimerDemo ------------------------------
(***************************************************************************)
(* The kernel timer demo, 05.timer_delay/1.timer: loading arms a timer     *)
(* whose callback arms it again, every second; unloading deletes it.       *)
(***************************************************************************)
EXTENDS Naturals

VARIABLES
    mod,       \* where m_chr_init or m_chr_exit is
    armed,     \* is my_timer pending?
    callback   \* where my_timer_callback is

vars == <<mod, armed, callback>>

Init == mod = "register" /\ armed = FALSE /\ callback = "idle"

Load(from, to) == mod = from /\ mod' = to

-----------------------------------------------------------------------------
Register == Load("register", "add") /\ UNCHANGED <<armed, callback>>

\* The timer is added with the time 0, long past, and expires at once ...
AddTimer == Load("add", "mod") /\ armed' = TRUE /\ UNCHANGED callback

\* ... unless mod_timer comes first and gives it a second.
ModTimer == Load("mod", "loaded") /\ armed' = TRUE /\ UNCHANGED callback

\* The timer interrupt: a timer that expires while its callback still runs
\* waits for it.
Expire ==
    /\ armed /\ callback = "idle"
    /\ armed' = FALSE /\ callback' = "running"
    /\ UNCHANGED mod

\* Variant: the callback only prints the time.
RearmNot == callback = "running" /\ callback' = "returning" /\ UNCHANGED <<mod, armed>>
\* my_timer_callback prints the time and calls mod_timer.
Rearm ==
    /\ callback = "running" /\ callback' = "returning" /\ armed' = TRUE
    /\ UNCHANGED mod

Return == callback = "returning" /\ callback' = "idle" /\ UNCHANGED <<mod, armed>>

\* m_chr_exit: del_timer, which does not wait for the callback.
DelTimer == Load("loaded", "deleted") /\ armed' = FALSE /\ UNCHANGED callback

\* device_destroy, class_destroy, unregister_chrdev_region; then the code
\* of the module is freed.
Unregister == Load("deleted", "gone") /\ UNCHANGED <<armed, callback>>

-----------------------------------------------------------------------------
Interrupt == Expire \/ Rearm \/ Return
Module == Register \/ AddTimer \/ ModTimer \/ Unregister
Next == Module \/ DelTimer \/ Interrupt

Spec == Init /\ [][Next]_vars
\* insmod, rmmod and the timer interrupt are served; nobody has to unload.
Fairness == WF_vars(Module) /\ WF_vars(Interrupt)
FairSpec == Spec /\ Fairness

-----------------------------------------------------------------------------
(* Properties                                                              *)

TypeOK ==
    /\ mod \in {"register", "add", "mod", "loaded", "deleted", "gone"}
    /\ armed \in BOOLEAN /\ callback \in {"idle", "running", "returning"}

\* The timer keeps itself going for as long as the module is loaded, through
\* every overlap of arming it and running it.
TimerGoesOn == []<>(callback = "running" \/ mod # "loaded")

\* remove kernel timer when unloading module (kDemo.c:174): what is gone is
\* not called any more.
TimerRemoved == mod = "gone" => ~armed /\ callback = "idle"
=============================================================================
