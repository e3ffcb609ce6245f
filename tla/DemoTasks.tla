----------------------------- MODULE DemoTasks -----------------------------
(* What the demos of DataDemos and FileDemos have in common.               *)
CONSTANTS
    Tasks,    \* the tasks that use a demo
    NULL
=============================================================================
