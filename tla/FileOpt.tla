------------------------------- MODULE FileOpt -------------------------------
(***************************************************************************)
(* The demo 03.file_sysfs/4.file_opt: one ioctl opens a file from within   *)
(* the kernel, writes to it, reads it, closes and deletes it, and then     *)
(* appends to a log file.  Both files are held in globals, which ioctls    *)
(* that run at the same time share.                                        *)
(***************************************************************************)
EXTENDS Integers, FiniteSets

CONSTANTS
    Tasks,
    MaxFiles    \* bound: the files that are opened

VARIABLES
    file_test, log_file,  \* a file, 0 for NULL, or -1 for ERR_PTR
    files,      \* the files that are open
    opened,     \* how many have been opened
    exists,     \* DEMO_FILE_PATH exists
    undeleted,  \* ... because the delete of an ioctl that ran alone has failed
    pc,         \* where each task is in its ioctl
    overlap     \* two tasks have been in the ioctl together

vars == <<file_test, log_file, files, opened, exists, undeleted, pc, overlap>>

Init ==
    /\ file_test = 0 /\ log_file = 0 /\ files = {} /\ opened = 0
    /\ exists = FALSE /\ undeleted = FALSE
    /\ pc = [t \in Tasks |-> "idle"] /\ overlap = FALSE

Go(t, from, to) == pc[t] = from /\ pc' = [pc EXCEPT ![t] = to]
NewFile == opened < MaxFiles /\ opened' = opened + 1 /\ files' = files \cup {opened'}
Outside == {"idle", "dead"}

-----------------------------------------------------------------------------
(* The file                                                                *)

Ioctl(t) ==
    /\ Go(t, "idle", "open")
    /\ overlap' = (overlap \/ \E u \in Tasks : pc[u] # "idle")
    /\ UNCHANGED <<file_test, log_file, files, opened, exists, undeleted>>

\* open_file returns NULL for an error.
OpenFile(t) ==
    /\ \/ Go(t, "open", "use") /\ NewFile /\ file_test' = opened' /\ exists' = TRUE
       \/ Go(t, "open", "idle") /\ file_test' = 0 /\ UNCHANGED <<files, opened, exists>>
    /\ UNCHANGED <<log_file, undeleted, overlap>>

\* write_to_file, get_file_size, read_from_file, vfs_fsync: each takes what is
\* in file_test then.  Their errors, and no memory for the read, end nothing.
UseFile(t) ==
    /\ \/ Go(t, "use", "use") /\ file_test > 0
       \/ Go(t, "use", "dead") /\ file_test <= 0
       \/ Go(t, "use", "close")
    /\ UNCHANGED <<file_test, log_file, files, opened, exists, undeleted, overlap>>

CloseFile(t) ==
    /\ Go(t, "close", IF file_test > 0 THEN "clear" ELSE "dead")
    /\ files' = files \ {file_test}
    /\ UNCHANGED <<file_test, log_file, opened, exists, undeleted, overlap>>

ClearFile(t) ==
    /\ Go(t, "clear", "delete") /\ file_test' = 0
    /\ UNCHANGED <<log_file, files, opened, exists, undeleted, overlap>>

\* An error of delete_file is not looked at.
DeleteFile(t) ==
    /\ Go(t, "delete", "openlog")
    /\ \/ exists' = FALSE /\ undeleted' = FALSE
       \/ UNCHANGED exists /\ undeleted' = exists
    /\ UNCHANGED <<file_test, log_file, files, opened, overlap>>

-----------------------------------------------------------------------------
(* The log                                                                 *)

OpenLog(t) ==
    /\ \/ Go(t, "openlog", "testlog") /\ NewFile /\ log_file' = opened'
       \/ Go(t, "openlog", "nolog") /\ log_file' = -1 /\ UNCHANGED <<files, opened>>
    /\ UNCHANGED <<file_test, exists, undeleted, overlap>>

\* The result of open_log_file is PTR_ERR of the NULL just stored, which is 0,
\* so that the ioctl goes on.
OpenLogFails(t) ==
    /\ Go(t, "nolog", "testlog") /\ log_file' = 0
    /\ UNCHANGED <<file_test, files, opened, exists, undeleted, overlap>>

\* Variant: it is not tested.
WriteLogTestNot(t) ==
    /\ Go(t, "testlog", "writelog")
    /\ UNCHANGED <<file_test, log_file, files, opened, exists, undeleted, overlap>>
WriteLogTest(t) ==
    /\ Go(t, "testlog", IF log_file # 0 THEN "writelog" ELSE "closelog")
    /\ UNCHANGED <<file_test, log_file, files, opened, exists, undeleted, overlap>>

WriteLog(t) ==
    /\ Go(t, "writelog", IF log_file > 0 THEN "closelog" ELSE "dead")
    /\ UNCHANGED <<file_test, log_file, files, opened, exists, undeleted, overlap>>

CloseLogTest(t) ==
    /\ Go(t, "closelog", IF log_file # 0 THEN "closing" ELSE "idle")
    /\ UNCHANGED <<file_test, log_file, files, opened, exists, undeleted, overlap>>

CloseLog(t) ==
    /\ Go(t, "closing", IF log_file > 0 THEN "clearlog" ELSE "dead")
    /\ files' = files \ {log_file}
    /\ UNCHANGED <<file_test, log_file, opened, exists, undeleted, overlap>>

ClearLog(t) ==
    /\ Go(t, "clearlog", "idle") /\ log_file' = 0
    /\ UNCHANGED <<file_test, files, opened, exists, undeleted, overlap>>

File(t) == Ioctl(t) \/ OpenFile(t) \/ UseFile(t) \/ CloseFile(t) \/ ClearFile(t) \/ DeleteFile(t)
Log(t) == OpenLog(t) \/ OpenLogFails(t) \/ WriteLogTest(t) \/ WriteLog(t)
          \/ CloseLogTest(t) \/ CloseLog(t) \/ ClearLog(t)

Next == \E t \in Tasks : File(t) \/ Log(t)

Spec == Init /\ [][Next]_vars

-----------------------------------------------------------------------------
(* Properties                                                              *)

TypeOK ==
    /\ file_test \in 0..MaxFiles /\ log_file \in -1..MaxFiles
    /\ files \subseteq 1..MaxFiles /\ opened \in 0..MaxFiles
    /\ exists \in BOOLEAN /\ undeleted \in BOOLEAN /\ overlap \in BOOLEAN
    /\ pc \in [Tasks -> Outside \cup {"open", "use", "close", "clear", "delete", "openlog",
                         "nolog", "testlog", "writelog", "closelog", "closing", "clearlog"}]

\* An ioctl that no other has run beside uses open files only and does not
\* die, whichever of its opens has failed.
UsesOpenFiles == ~overlap => \A t \in Tasks :
    /\ pc[t] # "dead"
    /\ pc[t] \in {"use", "close"} => file_test \in files
    /\ pc[t] \in {"writelog", "closing"} => log_file \in files

\* Such ioctls leave no file open, and DEMO_FILE_PATH only if it could not be deleted.
FilesClosed == ~overlap /\ (\A t \in Tasks : pc[t] = "idle") =>
    files = {} /\ (exists => undeleted)

\* The ioctl fails if the log cannot be opened, as its test of the result
\* has it.  This is not so.
LogFailureFails == \A t \in Tasks : pc[t] = "testlog" => log_file # 0
=============================================================================
