------------------------------ MODULE ProcDemo ------------------------------
(***************************************************************************)
(* The proc demo, 03.file_sysfs/3.proc: entry_generic, a text buffer that  *)
(* is written without and read under a lock; entry_data, a message with a  *)
(* counter of its writes; entry_seq, a record behind the seq_file library. *)
(* The entries come and go one after another while tasks use them.         *)
(***************************************************************************)
EXTENDS Naturals, Sequences

CONSTANTS
    Tasks,
    Size,       \* bound: BUF_SIZE and SEQ_BUF_SIZE
    MaxWrites,  \* bound: writes to any of the entries
    None

VARIABLES
    mod,       \* how far m_chr_init or m_chr_exit is
    entries,   \* the entries below /proc/proc_demo
    pc,        \* where each task is
    version,   \* how many writes were begun
    mine,      \* the write a task is at, and how far it is
    proc_buf,
    buf_lock,
    m_seq_buf, m_seq_buf_len, m_seq_buf_lock,
    failed,    \* did a copy into m_seq_buf fail since the last that did not?
    counter,   \* of m_info
    pos,       \* the position of each task's open entry_seq, None when closed
    got,       \* what the task has read from it
    mixed      \* was that shown while failed?

module  == <<mod, entries>>
generic == <<proc_buf, buf_lock>>
record  == <<m_seq_buf, m_seq_buf_len, m_seq_buf_lock, failed>>
reading == <<pos, got, mixed>>
vars == <<module, pc, version, mine, generic, record, counter, reading>>

\* A byte is known by the write it comes from: its number and its count.
ByteOf(v, count) == [write |-> v, count |-> count]
Nul == ByteOf(0, 0)
NoWrite == [byte |-> Nul, done |-> 0]
Names == {"generic", "single", "single_data", "data", "seq"}
Bytes == 0..Size-1

Init ==
    /\ mod = "mkdir" /\ entries = {}
    /\ pc = [t \in Tasks |-> "out"]
    /\ version = 0 /\ mine = [t \in Tasks |-> NoWrite]
    /\ proc_buf = [b \in Bytes |-> IF b = 0 THEN ByteOf(0, 1) ELSE Nul] /\ buf_lock = None
    /\ m_seq_buf = [b \in Bytes |-> Nul] /\ m_seq_buf_len = 0 /\ m_seq_buf_lock = None
    /\ failed = FALSE
    /\ counter = 0
    /\ pos = [t \in Tasks |-> None] /\ got = [t \in Tasks |-> <<>>]
    /\ mixed = [t \in Tasks |-> FALSE]

Goto(t, from, to) == pc[t] = from /\ pc' = [pc EXCEPT ![t] = to]
\* The entry whose code the task is in.
Using(t) ==
    IF pc[t] \in {"generic copy", "generic read", "generic user"} THEN "generic"
    ELSE IF pc[t] \in {"data copy", "count"} THEN "data"
    ELSE IF pc[t] = "out" THEN "none" ELSE "seq"

Begin(t, count) ==
    /\ version < MaxWrites /\ version' = version + 1
    /\ mine' = [mine EXCEPT ![t] = [byte |-> ByteOf(version + 1, count), done |-> 0]]
\* copy_from_user, a byte at a time, can fail at any of them.
Count(t) == mine[t].byte.count
Copied(t) == mine[t].done = Count(t)
CopyTo(t, buf) == [buf EXCEPT ![mine[t].done] = mine[t].byte]
CopyOne(t) == mine' = [mine EXCEPT ![t].done = @ + 1]
\* What a task copied is forgotten when its call returns.
End(t) == mine' = [mine EXCEPT ![t] = NoWrite]

-----------------------------------------------------------------------------
(* m_chr_init and m_chr_exit                                               *)

\* Each entry is usable at once, before the next is made.
Order == <<"mkdir", "generic", "single", "single_data", "data", "init buffer", "seq", "loaded">>
After(step) == Order[1 + CHOOSE i \in 1..Len(Order) : Order[i] = step]

Mkdir ==
    /\ mod = "mkdir" /\ mod' \in {"generic", "failed"}
    /\ UNCHANGED <<entries, pc, version, mine, generic, record, counter, reading>>
ProcCreate(e) ==
    /\ mod = e /\ mod' = After(e) /\ entries' = entries \cup {e}
    /\ UNCHANGED <<pc, version, mine, generic, record, counter, reading>>
\* return -ENOMEM, and what has been created stays.
CreateFails(e) ==
    /\ mod = e /\ mod' = "failed"
    /\ UNCHANGED <<entries, pc, version, mine, generic, record, counter, reading>>
InitBuffer ==
    /\ mod = "init buffer" /\ mod' = "seq"
    /\ m_seq_buf' = [m_seq_buf EXCEPT ![0] = ByteOf(0, 1)] /\ m_seq_buf_len' = 1
    /\ UNCHANGED <<entries, pc, version, mine, generic, m_seq_buf_lock, failed, counter, reading>>

\* Removing an entry waits for the calls that are in it, and closes the
\* files that are open.
Unused(es) == \A t \in Tasks : Using(t) \notin es
Close(es) == pos' = IF "seq" \in es THEN [t \in Tasks |-> None] ELSE pos
ProcRemove(es, from, to) ==
    /\ mod = from /\ mod' = to
    /\ Unused(es) /\ entries' = entries \ es /\ Close(es)
    /\ UNCHANGED <<pc, version, mine, generic, record, counter, got, mixed>>
RemoveGeneric    == ProcRemove({"generic"}, "loaded", "remove single")
RemoveSingle     == ProcRemove({"single"}, "remove single", "remove single_data")
RemoveSingleData == ProcRemove({"single_data"}, "remove single_data", "remove data")
\* remove_proc_entry looks for entry_data in /proc itself: a warning.
RemoveData       == ProcRemove({}, "remove data", "remove seq")
RemoveSeq        == ProcRemove({"seq"}, "remove seq", "remove subtree")
\* Variant: the removal of the directory is left out ("one may also leave out
\* removing the files one by one", says the comment above it).
RemoveNoSubtree  == ProcRemove({}, "remove subtree", "gone")
\* The directory, with all that is left below it.
RemoveSubtree    == ProcRemove(entries, "remove subtree", "gone")

Module ==
    \/ Mkdir \/ InitBuffer \/ \E e \in Names : ProcCreate(e) \/ CreateFails(e)
    \/ RemoveGeneric \/ RemoveSingle \/ RemoveSingleData \/ RemoveData \/ RemoveSeq \/ RemoveSubtree

-----------------------------------------------------------------------------
(* entry_generic                                                           *)

\* Variant: the count may be the whole of the buffer.
GenericCountFull == 0..Size
\* More than BUF_SIZE - 1 is refused.
GenericCount == 0..Size-1

\* generic_write copies straight into the buffer, without buf_lock, ...
GenericWrite(t) ==
    /\ "generic" \in entries /\ Goto(t, "out", "generic copy")
    /\ \E count \in GenericCount : Begin(t, count)
    /\ UNCHANGED <<module, generic, record, counter, reading>>
GenericCopy(t) ==
    /\ pc[t] = "generic copy" /\ ~Copied(t)
    /\ proc_buf' = CopyTo(t, proc_buf) /\ CopyOne(t)
    /\ UNCHANGED <<module, pc, version, buf_lock, record, counter, reading>>
GenericFault(t) ==
    /\ ~Copied(t) /\ Goto(t, "generic copy", "out")
    /\ End(t)
    /\ UNCHANGED <<module, version, generic, record, counter, reading>>
\* ... and ends the text.
GenericEnd(t) ==
    /\ Copied(t) /\ Goto(t, "generic copy", "out")
    /\ proc_buf' = [b \in Bytes |-> IF b = Count(t) THEN Nul ELSE proc_buf[b]]
    /\ End(t)
    /\ UNCHANGED <<module, version, buf_lock, record, counter, reading>>

\* generic_read holds the lock against other readers.
GenericRead(t) ==
    /\ "generic" \in entries /\ Goto(t, "out", "generic read")
    /\ buf_lock = None /\ buf_lock' = t
    /\ UNCHANGED <<module, version, mine, proc_buf, record, counter, reading>>
GenericReturn(t) ==
    /\ Goto(t, "generic read", "out") /\ buf_lock' = None
    /\ UNCHANGED <<module, version, mine, proc_buf, record, counter, reading>>

-----------------------------------------------------------------------------
(* entry_data                                                              *)

\* m_write copies to its own buffer first, so that a fault leaves no trace.
DataWrite(t) ==
    /\ "data" \in entries /\ Goto(t, "out", "data copy")
    /\ Begin(t, 0)
    /\ UNCHANGED <<module, generic, record, counter, reading>>
DataFault(t) ==
    /\ Goto(t, "data copy", "out")
    /\ End(t)
    /\ UNCHANGED <<module, version, generic, record, counter, reading>>
\* counter++ without a lock: the counter is read, ...
DataRead(t) ==
    /\ Goto(t, "data copy", "count")
    /\ mine' = [mine EXCEPT ![t].done = counter]
    /\ UNCHANGED <<module, version, generic, record, counter, reading>>
\* ... and what was read is stored, plus one.
DataCount(t) ==
    /\ Goto(t, "count", "out") /\ counter' = mine[t].done + 1
    /\ End(t)
    /\ UNCHANGED <<module, version, generic, record, reading>>

-----------------------------------------------------------------------------
(* entry_seq                                                               *)

SeqWrite(t) ==
    /\ "seq" \in entries /\ Goto(t, "out", "seq write")
    /\ \E count \in 0..Size-1 : Begin(t, count)
    /\ UNCHANGED <<module, generic, record, counter, reading>>
SeqLock(t) ==
    /\ Goto(t, "seq write", "seq copy") /\ m_seq_buf_lock = None /\ m_seq_buf_lock' = t
    /\ UNCHANGED <<module, version, mine, generic, m_seq_buf, m_seq_buf_len, failed, counter, reading>>
SeqCopy(t) ==
    /\ pc[t] = "seq copy" /\ ~Copied(t)
    /\ m_seq_buf' = CopyTo(t, m_seq_buf) /\ CopyOne(t)
    /\ UNCHANGED <<module, pc, version, generic, m_seq_buf_len, m_seq_buf_lock, failed, counter, reading>>
\* A fault leaves the bytes that were copied before it, and the old length.
SeqFault(t) ==
    /\ ~Copied(t) /\ Goto(t, "seq copy", "out")
    /\ m_seq_buf_lock' = None /\ failed' = TRUE
    /\ End(t)
    /\ UNCHANGED <<module, version, generic, m_seq_buf, m_seq_buf_len, counter, reading>>
SeqEnd(t) ==
    /\ Copied(t) /\ Goto(t, "seq copy", "out")
    /\ m_seq_buf' = [m_seq_buf EXCEPT ![Count(t)] = Nul]
    /\ m_seq_buf_len' = Count(t)
    /\ m_seq_buf_lock' = None /\ failed' = FALSE
    /\ End(t)
    /\ UNCHANGED <<module, version, generic, counter, reading>>

\* seq_open, or an lseek back to the start.
SeqOpen(t) ==
    /\ "seq" \in entries /\ pc[t] = "out"
    /\ pos' = [pos EXCEPT ![t] = 0]
    /\ got' = [got EXCEPT ![t] = <<>>] /\ mixed' = [mixed EXCEPT ![t] = FALSE]
    /\ UNCHANGED <<module, pc, version, mine, generic, record, counter>>
\* m_seq_start: one record, and nothing behind it.
SeqStart(t) ==
    /\ pos[t] = 0 /\ Goto(t, "out", "seq show")
    /\ UNCHANGED <<module, version, mine, generic, record, counter, reading>>
Show(t) ==
    /\ Goto(t, "seq show", "seq next")
    /\ got' = [got EXCEPT ![t] = @ \o [i \in 1..m_seq_buf_len |-> m_seq_buf[i - 1]]]
    /\ mixed' = [mixed EXCEPT ![t] = failed]
    /\ UNCHANGED <<module, version, mine, generic, record, counter, pos>>
\* Variant: the record is shown without the lock.
SeqShowUnlocked(t) == Show(t)
\* m_seq_show, under the lock.
SeqShow(t) == m_seq_buf_lock = None /\ Show(t)
\* m_seq_next moves behind the record, m_seq_stop has nothing to do.
SeqNext(t) ==
    /\ Goto(t, "seq next", "out") /\ pos' = [pos EXCEPT ![t] = @ + 1]
    /\ UNCHANGED <<module, version, mine, generic, record, counter, got, mixed>>
SeqClose(t) ==
    /\ pc[t] = "out" /\ pos[t] # None /\ pos' = [pos EXCEPT ![t] = None]
    /\ got' = [got EXCEPT ![t] = <<>>] /\ mixed' = [mixed EXCEPT ![t] = FALSE]
    /\ UNCHANGED <<module, pc, version, mine, generic, record, counter>>

-----------------------------------------------------------------------------
Generic(t) == \/ GenericWrite(t) \/ GenericCopy(t) \/ GenericFault(t) \/ GenericEnd(t)
              \/ GenericRead(t) \/ GenericReturn(t)
Data(t) == DataWrite(t) \/ DataFault(t) \/ DataRead(t) \/ DataCount(t)
Seq_(t) == \/ SeqWrite(t) \/ SeqLock(t) \/ SeqCopy(t) \/ SeqFault(t) \/ SeqEnd(t)
           \/ SeqOpen(t) \/ SeqStart(t) \/ SeqShow(t) \/ SeqNext(t) \/ SeqClose(t)
\* Behind a failed init the code of the entries is freed: what a call of them
\* does then is not modelled.
Next == \/ Module
        \/ mod # "failed" /\ \E t \in Tasks : Generic(t) \/ Data(t) \/ Seq_(t)

Spec == Init /\ [][Next]_vars

-----------------------------------------------------------------------------
(* Properties                                                              *)

TypeOK ==
    /\ mod \in {Order[i] : i \in 1..Len(Order)} \cup {"failed", "gone", "remove single",
                  "remove single_data", "remove data", "remove seq", "remove subtree"}
    /\ entries \subseteq Names
    /\ version \in 0..MaxWrites /\ counter \in 0..MaxWrites
    /\ buf_lock \in Tasks \cup {None} /\ m_seq_buf_lock \in Tasks \cup {None}
    /\ m_seq_buf_len \in Bytes /\ DOMAIN m_seq_buf = Bytes /\ DOMAIN proc_buf = Bytes
    /\ pos \in [Tasks -> {None, 0, 1}]

\* Whatever several writers of entry_generic leave in the buffer, its last
\* byte ends the text: generic_read has a text to measure.
Terminated == proc_buf[Size - 1] = Nul

\* Who reads entry_seq reads the whole of one write, once, whatever others
\* write meanwhile; only a copy that failed leaves a mixture behind.
ReadsOneWrite ==
    \A t \in Tasks : ~mixed[t] /\ got[t] # <<>> =>
        /\ \A i \in DOMAIN got[t] : got[t][i] = got[t][1]
        /\ Len(got[t]) = got[t][1].count

\* Unloading removes all entries and waits for the calls that are in them.
EntriesGone == mod = "gone" => entries = {} /\ \A t \in Tasks : pc[t] = "out"
=============================================================================
