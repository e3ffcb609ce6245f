-------------------------- MODULE FileDemosProofs ---------------------------
(***************************************************************************)
(* Inductive invariants of the demos of devices, files and entries: the    *)
(* proc entries (P), globalmem (G), the frame of the modules (F), the fd   *)
(* table (D), the platform driver (M), files in the kernel (H, O) and      *)
(* sysfs (S).  Each holds at the start (...Start), is kept by every step   *)
(* of its demo (...Step) and implies the properties of the demo            *)
(* (...Sound).  DriverDemosProofs puts them together.                      *)
(***************************************************************************)
EXTENDS FileDemos, SequenceTheorems, FiniteSetTheorems, TLAPS

(* The proc demo: where "seq" is and is not, what a task in a call may     *)
(* rely on, and the record that lies in m_seq_buf when nobody holds its    *)
(* lock.                                                                   *)
ProcPlaces == {"out", "generic copy", "generic read", "data copy", "count",
               "seq write", "seq copy", "seq show", "seq next"}
ProcByte == [write : Nat, count : Nat]
Writes == [byte : ProcByte, done : Nat]
Positions == {NULL, 0, 1}
BeforeSeq == {"mkdir", "generic", "single", "single_data", "data", "init buffer", "seq"}

ProcTyped ==
    /\ ppc \in [Tasks -> ProcPlaces] /\ mine \in [Tasks -> Writes]
    /\ pos \in [Tasks -> Positions] /\ got \in [Tasks -> Seq(ProcByte)]
    /\ mixed \in [Tasks -> BOOLEAN]
SharedTyped ==
    /\ version \in Nat /\ counter \in Nat
    /\ proc_buf \in [P!Bytes -> ProcByte] /\ m_seq_buf \in [P!Bytes -> ProcByte]
    /\ m_seq_buf_len \in 0..ProcSize /\ failed \in BOOLEAN

EntriesPhase ==
    /\ pmod \in BeforeSeq => "seq" \notin entries
    /\ pmod = "gone" => entries = {}

\* All bytes of the record come from one write, and it is all of that.
OneRecord == \A i \in P!Bytes : i < m_seq_buf_len =>
                m_seq_buf[i] = m_seq_buf[0] /\ m_seq_buf[0].count = m_seq_buf_len
RecordWhole == m_seq_buf_lock = NULL /\ ~failed => OneRecord

OneWriteGot(t) == got[t] # <<>> =>
    /\ \A i \in DOMAIN got[t] : got[t][i] = got[t][1]
    /\ Len(got[t]) = got[t][1].count

ProcTask(t) ==
    /\ ppc[t] # "out" => P!Using(t) \in entries
    /\ pos[t] # NULL => "seq" \in entries
    /\ ppc[t] \in {"generic copy", "seq write", "seq copy"} =>
          mine[t].done <= mine[t].byte.count /\ mine[t].byte.count < ProcSize
    /\ ppc[t] = "seq write" => mine[t].done = 0
    /\ m_seq_buf_lock = t <=> ppc[t] = "seq copy"
    /\ ppc[t] = "seq copy" =>
          \A i \in P!Bytes : i < mine[t].done => m_seq_buf[i] = mine[t].byte
    /\ ppc[t] \in {"seq show", "seq next"} => pos[t] = 0
    /\ pos[t] = 0 /\ ppc[t] # "seq next" => got[t] = <<>>
    /\ ~mixed[t] => OneWriteGot(t)

ProcInv ==
    /\ ProcTyped /\ SharedTyped /\ EntriesPhase /\ RecordWhole /\ P!Terminated
    /\ \A t \in Tasks : ProcTask(t)

\* The demo starts without entries, with an empty text in both buffers.
LEMMA ProcStart == ASSUME FileParameters, P!Init PROVE ProcInv
<1>1. /\ ProcSize \in Nat /\ ProcSize > 1 /\ NULL \notin Nat /\ NULL \notin Tasks
      /\ P!Bytes = 0..ProcSize - 1 /\ P!Nul = [write |-> 0, count |-> 0] /\ P!Nul \in ProcByte
      /\ P!ByteOf(0, 1) \in ProcByte
  BY DEF FileParameters, P!Bytes, P!Nul, P!ByteOf, ProcByte
<1>2. /\ pmod = "mkdir" /\ entries = {} /\ ppc = [t \in Tasks |-> "out"]
      /\ mine = [t \in Tasks |-> P!NoWrite]
      /\ proc_buf = [b \in P!Bytes |-> IF b = 0 THEN P!ByteOf(0, 1) ELSE P!Nul]
      /\ m_seq_buf = [b \in P!Bytes |-> P!Nul] /\ m_seq_buf_len = 0 /\ m_seq_buf_lock = NULL
      /\ failed = FALSE /\ version = 0 /\ counter = 0
      /\ pos = [t \in Tasks |-> NULL] /\ got = [t \in Tasks |-> <<>>]
      /\ mixed = [t \in Tasks |-> FALSE]
  BY DEF P!Init
<1>3. P!NoWrite \in Writes /\ <<>> \in Seq(ProcByte)
  <2>1. P!NoWrite \in Writes
    BY <1>1 DEF P!NoWrite, Writes
  <2> QED  BY <2>1
<1>4. ProcTyped
  BY <1>2, <1>3 DEF ProcTyped, ProcPlaces, Positions
<1>5. SharedTyped
  <2>1. proc_buf \in [P!Bytes -> ProcByte] /\ m_seq_buf \in [P!Bytes -> ProcByte]
    BY <1>1, <1>2
  <2>2. m_seq_buf_len \in 0..ProcSize
    BY <1>1, <1>2
  <2> QED  BY <1>2, <2>1, <2>2 DEF SharedTyped
<1>6. EntriesPhase
  BY <1>2 DEF EntriesPhase
<1>7. RecordWhole
  BY <1>1, <1>2 DEF RecordWhole, OneRecord
<1>8. P!Terminated
  <2>1. ProcSize - 1 \in P!Bytes /\ ProcSize - 1 # 0
    BY <1>1
  <2> QED  BY <1>2, <2>1 DEF P!Terminated
<1>9. ASSUME NEW t \in Tasks PROVE ProcTask(t)
  BY <1>1, <1>2 DEF ProcTask, OneWriteGot
<1> QED  BY <1>4, <1>5, <1>6, <1>7, <1>8, <1>9 DEF ProcInv

\* A step of one task.
LEMMA ProcTaskMoves ==
    ASSUME FileParameters, ProcInv, NEW t \in Tasks, UNCHANGED <<pmod, entries>>,
           NEW p \in ProcPlaces, ppc' = [ppc EXCEPT ![t] = p],
           NEW m \in Writes, mine' = [mine EXCEPT ![t] = m],
           NEW q \in Positions, pos' = [pos EXCEPT ![t] = q],
           NEW g \in Seq(ProcByte), got' = [got EXCEPT ![t] = g],
           NEW x \in BOOLEAN, mixed' = [mixed EXCEPT ![t] = x],
           SharedTyped', P!Terminated', RecordWhole',
           \A u \in Tasks : u # t => (m_seq_buf_lock' = u <=> m_seq_buf_lock = u),
           \A u \in Tasks : u # t /\ ppc[u] = "seq copy" => m_seq_buf' = m_seq_buf,
           ProcTask(t)'
    PROVE  ProcInv'
<1>1. ProcTyped'
  <2>1. ppc' \in [Tasks -> ProcPlaces] /\ mine' \in [Tasks -> Writes]
        /\ pos' \in [Tasks -> Positions] /\ got' \in [Tasks -> Seq(ProcByte)]
    BY DEF ProcInv, ProcTyped
  <2>2. mixed' \in [Tasks -> BOOLEAN]
    BY DEF ProcInv, ProcTyped
  <2> QED  BY <2>1, <2>2 DEF ProcTyped
<1>2. EntriesPhase'
  BY DEF ProcInv, EntriesPhase
<1>3. ASSUME NEW u \in Tasks, u # t PROVE ProcTask(u)'
  <2>1. /\ ppc'[u] = ppc[u] /\ mine'[u] = mine[u] /\ pos'[u] = pos[u] /\ got'[u] = got[u]
        /\ mixed'[u] = mixed[u]
    BY <1>3 DEF ProcInv, ProcTyped
  <2>2. P!Using(u)' = P!Using(u)
    BY <2>1 DEF P!Using
  <2>3. m_seq_buf_lock' = u <=> m_seq_buf_lock = u
    BY <1>3
  <2>4. ppc[u] = "seq copy" => m_seq_buf' = m_seq_buf
    BY <1>3
  <2>5. ProcTask(u)
    BY DEF ProcInv
  <2> QED  BY <2>1, <2>2, <2>3, <2>4, <2>5, ZenonT(40) DEF ProcTask, OneWriteGot
<1>4. \A u \in Tasks : ProcTask(u)'
  BY <1>3
<1> QED  BY <1>1, <1>2, <1>4 DEF ProcInv

\* Init, exit and what comes between, while no task moves.
LEMMA ProcModuleMoves ==
    ASSUME ProcInv, UNCHANGED <<ppc, version, mine, proc_buf, buf_lock, m_seq_buf_lock, failed,
                                counter, got, mixed>>,
           SharedTyped', EntriesPhase', RecordWhole',
           pos' \in [Tasks -> Positions],
           \A t \in Tasks : pos'[t] # pos[t] => pos'[t] = NULL /\ NULL # 0 /\ P!Using(t) # "seq",
           \A t \in Tasks : ppc[t] # "out" => P!Using(t) \in entries',
           \A t \in Tasks : pos'[t] # NULL => "seq" \in entries',
           \A t \in Tasks : ppc[t] = "seq copy" => m_seq_buf' = m_seq_buf
    PROVE  ProcInv'
<1>1. ProcTyped'
  <2>1. mixed' = mixed /\ ppc' = ppc /\ mine' = mine /\ got' = got
    OBVIOUS
  <2> QED  BY <2>1 DEF ProcInv, ProcTyped
<1>2. P!Terminated'
  BY DEF ProcInv, P!Terminated
<1>3. ASSUME NEW t \in Tasks PROVE ProcTask(t)'
  <2>1. /\ ppc' = ppc /\ mine' = mine /\ got' = got /\ mixed' = mixed
        /\ m_seq_buf_lock' = m_seq_buf_lock
    OBVIOUS
  <2>2. P!Using(t)' = P!Using(t)
    BY <2>1 DEF P!Using
  <2>3. ProcTask(t)
    BY DEF ProcInv
  <2>4. ppc[t] # "out" => P!Using(t)' \in entries'
    BY <2>2
  <2>5. ppc[t] = "seq copy" => m_seq_buf' = m_seq_buf
    OBVIOUS
  <2>6. ppc[t] \in {"seq show", "seq next"} => pos'[t] = 0
    <3>1. ppc[t] \in {"seq show", "seq next"} => P!Using(t) = "seq"
      BY DEF P!Using
    <3> QED  BY <2>3, <3>1 DEF ProcTask
  <2>7. pos'[t] = 0 /\ ppc[t] # "seq next" => got[t] = <<>>
    BY <2>3 DEF ProcTask
  <2> QED  BY <2>1, <2>3, <2>4, <2>5, <2>6, <2>7 DEF ProcTask, OneWriteGot
<1> QED  BY <1>1, <1>2, <1>3 DEF ProcInv

\* m_chr_init goes through the entries in the order of its calls.
LEMMA NextEntry ==
    /\ P!After("generic") = "single" /\ P!After("single") = "single_data"
    /\ P!After("single_data") = "data" /\ P!After("data") = "init buffer"
    /\ P!After("seq") = "loaded"
<1>1. Len(P!Order) = 8
  BY DEF P!Order
<1>2. \A i \in 1..Len(P!Order) : i = 1 \/ i = 2 \/ i = 3 \/ i = 4 \/ i = 5 \/ i = 6 \/ i = 7 \/ i = 8
  BY <1>1
<1>3. /\ 2 \in 1..Len(P!Order) /\ 3 \in 1..Len(P!Order) /\ 4 \in 1..Len(P!Order)
      /\ 5 \in 1..Len(P!Order) /\ 7 \in 1..Len(P!Order)
  BY <1>1
<1>4. 1 + 2 = 3 /\ 1 + 3 = 4 /\ 1 + 4 = 5 /\ 1 + 5 = 6 /\ 1 + 7 = 8
  OBVIOUS
<1>5. /\ P!Order[1] = "mkdir" /\ P!Order[2] = "generic" /\ P!Order[3] = "single"
      /\ P!Order[4] = "single_data" /\ P!Order[5] = "data" /\ P!Order[6] = "init buffer"
      /\ P!Order[7] = "seq" /\ P!Order[8] = "loaded"
  BY DEF P!Order
<1>6. ASSUME NEW e, NEW n \in 1..Len(P!Order), P!Order[n] = e,
             \A i \in 1..Len(P!Order) : P!Order[i] = e => i = n
      PROVE  P!After(e) = P!Order[1 + n]
  <2> DEFINE m == CHOOSE i \in 1..Len(P!Order) : P!Order[i] = e
  <2>1. m \in 1..Len(P!Order) /\ P!Order[m] = e
    BY <1>6, Zenon
  <2>2. m = n
    BY <1>6, <2>1
  <2> QED  BY <2>2 DEF P!After
<1>7. P!After("generic") = P!Order[1 + 2]
  <2>1. \A i \in 1..Len(P!Order) : P!Order[i] = "generic" => i = 2
    BY <1>2, <1>5
  <2> QED  BY <1>3, <1>5, <1>6, <2>1
<1>8. P!After("single") = P!Order[1 + 3]
  <2>1. \A i \in 1..Len(P!Order) : P!Order[i] = "single" => i = 3
    BY <1>2, <1>5
  <2> QED  BY <1>3, <1>5, <1>6, <2>1
<1>9. P!After("single_data") = P!Order[1 + 4]
  <2>1. \A i \in 1..Len(P!Order) : P!Order[i] = "single_data" => i = 4
    BY <1>2, <1>5
  <2> QED  BY <1>3, <1>5, <1>6, <2>1
<1>10. P!After("data") = P!Order[1 + 5]
  <2>1. \A i \in 1..Len(P!Order) : P!Order[i] = "data" => i = 5
    BY <1>2, <1>5
  <2> QED  BY <1>3, <1>5, <1>6, <2>1
<1>11. P!After("seq") = P!Order[1 + 7]
  <2>1. \A i \in 1..Len(P!Order) : P!Order[i] = "seq" => i = 7
    BY <1>2, <1>5
  <2> QED  BY <1>3, <1>5, <1>6, <2>1
<1> QED  BY <1>4, <1>5, <1>7, <1>8, <1>9, <1>10, <1>11

\* Creating and removing the entries, also when proc_create fails half-way.
LEMMA ProcModuleStep == ASSUME FileParameters, ProcInv, P!Module PROVE ProcInv'
<1>0. /\ ProcTyped /\ SharedTyped /\ EntriesPhase /\ RecordWhole
      /\ \A t \in Tasks : ProcTask(t)
  BY DEF ProcInv
<1>a. /\ ProcSize \in Nat /\ ProcSize > 1 /\ NULL \notin Nat /\ P!Bytes = 0..ProcSize - 1
      /\ NULL # 0
  BY DEF FileParameters, P!Bytes
<1>b. \A t \in Tasks : /\ ppc[t] # "out" => P!Using(t) \in entries
                       /\ pos[t] # NULL => "seq" \in entries
                       /\ pos[t] \in Positions
  BY <1>0 DEF ProcTask, ProcTyped
<1>c. ASSUME UNCHANGED <<proc_buf, m_seq_buf, m_seq_buf_len, m_seq_buf_lock, version, counter, failed>>
      PROVE  SharedTyped' /\ RecordWhole'
  BY <1>0, <1>c DEF SharedTyped, RecordWhole, OneRecord
<1>1. CASE P!Mkdir
  <2>1. EntriesPhase'
    BY <1>0, <1>1 DEF P!Mkdir, EntriesPhase, BeforeSeq
  <2> QED  BY <1>0, <1>1, <1>b, <1>c, <2>1, ProcModuleMoves
           DEF P!Mkdir, P!generic, P!record, P!reading, ProcTyped
<1>2. CASE P!InitBuffer
  <2>1. EntriesPhase' /\ "seq" \notin entries
    BY <1>0, <1>2 DEF P!InitBuffer, EntriesPhase, BeforeSeq
  <2>6. P!ByteOf(0, 1) \in ProcByte /\ P!ByteOf(0, 1).count = 1 /\ 0 \in P!Bytes
    BY <1>a DEF P!ByteOf, ProcByte
  <2>2. /\ P!ByteOf(0, 1) \in ProcByte /\ P!ByteOf(0, 1).count = 1
        /\ m_seq_buf' = [m_seq_buf EXCEPT ![0] = P!ByteOf(0, 1)] /\ m_seq_buf_len' = 1
        /\ m_seq_buf \in [P!Bytes -> ProcByte] /\ 0 \in P!Bytes
    BY <1>0, <1>2, <2>6 DEF P!InitBuffer, SharedTyped
  <2>3. OneRecord'
    BY <1>a, <2>2 DEF OneRecord
  <2>4. SharedTyped'
    <3>1. m_seq_buf' \in [P!Bytes -> ProcByte]
      BY <2>2
    <3>2. m_seq_buf_len' \in 0..ProcSize
      BY <1>a, <2>2
    <3>3. UNCHANGED <<version, counter, failed, proc_buf>>
      BY <1>2 DEF P!InitBuffer, P!generic
    <3> QED  BY <1>0, <3>1, <3>2, <3>3 DEF SharedTyped
  <2>5. \A t \in Tasks : ppc[t] # "seq copy"
    BY <1>b, <2>1 DEF P!Using
  <2> QED  BY <1>0, <1>2, <1>b, <2>1, <2>3, <2>4, <2>5, ProcModuleMoves
           DEF P!InitBuffer, P!generic, P!reading, ProcTyped, RecordWhole
<1>3. ASSUME NEW e \in P!Names, P!ProcCreate(e) PROVE ProcInv'
  <2>1. pmod = e /\ pmod' = P!After(e) /\ entries' = entries \cup {e}
    BY <1>3 DEF P!ProcCreate
  <2>2. EntriesPhase'
    <3>1. CASE e = "seq"
      BY <2>1, <3>1, NextEntry DEF EntriesPhase, BeforeSeq
    <3>2. CASE e # "seq"
      BY <1>0, <2>1, <3>2, NextEntry DEF EntriesPhase, BeforeSeq, P!Names
    <3> QED  BY <3>1, <3>2
  <2> QED  BY <1>0, <1>3, <1>b, <1>c, <2>1, <2>2, ProcModuleMoves
           DEF P!ProcCreate, P!generic, P!record, P!reading, ProcTyped
<1>4. ASSUME NEW e \in P!Names, P!CreateFails(e) PROVE ProcInv'
  <2>1. EntriesPhase'
    BY <1>0, <1>4 DEF P!CreateFails, EntriesPhase, BeforeSeq
  <2> QED  BY <1>0, <1>4, <1>b, <1>c, <2>1, ProcModuleMoves
           DEF P!CreateFails, P!generic, P!record, P!reading, ProcTyped
<1>5. ASSUME NEW es, NEW from, NEW to, P!ProcRemove(es, from, to),
             to \notin BeforeSeq, to = "gone" => es = entries
      PROVE  ProcInv'
  <2>1. /\ entries' = entries \ es /\ P!Close(es) /\ pmod' = to
        /\ \A t \in Tasks : P!Using(t) \notin es
    BY <1>5 DEF P!ProcRemove, P!Unused
  <2>2. EntriesPhase'
    BY <1>5, <2>1 DEF EntriesPhase
  <2>3. \A t \in Tasks : ppc[t] # "out" => P!Using(t) \in entries'
    BY <1>b, <2>1
  <2>4. /\ pos' \in [Tasks -> Positions]
        /\ \A t \in Tasks : pos'[t] # NULL => "seq" \in entries'
        /\ \A t \in Tasks : pos'[t] # pos[t] => pos'[t] = NULL /\ NULL # 0 /\ P!Using(t) # "seq"
    <3>1. CASE "seq" \in es
      BY <1>a, <2>1, <3>1 DEF P!Close, Positions
    <3>2. CASE "seq" \notin es
      BY <1>0, <1>b, <2>1, <3>2 DEF P!Close, ProcTyped
    <3> QED  BY <3>1, <3>2
  <2> QED  BY <1>5, <1>c, <2>2, <2>3, <2>4, ProcModuleMoves
           DEF P!ProcRemove, P!generic, P!record
<1>6. CASE P!RemoveGeneric
  BY <1>5, <1>6 DEF P!RemoveGeneric, BeforeSeq
<1>7. CASE P!RemoveSingle
  BY <1>5, <1>7 DEF P!RemoveSingle, BeforeSeq
<1>8. CASE P!RemoveSingleData
  BY <1>5, <1>8 DEF P!RemoveSingleData, BeforeSeq
<1>9. CASE P!RemoveData
  BY <1>5, <1>9 DEF P!RemoveData, BeforeSeq
<1>10. CASE P!RemoveSeq
  BY <1>5, <1>10 DEF P!RemoveSeq, BeforeSeq
<1>11. CASE P!RemoveSubtree
  BY <1>5, <1>11 DEF P!RemoveSubtree, BeforeSeq
<1> QED  BY <1>1, <1>2, <1>3, <1>4, <1>6, <1>7, <1>8, <1>9, <1>10, <1>11 DEF P!Module

\* A step that leaves what the task reads, and the record and its lock, alone.
LEMMA ProcTaskWrites ==
    ASSUME FileParameters, ProcInv, NEW t \in Tasks,
           UNCHANGED <<pmod, entries, m_seq_buf, m_seq_buf_len, m_seq_buf_lock, failed,
                       pos, got, mixed>>,
           NEW p \in ProcPlaces, ppc' = [ppc EXCEPT ![t] = p],
           NEW m \in Writes, mine' = [mine EXCEPT ![t] = m],
           version' \in Nat, counter' \in Nat, proc_buf' \in [P!Bytes -> ProcByte],
           P!Terminated',
           ppc[t] # "seq copy", ppc[t] \notin {"seq show", "seq next"},
           p \notin {"seq copy", "seq show", "seq next"},
           p # "out" => P!Using(t)' \in entries,
           p \in {"generic copy", "seq write"} =>
              m.done <= m.byte.count /\ m.byte.count < ProcSize,
           p = "seq write" => m.done = 0
    PROVE  ProcInv'
<1>1. /\ pos \in [Tasks -> Positions] /\ got \in [Tasks -> Seq(ProcByte)]
      /\ mixed \in [Tasks -> BOOLEAN] /\ SharedTyped /\ RecordWhole /\ ProcTask(t)
      /\ ppc \in [Tasks -> ProcPlaces] /\ mine \in [Tasks -> Writes]
  BY DEF ProcInv, ProcTyped
<1>2. /\ pos[t] \in Positions /\ got[t] \in Seq(ProcByte)
      /\ pos' = [pos EXCEPT ![t] = pos[t]] /\ got' = [got EXCEPT ![t] = got[t]]
  BY <1>1
<1>3. mixed[t] \in BOOLEAN /\ mixed' = [mixed EXCEPT ![t] = mixed[t]]
  BY <1>1
<1>4. SharedTyped'
  BY <1>1 DEF SharedTyped
<1>5. RecordWhole'
  BY <1>1 DEF RecordWhole, OneRecord
<1>6. ppc'[t] = p /\ mine'[t] = m /\ pos'[t] = pos[t] /\ got'[t] = got[t]
      /\ m_seq_buf_lock' = m_seq_buf_lock /\ m_seq_buf_lock # t
  BY <1>1 DEF ProcTask
<1>7. ProcTask(t)'
  BY <1>1, <1>6 DEF ProcTask, OneWriteGot
<1> QED  BY <1>2, <1>3, <1>4, <1>5, <1>7, ProcTaskMoves

\* A write of an entry gets a number of its own, and none of its bytes is copied.
LEMMA WriteBegins ==
    ASSUME ProcInv, NEW t \in Tasks, NEW count_ \in Nat, P!Begin(t, count_)
    PROVE  \E m \in Writes : /\ mine' = [mine EXCEPT ![t] = m] /\ m.done = 0
                             /\ m.byte.count = count_ /\ version' \in Nat
<1> DEFINE m == [byte |-> P!ByteOf(version + 1, count_), done |-> 0]
<1>1. version \in Nat /\ version' = version + 1 /\ version' \in Nat
  BY DEF ProcInv, SharedTyped, P!Begin
<1>2. P!ByteOf(version + 1, count_) \in ProcByte /\ P!ByteOf(version + 1, count_).count = count_
  BY <1>1 DEF P!ByteOf, ProcByte
<1>3. m \in Writes /\ m.done = 0 /\ m.byte.count = count_
  BY <1>2 DEF Writes
<1>4. mine' = [mine EXCEPT ![t] = m]
  BY DEF P!Begin
<1> HIDE DEF m
<1> QED  BY <1>1, <1>3, <1>4

\* entry_generic: reads and writes under buf_lock leave a text in proc_buf.
LEMMA ProcGenericStep ==
    ASSUME FileParameters, ProcInv, NEW t \in Tasks, P!Generic(t) PROVE ProcInv'
<1>0. /\ ppc \in [Tasks -> ProcPlaces] /\ mine \in [Tasks -> Writes] /\ ProcTask(t)
      /\ SharedTyped /\ P!Terminated
  BY DEF ProcInv, ProcTyped
<1>a. /\ ProcSize \in Nat /\ ProcSize > 1 /\ P!Bytes = 0..ProcSize - 1
      /\ P!Nul \in ProcByte
  BY DEF FileParameters, P!Bytes, P!Nul, P!ByteOf, ProcByte
<1>b. P!NoWrite \in Writes
  BY <1>a DEF P!NoWrite, Writes
<1>c. /\ mine[t] \in Writes /\ mine[t].done \in Nat /\ mine[t].byte \in ProcByte
      /\ mine[t].byte.count \in Nat /\ mine = [mine EXCEPT ![t] = mine[t]]
      /\ ppc = [ppc EXCEPT ![t] = ppc[t]] /\ ppc[t] \in ProcPlaces
  BY <1>0 DEF Writes, ProcByte
<1>d. version \in Nat /\ counter \in Nat /\ proc_buf \in [P!Bytes -> ProcByte]
  BY <1>0 DEF SharedTyped
<1>e. \A u \in Tasks : ppc[u] \in {"generic copy", "generic read"} => P!Using(u) = "generic"
  BY DEF P!Using
<1>1. CASE P!GenericWrite(t)
  <2>1. PICK n \in 0..ProcSize - 1 : P!Begin(t, n)
    BY <1>1 DEF P!GenericWrite, P!GenericCount
  <2>2. PICK m \in Writes : /\ mine' = [mine EXCEPT ![t] = m] /\ m.done = 0
                            /\ m.byte.count = n /\ version' \in Nat
    BY <1>a, <2>1, WriteBegins
  <2>3. m.done <= m.byte.count /\ m.byte.count < ProcSize
    BY <1>a, <2>2
  <2>4. /\ ppc[t] = "out" /\ ppc' = [ppc EXCEPT ![t] = "generic copy"] /\ "generic" \in entries
        /\ UNCHANGED <<pmod, entries, m_seq_buf, m_seq_buf_len, m_seq_buf_lock, failed,
                       pos, got, mixed, proc_buf, counter>>
    BY <1>1 DEF P!GenericWrite, P!Goto, P!module, P!generic, P!record, P!reading
  <2>5. P!Using(t)' = "generic"
    BY <1>0, <2>4 DEF P!Using
  <2>6. P!Terminated'
    BY <1>0, <2>4 DEF P!Terminated
  <2> QED  BY <1>d, <2>2, <2>3, <2>4, <2>5, <2>6, ProcTaskWrites DEF ProcPlaces
<1>2. CASE P!GenericCopy(t)
  <2>1. /\ ppc[t] = "generic copy" /\ mine[t].done # mine[t].byte.count
        /\ proc_buf' = [proc_buf EXCEPT ![mine[t].done] = mine[t].byte]
        /\ mine' = [mine EXCEPT ![t].done = @ + 1]
        /\ UNCHANGED <<pmod, entries, m_seq_buf, m_seq_buf_len, m_seq_buf_lock, failed,
                       pos, got, mixed, ppc, version, counter>>
    BY <1>2 DEF P!GenericCopy, P!Copied, P!Count, P!CopyTo, P!CopyOne, P!module, P!record, P!reading
  <2> DEFINE m == [mine[t] EXCEPT !.done = mine[t].done + 1]
  <2>2. mine' = [mine EXCEPT ![t] = m]
    BY <1>0, <2>1
  <2>3. mine[t].done < mine[t].byte.count /\ mine[t].byte.count < ProcSize
    <3>1. mine[t].done <= mine[t].byte.count /\ mine[t].byte.count < ProcSize
      BY <1>0, <2>1 DEF ProcTask
    <3>2. mine[t].done # mine[t].byte.count
      BY <2>1
    <3> QED  BY <1>c, <3>1, <3>2
  <2>4. m \in Writes /\ m.done = mine[t].done + 1 /\ m.byte = mine[t].byte
    BY <1>c DEF Writes
  <2>5. m.done <= m.byte.count /\ m.byte.count < ProcSize
    BY <1>c, <2>3, <2>4
  <2>6. proc_buf' \in [P!Bytes -> ProcByte]
    BY <1>c, <1>d, <2>1
  <2>7. mine[t].done # ProcSize - 1 /\ ProcSize - 1 \in P!Bytes
    BY <1>a, <1>c, <2>3
  <2>8. P!Terminated'
    BY <1>0, <1>d, <2>1, <2>7 DEF P!Terminated
  <2>9. P!Using(t)' = "generic" /\ "generic" \in entries
    BY <1>0, <1>e, <2>1 DEF P!Using, ProcTask
  <2>10. ppc' = [ppc EXCEPT ![t] = "generic copy"]
    BY <1>c, <2>1
  <2>11. /\ ppc[t] = "generic copy" /\ version' \in Nat /\ counter' \in Nat /\ m \in Writes
         /\ UNCHANGED <<pmod, entries, m_seq_buf, m_seq_buf_len, m_seq_buf_lock, failed,
                        pos, got, mixed>>
    BY <1>d, <2>1, <2>4
  <2> HIDE DEF m
  <2> QED  BY <2>2, <2>5, <2>6, <2>8, <2>9, <2>10, <2>11, ProcTaskWrites DEF ProcPlaces
<1>3. CASE P!GenericFault(t)
  <2>1. /\ ppc[t] = "generic copy" /\ ppc' = [ppc EXCEPT ![t] = "out"]
        /\ mine' = [mine EXCEPT ![t] = P!NoWrite]
        /\ UNCHANGED <<pmod, entries, m_seq_buf, m_seq_buf_len, m_seq_buf_lock, failed,
                       pos, got, mixed, proc_buf, version, counter>>
    BY <1>3 DEF P!GenericFault, P!End, P!Goto, P!module, P!generic, P!record, P!reading
  <2>2. P!Terminated'
    BY <1>0, <2>1 DEF P!Terminated
  <2> QED  BY <1>b, <1>d, <2>1, <2>2, ProcTaskWrites DEF ProcPlaces
<1>4. CASE P!GenericEnd(t)
  <2>1. /\ ppc[t] = "generic copy" /\ ppc' = [ppc EXCEPT ![t] = "out"]
        /\ mine' = [mine EXCEPT ![t] = P!NoWrite]
        /\ proc_buf' = [b \in P!Bytes |-> IF b = P!Count(t) THEN P!Nul ELSE proc_buf[b]]
        /\ UNCHANGED <<pmod, entries, m_seq_buf, m_seq_buf_len, m_seq_buf_lock, failed,
                       pos, got, mixed, version, counter>>
    BY <1>4 DEF P!GenericEnd, P!End, P!Goto, P!module, P!record, P!reading
  <2>2. proc_buf' \in [P!Bytes -> ProcByte]
    BY <1>a, <1>d, <2>1
  <2>3. P!Terminated'
    <3>1. ProcSize - 1 \in P!Bytes
      BY <1>a
    <3> QED  BY <1>0, <2>1, <3>1 DEF P!Terminated
  <2> QED  BY <1>b, <1>d, <2>1, <2>2, <2>3, ProcTaskWrites DEF ProcPlaces
<1>5. CASE P!GenericRead(t) \/ P!GenericReturn(t)
  <2>1. PICK p \in ProcPlaces :
           /\ \/ p = "generic read" /\ "generic" \in entries /\ ppc[t] = "out"
              \/ p = "out" /\ ppc[t] = "generic read"
           /\ ppc' = [ppc EXCEPT ![t] = p]
           /\ UNCHANGED <<pmod, entries, m_seq_buf, m_seq_buf_len, m_seq_buf_lock, failed,
                          pos, got, mixed, version, mine, proc_buf, counter>>
    BY <1>5 DEF P!GenericRead, P!GenericReturn, P!Goto, P!module, P!record, P!reading, ProcPlaces
  <2>2. P!Terminated'
    BY <1>0, <2>1 DEF P!Terminated
  <2>3. ppc'[t] = p
    BY <1>0, <2>1
  <2>4. p # "out" => P!Using(t)' \in entries
    BY <2>1, <2>3 DEF P!Using
  <2> QED  BY <1>c, <1>d, <2>1, <2>2, <2>4, ProcTaskWrites
<1> QED  BY <1>1, <1>2, <1>3, <1>4, <1>5 DEF P!Generic

\* entry_data and entry_single_data, which change the counter only.
LEMMA ProcDataStep ==
    ASSUME FileParameters, ProcInv, NEW t \in Tasks, P!Data(t) PROVE ProcInv'
<1>0. /\ ppc \in [Tasks -> ProcPlaces] /\ mine \in [Tasks -> Writes] /\ ProcTask(t)
      /\ SharedTyped /\ P!Terminated
  BY DEF ProcInv, ProcTyped
<1>a. P!NoWrite \in Writes
  BY DEF P!NoWrite, P!Nul, P!ByteOf, ProcByte, Writes
<1>b. mine[t] \in Writes /\ mine[t].done \in Nat /\ ppc[t] \in ProcPlaces
  BY <1>0 DEF Writes
<1>c. version \in Nat /\ counter \in Nat /\ proc_buf \in [P!Bytes -> ProcByte]
  BY <1>0 DEF SharedTyped
<1>1. CASE P!DataWrite(t)
  <2>1. /\ ppc[t] = "out" /\ ppc' = [ppc EXCEPT ![t] = "data copy"] /\ "data" \in entries
        /\ P!Begin(t, 0)
        /\ UNCHANGED <<pmod, entries, m_seq_buf, m_seq_buf_len, m_seq_buf_lock, failed,
                       pos, got, mixed, proc_buf, counter>>
    BY <1>1 DEF P!DataWrite, P!Goto, P!module, P!generic, P!record, P!reading
  <2>2. PICK m \in Writes : mine' = [mine EXCEPT ![t] = m] /\ version' \in Nat
    <3>1. PICK n \in Nat : n = 0
      OBVIOUS
    <3>2. P!Begin(t, n)
      BY <2>1, <3>1
    <3> QED  BY <3>2, WriteBegins
  <2>3. P!Using(t)' = "data"
    BY <1>0, <2>1 DEF P!Using
  <2>4. P!Terminated'
    BY <1>0, <2>1 DEF P!Terminated
  <2> QED  BY <1>c, <2>1, <2>2, <2>3, <2>4, ProcTaskWrites DEF ProcPlaces
<1>2. CASE P!DataFault(t)
  <2>1. /\ ppc[t] = "data copy" /\ ppc' = [ppc EXCEPT ![t] = "out"]
        /\ mine' = [mine EXCEPT ![t] = P!NoWrite]
        /\ UNCHANGED <<pmod, entries, m_seq_buf, m_seq_buf_len, m_seq_buf_lock, failed,
                       pos, got, mixed, proc_buf, version, counter>>
    BY <1>2 DEF P!DataFault, P!End, P!Goto, P!module, P!generic, P!record, P!reading
  <2>2. P!Terminated'
    BY <1>0, <2>1 DEF P!Terminated
  <2> QED  BY <1>a, <1>c, <2>1, <2>2, ProcTaskWrites DEF ProcPlaces
<1>3. CASE P!DataRead(t)
  <2>1. /\ ppc[t] = "data copy" /\ ppc' = [ppc EXCEPT ![t] = "count"]
        /\ mine' = [mine EXCEPT ![t].done = counter]
        /\ UNCHANGED <<pmod, entries, m_seq_buf, m_seq_buf_len, m_seq_buf_lock, failed,
                       pos, got, mixed, proc_buf, version, counter>>
    BY <1>3 DEF P!DataRead, P!Goto, P!module, P!generic, P!record, P!reading
  <2> DEFINE m == [mine[t] EXCEPT !.done = counter]
  <2>2. mine' = [mine EXCEPT ![t] = m] /\ m \in Writes
    BY <1>0, <1>b, <1>c, <2>1 DEF Writes
  <2>3. P!Using(t)' = "data" /\ "data" \in entries
    BY <1>0, <2>1 DEF P!Using, ProcTask
  <2>4. P!Terminated'
    BY <1>0, <2>1 DEF P!Terminated
  <2>5. /\ "count" \in ProcPlaces
        /\ "count" \notin {"seq copy", "seq show", "seq next", "generic copy", "seq write"}
    BY DEF ProcPlaces
  <2>6. /\ ppc[t] \notin {"seq copy", "seq show", "seq next"}
        /\ version' \in Nat /\ counter' \in Nat /\ proc_buf' \in [P!Bytes -> ProcByte]
    BY <1>c, <2>1
  <2> HIDE DEF m
  <2> QED  BY <2>1, <2>2, <2>3, <2>4, <2>5, <2>6, ProcTaskWrites
<1>4. CASE P!DataCount(t)
  <2>1. /\ ppc[t] = "count" /\ ppc' = [ppc EXCEPT ![t] = "out"]
        /\ mine' = [mine EXCEPT ![t] = P!NoWrite] /\ counter' = mine[t].done + 1
        /\ UNCHANGED <<pmod, entries, m_seq_buf, m_seq_buf_len, m_seq_buf_lock, failed,
                       pos, got, mixed, proc_buf, version>>
    BY <1>4 DEF P!DataCount, P!End, P!Goto, P!module, P!generic, P!record, P!reading
  <2>2. P!Terminated'
    BY <1>0, <2>1 DEF P!Terminated
  <2>3. counter' \in Nat
    BY <1>b, <2>1
  <2> QED  BY <1>a, <1>c, <2>1, <2>2, <2>3, ProcTaskWrites DEF ProcPlaces
<1> QED  BY <1>1, <1>2, <1>3, <1>4 DEF P!Data

\* A step that moves the task in its open file.
LEMMA ProcTaskReads ==
    ASSUME FileParameters, ProcInv, NEW t \in Tasks,
           UNCHANGED <<pmod, entries, m_seq_buf, m_seq_buf_len, m_seq_buf_lock, failed,
                       version, mine, proc_buf, counter>>,
           NEW p \in ProcPlaces, ppc' = [ppc EXCEPT ![t] = p],
           NEW q \in Positions, pos' = [pos EXCEPT ![t] = q],
           NEW g \in Seq(ProcByte), got' = [got EXCEPT ![t] = g],
           NEW x \in BOOLEAN, mixed' = [mixed EXCEPT ![t] = x],
           ppc[t] \in {"out", "seq show", "seq next"}, p \in {"out", "seq show", "seq next"},
           p # "out" => "seq" \in entries /\ q = 0,
           q # NULL => "seq" \in entries,
           q = 0 /\ p # "seq next" => g = <<>>,
           ~x => OneWriteGot(t)'
    PROVE  ProcInv'
<1>1. /\ ppc \in [Tasks -> ProcPlaces] /\ mine \in [Tasks -> Writes]
      /\ pos \in [Tasks -> Positions] /\ got \in [Tasks -> Seq(ProcByte)]
      /\ SharedTyped /\ RecordWhole /\ ProcTask(t) /\ P!Terminated
  BY DEF ProcInv, ProcTyped
<1>2. mixed \in [Tasks -> BOOLEAN]
  BY DEF ProcInv, ProcTyped
<1>3. SharedTyped' /\ RecordWhole' /\ P!Terminated'
  BY <1>1 DEF SharedTyped, RecordWhole, OneRecord, P!Terminated
<1>4. /\ ppc'[t] = p /\ pos'[t] = q /\ got'[t] = g /\ mine[t] \in Writes
      /\ mine' = [mine EXCEPT ![t] = mine[t]]
  BY <1>1
<1>5. mixed'[t] = x
  BY <1>2
<1>6. m_seq_buf_lock' = m_seq_buf_lock /\ m_seq_buf_lock # t
  BY <1>1 DEF ProcTask
<1>7. p # "out" => P!Using(t)' = "seq"
  BY <1>4 DEF P!Using
<1>8. ProcTask(t)'
  BY <1>4, <1>5, <1>6, <1>7 DEF ProcTask
<1> QED  BY <1>3, <1>4, <1>8, ProcTaskMoves

\* What is shown is the record, byte after byte.
LEMMA ShownRecord ==
    ASSUME NEW n \in Nat, NEW f \in [P!Bytes -> ProcByte], n <= ProcSize, ProcSize \in Nat
    PROVE  LET s == <<>> \o [i \in 1..n |-> f[i - 1]]
           IN  s \in Seq(ProcByte) /\ Len(s) = n /\ \A i \in 1..n : s[i] = f[i - 1]
<1> DEFINE r == [i \in 1..n |-> f[i - 1]]
<1>1. \A i \in 1..n : f[i - 1] \in ProcByte
  BY DEF P!Bytes
<1>2. r \in Seq(ProcByte) /\ Len(r) = n
  BY <1>1, IsASeq
<1>3. \A i \in 1..n : r[i] = f[i - 1]
  OBVIOUS
<1> HIDE DEF r
<1>4. <<>> \o r = r
  BY <1>2, ConcatEmptySeq
<1> QED  BY <1>2, <1>3, <1>4 DEF r

\* What the task copies into m_seq_buf, under the lock.
LEMMA ProcSeqStep ==
    ASSUME FileParameters, ProcInv, NEW t \in Tasks, P!Seq_(t) PROVE ProcInv'
<1>0. /\ ppc \in [Tasks -> ProcPlaces] /\ mine \in [Tasks -> Writes] /\ ProcTask(t)
      /\ pos \in [Tasks -> Positions] /\ got \in [Tasks -> Seq(ProcByte)]
      /\ mixed \in [Tasks -> BOOLEAN] /\ SharedTyped /\ P!Terminated /\ RecordWhole
      /\ \A u \in Tasks : ppc[u] = "seq copy" => m_seq_buf_lock = u
  BY DEF ProcInv, ProcTyped, ProcTask
<1>a. /\ ProcSize \in Nat /\ ProcSize > 1 /\ P!Bytes = 0..ProcSize - 1
      /\ P!Nul \in ProcByte /\ P!Nul.count = 0 /\ NULL \notin Tasks /\ NULL \notin Nat
  BY DEF FileParameters, P!Bytes, P!Nul, P!ByteOf, ProcByte
<1>b. P!NoWrite \in Writes
  BY <1>a DEF P!NoWrite, Writes
<1>c. /\ mine[t] \in Writes /\ mine[t].done \in Nat /\ mine[t].byte \in ProcByte
      /\ mine[t].byte.count \in Nat /\ mine = [mine EXCEPT ![t] = mine[t]]
      /\ ppc = [ppc EXCEPT ![t] = ppc[t]] /\ ppc[t] \in ProcPlaces
      /\ pos = [pos EXCEPT ![t] = pos[t]] /\ pos[t] \in Positions
      /\ got = [got EXCEPT ![t] = got[t]] /\ got[t] \in Seq(ProcByte)
  BY <1>0 DEF Writes, ProcByte
<1>d. mixed = [mixed EXCEPT ![t] = mixed[t]] /\ mixed[t] \in BOOLEAN
  BY <1>0
<1>e. /\ version \in Nat /\ counter \in Nat /\ proc_buf \in [P!Bytes -> ProcByte]
      /\ m_seq_buf \in [P!Bytes -> ProcByte] /\ m_seq_buf_len \in 0..ProcSize
  BY <1>0 DEF SharedTyped
<1>f. ASSUME proc_buf' = proc_buf PROVE P!Terminated'
  BY <1>0, <1>f DEF P!Terminated
<1>1. CASE P!SeqWrite(t)
  <2>1. PICK n \in 0..ProcSize - 1 : P!Begin(t, n)
    BY <1>1 DEF P!SeqWrite
  <2>2. PICK m \in Writes : /\ mine' = [mine EXCEPT ![t] = m] /\ m.done = 0
                            /\ m.byte.count = n /\ version' \in Nat
    BY <1>a, <2>1, WriteBegins
  <2>3. m.done <= m.byte.count /\ m.byte.count < ProcSize
    BY <1>a, <2>2
  <2>4. /\ ppc[t] = "out" /\ ppc' = [ppc EXCEPT ![t] = "seq write"] /\ "seq" \in entries
        /\ UNCHANGED <<pmod, entries, m_seq_buf, m_seq_buf_len, m_seq_buf_lock, failed,
                       pos, got, mixed, proc_buf, counter>>
    BY <1>1 DEF P!SeqWrite, P!Goto, P!module, P!generic, P!record, P!reading
  <2>5. P!Using(t)' = "seq"
    BY <1>0, <2>4 DEF P!Using
  <2> QED  BY <1>e, <1>f, <2>2, <2>3, <2>4, <2>5, ProcTaskWrites DEF ProcPlaces
<1>2. CASE P!SeqLock(t)
  <2>1. /\ ppc[t] = "seq write" /\ ppc' = [ppc EXCEPT ![t] = "seq copy"]
        /\ m_seq_buf_lock = NULL /\ m_seq_buf_lock' = t
        /\ UNCHANGED <<pmod, entries, m_seq_buf, m_seq_buf_len, failed,
                       pos, got, mixed, proc_buf, counter, version, mine>>
    BY <1>2 DEF P!SeqLock, P!Goto, P!module, P!generic, P!reading
  <2>2. SharedTyped'
    BY <1>0, <2>1 DEF SharedTyped
  <2>3. RecordWhole'
    BY <1>a, <2>1 DEF RecordWhole
  <2>4. /\ ppc'[t] = "seq copy" /\ mine' = mine /\ pos' = pos /\ got' = got /\ mixed' = mixed
        /\ P!Using(t)' = "seq" /\ P!Using(t) = "seq"
    BY <1>0, <2>1 DEF P!Using
  <2>5. \A i \in P!Bytes : ~(i < mine[t].done)
    <3>1. mine[t].done = 0
      BY <1>0, <2>1 DEF ProcTask
    <3> QED  BY <1>a, <3>1
  <2>6. ProcTask(t)'
    BY <1>0, <2>1, <2>4, <2>5 DEF ProcTask, OneWriteGot
  <2>7. \A u \in Tasks : u # t => (m_seq_buf_lock' = u <=> m_seq_buf_lock = u)
    BY <1>a, <2>1
  <2>8. mine' = [mine EXCEPT ![t] = mine[t]] /\ pos' = [pos EXCEPT ![t] = pos[t]]
        /\ got' = [got EXCEPT ![t] = got[t]]
    BY <1>c, <2>1
  <2>9. mixed' = [mixed EXCEPT ![t] = mixed[t]]
    BY <1>d, <2>1
  <2> QED  BY <1>c, <1>d, <1>f, <2>1, <2>2, <2>3, <2>6, <2>7, <2>8, <2>9, ProcTaskMoves DEF ProcPlaces
<1>3. CASE P!SeqCopy(t)
  <2>1. /\ ppc[t] = "seq copy" /\ mine[t].done # mine[t].byte.count
        /\ m_seq_buf' = [m_seq_buf EXCEPT ![mine[t].done] = mine[t].byte]
        /\ mine' = [mine EXCEPT ![t].done = @ + 1]
        /\ UNCHANGED <<pmod, entries, m_seq_buf_len, m_seq_buf_lock, failed,
                       pos, got, mixed, ppc, version, counter, proc_buf>>
    BY <1>3 DEF P!SeqCopy, P!Copied, P!Count, P!CopyTo, P!CopyOne, P!module, P!generic, P!reading
  <2> DEFINE m == [mine[t] EXCEPT !.done = mine[t].done + 1]
  <2>2. mine' = [mine EXCEPT ![t] = m]
    BY <1>0, <2>1
  <2>3. mine[t].done < mine[t].byte.count /\ mine[t].byte.count < ProcSize
    <3>1. mine[t].done <= mine[t].byte.count /\ mine[t].byte.count < ProcSize
      BY <1>0, <2>1 DEF ProcTask
    <3>2. mine[t].done # mine[t].byte.count
      BY <2>1
    <3> QED  BY <1>c, <3>1, <3>2
  <2>4. m \in Writes /\ m.done = mine[t].done + 1 /\ m.byte = mine[t].byte
    BY <1>c DEF Writes
  <2> HIDE DEF m
  <2>5. m.done <= m.byte.count /\ m.byte.count < ProcSize
    BY <1>c, <2>3, <2>4
  <2>6. SharedTyped'
    <3>1. m_seq_buf' \in [P!Bytes -> ProcByte]
      BY <1>c, <1>e, <2>1
    <3> QED  BY <1>0, <2>1, <3>1 DEF SharedTyped
  <2>7. m_seq_buf_lock = t /\ m_seq_buf_lock' = t /\ RecordWhole'
    BY <1>0, <1>a, <2>1 DEF RecordWhole
  <2>8. ASSUME NEW i \in P!Bytes, i < m.done PROVE m_seq_buf'[i] = m.byte
    <3>1. CASE i = mine[t].done
      BY <1>e, <2>1, <2>4, <3>1
    <3>2. CASE i # mine[t].done
      <4>1. i < mine[t].done
        BY <1>a, <1>c, <2>4, <2>8, <3>2
      <4>2. m_seq_buf[i] = mine[t].byte
        BY <1>0, <2>1, <4>1 DEF ProcTask
      <4> QED  BY <1>e, <2>1, <2>4, <3>2, <4>2
    <3> QED  BY <3>1, <3>2
  <2>9. /\ ppc'[t] = "seq copy" /\ mine'[t] = m /\ pos' = pos /\ got' = got /\ mixed' = mixed
        /\ entries' = entries /\ P!Using(t)' = P!Using(t)
    BY <1>0, <2>1, <2>2 DEF P!Using
  <2>10. ProcTask(t)'
    BY <1>0, <2>1, <2>5, <2>7, <2>8, <2>9 DEF ProcTask, OneWriteGot
  <2>11. \A u \in Tasks : u # t => ppc[u] # "seq copy"
    BY <1>0, <2>7
  <2>12. /\ ppc' = [ppc EXCEPT ![t] = ppc[t]] /\ pos' = [pos EXCEPT ![t] = pos[t]]
         /\ got' = [got EXCEPT ![t] = got[t]] /\ m \in Writes
    BY <1>c, <2>1, <2>4
  <2>13. mixed' = [mixed EXCEPT ![t] = mixed[t]]
    BY <1>d, <2>1
  <2>14. UNCHANGED <<pmod, entries, m_seq_buf_lock, proc_buf>>
    BY <2>1
  <2> QED  BY <1>c, <1>d, <1>f, <2>2, <2>6, <2>7, <2>10, <2>11, <2>12, <2>13, <2>14, ProcTaskMoves
<1>4. CASE P!SeqFault(t)
  <2>1. /\ ppc[t] = "seq copy" /\ ppc' = [ppc EXCEPT ![t] = "out"]
        /\ mine' = [mine EXCEPT ![t] = P!NoWrite] /\ m_seq_buf_lock' = NULL /\ failed' = TRUE
        /\ UNCHANGED <<pmod, entries, m_seq_buf, m_seq_buf_len, pos, got, mixed, proc_buf,
                       version, counter>>
    BY <1>4 DEF P!SeqFault, P!End, P!Goto, P!module, P!generic, P!reading
  <2>2. SharedTyped' /\ RecordWhole'
    BY <1>0, <2>1 DEF SharedTyped, RecordWhole
  <2>3. ppc'[t] = "out" /\ pos' = pos /\ got' = got /\ mixed' = mixed
        /\ m_seq_buf_lock = t /\ m_seq_buf_lock' # t
    BY <1>0, <1>a, <2>1
  <2>4. ProcTask(t)'
    BY <1>0, <2>1, <2>3 DEF ProcTask, OneWriteGot
  <2>5. pos' = [pos EXCEPT ![t] = pos[t]] /\ got' = [got EXCEPT ![t] = got[t]]
    BY <1>c, <2>1
  <2>6. mixed' = [mixed EXCEPT ![t] = mixed[t]]
    BY <1>d, <2>1
  <2>7. \A u \in Tasks : u # t => (m_seq_buf_lock' = u <=> m_seq_buf_lock = u)
    BY <1>a, <2>1, <2>3
  <2> QED  BY <1>b, <1>c, <1>d, <1>f, <2>1, <2>2, <2>4, <2>5, <2>6, <2>7, ProcTaskMoves DEF ProcPlaces
<1>5. CASE P!SeqEnd(t)
  <2> DEFINE n == mine[t].byte.count
  <2>1. /\ ppc[t] = "seq copy" /\ ppc' = [ppc EXCEPT ![t] = "out"] /\ mine[t].done = n
        /\ mine' = [mine EXCEPT ![t] = P!NoWrite] /\ m_seq_buf_lock' = NULL
        /\ m_seq_buf' = [m_seq_buf EXCEPT ![n] = P!Nul] /\ m_seq_buf_len' = n
        /\ failed' = FALSE
        /\ UNCHANGED <<pmod, entries, pos, got, mixed, proc_buf, version, counter>>
    BY <1>5 DEF P!SeqEnd, P!Copied, P!Count, P!End, P!Goto, P!module, P!generic, P!reading
  <2>2. n < ProcSize /\ n \in Nat
    <3>1. n < ProcSize
      BY <1>0, <2>1 DEF ProcTask
    <3> QED  BY <1>c, <3>1
  <2>3. \A i \in P!Bytes : i < n => m_seq_buf[i] = mine[t].byte
    BY <1>0, <2>1 DEF ProcTask
  <2>4. SharedTyped'
    <3>1. m_seq_buf' \in [P!Bytes -> ProcByte]
      BY <1>a, <1>e, <2>1
    <3>3. n \in 0..ProcSize
      BY <1>a, <2>2
    <3>2. m_seq_buf_len' \in 0..ProcSize
      BY <2>1, <3>3
    <3> QED  BY <1>0, <2>1, <3>1, <3>2 DEF SharedTyped
  <2>5. OneRecord'
    <3> SUFFICES ASSUME NEW i \in P!Bytes, i < n
                 PROVE  m_seq_buf'[i] = m_seq_buf'[0] /\ m_seq_buf'[0].count = n
      BY <2>1 DEF OneRecord
    <3>1. 0 \in P!Bytes /\ 0 < n /\ 0 # n /\ i # n
      BY <1>a, <2>2
    <3>2. m_seq_buf'[i] = m_seq_buf[i] /\ m_seq_buf'[0] = m_seq_buf[0]
      BY <1>e, <2>1, <3>1
    <3> QED  BY <2>3, <3>1, <3>2
  <2>6. ppc'[t] = "out" /\ pos' = pos /\ got' = got /\ mixed' = mixed
        /\ m_seq_buf_lock = t /\ m_seq_buf_lock' # t
    BY <1>0, <1>a, <2>1
  <2>7. ProcTask(t)'
    BY <1>0, <2>1, <2>6 DEF ProcTask, OneWriteGot
  <2>8. pos' = [pos EXCEPT ![t] = pos[t]] /\ got' = [got EXCEPT ![t] = got[t]]
    BY <1>c, <2>1
  <2>9. mixed' = [mixed EXCEPT ![t] = mixed[t]]
    BY <1>d, <2>1
  <2>10. \A u \in Tasks : u # t => (m_seq_buf_lock' = u <=> m_seq_buf_lock = u) /\ ppc[u] # "seq copy"
    BY <1>0, <1>a, <2>1, <2>6
  <2>11. /\ ppc' = [ppc EXCEPT ![t] = "out"] /\ mine' = [mine EXCEPT ![t] = P!NoWrite]
         /\ UNCHANGED <<pmod, entries, proc_buf>> /\ RecordWhole'
    BY <2>1, <2>5 DEF RecordWhole
  <2> HIDE DEF n
  <2> QED  BY <1>b, <1>c, <1>d, <1>f, <2>4, <2>7, <2>8, <2>9, <2>10, <2>11, ProcTaskMoves DEF ProcPlaces
<1>6. CASE P!SeqOpen(t)
  <2>1. /\ ppc[t] = "out" /\ ppc' = ppc /\ "seq" \in entries
        /\ pos' = [pos EXCEPT ![t] = 0] /\ got' = [got EXCEPT ![t] = <<>>]
        /\ mixed' = [mixed EXCEPT ![t] = FALSE]
        /\ UNCHANGED <<pmod, entries, m_seq_buf, m_seq_buf_len, m_seq_buf_lock, failed,
                       version, mine, proc_buf, counter>>
    BY <1>6 DEF P!SeqOpen, P!module, P!generic, P!record
  <2>2. ppc' = [ppc EXCEPT ![t] = "out"] /\ <<>> \in Seq(ProcByte) /\ 0 \in Positions
    BY <1>c, <2>1 DEF Positions
  <2>3. OneWriteGot(t)'
    BY <1>0, <2>1 DEF OneWriteGot
  <2> QED  BY <2>1, <2>2, <2>3, ProcTaskReads DEF ProcPlaces
<1>7. CASE P!SeqStart(t)
  <2>1. /\ ppc[t] = "out" /\ ppc' = [ppc EXCEPT ![t] = "seq show"] /\ pos[t] = 0
        /\ UNCHANGED <<pmod, entries, m_seq_buf, m_seq_buf_len, m_seq_buf_lock, failed,
                       version, mine, proc_buf, counter, pos, got, mixed>>
    BY <1>7 DEF P!SeqStart, P!Goto, P!module, P!generic, P!record, P!reading
  <2>2. "seq" \in entries /\ got[t] = <<>>
    <3>1. NULL # 0
      BY <1>a
    <3> QED  BY <1>0, <2>1, <3>1 DEF ProcTask
  <2>3. pos' = [pos EXCEPT ![t] = pos[t]] /\ got' = [got EXCEPT ![t] = got[t]]
    BY <1>c, <2>1
  <2>4. mixed' = [mixed EXCEPT ![t] = mixed[t]]
    BY <1>d, <2>1
  <2>5. OneWriteGot(t)'
    BY <2>1, <2>2 DEF OneWriteGot
  <2> QED  BY <1>c, <1>d, <2>1, <2>2, <2>3, <2>4, <2>5, ProcTaskReads DEF ProcPlaces
<1>8. CASE P!SeqShow(t)
  <2> DEFINE s == got[t] \o [i \in 1..m_seq_buf_len |-> m_seq_buf[i - 1]]
  <2>1. /\ ppc[t] = "seq show" /\ ppc' = [ppc EXCEPT ![t] = "seq next"]
        /\ got' = [got EXCEPT ![t] = s] /\ m_seq_buf_lock = NULL
        /\ UNCHANGED <<pmod, entries, m_seq_buf, m_seq_buf_len, m_seq_buf_lock, failed,
                       version, mine, proc_buf, counter, pos>>
    BY <1>8 DEF P!SeqShow, P!Show, P!Goto, P!module, P!generic, P!record
  <2>2. /\ mixed' = [mixed EXCEPT ![t] = failed] /\ failed \in BOOLEAN
    BY <1>0, <1>8 DEF P!SeqShow, P!Show, SharedTyped
  <2>3. pos[t] = 0 /\ got[t] = <<>> /\ "seq" \in entries
    <3>1. P!Using(t) = "seq"
      BY <2>1 DEF P!Using
    <3> QED  BY <1>0, <2>1, <3>1 DEF ProcTask
  <2>4. /\ s \in Seq(ProcByte) /\ Len(s) = m_seq_buf_len
        /\ \A i \in 1..m_seq_buf_len : s[i] = m_seq_buf[i - 1]
    <3>1. m_seq_buf_len \in Nat /\ m_seq_buf_len <= ProcSize
      BY <1>a, <1>e
    <3> QED  BY <1>a, <1>e, <2>3, <3>1, ShownRecord
  <2> HIDE DEF s
  <2>5. got'[t] = s
    BY <1>0, <2>1
  <2>6. ASSUME ~failed, s # <<>>
        PROVE  (\A i \in DOMAIN s : s[i] = s[1]) /\ Len(s) = s[1].count
    <3>1. OneRecord
      BY <1>0, <2>1, <2>6 DEF RecordWhole
    <3>2. m_seq_buf_len \in Nat /\ m_seq_buf_len <= ProcSize
      BY <1>a, <1>e
    <3>3. m_seq_buf_len > 0 /\ DOMAIN s = 1..m_seq_buf_len
      BY <2>4, <2>6, <3>2, EmptySeq, LenProperties
    <3>4. ASSUME NEW i \in 1..m_seq_buf_len
          PROVE  s[i] = m_seq_buf[0] /\ m_seq_buf[0].count = m_seq_buf_len
      <4>1. i - 1 \in P!Bytes /\ i - 1 < m_seq_buf_len
        BY <1>a, <3>2
      <4> QED  BY <2>4, <3>1, <4>1 DEF OneRecord
    <3>5. 1 \in 1..m_seq_buf_len
      BY <3>2, <3>3
    <3> QED  BY <2>4, <3>3, <3>4, <3>5
  <2>7. ~failed => OneWriteGot(t)'
    BY <2>5, <2>6 DEF OneWriteGot
  <2>8. pos' = [pos EXCEPT ![t] = pos[t]]
    BY <1>c, <2>1
  <2> QED  BY <1>c, <2>1, <2>2, <2>3, <2>4, <2>7, <2>8, ProcTaskReads DEF ProcPlaces
<1>9. CASE P!SeqNext(t)
  <2>1. /\ ppc[t] = "seq next" /\ ppc' = [ppc EXCEPT ![t] = "out"]
        /\ pos' = [pos EXCEPT ![t] = @ + 1]
        /\ UNCHANGED <<pmod, entries, m_seq_buf, m_seq_buf_len, m_seq_buf_lock, failed,
                       version, mine, proc_buf, counter, got, mixed>>
    BY <1>9 DEF P!SeqNext, P!Goto, P!module, P!generic, P!record
  <2>2. pos[t] = 0 /\ "seq" \in entries
    <3>1. P!Using(t) = "seq"
      BY <2>1 DEF P!Using
    <3> QED  BY <1>0, <2>1, <3>1 DEF ProcTask
  <2>3. pos' = [pos EXCEPT ![t] = 1]
    <3>1. pos' = [pos EXCEPT ![t] = pos[t] + 1]
      BY <2>1
    <3>2. 0 + 1 = 1
      OBVIOUS
    <3> QED  BY <2>2, <3>1, <3>2
  <2>4. got' = [got EXCEPT ![t] = got[t]] /\ 1 \in Positions
    BY <1>c, <2>1 DEF Positions
  <2>7. 1 # 0
    OBVIOUS
  <2>5. mixed' = [mixed EXCEPT ![t] = mixed[t]]
    BY <1>d, <2>1
  <2>6. ~mixed[t] => OneWriteGot(t)'
    BY <1>0, <2>1 DEF ProcTask, OneWriteGot
  <2> QED  BY <1>c, <1>d, <2>1, <2>2, <2>3, <2>4, <2>5, <2>6, <2>7, ProcTaskReads DEF ProcPlaces
<1>10. CASE P!SeqClose(t)
  <2>1. /\ ppc[t] = "out" /\ ppc' = ppc
        /\ pos' = [pos EXCEPT ![t] = NULL] /\ got' = [got EXCEPT ![t] = <<>>]
        /\ mixed' = [mixed EXCEPT ![t] = FALSE]
        /\ UNCHANGED <<pmod, entries, m_seq_buf, m_seq_buf_len, m_seq_buf_lock, failed,
                       version, mine, proc_buf, counter>>
    BY <1>10 DEF P!SeqClose, P!module, P!generic, P!record
  <2>2. ppc' = [ppc EXCEPT ![t] = "out"] /\ <<>> \in Seq(ProcByte) /\ NULL \in Positions
    BY <1>c, <2>1 DEF Positions
  <2>3. OneWriteGot(t)'
    BY <1>0, <2>1 DEF OneWriteGot
  <2> QED  BY <1>a, <2>1, <2>2, <2>3, ProcTaskReads DEF ProcPlaces
<1> QED  BY <1>1, <1>2, <1>3, <1>4, <1>5, <1>6, <1>7, <1>8, <1>9, <1>10 DEF P!Seq_

\* Each step of the proc demo keeps its invariant.
LEMMA ProcStep == ASSUME FileParameters, ProcInv, P!Next PROVE ProcInv'
BY ProcModuleStep, ProcGenericStep, ProcDataStep, ProcSeqStep DEF P!Next

\* From the invariant: proc_buf is a text, a reader gets one write, no entry is left.
LEMMA ProcSound == ASSUME ProcInv PROVE P!Terminated /\ P!ReadsOneWrite /\ P!EntriesGone
<1>1. P!Terminated
  BY DEF ProcInv
<1>2. P!ReadsOneWrite
  BY DEF ProcInv, ProcTask, OneWriteGot, P!ReadsOneWrite
<1>3. P!EntriesGone
  BY DEF ProcInv, EntriesPhase, ProcTask, P!EntriesGone
<1> QED  BY <1>1, <1>2, <1>3

-----------------------------------------------------------------------------
(* globalmem: what is there at each place of init and exit, and what a     *)
(* call may rely on at each of its own; on a file of one task nobody else  *)
(* moves the position between the checks of a seek and its end.            *)
MemPlaces == {"out", "transfer", "transfer at", "copy", "copy at",
              "seek", "seek low", "seek load", "seek store"}
CallArgs == [file : Files \cup {G!NoCall.file}, p : Int, n : Int]
MemTyped ==
    /\ cdevs \subseteq G!Devices /\ dev \in [Files -> G!Devices \cup {-1}]
    /\ f_pos \in [Files -> Int] /\ pc \in [Tasks -> MemPlaces] /\ arg \in [Tasks -> CallArgs]
MemPhase ==
    /\ gmod \in {"region", "kzalloc", "setup", "loaded", "failed", "kfree", "unregister", "gone"}
    /\ region \in BOOLEAN /\ (region <=> gmod \in {"kzalloc", "setup", "loaded", "kfree", "unregister"})
    /\ mem \in BOOLEAN /\ (mem <=> gmod \in {"setup", "loaded", "kfree"})
    /\ cdevs # {} => gmod \in {"setup", "loaded"}
FilesPhase == \A f \in Files : dev[f] # -1 => gmod \in {"setup", "loaded"}
Sole(f) == \A s, t \in Users[f] : s = t
MemCall(t) ==
    pc[t] # "out" =>
        /\ arg[t].file \in Files /\ dev[arg[t].file] # -1 /\ t \in Users[arg[t].file]
        /\ pc[t] \in {"transfer", "transfer at"} => arg[t].p >= 0 /\ arg[t].n >= 0
        /\ pc[t] \in {"copy", "copy at"} => arg[t].p >= 0 /\ arg[t].n >= 0 /\ arg[t].p + arg[t].n <= MemSize
        /\ Sole(arg[t].file) =>
            /\ pc[t] \in {"transfer", "seek store"} => arg[t].p \in 0..MemSize
            /\ pc[t] = "seek low" => f_pos[arg[t].file] + arg[t].p <= MemSize
            /\ pc[t] = "seek load" => f_pos[arg[t].file] + arg[t].p \in 0..MemSize
MemInv ==
    /\ MemTyped /\ MemPhase /\ FilesPhase
    /\ \A t \in Tasks : MemCall(t)
    /\ \A f \in Files : Sole(f) => f_pos[f] \in 0..MemSize

\* The module starts without memory, files or calls.
LEMMA MemStart == ASSUME FileParameters, G!Init PROVE MemInv
<1>1. /\ gmod = "region" /\ region = FALSE /\ mem = FALSE /\ cdevs = {}
      /\ dev = [f \in Files |-> -1] /\ f_pos = [f \in Files |-> 0]
      /\ pc = [t \in Tasks |-> "out"] /\ arg = [t \in Tasks |-> G!NoCall]
  BY DEF G!Init, G!None
<1>2. G!NoCall \in CallArgs
  BY DEF G!NoCall, CallArgs
<1>3. MemTyped
  BY <1>1, <1>2 DEF MemTyped, MemPlaces
<1>4. MemPhase /\ FilesPhase
  BY <1>1 DEF MemPhase, FilesPhase
<1>5. \A t \in Tasks : MemCall(t)
  BY <1>1 DEF MemCall
<1>6. \A f \in Files : f_pos[f] \in 0..MemSize
  BY <1>1 DEF FileParameters, G!GlobalMemAssumption
<1> QED  BY <1>3, <1>4, <1>5, <1>6 DEF MemInv

\* A step of one task in a call on f, or beginning or ending one there.
LEMMA MemTask ==
    ASSUME FileParameters, MemInv, NEW t \in Tasks, NEW f \in Files, dev[f] # -1, t \in Users[f],
           UNCHANGED <<gmod, region, mem, cdevs, dev>>,
           NEW p \in MemPlaces, pc' = [pc EXCEPT ![t] = p],
           NEW a \in CallArgs, arg' = [arg EXCEPT ![t] = a],
           NEW x \in Int, f_pos' = [f_pos EXCEPT ![f] = x], Sole(f) => x \in 0..MemSize,
           MemCall(t)'
    PROVE  MemInv'
<1>1. MemTyped
  BY DEF MemInv
<1>2. MemTyped'
  BY <1>1 DEF MemTyped
<1>3. MemPhase' /\ FilesPhase'
  BY DEF MemInv, MemPhase, FilesPhase
<1>4. ASSUME NEW g \in Files, Sole(g) PROVE f_pos'[g] \in 0..MemSize
  <2>1. f_pos[g] \in 0..MemSize
    BY <1>4 DEF MemInv
  <2> QED  BY <1>1, <1>4, <2>1 DEF MemTyped
<1>5. ASSUME NEW u \in Tasks PROVE MemCall(u)'
  <2>1. CASE u = t
    BY <2>1
  <2>2. CASE u # t
    <3>1. pc'[u] = pc[u] /\ arg'[u] = arg[u] /\ MemCall(u) /\ dev' = dev
      BY <1>1, <2>2 DEF MemTyped, MemInv
    <3>2. pc[u] # "out" /\ Sole(arg[u].file) => f_pos'[arg[u].file] = f_pos[arg[u].file]
      BY <1>1, <2>2, <3>1 DEF MemTyped, MemCall, Sole
    <3>3. Sole(arg[u].file)' <=> Sole(arg[u].file)
      BY <3>1 DEF Sole
    <3> QED  BY <3>1, <3>2, <3>3 DEF MemCall
  <2> QED  BY <2>1, <2>2
<1> QED  BY <1>2, <1>3, <1>4, <1>5 DEF MemInv, Sole

\* ... that leaves the position alone.
LEMMA MemTaskStays ==
    ASSUME FileParameters, MemInv, NEW t \in Tasks, NEW f \in Files, dev[f] # -1, t \in Users[f],
           UNCHANGED <<gmod, region, mem, cdevs, dev, f_pos>>,
           NEW p \in MemPlaces, pc' = [pc EXCEPT ![t] = p],
           NEW a \in CallArgs, arg' = [arg EXCEPT ![t] = a],
           MemCall(t)'
    PROVE  MemInv'
<1>1. f_pos[f] \in Int /\ f_pos' = [f_pos EXCEPT ![f] = f_pos[f]]
  BY DEF MemInv, MemTyped
<1>2. Sole(f) => f_pos[f] \in 0..MemSize
  BY DEF MemInv
<1> QED  BY <1>1, <1>2, MemTask

\* A call is over.
LEMMA MemTaskEnds ==
    ASSUME FileParameters, MemInv, NEW t \in Tasks, pc[t] # "out", G!Finish(t),
           UNCHANGED <<gmod, region, mem, cdevs, dev>>,
           \/ UNCHANGED f_pos
           \/ \E x \in Int : G!Store(t, x) /\ (Sole(arg[t].file) => x \in 0..MemSize)
    PROVE  MemInv'
<1>1. arg[t].file \in Files /\ dev[arg[t].file] # -1 /\ t \in Users[arg[t].file]
  BY DEF MemInv, MemCall
<1>2. pc' = [pc EXCEPT ![t] = "out"] /\ arg' = [arg EXCEPT ![t] = G!NoCall]
  BY DEF G!Finish
<1>3. G!NoCall \in CallArgs /\ "out" \in MemPlaces
  BY DEF G!NoCall, CallArgs, MemPlaces
<1>4. MemCall(t)'
  BY <1>2 DEF MemCall, MemInv, MemTyped
<1>5. CASE UNCHANGED f_pos
  BY <1>1, <1>2, <1>3, <1>4, <1>5, MemTaskStays
<1>6. CASE \E x \in Int : G!Store(t, x) /\ (Sole(arg[t].file) => x \in 0..MemSize)
  <2>1. PICK x \in Int : G!Store(t, x) /\ (Sole(arg[t].file) => x \in 0..MemSize)
    BY <1>6
  <2>2. f_pos' = [f_pos EXCEPT ![arg[t].file] = x]
    BY <2>1 DEF G!Store
  <2> QED  BY <1>1, <1>2, <1>3, <1>4, <2>1, <2>2, MemTask
<1> QED  BY <1>5, <1>6

\* A call begins.
LEMMA MemTaskBegins ==
    ASSUME FileParameters, MemInv, NEW t \in Tasks, NEW f \in Files, NEW x \in Int, NEW n \in Int,
           NEW to \in MemPlaces, G!Begin(t, f, x, n, to),
           to \in {"transfer", "transfer at", "copy at"} => x >= 0 /\ n >= 0,
           to = "copy at" => x + n <= MemSize,
           to \in {"transfer", "transfer at", "copy at", "seek"},
           to = "transfer" => x = f_pos[f]
    PROVE  MemInv'
<1>1. /\ dev[f] # -1 /\ t \in Users[f] /\ pc[t] = "out" /\ pc' = [pc EXCEPT ![t] = to]
      /\ arg' = [arg EXCEPT ![t] = [file |-> f, p |-> x, n |-> n]]
      /\ UNCHANGED <<gmod, region, mem, cdevs, dev, f_pos>>
  BY DEF G!Begin, G!Goto, G!module, G!None
<1>2. [file |-> f, p |-> x, n |-> n] \in CallArgs
  BY DEF CallArgs
<1>3. pc'[t] = to /\ arg'[t] = [file |-> f, p |-> x, n |-> n]
  BY <1>1 DEF MemInv, MemTyped
<1>4. Sole(f) => f_pos[f] \in 0..MemSize
  BY DEF MemInv
<1>5. pc'[t] = to /\ arg'[t].file = f /\ arg'[t].p = x /\ arg'[t].n = n /\ dev'[f] # -1
      /\ t \in Users[f]
  <2>1. dev'[f] # -1 /\ t \in Users[f]
    BY <1>1
  <2>2. [file |-> f, p |-> x, n |-> n].file = f /\ [file |-> f, p |-> x, n |-> n].p = x
        /\ [file |-> f, p |-> x, n |-> n].n = n
    OBVIOUS
  <2>3. arg'[t].file = f /\ arg'[t].p = x /\ arg'[t].n = n
    BY <1>3, <2>2, Zenon
  <2> QED  BY <1>3, <2>1, <2>3
<1>6. MemCall(t)'
  BY <1>4, <1>5 DEF MemCall, Sole
<1> QED  BY <1>1, <1>2, <1>6, MemTaskStays

\* Loading and unloading: all files are closed while there is no memory.
LEMMA MemModuleStep == ASSUME FileParameters, MemInv, G!Module PROVE MemInv'
<1>1. UNCHANGED <<dev, f_pos, pc, arg>>
  BY DEF G!Module, G!RegisterRegion, G!Kzalloc, G!FailMalloc, G!SetupCdev, G!Loaded, G!CdevDel,
         G!Kfree, G!UnregisterRegion
<1>2. cdevs' \subseteq G!Devices
  BY DEF G!Module, G!RegisterRegion, G!Kzalloc, G!FailMalloc, G!SetupCdev, G!Loaded, G!CdevDel,
         G!Kfree, G!UnregisterRegion, MemInv, MemTyped
<1>3. MemTyped'
  BY <1>1, <1>2 DEF MemInv, MemTyped
<1>4. FilesPhase' /\ MemPhase'
  <2> USE DEF MemInv, MemPhase, FilesPhase
  <2>1. CASE G!RegisterRegion
    <3>1. CASE gmod' = "kzalloc" /\ region' = TRUE
      BY <1>1, <2>1, <3>1 DEF G!RegisterRegion
    <3>2. CASE gmod' = "failed" /\ UNCHANGED region
      BY <1>1, <2>1, <3>2 DEF G!RegisterRegion
    <3> QED  BY <2>1, <3>1, <3>2 DEF G!RegisterRegion
  <2>2. CASE G!Kzalloc
    BY <1>1, <2>2 DEF G!Kzalloc
  <2>3. CASE G!FailMalloc
    BY <1>1, <2>3 DEF G!FailMalloc
  <2>4. ASSUME NEW i \in G!Devices, G!SetupCdev(i) PROVE FilesPhase' /\ MemPhase'
    BY <1>1, <2>4 DEF G!SetupCdev
  <2>5. CASE G!Loaded
    BY <1>1, <2>5 DEF G!Loaded
  <2>6. CASE G!CdevDel
    BY <1>1, <2>6 DEF G!CdevDel, G!Closed, G!None
  <2>7. CASE G!Kfree
    BY <1>1, <2>7 DEF G!Kfree
  <2>8. CASE G!UnregisterRegion
    BY <1>1, <2>8 DEF G!UnregisterRegion
  <2> QED  BY <2>1, <2>2, <2>3, <2>4, <2>5, <2>6, <2>7, <2>8 DEF G!Module
<1>5. \A t \in Tasks : MemCall(t)'
  BY <1>1 DEF MemInv, MemCall, Sole
<1> QED  BY <1>1, <1>3, <1>4, <1>5 DEF MemInv, Sole

\* Opening a file puts it at position 0, closing it needs no call of it.
LEMMA MemFileStep == ASSUME FileParameters, MemInv, NEW f \in Files, G!File(f) PROVE MemInv'
<1>1. ASSUME NEW i \in G!Devices, G!Open(f, i) PROVE MemInv'
  <2>1. /\ i \in cdevs /\ dev[f] = -1 /\ dev' = [dev EXCEPT ![f] = i]
        /\ UNCHANGED <<gmod, region, mem, cdevs, f_pos, pc, arg>>
    BY <1>1 DEF G!Open, G!None, G!module
  <2>2. MemTyped' /\ MemPhase' /\ FilesPhase'
    BY <2>1 DEF MemInv, MemTyped, MemPhase, FilesPhase
  <2>3. \A g \in Files : dev[g] # -1 => dev'[g] = dev[g]
    BY <2>1 DEF MemInv, MemTyped
  <2>4. \A t \in Tasks : MemCall(t)'
    BY <2>1, <2>3, ZenonT(40) DEF MemInv, MemCall, Sole
  <2> QED  BY <2>1, <2>2, <2>4 DEF MemInv, Sole
<1>2. CASE G!Release(f)
  <2>1. /\ dev' = [dev EXCEPT ![f] = -1] /\ f_pos' = [f_pos EXCEPT ![f] = 0]
        /\ \A t \in Tasks : pc[t] # "out" => arg[t].file # f
        /\ UNCHANGED <<gmod, region, mem, cdevs, pc, arg>>
    BY <1>2 DEF G!Release, G!None, G!module
  <2>2. MemTyped' /\ MemPhase' /\ FilesPhase'
    BY <2>1 DEF MemInv, MemTyped, MemPhase, FilesPhase
  <2>3. \A g \in Files \ {f} : dev'[g] = dev[g] /\ f_pos'[g] = f_pos[g]
    BY <2>1 DEF MemInv, MemTyped
  <2>4. \A t \in Tasks : MemCall(t)'
    BY <2>1, <2>3, ZenonT(40) DEF MemInv, MemCall, Sole
  <2>5. f_pos'[f] \in 0..MemSize
    BY <2>1 DEF MemInv, MemTyped, FileParameters, G!GlobalMemAssumption
  <2>6. \A g \in Files : Sole(g) => f_pos'[g] \in 0..MemSize
    BY <2>3, <2>5 DEF MemInv
  <2> QED  BY <2>2, <2>4, <2>6, Zenon DEF MemInv, Sole
<1> QED  BY <1>1, <1>2 DEF G!File

\* What is left of a count after the check of read and write fits in the memory.
LEMMA ClipFits ==
    ASSUME FileParameters, NEW p \in Nat, NEW n \in Nat, p < MemSize
    PROVE  G!Clip(p, n) \in Int /\ G!Clip(p, n) >= 0 /\ p + G!Clip(p, n) <= MemSize
  BY DEF FileParameters, G!GlobalMemAssumption, G!Clip

\* A seek whose checks hold of the sum leads to a place in the memory, or its end.
LEMMA SumWithin ==
    ASSUME NEW a \in Int, NEW b \in Int, NEW m \in Int, a + b >= 0, a + b <= m
    PROVE  a + b \in 0..m
OBVIOUS

\* Each step of read, write, llseek and ioctl stays in the memory.
LEMMA MemCallStep == ASSUME FileParameters, MemInv, NEW t \in Tasks, G!Call(t) PROVE MemInv'
<1>0. MemTyped /\ MemCall(t)
  BY DEF MemInv
<1>a. MemSize \in Nat /\ MemSize > 0 /\ UintModulus \in Nat /\ UintModulus > MemSize
  BY DEF FileParameters, G!GlobalMemAssumption
<1>b. /\ arg[t].p \in Int /\ arg[t].n \in Int /\ pc[t] \in MemPlaces
      /\ \A f \in Files : f_pos[f] \in Int
  BY <1>0 DEF MemTyped, CallArgs
<1>1. ASSUME NEW f \in Files, G!Transfer(t, f) PROVE MemInv'
  <2>1. CASE f_pos[f] >= 0 /\ \E n \in G!Counts : G!Begin(t, f, f_pos[f], n, "transfer")
    <3>1. PICK n \in G!Counts : G!Begin(t, f, f_pos[f], n, "transfer")
      BY <2>1
    <3>2. n \in Int /\ n >= 0 /\ f_pos[f] \in Int
      BY <1>0, <1>a DEF G!Counts, MemTyped
    <3> QED  BY <2>1, <3>1, <3>2, MemTaskBegins DEF MemPlaces
  <2>2. CASE G!Begin(t, f, 1, MemSize + 1, "transfer at")
    <3>1. PICK x \in Int, n \in Int : x = 1 /\ n = MemSize + 1
      BY <1>a
    <3>2. G!Begin(t, f, x, n, "transfer at")
      BY <2>2, <3>1
    <3>3. x >= 0 /\ n >= 0
      BY <1>a, <3>1
    <3> QED  BY <3>2, <3>3, MemTaskBegins DEF MemPlaces
  <2> QED  BY <1>1, <2>1, <2>2 DEF G!Transfer
<1>2. ASSUME NEW f \in Files, G!Clear(t, f) PROVE MemInv'
  <2>1. PICK x \in Int, n \in Int : x = 0 /\ n = MemSize
    BY <1>a
  <2>2. G!Begin(t, f, x, n, "copy at")
    BY <1>2, <2>1 DEF G!Clear
  <2>3. x >= 0 /\ n >= 0 /\ x + n <= MemSize
    BY <1>a, <2>1
  <2> QED  BY <2>2, <2>3, MemTaskBegins DEF MemPlaces
<1>3. ASSUME NEW f \in Files, NEW o \in G!Offsets, G!SeekSet(t, f, o) PROVE MemInv'
  <2>1. /\ dev[f] # -1 /\ t \in Users[f] /\ pc[t] = "out" /\ G!Unsigned(o) <= MemSize
        /\ f_pos' = [f_pos EXCEPT ![f] = G!Unsigned(o)]
        /\ UNCHANGED <<gmod, region, mem, cdevs, dev, pc, arg>>
    BY <1>3 DEF G!SeekSet, G!module, G!None
  <2>2. G!Unsigned(o) \in 0..MemSize
    BY <1>a, <2>1 DEF G!Unsigned, G!Offsets
  <2>3. /\ pc' = [pc EXCEPT ![t] = pc[t]] /\ arg' = [arg EXCEPT ![t] = arg[t]]
        /\ pc[t] \in MemPlaces /\ arg[t] \in CallArgs
    BY <1>0, <2>1 DEF MemTyped
  <2>4. MemCall(t)'
    BY <2>1 DEF MemCall
  <2>5. PICK x \in Int : x = G!Unsigned(o) /\ x \in 0..MemSize
    BY <1>a, <2>2
  <2>6. f_pos' = [f_pos EXCEPT ![f] = x]
    BY <2>1, <2>5
  <2> QED  BY <2>1, <2>3, <2>4, <2>5, <2>6, MemTask
<1>4. ASSUME NEW f \in Files, NEW o \in G!Offsets, G!SeekCur(t, f, o) PROVE MemInv'
  <2>1. o \in Int
    BY <1>a DEF G!Offsets
  <2>2. PICK n \in Int : n = 0
    OBVIOUS
  <2>3. G!Begin(t, f, o, n, "seek")
    BY <1>4, <2>2 DEF G!SeekCur
  <2> QED  BY <2>1, <2>3, MemTaskBegins DEF MemPlaces
<1>5. CASE G!TransferNothing(t)
  <2>1. pc[t] \in {"transfer", "transfer at"} /\ G!Finish(t)
    BY <1>5 DEF G!TransferNothing
  <2>2. UNCHANGED <<gmod, region, mem, cdevs, dev>>
    BY <1>5 DEF G!TransferNothing, G!module
  <2>3. arg[t].p \in Int /\ arg[t].p >= MemSize
    BY <1>0, <1>5 DEF MemTyped, CallArgs, G!TransferNothing
  <2>4. CASE pc[t] = "transfer" /\ G!Store(t, arg[t].p)
    <3>1. Sole(arg[t].file) => arg[t].p \in 0..MemSize
      BY <1>0, <2>4 DEF MemCall
    <3> QED  BY <2>1, <2>2, <2>3, <2>4, <3>1, MemTaskEnds
  <2>5. CASE UNCHANGED f_pos
    BY <2>1, <2>2, <2>5, MemTaskEnds
  <2> QED  BY <1>5, <2>4, <2>5 DEF G!TransferNothing
<1>6. CASE G!TransferCopy(t)
  <2>1. /\ arg[t].p < MemSize /\ UNCHANGED <<gmod, region, mem, cdevs, dev, f_pos>>
        /\ pc[t] \in {"transfer", "transfer at"}
        /\ \E to \in {"copy", "copy at"} : pc' = [pc EXCEPT ![t] = to]
        /\ arg' = [arg EXCEPT ![t].n = G!Clip(arg[t].p, @)]
    BY <1>6 DEF G!TransferCopy, G!Goto, G!module
  <2>2. PICK to \in MemPlaces : to \in {"copy", "copy at"} /\ pc' = [pc EXCEPT ![t] = to]
    BY <2>1 DEF MemPlaces
  <2>3. /\ arg[t].p \in Int /\ arg[t].n \in Int /\ arg[t].file \in Files
        /\ dev[arg[t].file] # -1 /\ t \in Users[arg[t].file] /\ arg[t].p >= 0 /\ arg[t].n >= 0
    BY <1>0, <2>1 DEF MemTyped, CallArgs, MemCall
  <2> DEFINE n == G!Clip(arg[t].p, arg[t].n)
  <2>4. n \in Int /\ n >= 0 /\ arg[t].p + n <= MemSize
    <3>1. arg[t].p < MemSize
      BY <2>1
    <3>2. arg[t].p \in Nat /\ arg[t].n \in Nat
      BY <2>3
    <3> QED  BY <3>1, <3>2, ClipFits
  <2>5. arg' = [arg EXCEPT ![t] = [arg[t] EXCEPT !.n = n]]
    BY <2>1, <1>0 DEF MemTyped
  <2> HIDE DEF n
  <2>6. [arg[t] EXCEPT !.n = n] \in CallArgs
    BY <1>0, <2>4 DEF MemTyped, CallArgs
  <2>7. pc'[t] = to /\ arg'[t].file = arg[t].file /\ arg'[t].p = arg[t].p /\ arg'[t].n = n
    BY <1>0, <2>2, <2>5 DEF MemTyped, CallArgs
  <2>8. MemCall(t)'
    <3>1. dev' = dev /\ pc'[t] \in {"copy", "copy at"}
      BY <2>1, <2>2, <2>7
    <3>2. /\ arg'[t].file \in Files /\ dev'[arg'[t].file] # -1 /\ t \in Users[arg'[t].file]
          /\ arg'[t].p >= 0 /\ arg'[t].n >= 0
      BY <2>3, <2>4, <2>7, <3>1
    <3>3. arg'[t].p + arg'[t].n <= MemSize
      BY <2>4, <2>7
    <3> QED  BY <3>1, <3>2, <3>3 DEF MemCall
  <2> QED  BY <2>1, <2>2, <2>3, <2>5, <2>6, <2>8, MemTaskStays DEF MemPlaces
<1>7. CASE G!TransferEnds(t)
  <2>1. pc[t] \in {"copy", "copy at"} /\ G!Finish(t)
    BY <1>7 DEF G!TransferEnds
  <2>2. UNCHANGED <<gmod, region, mem, cdevs, dev>>
    BY <1>7 DEF G!TransferEnds, G!module
  <2>3. arg[t].p + arg[t].n \in 0..MemSize
    <3>1. arg[t].p >= 0 /\ arg[t].n >= 0 /\ arg[t].p + arg[t].n <= MemSize
      BY <1>0, <2>1 DEF MemCall
    <3> QED  BY <1>b, <3>1
  <2>6. PICK x \in Int : x = arg[t].p + arg[t].n /\ x \in 0..MemSize
    BY <1>a, <2>3
  <2>4. CASE G!Store(t, arg[t].p + arg[t].n)
    <3>1. G!Store(t, x)
      BY <2>4, <2>6
    <3> QED  BY <2>1, <2>2, <2>6, <3>1, MemTaskEnds
  <2>5. CASE UNCHANGED f_pos
    BY <2>1, <2>2, <2>5, MemTaskEnds
  <2> QED  BY <1>7, <2>4, <2>5 DEF G!TransferEnds
<1>8. CASE G!SeekRefused(t)
  <2>1. /\ pc[t] \in {"seek", "seek low"} /\ G!Finish(t)
        /\ UNCHANGED <<gmod, region, mem, cdevs, dev, f_pos>>
    BY <1>8 DEF G!SeekRefused, G!module
  <2> QED  BY <2>1, MemTaskEnds
<1>9. CASE G!SeekLimit(t) \/ G!SeekLow(t)
  <2>0. ASSUME pc[t] = "seek low", Sole(arg[t].file), f_pos[arg[t].file] + arg[t].p >= 0
        PROVE  f_pos[arg[t].file] + arg[t].p \in 0..MemSize
    <3>1. f_pos[arg[t].file] + arg[t].p <= MemSize /\ arg[t].file \in Files
      BY <1>0, <2>0 DEF MemCall
    <3>2. f_pos[arg[t].file] \in Int /\ arg[t].p \in Int
      BY <1>b, <3>1
    <3>3. PICK x \in Int, y \in Int : x = f_pos[arg[t].file] /\ y = arg[t].p
      BY <3>2
    <3>4. x + y >= 0 /\ x + y <= MemSize
      <4>1. x + y = f_pos[arg[t].file] + arg[t].p
        BY <3>3, Zenon
      <4> QED  BY <2>0, <3>1, <4>1, Zenon
    <3>5. x + y \in 0..MemSize
      BY <1>a, <3>3, <3>4, SumWithin
    <3> QED  BY <3>3, <3>5
  <2>1. PICK to \in MemPlaces :
           /\ pc' = [pc EXCEPT ![t] = to] /\ pc[t] \in {"seek", "seek low"}
           /\ to \in {"seek low", "seek load"}
           /\ to = "seek low" => f_pos[arg[t].file] + arg[t].p <= MemSize
           /\ to = "seek load" => f_pos[arg[t].file] + arg[t].p >= 0 /\ pc[t] = "seek low"
           /\ UNCHANGED <<gmod, region, mem, cdevs, dev, f_pos, arg>>
    BY <1>9 DEF G!SeekLimit, G!SeekLow, G!Goto, G!Sought, G!module, MemPlaces
  <2>2. /\ arg[t].p \in Int /\ arg[t].file \in Files /\ f_pos[arg[t].file] \in Int
        /\ dev[arg[t].file] # -1 /\ t \in Users[arg[t].file]
    BY <1>0, <2>1 DEF MemTyped, CallArgs, MemCall
  <2>3. arg' = [arg EXCEPT ![t] = arg[t]] /\ arg[t] \in CallArgs /\ pc'[t] = to
    BY <1>0, <2>1 DEF MemTyped
  <2>4. to = "seek load" /\ Sole(arg[t].file) => f_pos[arg[t].file] + arg[t].p \in 0..MemSize
    BY <2>1, <2>0
  <2>5. MemCall(t)'
    BY <2>1, <2>2, <2>3, <2>4 DEF MemCall, Sole
  <2> QED  BY <2>1, <2>2, <2>3, <2>5, MemTaskStays DEF MemPlaces
<1>10. CASE G!SeekLoad(t)
  <2> DEFINE x == f_pos[arg[t].file] + arg[t].p
  <2>1. /\ pc[t] = "seek load" /\ pc' = [pc EXCEPT ![t] = "seek store"]
        /\ arg' = [arg EXCEPT ![t].p = x]
        /\ UNCHANGED <<gmod, region, mem, cdevs, dev, f_pos>>
    BY <1>10 DEF G!SeekLoad, G!Goto, G!Sought, G!module
  <2>2. /\ arg[t].file \in Files /\ x \in Int
        /\ dev[arg[t].file] # -1 /\ t \in Users[arg[t].file]
    <3>1. arg[t].file \in Files /\ dev[arg[t].file] # -1 /\ t \in Users[arg[t].file]
      BY <1>0, <2>1 DEF MemCall
    <3> QED  BY <1>b, <3>1
  <2>3. Sole(arg[t].file) => x \in 0..MemSize
    BY <1>0, <2>1 DEF MemCall
  <2> HIDE DEF x
  <2>5. arg' = [arg EXCEPT ![t] = [arg[t] EXCEPT !.p = x]]
    BY <2>1, <1>0 DEF MemTyped
  <2>6. [arg[t] EXCEPT !.p = x] \in CallArgs
    BY <1>0, <2>2 DEF MemTyped, CallArgs
  <2>7. pc'[t] = "seek store" /\ arg'[t].file = arg[t].file /\ arg'[t].p = x
    BY <1>0, <2>1, <2>5 DEF MemTyped, CallArgs
  <2>8. MemCall(t)'
    BY <2>1, <2>2, <2>3, <2>7 DEF MemCall, Sole
  <2> QED  BY <2>1, <2>2, <2>5, <2>6, <2>8, MemTaskStays DEF MemPlaces
<1>11. CASE G!SeekStore(t)
  <2>1. /\ pc[t] = "seek store" /\ G!Store(t, arg[t].p) /\ G!Finish(t)
        /\ UNCHANGED <<gmod, region, mem, cdevs, dev>>
    BY <1>11 DEF G!SeekStore, G!module
  <2>2. arg[t].p \in Int /\ (Sole(arg[t].file) => arg[t].p \in 0..MemSize)
    BY <1>0, <2>1 DEF MemTyped, CallArgs, MemCall
  <2> QED  BY <2>1, <2>2, MemTaskEnds
<1> QED  BY <1>1, <1>2, <1>3, <1>4, <1>5, <1>6, <1>7, <1>8, <1>9, <1>10, <1>11 DEF G!Call

\* Each step of globalmem keeps its invariant.
LEMMA MemStep == ASSUME FileParameters, MemInv, G!Next PROVE MemInv'
  BY MemModuleStep, MemFileStep, MemCallStep DEF G!Next

\* From the invariant: copies are in the memory, the position of a file that one
\* task has for itself is in its range, and unloading gives everything back.
LEMMA MemSound == ASSUME FileParameters, MemInv PROVE G!InOwnMemory /\ G!PosInRange /\ G!AllReturned
<1>1. G!PosInRange
  BY DEF MemInv, Sole, G!PosInRange
<1>2. G!AllReturned
  BY DEF MemInv, MemPhase, G!AllReturned
<1>3. ASSUME NEW t \in Tasks, G!Touched(t) # {}
      PROVE  LET d == dev[arg[t].file]
             IN mem /\ d # -1 /\ G!Touched(t) \subseteq d * MemSize .. d * MemSize + MemSize - 1
  <2>1. pc[t] \in {"copy", "copy at"}
    BY <1>3 DEF G!Touched
  <2>2. /\ arg[t].file \in Files /\ dev[arg[t].file] # -1 /\ arg[t].p >= 0 /\ arg[t].n >= 0
        /\ arg[t].p + arg[t].n <= MemSize /\ arg[t].p \in Int /\ arg[t].n \in Int
    BY <2>1 DEF MemInv, MemCall, MemTyped, CallArgs
  <2>3. mem
    BY <2>2 DEF MemInv, FilesPhase, MemPhase
  <2> DEFINE base == dev[arg[t].file] * MemSize
  <2>4. base \in Int /\ MemSize \in Int
    BY <2>2 DEF MemInv, MemTyped, G!Devices, FileParameters, G!GlobalMemAssumption
  <2>5. G!Touched(t) = (base + arg[t].p) .. (base + arg[t].p + arg[t].n - 1)
    BY <2>1 DEF G!Touched
  <2> HIDE DEF base
  <2>6. G!Touched(t) \subseteq base .. base + MemSize - 1
    BY <2>2, <2>4, <2>5, SMTT(30)
  <2> QED  BY <2>2, <2>3, <2>6 DEF base
<1> QED  BY <1>1, <1>2, <1>3 DEF G!InOwnMemory, G!None

-----------------------------------------------------------------------------
\* alloc_chrdev_region finds a highest major number when there is one at all:
\* a finite set of numbers has a maximum.  A smallest set without one would
\* have one when the maximum of the rest is compared with the element left out.
LEMMA FiniteHasMaximum ==
    ASSUME NEW Set, IsFiniteSet(Set), Set \subseteq Nat, Set # {}
    PROVE  \E m \in Set : \A n \in Set : n <= m
<1> DEFINE HasMax(U) == \E m \in U : \A n \in U : n <= m
           Without == {U \in SUBSET Set : U # {} /\ ~HasMax(U)}
<1> SUFFICES ASSUME ~HasMax(Set) PROVE FALSE
  OBVIOUS
<1>1. Set \in Without
  OBVIOUS
<1>2. FiniteSubsetsOf(Set) = SUBSET Set
  BY FS_FiniteSubsetsOfFinite
<1>3. Without \subseteq FiniteSubsetsOf(Set) /\ Without # {}
  BY <1>1, <1>2
<1>4. PICK U \in Without : \A W \in Without : ~ (<<W, U>> \in StrictSubsetOrdering(Set))
  <2> HIDE DEF Without
  <2> QED  BY <1>3, FS_StrictSubsetOrderingWellFounded, WFMin
<1>5. PICK x \in U : TRUE
  OBVIOUS
<1>6. DEFINE W == U \ {x}
<1>7. W \notin Without
  <2>1. <<W, U>> \in (SUBSET Set) \X (SUBSET Set) /\ W \subseteq U /\ W # U
    BY <1>5
  <2>2. <<W, U>> \in StrictSubsetOrdering(Set)
    BY <2>1 DEF StrictSubsetOrdering
  <2> QED  BY <1>4, <2>2
<1>8. CASE W = {}
  <2>1. U = {x}
    BY <1>5, <1>8
  <2>2. x <= x
    BY <1>5
  <2> QED  BY <2>1, <2>2
<1>9. CASE W # {}
  <2>1. PICK y \in W : \A n \in W : n <= y
    BY <1>7, <1>9
  <2>2. x \in Nat /\ y \in Nat /\ \A n \in U : n \in Nat /\ (n = x \/ n <= y)
    BY <1>5, <2>1
  <2>3. CASE x <= y
    BY <1>5, <2>1, <2>2, <2>3
  <2>4. CASE ~(x <= y)
    <3>1. \A n \in U : n <= x
      BY <2>2, <2>4
    <3> QED  BY <1>5, <3>1
  <2> QED  BY <2>3, <2>4
<1> QED  BY <1>8, <1>9

(* The frame: the class is the demo's that is between creating and         *)
(* destroying it, a node is its demo's and under its number.  As long as   *)
(* no region has been refused, no two demos have the same number, and the  *)
(* numbers that lead to some cdev are taken.                               *)
InClass == {"cdev", "node", "loaded", "destroy", "class"}

FrameApart ==
    /\ \A d \in Demos : at[d] # "out" => \E r \in regions : r.major = dev_major[d]
    /\ \A d, e \in Demos :
          at[d] # "out" /\ at[e] # "out" /\ dev_major[d] = dev_major[e] => d = e
    /\ \A x \in F!Devs : cdev_map[x] # NULL => \E r \in regions : r.major = x[1]
    /\ \A x \in F!Devs, d \in Demos :
          at[d] # "out" /\ x[1] = dev_major[d] => cdev_map[x] \in {NULL, d}

FrameInv ==
    /\ F!TypeOK
    /\ \A d \in Demos : at[d] # "out" => dev_major[d] \in Majors
    /\ \A d \in Demos : at[d] = "loaded" => idx[d] = 0
    /\ \A d \in Demos : class = d <=> at[d] \in InClass
    /\ \A x \in F!Devs : node[x] # NULL =>
          /\ at[node[x]] \in {"cdev", "node", "loaded", "destroy"}
          /\ x[1] = dev_major[node[x]]
          /\ at[node[x]] = "destroy" => x[2] >= idx[node[x]]
    /\ ~refused => FrameApart
    /\ F!UsersFindModule

\* No module of the frame is loaded at the start.
LEMMA FrameStart == ASSUME FileParameters, F!Init PROVE FrameInv
<1> USE DEF FileParameters, F!FrameAssumption
<1>1. /\ at = [d \in Demos |-> "out"] /\ idx = [d \in Demos |-> 0]
      /\ dev_major = [d \in Demos |-> 0] /\ regions = {} /\ class = NULL
      /\ cdev_map = [n \in F!Devs |-> NULL] /\ node = [n \in F!Devs |-> NULL]
      /\ refused \in BOOLEAN /\ demo2 = FALSE /\ upc = "out" /\ ufile = NULL
  BY DEF F!Init
<1>2. F!TypeOK
  <2>1. 0 \in F!Minors
    BY DEF F!Minors, F!MAX_DEV
  <2>2. demo2 \in BOOLEAN /\ refused \in BOOLEAN
    BY <1>1
  <2>3. /\ at \in [Demos -> {"out", "region", "cdev", "node", "loaded", "destroy", "class",
                          "unregister", "oops"}]
        /\ idx \in [Demos -> F!Minors] /\ dev_major \in [Demos -> Majors \cup {0}]
        /\ cdev_map \in [F!Devs -> Demos \cup {NULL, F!Freed}]
        /\ node \in [F!Devs -> Demos \cup {NULL}]
    BY <1>1, <2>1
  <2>4. /\ regions \subseteq [major : Majors, count : {F!MAX_DEV}]
        /\ class \in Demos \cup {NULL} /\ ufile \in Demos \cup {NULL}
        /\ upc \in {"out", "first", "between", "second"}
    BY <1>1
  <2> QED  BY <2>2, <2>3, <2>4, Zenon DEF F!TypeOK
<1>3. \A d \in Demos : at[d] = "out" /\ class # d
  BY <1>1
<1>4. FrameApart
  BY <1>1 DEF FrameApart
<1>5. F!UsersFindModule
  BY <1>1 DEF F!UsersFindModule
<1>6. \A x \in F!Devs : node[x] = NULL
  BY <1>1
<1>7. \A d \in Demos : (class = d <=> at[d] \in InClass) /\ at[d] # "loaded"
  BY <1>3 DEF InClass
<1>8. \A d \in Demos : (at[d] # "out" => dev_major[d] \in Majors)
                          /\ (at[d] = "loaded" => idx[d] = 0)
  BY <1>3, <1>7
<1> QED  BY <1>2, <1>4, <1>5, <1>6, <1>7, <1>8, Zenon DEF FrameInv

\* From the invariant: a node leads to the cdev of its own module, the programs find
\* the module that they use, and unloaded modules leave no node.
LEMMA FrameSound == ASSUME FileParameters, FrameInv
                    PROVE  F!NodeLeadsHome /\ F!UsersFindModule /\ F!NodesGone
<1> USE DEF FrameInv
<1>1. ASSUME ~refused, NEW x \in F!Devs, node[x] # NULL PROVE cdev_map[x] \in {node[x], NULL}
  <2>1. node[x] \in Demos
    BY <1>1 DEF F!TypeOK
  <2>2. at[node[x]] # "out" /\ x[1] = dev_major[node[x]]
    BY <1>1
  <2> QED  BY <1>1, <2>1, <2>2 DEF FrameApart
<1>2. F!NodeLeadsHome
  BY <1>1 DEF F!NodeLeadsHome
<1>3. ASSUME NEW d \in Demos, at[d] = "out"
      PROVE  class # d /\ \A x \in F!Devs : node[x] # d
  <2>1. d # NULL
    BY DEF FileParameters, F!FrameAssumption
  <2> QED  BY <1>3, <2>1 DEF InClass
<1>4. ASSUME NEW x \in F!Devs PROVE node[x] \in {NULL, class}
  <2>1. node[x] \in Demos \cup {NULL}
    BY DEF F!TypeOK
  <2> QED  BY <2>1 DEF InClass
<1> QED  BY <1>2, <1>3, <1>4 DEF F!NodesGone

\* A step that starts or ends no demo and leaves the numbers alone.
LEMMA FrameStaysApart ==
    ASSUME FrameApart, UNCHANGED <<dev_major, regions, cdev_map>>,
           \A d \in Demos : at'[d] = "out" <=> at[d] = "out"
    PROVE  FrameApart'
BY DEF FrameApart

\* Each step of loading, unloading and the user programs keeps it.
LEMMA FrameStep == ASSUME FileParameters, FrameInv, F!Next PROVE FrameInv'
<1> USE DEF FileParameters, F!FrameAssumption, FrameInv
<1>t. /\ at \in [Demos -> {"out", "region", "cdev", "node", "loaded", "destroy", "class",
                       "unregister", "oops"}]
      /\ idx \in [Demos -> {0, 1}] /\ dev_major \in [Demos -> Majors \cup {0}]
      /\ regions \subseteq [major : Majors, count : {2}]
      /\ class \in Demos \cup {NULL}
      /\ cdev_map \in [F!Devs -> Demos \cup {NULL, F!Freed}]
      /\ node \in [F!Devs -> Demos \cup {NULL}]
      /\ upc \in {"out", "first", "between", "second"}
      /\ ufile \in Demos \cup {NULL}
  <2>1. F!Minors = {0, 1}
    BY DEF F!Minors, F!MAX_DEV
  <2> QED  BY <2>1 DEF F!TypeOK, F!MAX_DEV
<1>b. refused \in BOOLEAN /\ demo2 \in BOOLEAN
  BY DEF F!TypeOK
<1>d. ASSUME NEW d \in Demos, at[d] # "out" PROVE F!Dev(d) = <<dev_major[d], idx[d]>> /\ F!Dev(d) \in F!Devs
  <2>1. F!Minors = {0, 1}
    BY DEF F!Minors, F!MAX_DEV
  <2> QED  BY <1>t, <1>d, <2>1 DEF F!Dev, F!Devs
<1>m. ASSUME NEW x \in F!Devs PROVE x = <<x[1], x[2]>> /\ x[1] \in Majors /\ x[2] \in {0, 1}
  BY DEF F!Devs, F!Minors, F!MAX_DEV
<1>n. NULL \notin Demos
  OBVIOUS
<1>1. CASE F!UserProgram
  <2>1. UNCHANGED <<at, idx, dev_major, regions, class, cdev_map, node, refused>>
    BY <1>1 DEF F!UserProgram
  <2>2. /\ demo2' \in BOOLEAN /\ (demo2' => at[Base] = "loaded")
        /\ upc' \in {"out", "first", "between", "second"} /\ ufile' \in Demos \cup {NULL}
        /\ ufile' # NULL => at[ufile'] \in {"cdev", "node", "loaded"}
    <3>1. CASE (F!LoadDemo2 \/ F!UnloadDemo2) /\ UNCHANGED <<upc, ufile>>
      <4>1. demo2' \in BOOLEAN /\ (demo2' => at[Base] = "loaded")
        BY <3>1, Zenon DEF F!LoadDemo2, F!UnloadDemo2
      <4>2. upc' = upc /\ ufile' = ufile
        BY <3>1
      <4> QED  BY <4>1, <4>2, <1>t DEF F!UsersFindModule
    <3>2. CASE (F!OpenFirst \/ F!CloseFirst \/ F!OpenSecond \/ F!CloseSecond) /\ UNCHANGED demo2
      <4>1. demo2' \in BOOLEAN /\ (demo2' => at[Base] = "loaded")
        BY <3>2, <1>b, Zenon DEF F!UsersFindModule
      <4>2. /\ upc' \in {"out", "first", "between", "second"}
            /\ ufile' \in {e \in Demos : at[e] \in {"cdev", "node", "loaded"}} \cup {NULL}
        BY <3>2 DEF F!OpenFirst, F!CloseFirst, F!OpenSecond, F!CloseSecond, F!Leads
      <4> QED  BY <4>1, <4>2
    <3> QED  BY <1>1, <3>1, <3>2 DEF F!UserProgram
  <2>p. F!TypeOK'
    BY <2>1, <2>2, Zenon DEF F!TypeOK
  <2>v. F!UsersFindModule'
    BY <2>1, <2>2, Zenon DEF F!UsersFindModule
  <2>u. ~refused' => FrameApart'
    <3>1. refused' = refused /\ (FrameApart => FrameApart')
      BY <2>1 DEF FrameApart
    <3> QED  BY <3>1, Zenon DEF FrameInv
  <2>q. /\ \A d \in Demos : at'[d] # "out" => dev_major'[d] \in Majors
        /\ \A d \in Demos : at'[d] = "loaded" => idx'[d] = 0
        /\ \A d \in Demos : class' = d <=> at'[d] \in InClass
    BY <2>1
  <2>t. \A x \in F!Devs : node'[x] # NULL =>
          /\ at'[node'[x]] \in {"cdev", "node", "loaded", "destroy"}
          /\ x[1] = dev_major'[node'[x]]
          /\ at'[node'[x]] = "destroy" => x[2] >= idx'[node'[x]]
    BY <2>1
  <2> QED  BY <2>p, <2>q, <2>t, <2>u, <2>v, Zenon DEF FrameInv
<1>2. ASSUME NEW d \in Demos, F!AllocRegion(d) PROVE FrameInv'
  <2> DEFINE m == CHOOSE y \in F!FreeMajors : \A z \in F!FreeMajors : z <= y
  <2>1. /\ at[d] = "out" /\ at' = [at EXCEPT ![d] = "region"]
        /\ m \in Majors /\ (\A r \in regions : r.major # m)
        /\ regions' = regions \cup {[major |-> m, count |-> F!MAX_DEV]}
        /\ dev_major' = [dev_major EXCEPT ![d] = m]
        /\ UNCHANGED <<idx, class, cdev_map, node, refused, demo2, upc, ufile>>
    <3>1. F!FreeMajors # {} /\ F!FreeMajors \subseteq Majors
      BY <1>2 DEF F!AllocRegion, F!FreeMajors
    <3>2. IsFiniteSet(F!FreeMajors) /\ F!FreeMajors \subseteq Nat
      <4>1. IsFiniteSet(Majors) /\ Majors \subseteq Nat
        BY DEF F!IsFiniteSet, IsFiniteSet
      <4> QED  BY <3>1, <4>1, FS_Subset
    <3>3. \E y \in F!FreeMajors : \A z \in F!FreeMajors : z <= y
      BY <3>1, <3>2, FiniteHasMaximum
    <3>4. m \in F!FreeMajors
      BY <3>3, Zenon DEF m
    <3>5. m \in Majors /\ \A r \in regions : r.major # m
      BY <3>4 DEF F!FreeMajors
    <3> HIDE DEF m
    <3>6. /\ regions' = regions \cup {[major |-> m, count |-> F!MAX_DEV]}
          /\ dev_major' = [dev_major EXCEPT ![d] = m]
      BY <1>2 DEF F!AllocRegion, m
    <3>7. /\ at[d] = "out" /\ at' = [at EXCEPT ![d] = "region"]
          /\ UNCHANGED <<idx, class, cdev_map, node, refused, demo2, upc, ufile>>
      BY <1>2 DEF F!AllocRegion, F!Go, F!userVars
    <3> QED  BY <3>5, <3>6, <3>7
  <2> HIDE DEF m
  <2>4. /\ \A x \in F!Devs : node[x] # d
        /\ \A e \in Demos : e # d => dev_major'[e] = dev_major[e] /\ at'[e] = at[e]
    BY <2>1, <1>t, <1>n
  <2>p. F!TypeOK'
    <3>1. F!Minors = {0, 1}
      BY DEF F!Minors, F!MAX_DEV
    <3>2. /\ at' \in [Demos -> {"out", "region", "cdev", "node", "loaded", "destroy", "class",
                             "unregister", "oops"}]
          /\ idx' \in [Demos -> F!Minors] /\ dev_major' \in [Demos -> Majors \cup {0}]
      BY <2>1, <1>t, <3>1
    <3>3. /\ regions' \subseteq [major : Majors, count : {F!MAX_DEV}]
          /\ class' \in Demos \cup {NULL} /\ ufile' \in Demos \cup {NULL}
          /\ upc' \in {"out", "first", "between", "second"}
      BY <2>1, <1>t DEF F!MAX_DEV
    <3>4. /\ cdev_map' \in [F!Devs -> Demos \cup {NULL, F!Freed}]
          /\ node' \in [F!Devs -> Demos \cup {NULL}]
      BY <2>1, <1>t
    <3>5. refused' \in BOOLEAN /\ demo2' \in BOOLEAN
      BY <2>1, <1>b, Zenon
    <3> QED  BY <3>2, <3>3, <3>4, <3>5, Zenon DEF F!TypeOK
  <2>q. \A e \in Demos : at'[e] # "out" => dev_major'[e] \in Majors
    BY <2>1, <1>t
  <2>r. \A e \in Demos : at'[e] = "loaded" => idx'[e] = 0
    BY <2>1, <1>t
  <2>s. \A e \in Demos : class' = e <=> at'[e] \in InClass
    BY <2>1, <1>t, <1>n DEF InClass
  <2>t. \A x \in F!Devs : node'[x] # NULL =>
          /\ at'[node'[x]] \in {"cdev", "node", "loaded", "destroy"}
          /\ x[1] = dev_major'[node'[x]]
          /\ at'[node'[x]] = "destroy" => x[2] >= idx'[node'[x]]
    BY <2>1, <2>4, <1>t, <1>n
  <2>u. ~refused' => FrameApart'
    <3>2. refused' = refused
      BY <2>1
    <3>3. ASSUME FrameApart PROVE FrameApart'
      <4>5. dev_major'[d] = m /\ \E r \in regions' : r.major = m
        <5>1. [major |-> m, count |-> F!MAX_DEV] \in regions'
          BY <2>1
        <5>2. dev_major'[d] = m
          BY <2>1, <1>t
        <5> QED  BY <5>1, <5>2
      <4>6. \A r \in regions : r \in regions'
        BY <2>1
      <4>7. \A e \in Demos : at[e] # "out" => dev_major[e] # m
        BY <2>1, <3>3 DEF FrameApart
      <4>8. \A x \in F!Devs : x[1] = m => cdev_map[x] = NULL
        BY <2>1, <3>3 DEF FrameApart
      <4>1. \A e \in Demos : at'[e] # "out" => \E r \in regions' : r.major = dev_major'[e]
        BY <2>4, <4>5, <4>6, <3>3 DEF FrameApart
      <4>2. \A e, f \in Demos : at'[e] # "out" /\ at'[f] # "out" /\ dev_major'[e] = dev_major'[f] => e = f
        BY <2>4, <4>5, <4>7, <3>3 DEF FrameApart
      <4>3. \A x \in F!Devs : cdev_map'[x] # NULL => \E r \in regions' : r.major = x[1]
        BY <2>1, <4>6, <3>3 DEF FrameApart
      <4>4. \A x \in F!Devs, e \in Demos :
              at'[e] # "out" /\ x[1] = dev_major'[e] => cdev_map'[x] \in {NULL, e}
        BY <2>1, <2>4, <4>5, <4>8, <3>3 DEF FrameApart
      <4> QED  BY <4>1, <4>2, <4>3, <4>4 DEF FrameApart
    <3> QED  BY <3>2, <3>3, Zenon DEF FrameInv
  <2>v. F!UsersFindModule'
    <3>1. ufile # NULL => at'[ufile] \in {"cdev", "node", "loaded"}
      BY <2>1, <1>t DEF F!UsersFindModule
    <3>2. demo2 => at'[Base] = "loaded"
      BY <2>1, <1>t DEF F!UsersFindModule
    <3>3. demo2' = demo2 /\ ufile' = ufile
      BY <2>1
    <3> QED  BY <3>1, <3>2, <3>3, Zenon DEF F!UsersFindModule
  <2> QED  BY <2>p, <2>q, <2>r, <2>s, <2>t, <2>u, <2>v, Zenon DEF FrameInv
<1>3. ASSUME NEW d \in Demos, F!RegionRefused(d) PROVE FrameInv'
  <2>1. /\ at[d] = "out" /\ at' = [at EXCEPT ![d] = "region"]
        /\ (\E m \in Majors : dev_major' = [dev_major EXCEPT ![d] = m]) /\ refused' = TRUE
        /\ UNCHANGED <<idx, regions, class, cdev_map, node, demo2, upc, ufile>>
    BY <1>3 DEF F!RegionRefused, F!Go, F!userVars
  <2>4. /\ \A x \in F!Devs : node[x] # d
        /\ \A e \in Demos : e # d => dev_major'[e] = dev_major[e] /\ at'[e] = at[e]
    BY <2>1, <1>t, <1>n
  <2>p. F!TypeOK'
    <3>1. F!Minors = {0, 1}
      BY DEF F!Minors, F!MAX_DEV
    <3>2. /\ at' \in [Demos -> {"out", "region", "cdev", "node", "loaded", "destroy", "class",
                             "unregister", "oops"}]
          /\ idx' \in [Demos -> F!Minors] /\ dev_major' \in [Demos -> Majors \cup {0}]
      BY <2>1, <1>t, <3>1
    <3>3. /\ regions' \subseteq [major : Majors, count : {F!MAX_DEV}]
          /\ class' \in Demos \cup {NULL} /\ ufile' \in Demos \cup {NULL}
          /\ upc' \in {"out", "first", "between", "second"}
      BY <2>1, <1>t DEF F!MAX_DEV
    <3>4. /\ cdev_map' \in [F!Devs -> Demos \cup {NULL, F!Freed}]
          /\ node' \in [F!Devs -> Demos \cup {NULL}]
      BY <2>1, <1>t
    <3>5. refused' \in BOOLEAN /\ demo2' \in BOOLEAN
      BY <2>1, <1>b, Zenon
    <3> QED  BY <3>2, <3>3, <3>4, <3>5, Zenon DEF F!TypeOK
  <2>q. \A e \in Demos : at'[e] # "out" => dev_major'[e] \in Majors
    BY <2>1, <1>t
  <2>r. \A e \in Demos : at'[e] = "loaded" => idx'[e] = 0
    BY <2>1, <1>t
  <2>s. \A e \in Demos : class' = e <=> at'[e] \in InClass
    BY <2>1, <1>t, <1>n DEF InClass
  <2>t. \A x \in F!Devs : node'[x] # NULL =>
          /\ at'[node'[x]] \in {"cdev", "node", "loaded", "destroy"}
          /\ x[1] = dev_major'[node'[x]]
          /\ at'[node'[x]] = "destroy" => x[2] >= idx'[node'[x]]
    BY <2>1, <2>4, <1>t, <1>n
  <2>u. ~refused' => FrameApart'
    BY <2>1
  <2>v. F!UsersFindModule'
    <3>1. ufile # NULL => at'[ufile] \in {"cdev", "node", "loaded"}
      BY <2>1, <1>t DEF F!UsersFindModule
    <3>2. demo2 => at'[Base] = "loaded"
      BY <2>1, <1>t DEF F!UsersFindModule
    <3>3. demo2' = demo2 /\ ufile' = ufile
      BY <2>1
    <3> QED  BY <3>1, <3>2, <3>3, Zenon DEF F!UsersFindModule
  <2> QED  BY <2>p, <2>q, <2>r, <2>s, <2>t, <2>u, <2>v, Zenon DEF FrameInv
<1>4. ASSUME NEW d \in Demos, F!CreateClass(d) PROVE FrameInv'
  <2>1. /\ at[d] = "region" /\ at' = [at EXCEPT ![d] = "cdev"]
        /\ class = NULL /\ class' = d /\ idx' = [idx EXCEPT ![d] = 0]
        /\ UNCHANGED <<dev_major, regions, cdev_map, node, refused, demo2, upc, ufile>>
    BY <1>4 DEF F!CreateClass, F!Go, F!userVars
  <2>p. F!TypeOK'
    <3>1. F!Minors = {0, 1}
      BY DEF F!Minors, F!MAX_DEV
    <3>2. /\ at' \in [Demos -> {"out", "region", "cdev", "node", "loaded", "destroy", "class",
                             "unregister", "oops"}]
          /\ idx' \in [Demos -> F!Minors] /\ dev_major' \in [Demos -> Majors \cup {0}]
      BY <2>1, <1>t, <3>1
    <3>3. /\ regions' \subseteq [major : Majors, count : {F!MAX_DEV}]
          /\ class' \in Demos \cup {NULL} /\ ufile' \in Demos \cup {NULL}
          /\ upc' \in {"out", "first", "between", "second"}
      BY <2>1, <1>t DEF F!MAX_DEV
    <3>4. /\ cdev_map' \in [F!Devs -> Demos \cup {NULL, F!Freed}]
          /\ node' \in [F!Devs -> Demos \cup {NULL}]
      BY <2>1, <1>t
    <3>5. refused' \in BOOLEAN /\ demo2' \in BOOLEAN
      BY <2>1, <1>b, Zenon
    <3> QED  BY <3>2, <3>3, <3>4, <3>5, Zenon DEF F!TypeOK
  <2>q. \A e \in Demos : at'[e] # "out" => dev_major'[e] \in Majors
    BY <2>1, <1>t
  <2>r. \A e \in Demos : at'[e] = "loaded" => idx'[e] = 0
    BY <2>1, <1>t
  <2>s. \A e \in Demos : class' = e <=> at'[e] \in InClass
    BY <2>1, <1>t, <1>n DEF InClass
  <2>t. \A x \in F!Devs : node'[x] # NULL =>
          /\ at'[node'[x]] \in {"cdev", "node", "loaded", "destroy"}
          /\ x[1] = dev_major'[node'[x]]
          /\ at'[node'[x]] = "destroy" => x[2] >= idx'[node'[x]]
    BY <2>1, <1>t, <1>n
  <2>u. ~refused' => FrameApart'
    <3>1. \A e \in Demos : at'[e] = "out" <=> at[e] = "out"
      BY <2>1, <1>t
    <3>2. refused' = refused /\ UNCHANGED <<dev_major, regions, cdev_map>>
      BY <2>1
    <3> QED  BY <3>1, <3>2, FrameStaysApart, Zenon DEF FrameInv
  <2>v. F!UsersFindModule'
    <3>1. ufile # NULL => at'[ufile] \in {"cdev", "node", "loaded"}
      BY <2>1, <1>t DEF F!UsersFindModule
    <3>2. demo2 => at'[Base] = "loaded"
      BY <2>1, <1>t DEF F!UsersFindModule
    <3>3. demo2' = demo2 /\ ufile' = ufile
      BY <2>1
    <3> QED  BY <3>1, <3>2, <3>3, Zenon DEF F!UsersFindModule
  <2> QED  BY <2>p, <2>q, <2>r, <2>s, <2>t, <2>u, <2>v, Zenon DEF FrameInv
<1>5. ASSUME NEW d \in Demos, F!ClassOops(d) PROVE FrameInv'
  <2>1. /\ at[d] = "region" /\ at' = [at EXCEPT ![d] = "oops"]
        /\ UNCHANGED <<idx, dev_major, regions, class, cdev_map, node, refused, demo2, upc, ufile>>
    BY <1>5 DEF F!ClassOops, F!Go, F!userVars
  <2>p. F!TypeOK'
    <3>1. F!Minors = {0, 1}
      BY DEF F!Minors, F!MAX_DEV
    <3>2. /\ at' \in [Demos -> {"out", "region", "cdev", "node", "loaded", "destroy", "class",
                             "unregister", "oops"}]
          /\ idx' \in [Demos -> F!Minors] /\ dev_major' \in [Demos -> Majors \cup {0}]
      BY <2>1, <1>t, <3>1
    <3>3. /\ regions' \subseteq [major : Majors, count : {F!MAX_DEV}]
          /\ class' \in Demos \cup {NULL} /\ ufile' \in Demos \cup {NULL}
          /\ upc' \in {"out", "first", "between", "second"}
      BY <2>1, <1>t DEF F!MAX_DEV
    <3>4. /\ cdev_map' \in [F!Devs -> Demos \cup {NULL, F!Freed}]
          /\ node' \in [F!Devs -> Demos \cup {NULL}]
      BY <2>1, <1>t
    <3>5. refused' \in BOOLEAN /\ demo2' \in BOOLEAN
      BY <2>1, <1>b, Zenon
    <3> QED  BY <3>2, <3>3, <3>4, <3>5, Zenon DEF F!TypeOK
  <2>q. \A e \in Demos : at'[e] # "out" => dev_major'[e] \in Majors
    BY <2>1, <1>t
  <2>r. \A e \in Demos : at'[e] = "loaded" => idx'[e] = 0
    BY <2>1, <1>t
  <2>s. \A e \in Demos : class' = e <=> at'[e] \in InClass
    BY <2>1, <1>t, <1>n DEF InClass
  <2>t. \A x \in F!Devs : node'[x] # NULL =>
          /\ at'[node'[x]] \in {"cdev", "node", "loaded", "destroy"}
          /\ x[1] = dev_major'[node'[x]]
          /\ at'[node'[x]] = "destroy" => x[2] >= idx'[node'[x]]
    BY <2>1, <1>t, <1>n
  <2>u. ~refused' => FrameApart'
    <3>1. \A e \in Demos : at'[e] = "out" <=> at[e] = "out"
      BY <2>1, <1>t
    <3>2. refused' = refused /\ UNCHANGED <<dev_major, regions, cdev_map>>
      BY <2>1
    <3> QED  BY <3>1, <3>2, FrameStaysApart, Zenon DEF FrameInv
  <2>v. F!UsersFindModule'
    <3>1. ufile # NULL => at'[ufile] \in {"cdev", "node", "loaded"}
      BY <2>1, <1>t DEF F!UsersFindModule
    <3>2. demo2 => at'[Base] = "loaded"
      BY <2>1, <1>t DEF F!UsersFindModule
    <3>3. demo2' = demo2 /\ ufile' = ufile
      BY <2>1
    <3> QED  BY <3>1, <3>2, <3>3, Zenon DEF F!UsersFindModule
  <2> QED  BY <2>p, <2>q, <2>r, <2>s, <2>t, <2>u, <2>v, Zenon DEF FrameInv
<1>6. ASSUME NEW d \in Demos, F!AddCdev(d) PROVE FrameInv'
  <2>1. /\ at[d] = "cdev" /\ at' = [at EXCEPT ![d] = "node"]
        /\ cdev_map' \in {cdev_map, [cdev_map EXCEPT ![F!Dev(d)] = d]}
        /\ UNCHANGED <<idx, dev_major, regions, class, node, refused, demo2, upc, ufile>>
    BY <1>6 DEF F!AddCdev, F!Go, F!userVars
  <2>2. F!Dev(d) = <<dev_major[d], idx[d]>> /\ F!Dev(d) \in F!Devs
    BY <2>1, <1>d
  <2>4. cdev_map' \in [F!Devs -> Demos \cup {NULL, F!Freed}]
        /\ \A x \in F!Devs : cdev_map'[x] = cdev_map[x] \/ (cdev_map'[x] = d /\ x[1] = dev_major[d])
    BY <2>1, <2>2, <1>t
  <2>p. F!TypeOK'
    <3>1. F!Minors = {0, 1}
      BY DEF F!Minors, F!MAX_DEV
    <3>2. /\ at' \in [Demos -> {"out", "region", "cdev", "node", "loaded", "destroy", "class",
                             "unregister", "oops"}]
          /\ idx' \in [Demos -> F!Minors] /\ dev_major' \in [Demos -> Majors \cup {0}]
      BY <2>1, <2>4, <1>t, <3>1
    <3>3. /\ regions' \subseteq [major : Majors, count : {F!MAX_DEV}]
          /\ class' \in Demos \cup {NULL} /\ ufile' \in Demos \cup {NULL}
          /\ upc' \in {"out", "first", "between", "second"}
      BY <2>1, <2>4, <1>t DEF F!MAX_DEV
    <3>4. /\ cdev_map' \in [F!Devs -> Demos \cup {NULL, F!Freed}]
          /\ node' \in [F!Devs -> Demos \cup {NULL}]
      BY <2>1, <2>4, <1>t
    <3>5. refused' \in BOOLEAN /\ demo2' \in BOOLEAN
      BY <2>1, <1>b, Zenon
    <3> QED  BY <3>2, <3>3, <3>4, <3>5, Zenon DEF F!TypeOK
  <2>q. \A e \in Demos : at'[e] # "out" => dev_major'[e] \in Majors
    BY <2>1, <1>t
  <2>r. \A e \in Demos : at'[e] = "loaded" => idx'[e] = 0
    BY <2>1, <1>t
  <2>s. \A e \in Demos : class' = e <=> at'[e] \in InClass
    BY <2>1, <1>t, <1>n DEF InClass
  <2>t. \A x \in F!Devs : node'[x] # NULL =>
          /\ at'[node'[x]] \in {"cdev", "node", "loaded", "destroy"}
          /\ x[1] = dev_major'[node'[x]]
          /\ at'[node'[x]] = "destroy" => x[2] >= idx'[node'[x]]
    BY <2>1, <1>t, <1>n
  <2>u. ~refused' => FrameApart'
    <3>1. \A e \in Demos : at'[e] = "out" <=> at[e] = "out"
      BY <2>1, <1>t
    <3>2. refused' = refused /\ UNCHANGED <<dev_major, regions>>
      BY <2>1
    <3>3. ASSUME FrameApart PROVE FrameApart'
      <4>1. \A e \in Demos : at'[e] # "out" => \E r \in regions' : r.major = dev_major'[e]
        BY <3>1, <3>2, <3>3 DEF FrameApart
      <4>2. \A e, f \in Demos : at'[e] # "out" /\ at'[f] # "out" /\ dev_major'[e] = dev_major'[f] => e = f
        BY <3>1, <3>2, <3>3 DEF FrameApart
      <4>3. \A x \in F!Devs : cdev_map'[x] # NULL => \E r \in regions' : r.major = x[1]
        BY <2>1, <2>4, <3>2, <3>3 DEF FrameApart
      <4>4. \A x \in F!Devs, e \in Demos :
              at'[e] # "out" /\ x[1] = dev_major'[e] => cdev_map'[x] \in {NULL, e}
        BY <2>1, <2>4, <3>1, <3>2, <3>3 DEF FrameApart
      <4> QED  BY <4>1, <4>2, <4>3, <4>4 DEF FrameApart
    <3> QED  BY <3>2, <3>3, Zenon DEF FrameInv
  <2>v. F!UsersFindModule'
    <3>1. ufile # NULL => at'[ufile] \in {"cdev", "node", "loaded"}
      BY <2>1, <1>t DEF F!UsersFindModule
    <3>2. demo2 => at'[Base] = "loaded"
      BY <2>1, <1>t DEF F!UsersFindModule
    <3>3. demo2' = demo2 /\ ufile' = ufile
      BY <2>1
    <3> QED  BY <3>1, <3>2, <3>3, Zenon DEF F!UsersFindModule
  <2> QED  BY <2>p, <2>q, <2>r, <2>s, <2>t, <2>u, <2>v, Zenon DEF FrameInv
<1>7. ASSUME NEW d \in Demos, F!CreateDevice(d) PROVE FrameInv'
  <2>1. /\ at[d] = "node"
        /\ at' = [at EXCEPT ![d] = IF idx[d] + 1 < 2 THEN "cdev" ELSE "loaded"]
        /\ \/ node[F!Dev(d)] = NULL /\ node' = [node EXCEPT ![F!Dev(d)] = d]
           \/ UNCHANGED node
        /\ idx' = [idx EXCEPT ![d] = IF idx[d] + 1 < 2 THEN idx[d] + 1 ELSE 0]
        /\ UNCHANGED <<dev_major, regions, class, cdev_map, refused, demo2, upc, ufile>>
    BY <1>7 DEF F!CreateDevice, F!Go, F!userVars, F!MAX_DEV
  <2>2. F!Dev(d) = <<dev_major[d], idx[d]>> /\ F!Dev(d) \in F!Devs
    BY <2>1, <1>d
  <2>3. idx[d] \in {0, 1} /\ idx'[d] \in {0, 1} /\ at'[d] \in {"cdev", "loaded"}
        /\ (at'[d] = "loaded" => idx'[d] = 0)
        /\ \A e \in Demos : e # d => idx'[e] = idx[e] /\ at'[e] = at[e]
    BY <2>1, <1>t
  <2>4. node' \in [F!Devs -> Demos \cup {NULL}]
        /\ \A x \in F!Devs : node'[x] = node[x] \/ (node'[x] = d /\ x[1] = dev_major[d])
    BY <2>1, <2>2, <1>t
  <2>p. F!TypeOK'
    <3>1. F!Minors = {0, 1}
      BY DEF F!Minors, F!MAX_DEV
    <3>2. /\ at' \in [Demos -> {"out", "region", "cdev", "node", "loaded", "destroy", "class",
                             "unregister", "oops"}]
          /\ idx' \in [Demos -> F!Minors] /\ dev_major' \in [Demos -> Majors \cup {0}]
      BY <2>1, <2>4, <1>t, <3>1
    <3>3. /\ regions' \subseteq [major : Majors, count : {F!MAX_DEV}]
          /\ class' \in Demos \cup {NULL} /\ ufile' \in Demos \cup {NULL}
          /\ upc' \in {"out", "first", "between", "second"}
      BY <2>1, <2>4, <1>t DEF F!MAX_DEV
    <3>4. /\ cdev_map' \in [F!Devs -> Demos \cup {NULL, F!Freed}]
          /\ node' \in [F!Devs -> Demos \cup {NULL}]
      BY <2>1, <2>4, <1>t
    <3>5. refused' \in BOOLEAN /\ demo2' \in BOOLEAN
      BY <2>1, <1>b, Zenon
    <3> QED  BY <3>2, <3>3, <3>4, <3>5, Zenon DEF F!TypeOK
  <2>q. \A e \in Demos : at'[e] # "out" => dev_major'[e] \in Majors
    BY <2>1, <2>3, <1>t
  <2>r. \A e \in Demos : at'[e] = "loaded" => idx'[e] = 0
    BY <2>1, <2>3, <1>t
  <2>s. \A e \in Demos : class' = e <=> at'[e] \in InClass
    BY <2>1, <2>3, <1>t, <1>n DEF InClass
  <2>t. \A x \in F!Devs : node'[x] # NULL =>
          /\ at'[node'[x]] \in {"cdev", "node", "loaded", "destroy"}
          /\ x[1] = dev_major'[node'[x]]
          /\ at'[node'[x]] = "destroy" => x[2] >= idx'[node'[x]]
    BY <2>1, <2>3, <2>4, <1>t, <1>n
  <2>u. ~refused' => FrameApart'
    <3>1. \A e \in Demos : at'[e] = "out" <=> at[e] = "out"
      BY <2>1, <1>t
    <3>2. refused' = refused /\ UNCHANGED <<dev_major, regions, cdev_map>>
      BY <2>1
    <3> QED  BY <3>1, <3>2, FrameStaysApart, Zenon DEF FrameInv
  <2>v. F!UsersFindModule'
    <3>1. ufile # NULL => at'[ufile] \in {"cdev", "node", "loaded"}
      BY <2>1, <1>t DEF F!UsersFindModule
    <3>2. demo2 => at'[Base] = "loaded"
      BY <2>1, <1>t DEF F!UsersFindModule
    <3>3. demo2' = demo2 /\ ufile' = ufile
      BY <2>1
    <3> QED  BY <3>1, <3>2, <3>3, Zenon DEF F!UsersFindModule
  <2> QED  BY <2>p, <2>q, <2>r, <2>s, <2>t, <2>u, <2>v, Zenon DEF FrameInv
<1>8. ASSUME NEW d \in Demos, F!Leave(d) PROVE FrameInv'
  <2>1. /\ at[d] = "loaded" /\ at' = [at EXCEPT ![d] = "destroy"]
        /\ ufile # d /\ ~(demo2 /\ d = Base)
        /\ UNCHANGED <<idx, dev_major, regions, class, cdev_map, node, refused, demo2, upc, ufile>>
    BY <1>8 DEF F!Leave, F!Go, F!Pinned, F!userVars
  <2>2. idx[d] = 0
    BY <2>1
  <2>p. F!TypeOK'
    <3>1. F!Minors = {0, 1}
      BY DEF F!Minors, F!MAX_DEV
    <3>2. /\ at' \in [Demos -> {"out", "region", "cdev", "node", "loaded", "destroy", "class",
                             "unregister", "oops"}]
          /\ idx' \in [Demos -> F!Minors] /\ dev_major' \in [Demos -> Majors \cup {0}]
      BY <2>1, <1>t, <3>1
    <3>3. /\ regions' \subseteq [major : Majors, count : {F!MAX_DEV}]
          /\ class' \in Demos \cup {NULL} /\ ufile' \in Demos \cup {NULL}
          /\ upc' \in {"out", "first", "between", "second"}
      BY <2>1, <1>t DEF F!MAX_DEV
    <3>4. /\ cdev_map' \in [F!Devs -> Demos \cup {NULL, F!Freed}]
          /\ node' \in [F!Devs -> Demos \cup {NULL}]
      BY <2>1, <1>t
    <3>5. refused' \in BOOLEAN /\ demo2' \in BOOLEAN
      BY <2>1, <1>b, Zenon
    <3> QED  BY <3>2, <3>3, <3>4, <3>5, Zenon DEF F!TypeOK
  <2>q. \A e \in Demos : at'[e] # "out" => dev_major'[e] \in Majors
    BY <2>1, <1>t
  <2>r. \A e \in Demos : at'[e] = "loaded" => idx'[e] = 0
    BY <2>1, <1>t
  <2>s. \A e \in Demos : class' = e <=> at'[e] \in InClass
    BY <2>1, <1>t, <1>n DEF InClass
  <2>t. \A x \in F!Devs : node'[x] # NULL =>
          /\ at'[node'[x]] \in {"cdev", "node", "loaded", "destroy"}
          /\ x[1] = dev_major'[node'[x]]
          /\ at'[node'[x]] = "destroy" => x[2] >= idx'[node'[x]]
    BY <2>1, <2>2, <1>t, <1>n, <1>m
  <2>u. ~refused' => FrameApart'
    <3>1. \A e \in Demos : at'[e] = "out" <=> at[e] = "out"
      BY <2>1, <1>t
    <3>2. refused' = refused /\ UNCHANGED <<dev_major, regions, cdev_map>>
      BY <2>1
    <3> QED  BY <3>1, <3>2, FrameStaysApart, Zenon DEF FrameInv
  <2>v. F!UsersFindModule'
    <3>1. ufile # NULL => at'[ufile] \in {"cdev", "node", "loaded"}
      BY <2>1, <1>t DEF F!UsersFindModule
    <3>2. demo2 => at'[Base] = "loaded"
      BY <2>1, <1>t DEF F!UsersFindModule
    <3>3. demo2' = demo2 /\ ufile' = ufile
      BY <2>1
    <3> QED  BY <3>1, <3>2, <3>3, Zenon DEF F!UsersFindModule
  <2> QED  BY <2>p, <2>q, <2>r, <2>s, <2>t, <2>u, <2>v, Zenon DEF FrameInv
<1>9. ASSUME NEW d \in Demos, F!DestroyDevice(d) PROVE FrameInv'
  <2>1. /\ at[d] = "destroy"
        /\ at' = [at EXCEPT ![d] = IF idx[d] + 1 < 2 THEN "destroy" ELSE "class"]
        /\ node' = [node EXCEPT ![F!Dev(d)] = IF node[F!Dev(d)] = d THEN NULL ELSE node[F!Dev(d)]]
        /\ idx' = [idx EXCEPT ![d] = IF idx[d] + 1 < 2 THEN idx[d] + 1 ELSE 0]
        /\ UNCHANGED <<dev_major, regions, class, cdev_map, refused, demo2, upc, ufile>>
    BY <1>9 DEF F!DestroyDevice, F!Go, F!userVars, F!MAX_DEV
  <2>2. F!Dev(d) = <<dev_major[d], idx[d]>> /\ F!Dev(d) \in F!Devs
    BY <2>1, <1>d
  <2>3. /\ (idx[d] = 0 /\ idx'[d] = 1 /\ at'[d] = "destroy") \/ (idx[d] = 1 /\ idx'[d] = 0 /\ at'[d] = "class")
        /\ \A e \in Demos : e # d => idx'[e] = idx[e] /\ at'[e] = at[e]
    BY <2>1, <1>t
  <2>4. node' \in [F!Devs -> Demos \cup {NULL}]
        /\ \A x \in F!Devs : node'[x] \in {node[x], NULL}
        /\ node'[F!Dev(d)] # d
    BY <2>1, <2>2, <1>t, <1>n
  <2>p. F!TypeOK'
    <3>1. F!Minors = {0, 1}
      BY DEF F!Minors, F!MAX_DEV
    <3>2. /\ at' \in [Demos -> {"out", "region", "cdev", "node", "loaded", "destroy", "class",
                             "unregister", "oops"}]
          /\ idx' \in [Demos -> F!Minors] /\ dev_major' \in [Demos -> Majors \cup {0}]
      BY <2>1, <2>4, <1>t, <3>1
    <3>3. /\ regions' \subseteq [major : Majors, count : {F!MAX_DEV}]
          /\ class' \in Demos \cup {NULL} /\ ufile' \in Demos \cup {NULL}
          /\ upc' \in {"out", "first", "between", "second"}
      BY <2>1, <2>4, <1>t DEF F!MAX_DEV
    <3>4. /\ cdev_map' \in [F!Devs -> Demos \cup {NULL, F!Freed}]
          /\ node' \in [F!Devs -> Demos \cup {NULL}]
      BY <2>1, <2>4, <1>t
    <3>5. refused' \in BOOLEAN /\ demo2' \in BOOLEAN
      BY <2>1, <1>b, Zenon
    <3> QED  BY <3>2, <3>3, <3>4, <3>5, Zenon DEF F!TypeOK
  <2>q. \A e \in Demos : at'[e] # "out" => dev_major'[e] \in Majors
    BY <2>1, <2>3, <1>t
  <2>r. \A e \in Demos : at'[e] = "loaded" => idx'[e] = 0
    BY <2>1, <2>3, <1>t
  <2>s. \A e \in Demos : class' = e <=> at'[e] \in InClass
    BY <2>1, <2>3, <1>t, <1>n DEF InClass
  <2>t. ASSUME NEW x \in F!Devs, node'[x] # NULL
        PROVE  /\ at'[node'[x]] \in {"cdev", "node", "loaded", "destroy"}
               /\ x[1] = dev_major'[node'[x]]
               /\ at'[node'[x]] = "destroy" => x[2] >= idx'[node'[x]]
    <3>1. node'[x] = node[x] /\ node[x] \in Demos
      BY <2>t, <2>4, <1>t
    <3>2. /\ at[node[x]] \in {"cdev", "node", "loaded", "destroy"}
          /\ x[1] = dev_major[node[x]]
          /\ at[node[x]] = "destroy" => x[2] >= idx[node[x]]
      BY <3>1, <2>t
    <3>3. CASE node[x] # d
      <4>1. idx'[node[x]] = idx[node[x]] /\ at'[node[x]] = at[node[x]] /\ dev_major' = dev_major
        BY <2>1, <2>3, <3>1, <3>3
      <4> QED  BY <3>1, <3>2, <4>1
    <3>4. CASE node[x] = d
      <4>1. x # F!Dev(d) /\ x[1] = dev_major[d] /\ x[2] >= idx[d]
        BY <2>1, <2>4, <3>1, <3>2, <3>4
      <4>2. x[2] # idx[d]
        BY <4>1, <2>2, <1>m
      <4>3. x[2] = 1 /\ idx[d] = 0
        BY <4>1, <4>2, <1>m, <1>t
      <4>4. at'[d] = "destroy" /\ idx'[d] = 1
        BY <4>3, <2>3
      <4> QED  BY <3>1, <3>4, <4>1, <4>3, <4>4, <2>1
    <3> QED  BY <3>3, <3>4
  <2>u. ~refused' => FrameApart'
    <3>1. \A e \in Demos : at'[e] = "out" <=> at[e] = "out"
      BY <2>1, <1>t
    <3>2. refused' = refused /\ UNCHANGED <<dev_major, regions, cdev_map>>
      BY <2>1
    <3> QED  BY <3>1, <3>2, FrameStaysApart, Zenon DEF FrameInv
  <2>v. F!UsersFindModule'
    <3>1. ufile # NULL => at'[ufile] \in {"cdev", "node", "loaded"}
      BY <2>1, <1>t DEF F!UsersFindModule
    <3>2. demo2 => at'[Base] = "loaded"
      BY <2>1, <1>t DEF F!UsersFindModule
    <3>3. demo2' = demo2 /\ ufile' = ufile
      BY <2>1
    <3> QED  BY <3>1, <3>2, <3>3, Zenon DEF F!UsersFindModule
  <2> QED  BY <2>p, <2>q, <2>r, <2>s, <2>t, <2>u, <2>v, Zenon DEF FrameInv
<1>10. ASSUME NEW d \in Demos, F!DestroyClass(d) PROVE FrameInv'
  <2>1. /\ at[d] = "class" /\ at' = [at EXCEPT ![d] = "unregister"] /\ class' = NULL
        /\ UNCHANGED <<idx, dev_major, regions, cdev_map, node, refused, demo2, upc, ufile>>
    BY <1>10 DEF F!DestroyClass, F!Go, F!userVars
  <2>2. class = d
    BY <2>1 DEF InClass
  <2>p. F!TypeOK'
    <3>1. F!Minors = {0, 1}
      BY DEF F!Minors, F!MAX_DEV
    <3>2. /\ at' \in [Demos -> {"out", "region", "cdev", "node", "loaded", "destroy", "class",
                             "unregister", "oops"}]
          /\ idx' \in [Demos -> F!Minors] /\ dev_major' \in [Demos -> Majors \cup {0}]
      BY <2>1, <1>t, <3>1
    <3>3. /\ regions' \subseteq [major : Majors, count : {F!MAX_DEV}]
          /\ class' \in Demos \cup {NULL} /\ ufile' \in Demos \cup {NULL}
          /\ upc' \in {"out", "first", "between", "second"}
      BY <2>1, <1>t DEF F!MAX_DEV
    <3>4. /\ cdev_map' \in [F!Devs -> Demos \cup {NULL, F!Freed}]
          /\ node' \in [F!Devs -> Demos \cup {NULL}]
      BY <2>1, <1>t
    <3>5. refused' \in BOOLEAN /\ demo2' \in BOOLEAN
      BY <2>1, <1>b, Zenon
    <3> QED  BY <3>2, <3>3, <3>4, <3>5, Zenon DEF F!TypeOK
  <2>q. \A e \in Demos : at'[e] # "out" => dev_major'[e] \in Majors
    BY <2>1, <1>t
  <2>r. \A e \in Demos : at'[e] = "loaded" => idx'[e] = 0
    BY <2>1, <1>t
  <2>s. \A e \in Demos : class' = e <=> at'[e] \in InClass
    BY <2>1, <2>2, <1>t, <1>n DEF InClass
  <2>t. \A x \in F!Devs : node'[x] # NULL =>
          /\ at'[node'[x]] \in {"cdev", "node", "loaded", "destroy"}
          /\ x[1] = dev_major'[node'[x]]
          /\ at'[node'[x]] = "destroy" => x[2] >= idx'[node'[x]]
    BY <2>1, <1>t, <1>n
  <2>u. ~refused' => FrameApart'
    <3>1. \A e \in Demos : at'[e] = "out" <=> at[e] = "out"
      BY <2>1, <1>t
    <3>2. refused' = refused /\ UNCHANGED <<dev_major, regions, cdev_map>>
      BY <2>1
    <3> QED  BY <3>1, <3>2, FrameStaysApart, Zenon DEF FrameInv
  <2>v. F!UsersFindModule'
    <3>1. ufile # NULL => at'[ufile] \in {"cdev", "node", "loaded"}
      BY <2>1, <1>t DEF F!UsersFindModule
    <3>2. demo2 => at'[Base] = "loaded"
      BY <2>1, <1>t DEF F!UsersFindModule
    <3>3. demo2' = demo2 /\ ufile' = ufile
      BY <2>1
    <3> QED  BY <3>1, <3>2, <3>3, Zenon DEF F!UsersFindModule
  <2> QED  BY <2>p, <2>q, <2>r, <2>s, <2>t, <2>u, <2>v, Zenon DEF FrameInv
<1>11. ASSUME NEW d \in Demos, F!Unregister(d) PROVE FrameInv'
  <2>1. /\ at[d] = "unregister" /\ at' = [at EXCEPT ![d] = "out"]
        /\ regions' = regions \ {[major |-> dev_major[d], count |-> F!ExitCount]}
        /\ cdev_map' = [x \in F!Devs |-> IF cdev_map[x] = d THEN F!Freed ELSE cdev_map[x]]
        /\ dev_major' = [dev_major EXCEPT ![d] = 0]
        /\ UNCHANGED <<idx, class, node, refused, demo2, upc, ufile>>
    BY <1>11 DEF F!Unregister, F!Go, F!userVars
  <2>2. regions' = regions
    <3>1. F!ExitCount # 2
      BY DEF F!ExitCount
    <3>2. \A r \in regions : r.count = 2
      BY <1>t
    <3>3. \A r \in regions : r # [major |-> dev_major[d], count |-> F!ExitCount]
      BY <3>1, <3>2
    <3> QED  BY <2>1, <3>3
  <2>3. \A e \in Demos : at'[e] # "out" => at'[e] = at[e] /\ at[e] # "out" /\ e # d /\ dev_major'[e] = dev_major[e]
    BY <2>1, <1>t
  <2>4. /\ \A x \in F!Devs : node[x] # d
        /\ \A e \in Demos : e # d => dev_major'[e] = dev_major[e] /\ at'[e] = at[e]
    BY <2>1, <1>t, <1>n
  <2>p. F!TypeOK'
    <3>1. F!Minors = {0, 1}
      BY DEF F!Minors, F!MAX_DEV
    <3>2. /\ at' \in [Demos -> {"out", "region", "cdev", "node", "loaded", "destroy", "class",
                             "unregister", "oops"}]
          /\ idx' \in [Demos -> F!Minors] /\ dev_major' \in [Demos -> Majors \cup {0}]
      BY <2>1, <2>2, <1>t, <3>1
    <3>3. /\ regions' \subseteq [major : Majors, count : {F!MAX_DEV}]
          /\ class' \in Demos \cup {NULL} /\ ufile' \in Demos \cup {NULL}
          /\ upc' \in {"out", "first", "between", "second"}
      BY <2>1, <2>2, <1>t DEF F!MAX_DEV
    <3>4. /\ cdev_map' \in [F!Devs -> Demos \cup {NULL, F!Freed}]
          /\ node' \in [F!Devs -> Demos \cup {NULL}]
      BY <2>1, <2>2, <1>t
    <3>5. refused' \in BOOLEAN /\ demo2' \in BOOLEAN
      BY <2>1, <1>b, Zenon
    <3> QED  BY <3>2, <3>3, <3>4, <3>5, Zenon DEF F!TypeOK
  <2>q. \A e \in Demos : at'[e] # "out" => dev_major'[e] \in Majors
    BY <2>1, <1>t
  <2>r. \A e \in Demos : at'[e] = "loaded" => idx'[e] = 0
    BY <2>1, <1>t
  <2>s. \A e \in Demos : class' = e <=> at'[e] \in InClass
    BY <2>1, <1>t, <1>n DEF InClass
  <2>t. \A x \in F!Devs : node'[x] # NULL =>
          /\ at'[node'[x]] \in {"cdev", "node", "loaded", "destroy"}
          /\ x[1] = dev_major'[node'[x]]
          /\ at'[node'[x]] = "destroy" => x[2] >= idx'[node'[x]]
    BY <2>1, <2>4, <1>t, <1>n
  <2>u. ~refused' => FrameApart'
    <3>2. refused' = refused
      BY <2>1
    <3>3. ASSUME FrameApart PROVE FrameApart'
      <4>1. \A e \in Demos : at'[e] # "out" => \E r \in regions' : r.major = dev_major'[e]
        BY <2>2, <2>3, <3>3 DEF FrameApart
      <4>2. \A e, f \in Demos : at'[e] # "out" /\ at'[f] # "out" /\ dev_major'[e] = dev_major'[f] => e = f
        BY <2>3, <3>3 DEF FrameApart
      <4>3. \A x \in F!Devs : cdev_map'[x] # NULL => \E r \in regions' : r.major = x[1]
        BY <2>1, <2>2, <3>3, <1>n DEF FrameApart
      <4>4. \A x \in F!Devs, e \in Demos :
              at'[e] # "out" /\ x[1] = dev_major'[e] => cdev_map'[x] \in {NULL, e}
        BY <2>1, <2>3, <3>3, <1>n DEF FrameApart
      <4> QED  BY <4>1, <4>2, <4>3, <4>4 DEF FrameApart
    <3> QED  BY <3>2, <3>3, Zenon DEF FrameInv
  <2>v. F!UsersFindModule'
    <3>1. ufile # NULL => at'[ufile] \in {"cdev", "node", "loaded"}
      BY <2>1, <1>t DEF F!UsersFindModule
    <3>2. demo2 => at'[Base] = "loaded"
      BY <2>1, <1>t DEF F!UsersFindModule
    <3>3. demo2' = demo2 /\ ufile' = ufile
      BY <2>1
    <3> QED  BY <3>1, <3>2, <3>3, Zenon DEF F!UsersFindModule
  <2> QED  BY <2>p, <2>q, <2>r, <2>s, <2>t, <2>u, <2>v, Zenon DEF FrameInv
<1> QED  BY <1>1, <1>2, <1>3, <1>4, <1>5, <1>6, <1>7, <1>8, <1>9, <1>10, <1>11
         DEF F!Next, F!Load, F!Unload

-----------------------------------------------------------------------------
(* The fd table demo: who has taken a reference to the target, and that    *)
(* the target is still there for who is about to take one.                 *)
Pinning == {r \in Tasks : ~own[r] /\ dpc[r] \in {"unlock", "files", "walk", "put"}}

DumpInv ==
    /\ D!TypeOK
    /\ \A r \in Tasks :
        /\ dpc[r] \in {"find", "get", "unlock"} => ~own[r]
        /\ dpc[r] \in {"get", "unlock"} => life # "reaped"
    /\ IsFiniteSet(Pinning)
    /\ usage = (IF life = "reaped" THEN 0 ELSE 1) + Cardinality(Pinning)

\* Nobody reads at the start, and nobody holds the task.
LEMMA DumpStart == D!Init => DumpInv
<1> SUFFICES ASSUME D!Init PROVE DumpInv
  OBVIOUS
<1>1. Pinning = {}
  BY DEF Pinning, D!Init
<1>2. D!TypeOK
  BY DEF D!Init, D!TypeOK
<1>3. usage = 1 /\ life = "running" /\ \A r \in Tasks : dpc[r] = "idle"
  BY DEF D!Init
<1> QED  BY <1>1, <1>2, <1>3, FS_EmptySet DEF DumpInv

\* A step of r that neither takes nor returns a reference.
LEMMA PinKept ==
    ASSUME DumpInv, NEW r \in Tasks, NEW p \in {"idle", "find", "get", "unlock", "files", "walk", "put"},
           dpc' = [dpc EXCEPT ![r] = p], UNCHANGED <<target_pid, life, usage>>,
           own'[r] \in BOOLEAN, \A u \in Tasks \ {r} : own'[u] = own[u], DOMAIN own' = Tasks,
           own' = [u \in Tasks |-> own'[u]],
           p \in {"find", "get", "unlock"} => ~own'[r], p \in {"get", "unlock"} => life # "reaped",
           r \in Pinning <=> ~own'[r] /\ p \in {"unlock", "files", "walk", "put"}
    PROVE  DumpInv'
<1>1. dpc \in [Tasks -> {"idle", "find", "get", "unlock", "files", "walk", "put"}]
  BY DEF DumpInv, D!TypeOK
<1>2. dpc'[r] = p /\ \A u \in Tasks \ {r} : dpc'[u] = dpc[u]
  BY <1>1
<1>3. Pinning' = Pinning
  <2>1. r \in Pinning' <=> r \in Pinning
    BY <1>2 DEF Pinning
  <2>2. \A u \in Tasks \ {r} : u \in Pinning' <=> u \in Pinning
    BY <1>2 DEF Pinning
  <2>3. Pinning \subseteq Tasks /\ Pinning' \subseteq Tasks
    BY DEF Pinning
  <2> QED  BY <2>1, <2>2, <2>3
<1>4. D!TypeOK'
  <2>1. \A u \in Tasks : own'[u] \in BOOLEAN
    BY Zenon DEF DumpInv, D!TypeOK
  <2>2. own' \in [Tasks -> BOOLEAN]
    BY <2>1, Zenon
  <2>3. dpc' \in [Tasks -> {"idle", "find", "get", "unlock", "files", "walk", "put"}]
    BY <1>1
  <2> QED  BY <2>2, <2>3, Zenon DEF DumpInv, D!TypeOK, D!Target
<1>5. ASSUME NEW u \in Tasks
      PROVE  /\ dpc'[u] \in {"find", "get", "unlock"} => ~own'[u]
             /\ dpc'[u] \in {"get", "unlock"} => life' # "reaped"
  BY <1>2 DEF DumpInv
<1> QED  BY <1>3, <1>4, <1>5 DEF DumpInv

\* Each step of a reader, and exit and reaping of the target, keeps the invariant.
LEMMA DumpStep == ASSUME DumpInv, D!Next PROVE DumpInv'
<1>0. /\ dpc \in [Tasks -> {"idle", "find", "get", "unlock", "files", "walk", "put"}]
      /\ own \in [Tasks -> BOOLEAN] /\ own = [u \in Tasks |-> own[u]] /\ usage \in Int
  BY DEF DumpInv, D!TypeOK
<1>1. CASE D!SetTarget
  BY <1>1 DEF D!SetTarget, DumpInv, Pinning, D!TypeOK
<1>2. CASE D!Exit
  BY <1>2 DEF D!Exit, DumpInv, Pinning, D!TypeOK
<1>3. CASE D!Reap
  <2>1. /\ life = "unhashed" /\ life' = "reaped" /\ usage' = usage - 1
        /\ UNCHANGED <<dpc, own, target_pid>> /\ \A r \in Tasks : dpc[r] \notin {"get", "unlock"}
    BY <1>3 DEF D!Reap, D!Section
  <2>2. Pinning' = Pinning
    BY <2>1 DEF Pinning
  <2>3. usage' = Cardinality(Pinning)' /\ usage' \in Int
    BY <1>0, <2>1, <2>2, FS_CardinalityType DEF DumpInv
  <2> QED  BY <2>1, <2>2, <2>3 DEF DumpInv, D!TypeOK
<1>4. ASSUME NEW r \in Tasks, D!Show(r) PROVE DumpInv'
  <2>1. /\ dpc[r] = "idle" /\ UNCHANGED <<target_pid, life, usage>>
        /\ dpc' = [dpc EXCEPT ![r] = IF target_pid = -1 THEN "files" ELSE "find"]
        /\ own' = [own EXCEPT ![r] = target_pid = -1]
    BY <1>4 DEF D!Show, D!Go
  <2>2. r \notin Pinning
    BY <2>1 DEF Pinning
  <2>3. /\ DOMAIN own' = Tasks /\ own'[r] = (target_pid = -1) /\ own' = [u \in Tasks |-> own'[u]]
        /\ \A u \in Tasks \ {r} : own'[u] = own[u]
    BY <1>0, <2>1
  <2>4. CASE target_pid = -1
    BY <2>1, <2>2, <2>3, <2>4, PinKept
  <2>5. CASE target_pid # -1
    BY <2>1, <2>2, <2>3, <2>5, PinKept
  <2> QED  BY <2>4, <2>5
<1>5. ASSUME NEW r \in Tasks, D!Find(r) PROVE DumpInv'
  <2>1. /\ dpc[r] = "find" /\ UNCHANGED <<own, target_pid, life, usage>>
        /\ \/ dpc' = [dpc EXCEPT ![r] = "get"] /\ life # "reaped"
           \/ dpc' = [dpc EXCEPT ![r] = "idle"]
    BY <1>5 DEF D!Find, D!Go
  <2>2. r \notin Pinning /\ ~own[r]
    BY <2>1 DEF Pinning, DumpInv
  <2> QED  BY <1>0, <2>1, <2>2, PinKept
<1>6. ASSUME NEW r \in Tasks, D!Get(r) PROVE DumpInv'
  <2>1. /\ dpc[r] = "get" /\ UNCHANGED <<own, target_pid, life>>
        /\ dpc' = [dpc EXCEPT ![r] = "unlock"] /\ usage' = usage + 1
    BY <1>6 DEF D!Get, D!Go
  <2>2. ~own[r] /\ life # "reaped"
    BY <2>1 DEF DumpInv
  <2>3. r \notin Pinning /\ Pinning' = Pinning \cup {r}
    BY <1>0, <2>1, <2>2 DEF Pinning
  <2>4. IsFiniteSet(Pinning') /\ Cardinality(Pinning') = Cardinality(Pinning) + 1
    BY <2>3, FS_AddElement DEF DumpInv
  <2>5. usage' = 1 + Cardinality(Pinning') /\ usage' \in Int
    BY <1>0, <2>1, <2>2, <2>4, FS_CardinalityType DEF DumpInv
  <2>6. \A u \in Tasks : dpc'[u] = dpc[u] \/ u = r
    BY <1>0, <2>1
  <2>7. D!TypeOK'
    BY <1>0, <2>1, <2>5 DEF DumpInv, D!TypeOK
  <2>8. \A u \in Tasks :
           /\ dpc'[u] \in {"find", "get", "unlock"} => ~own'[u]
           /\ dpc'[u] \in {"get", "unlock"} => life' # "reaped"
    BY <2>1, <2>2, <2>6 DEF DumpInv
  <2> QED  BY <2>1, <2>2, <2>4, <2>5, <2>7, <2>8 DEF DumpInv
<1>7. ASSUME NEW r \in Tasks, D!Unlock(r) PROVE DumpInv'
  <2>1. /\ dpc[r] = "unlock" /\ UNCHANGED <<own, target_pid, life, usage>>
        /\ dpc' = [dpc EXCEPT ![r] = "files"]
    BY <1>7 DEF D!Unlock, D!Go
  <2>2. r \in Pinning /\ ~own[r]
    BY <2>1 DEF Pinning, DumpInv
  <2> QED  BY <1>0, <2>1, <2>2, PinKept
<1>8. ASSUME NEW r \in Tasks, D!FilesOf(r) PROVE DumpInv'
  <2>1. /\ dpc[r] = "files" /\ UNCHANGED <<own, target_pid, life, usage>>
        /\ \E p \in {"walk", "put"} : dpc' = [dpc EXCEPT ![r] = p]
    BY <1>8 DEF D!FilesOf, D!Go
  <2>2. r \in Pinning <=> ~own[r]
    BY <2>1 DEF Pinning, DumpInv
  <2> QED  BY <1>0, <2>1, <2>2, PinKept
<1>9. ASSUME NEW r \in Tasks, D!Walk(r) PROVE DumpInv'
  <2>1. /\ dpc[r] = "walk" /\ UNCHANGED <<own, target_pid, life, usage>>
        /\ dpc' = [dpc EXCEPT ![r] = "put"]
    BY <1>9 DEF D!Walk, D!Go
  <2>2. r \in Pinning <=> ~own[r]
    BY <2>1 DEF Pinning, DumpInv
  <2> QED  BY <1>0, <2>1, <2>2, PinKept
<1>10. ASSUME NEW r \in Tasks, D!Put(r) PROVE DumpInv'
  <2>1. /\ dpc[r] = "put" /\ UNCHANGED <<own, target_pid, life>>
        /\ dpc' = [dpc EXCEPT ![r] = "idle"]
        /\ usage' = IF own[r] THEN usage ELSE usage - 1
    BY <1>10 DEF D!Put, D!Go
  <2>2. CASE own[r]
    <3>1. r \notin Pinning
      BY <2>2 DEF Pinning
    <3> QED  BY <1>0, <2>1, <2>2, <3>1, PinKept
  <2>3. CASE ~own[r]
    <3>1. r \in Pinning /\ Pinning' = Pinning \ {r}
      BY <1>0, <2>1, <2>3 DEF Pinning
    <3>2. IsFiniteSet(Pinning') /\ Cardinality(Pinning') = Cardinality(Pinning) - 1
      BY <3>1, FS_RemoveElement DEF DumpInv
    <3>3. usage' = (IF life' = "reaped" THEN 0 ELSE 1) + Cardinality(Pinning') /\ usage' \in Int
      BY <1>0, <2>1, <2>3, <3>2, FS_CardinalityType DEF DumpInv
    <3>4. \A u \in Tasks : dpc'[u] = dpc[u] \/ dpc'[u] = "idle"
      BY <1>0, <2>1
    <3>5. D!TypeOK'
      BY <1>0, <2>1, <3>3 DEF DumpInv, D!TypeOK
    <3>6. \A u \in Tasks :
             /\ dpc'[u] \in {"find", "get", "unlock"} => ~own'[u]
             /\ dpc'[u] \in {"get", "unlock"} => life' # "reaped"
      BY <2>1, <3>4 DEF DumpInv
    <3> QED  BY <3>2, <3>3, <3>5, <3>6 DEF DumpInv
  <2> QED  BY <2>2, <2>3
<1> QED  BY <1>1, <1>2, <1>3, <1>4, <1>5, <1>6, <1>7, <1>8, <1>9, <1>10 DEF D!Next

\* From the count of those that pin the task: it is there for all of them.
LEMMA DumpSound == DumpInv => D!TaskPinned
<1> SUFFICES ASSUME DumpInv PROVE D!TaskPinned
  OBVIOUS
<1>1. Cardinality(Pinning) \in Nat /\ (Pinning # {} => Cardinality(Pinning) # 0)
  BY FS_CardinalityType, FS_EmptySet DEF DumpInv
<1>2. ASSUME NEW r \in Tasks, ~own[r], dpc[r] \in {"get", "unlock", "files", "walk", "put"}
      PROVE  usage > 0
  <2>1. CASE dpc[r] = "get"
    BY <1>1, <2>1 DEF DumpInv
  <2>2. CASE dpc[r] # "get"
    <3>1. r \in Pinning
      BY <1>2, <2>2 DEF Pinning
    <3> QED  BY <1>1, <3>1 DEF DumpInv
  <2> QED  BY <2>1, <2>2
<1>3. usage = (IF life = "reaped" THEN 0 ELSE 1)
               + D!Cardinality({r \in Tasks : ~own[r] /\ dpc[r] \in {"unlock", "files", "walk", "put"}})
  <2>1. Cardinality(Pinning) = D!Cardinality(Pinning)
    BY DEF Cardinality, D!Cardinality
  <2> QED  BY <2>1 DEF DumpInv, Pinning
<1>4. \A r \in Tasks : ~own[r] /\ dpc[r] \in {"get", "unlock", "files", "walk", "put"} => usage > 0
  BY <1>2, Zenon
<1> QED  BY <1>3, <1>4, Zenon DEF D!TaskPinned

-----------------------------------------------------------------------------
(* The platform driver demo: the misc device is there while the two are    *)
(* bound, the data from probe to the end of remove, and both modules stay  *)
(* for all of that.                                                        *)
PlatformInv ==
    /\ M!TypeOK
    /\ misc <=> bound = "yes"
    /\ data <=> bound \in {"register", "yes", "removed"}
    /\ bound # "no" => drv # "out" /\ pdev \in {"added", "leaving"}
    /\ files > 0 => drv = "in"

\* Neither device nor driver is there at the start.
LEMMA PlatformStart == ASSUME FileParameters, M!Init PROVE PlatformInv
<1>1. files \in 0..MaxFiles /\ ~(files > 0)
  BY DEF FileParameters, M!Init
<1> QED  BY <1>1, Zenon DEF M!Init, PlatformInv, M!TypeOK

\* Each step of the two modules, of probe, remove and the files keeps it.
LEMMA PlatformStep == ASSUME FileParameters, PlatformInv, M!Next PROVE PlatformInv'
<1> USE DEF FileParameters, PlatformInv, M!TypeOK
<1>1. CASE M!AllocDev \/ M!AddDev \/ M!DevLeaves \/ M!DevGone
  BY <1>1 DEF M!AllocDev, M!AddDev, M!DevLeaves, M!DevGone
<1>2. CASE M!DrvRegister \/ M!DrvLeaves \/ M!DrvGone
  BY <1>2 DEF M!DrvRegister, M!DrvLeaves, M!DrvGone
<1>3. CASE M!Bind
  BY <1>3 DEF M!Bind
<1>4. CASE M!ProbeAlloc
  <2>1. CASE bound' = "register" /\ data' = TRUE
    BY <1>4, <2>1 DEF M!ProbeAlloc
  <2>2. CASE bound' = "no" /\ UNCHANGED data
    BY <1>4, <2>2 DEF M!ProbeAlloc
  <2> QED  BY <1>4, <2>1, <2>2 DEF M!ProbeAlloc
<1>8. CASE M!ProbeRegister
  <2>1. CASE bound' = "yes" /\ misc' = TRUE /\ UNCHANGED data
    BY <1>8, <2>1 DEF M!ProbeRegister
  <2>2. CASE bound' = "no" /\ data' = FALSE /\ UNCHANGED misc
    BY <1>8, <2>2 DEF M!ProbeRegister
  <2> QED  BY <1>8, <2>1, <2>2 DEF M!ProbeRegister
<1>5. CASE M!Remove
  BY <1>5 DEF M!Remove
<1>6. CASE M!FreeData
  BY <1>6 DEF M!FreeData
<1>7. CASE M!Open \/ M!Release
  BY <1>7 DEF M!Open, M!Release
<1> QED  BY <1>1, <1>2, <1>3, <1>4, <1>5, <1>6, <1>7, <1>8 DEF M!Next

\* From the invariant: the misc device has its data behind it, and nothing stays
\* bound once a module is out.
LEMMA PlatformSound == PlatformInv => M!MiscBacked /\ M!NothingBound
  BY DEF PlatformInv, M!MiscBacked, M!NothingBound, M!TypeOK

-----------------------------------------------------------------------------
(* The in-kernel file demo: until two of its files have been open at once, *)
(* there is at most one, and fp points to what it has opened.              *)
KernelFileInv ==
    /\ H!TypeOK
    /\ kfiles \subseteq 1..kopened
    /\ H!ReachesOpenFile /\ H!FilesClosed
    /\ ~koverlap => \A t, u \in Tasks : kfpc[t] = "open" /\ kfpc[u] = "open" => t = u

\* No file is open at the start.
LEMMA KernelFileStart == ASSUME FileParameters, H!Init PROVE KernelFileInv
<1>1. /\ fp \in -1..MaxOpens /\ kopened \in 0..MaxOpens /\ kfiles = {}
      /\ kfpc \in [Tasks -> {"closed", "open", "dead"}] /\ koverlap = FALSE
  BY DEF FileParameters, H!Init
<1>2. \A t \in Tasks : kfpc[t] = "closed"
  BY DEF H!Init
<1>3. kfiles \subseteq 1..MaxOpens /\ kfiles \subseteq 1..kopened /\ koverlap \in BOOLEAN
  BY <1>1
<1> QED  BY <1>1, <1>2, <1>3 DEF KernelFileInv, H!TypeOK, H!ReachesOpenFile, H!FilesClosed

\* open, use and release of the device keep the invariant, also when filp_open fails.
LEMMA KernelFileStep == ASSUME FileParameters, KernelFileInv, H!Next PROVE KernelFileInv'
<1> USE DEF FileParameters, KernelFileInv, H!TypeOK
<1>1. PICK t \in Tasks : H!Open(t) \/ H!OpenFails(t) \/ H!Use(t) \/ H!Release(t)
  BY DEF H!Next
<1>2. CASE H!Open(t)
  <2>1. /\ kfpc[t] = "closed" /\ kfpc' = [kfpc EXCEPT ![t] = "open"]
        /\ kopened < MaxOpens /\ kopened' = kopened + 1 /\ fp' = kopened + 1
        /\ kfiles' = kfiles \cup {kopened + 1}
        /\ koverlap' = (koverlap \/ \E u \in Tasks : kfpc[u] # "closed")
    BY <1>2 DEF H!Open
  <2>2. koverlap' \in BOOLEAN /\ (~koverlap' => ~koverlap /\ \A u \in Tasks : kfpc[u] = "closed")
    BY <2>1, Zenon
  <2>3. /\ kopened' \in 0..MaxOpens /\ fp' \in 1..MaxOpens
        /\ kfiles' \subseteq 1..kopened' /\ kfiles' \subseteq 1..MaxOpens
        /\ kfpc' \in [Tasks -> {"closed", "open", "dead"}]
    BY <2>1
  <2>4. ~koverlap' => kfiles = {}
    BY <2>2 DEF H!FilesClosed
  <2>5. ~koverlap' =>
          /\ \A u \in Tasks : kfpc'[u] # "dead" /\ (kfpc'[u] = "open" => u = t)
          /\ kfiles' = {fp'} /\ kfpc'[t] = "open"
    BY <2>1, <2>2, <2>4
  <2> QED  BY <2>2, <2>3, <2>5 DEF H!ReachesOpenFile, H!FilesClosed
<1>3. CASE H!OpenFails(t)
  <2>1. /\ kfpc[t] = "closed" /\ fp' = -1 /\ UNCHANGED <<kfiles, kopened, kfpc>>
        /\ koverlap' = (koverlap \/ \E u \in Tasks : kfpc[u] # "closed")
    BY <1>3 DEF H!OpenFails
  <2>2. koverlap' \in BOOLEAN /\ (~koverlap' => ~koverlap /\ \A u \in Tasks : kfpc[u] = "closed")
    BY <2>1, Zenon
  <2> QED  BY <2>1, <2>2 DEF H!ReachesOpenFile, H!FilesClosed
<1>4. CASE H!Use(t)
  <2>1. /\ kfpc[t] = "open" /\ UNCHANGED <<fp, kfiles, kopened, koverlap>>
        /\ kfpc' = [kfpc EXCEPT ![t] = IF fp = -1 THEN "dead" ELSE "open"]
    BY <1>4 DEF H!Use
  <2>2. ~koverlap => kfpc' = kfpc
    BY <2>1 DEF H!ReachesOpenFile
  <2>3. kfpc' \in [Tasks -> {"closed", "open", "dead"}]
    BY <2>1
  <2> QED  BY <2>1, <2>2, <2>3 DEF H!ReachesOpenFile, H!FilesClosed
<1>5. CASE H!Release(t)
  <2>1. /\ kfpc[t] = "open" /\ UNCHANGED <<fp, kopened, koverlap>> /\ kfiles' = kfiles \ {fp}
        /\ kfpc' = [kfpc EXCEPT ![t] = IF fp = -1 THEN "dead" ELSE "closed"]
    BY <1>5 DEF H!Release
  <2>2. ~koverlap => kfiles = {fp} /\ fp # -1 /\ \A u \in Tasks : kfpc[u] = "open" => u = t
    <3> SUFFICES ASSUME ~koverlap
                 PROVE  kfiles = {fp} /\ fp # -1 /\ \A u \in Tasks : kfpc[u] = "open" => u = t
      OBVIOUS
    <3>1. \A u \in Tasks : kfpc[u] = "open" => u = t
      BY <2>1
    <3>2. fp \in kfiles
      BY <2>1 DEF H!ReachesOpenFile
    <3>3. \A f \in kfiles : f = fp
      BY DEF H!FilesClosed
    <3>4. fp \in 1..MaxOpens
      BY <3>2
    <3>5. fp # -1
      BY <3>4
    <3>6. kfiles = {fp}
      BY <3>2, <3>3
    <3> QED  BY <3>1, <3>5, <3>6
  <2>3. ~koverlap => kfiles' = {} /\ \A u \in Tasks : kfpc'[u] \notin {"open", "dead"}
    BY <2>1, <2>2 DEF H!ReachesOpenFile
  <2> QED  BY <2>1, <2>3 DEF H!ReachesOpenFile, H!FilesClosed
<1> QED  BY <1>1, <1>2, <1>3, <1>4, <1>5

-----------------------------------------------------------------------------
(* The sysfs demo: the attribute is there between its creation and its     *)
(* removal, and nobody is in a call outside of that.                       *)
SysfsInv ==
    /\ S!TypeOK /\ S!CallsInModule /\ S!LeaksPerLoad
    /\ attr => smod = "loaded" /\ kobj
    /\ smod = "drain" => kobj

\* Neither the directory nor the attribute is there at the start.
LEMMA SysfsStart == ASSUME FileParameters, S!Init PROVE SysfsInv
<1>1. loads \in 0..MaxLoads /\ leaked \in 0..MaxLoads /\ S!LeaksPerLoad
  BY DEF FileParameters, S!Init, S!LeaksPerLoad
<1>2. spc \in [Tasks -> {"idle", "show", "store", "dead"}] /\ S!CallsInModule
  BY DEF S!Init, S!CallsInModule
<1> QED  BY <1>1, <1>2, Zenon DEF S!Init, SysfsInv, S!TypeOK

\* Each step of loading, unloading and of a show or store keeps the invariant.
LEMMA SysfsStep == ASSUME FileParameters, SysfsInv, S!Next PROVE SysfsInv'
<1> USE DEF FileParameters, SysfsInv, S!TypeOK
<1>0. buffer # "overrun"
  BY DEF S!Next
<1>1. CASE S!CreateKobj
  BY <1>1 DEF S!CreateKobj, S!Phase, S!CallsInModule, S!LeaksPerLoad
<1>2. CASE S!Kmalloc
  BY <1>2 DEF S!Kmalloc, S!Phase, S!CallsInModule, S!LeaksPerLoad
<1>3. CASE S!CreateFile
  <2>1. /\ smod = "create" /\ smod' = "loaded" /\ UNCHANGED <<kobj, buffer, spc, loads, leaked>>
        /\ attr' \in BOOLEAN /\ (attr' => kobj)
    <3>1. attr' \in {FALSE, kobj} /\ smod = "create" /\ smod' = "loaded"
          /\ UNCHANGED <<kobj, buffer, spc, loads, leaked>>
      BY <1>3 DEF S!CreateFile, S!Phase
    <3>2. CASE attr' = FALSE
      BY <3>1, <3>2
    <3>3. CASE attr' = kobj
      BY <3>1, <3>3
    <3> QED  BY <3>1, <3>2, <3>3
  <2> QED  BY <2>1 DEF S!CallsInModule, S!LeaksPerLoad
<1>4. CASE S!RemoveFile
  BY <1>4 DEF S!RemoveFile, S!Phase, S!CallsInModule, S!LeaksPerLoad
<1>5. CASE S!Unload
  <2>1. /\ smod = "drain" /\ smod' = "out" /\ \A t \in Tasks : spc[t] = "idle"
        /\ kobj' = FALSE /\ buffer' = "NULL" /\ UNCHANGED <<attr, spc, loads>>
        /\ leaked' = IF buffer = "NULL" THEN leaked ELSE leaked + 1
    BY <1>5 DEF S!Unload, S!Drain, S!Phase
  <2>2. leaked' \in 0..MaxLoads /\ S!LeaksPerLoad'
    BY <2>1 DEF S!LeaksPerLoad
  <2>3. ~attr'
    BY <2>1
  <2>4. S!CallsInModule'
    BY <2>1 DEF S!CallsInModule
  <2>5. kobj' \in BOOLEAN /\ attr' \in BOOLEAN
    BY <2>1
  <2> QED  BY <2>1, <2>2, <2>3, <2>4, <2>5
<1>6. ASSUME NEW t \in Tasks, S!Begin(t, "show") \/ S!Begin(t, "store") \/ S!Show(t) PROVE SysfsInv'
  <2>1. /\ UNCHANGED <<smod, kobj, attr, buffer, loads, leaked>>
        /\ \E p \in {"idle", "show", "store"} : spc' = [spc EXCEPT ![t] = p]
        /\ attr \/ spc[t] = "show"
    BY <1>6 DEF S!Begin, S!Show
  <2>2. \A u \in Tasks : spc'[u] = spc[u] \/ (u = t /\ spc'[u] # "dead" /\ (attr \/ spc[t] = "show"))
    BY <2>1
  <2>3. S!CallsInModule'
    BY <2>1, <2>2 DEF S!CallsInModule
  <2>4. spc' \in [Tasks -> {"idle", "show", "store", "dead"}]
    BY <2>1
  <2> QED  BY <2>1, <2>3, <2>4 DEF S!LeaksPerLoad
<1>7. ASSUME NEW t \in Tasks, S!Store(t) PROVE SysfsInv'
  <2>1. PICK p \in {"idle", "dead"} :
          /\ spc' = [spc EXCEPT ![t] = p]
          /\ buffer' \in {"NULL", "text", "overrun"} /\ (buffer = "NULL" => buffer' = "NULL")
          /\ p = "dead" => buffer' \in {"NULL", "overrun"}
    BY <1>7 DEF S!Store
  <2>2. spc[t] = "store" /\ buffer # "overrun" /\ UNCHANGED <<smod, kobj, attr, loads, leaked>>
    BY <1>0, <1>7 DEF S!Store
  <2>3. S!CallsInModule'
    BY <2>1, <2>2, <1>7 DEF S!CallsInModule, S!Store
  <2> QED  BY <2>1, <2>2, <2>3 DEF S!LeaksPerLoad
<1> QED  BY <1>1, <1>2, <1>3, <1>4, <1>5, <1>6, <1>7 DEF S!Next

-----------------------------------------------------------------------------
(* The file operations demo: what is open at each place of an ioctl that   *)
(* is alone, and what it has left when it is over.                         *)
IoctlPlaces == {"open", "use", "close", "clear", "delete", "openlog",
                "nolog", "testlog", "writelog", "closelog", "closing", "clearlog"}
FileAt(p) ==
    /\ p # "dead"
    /\ p \in {"idle", "open", "clear", "delete", "openlog", "nolog", "clearlog"} => ofiles = {}
    /\ p \in {"use", "close"} => file_test > 0 /\ ofiles = {file_test}
    /\ p \in {"writelog", "closing"} => log_file > 0 /\ ofiles = {log_file}
    /\ p \in {"testlog", "closelog"} =>
          log_file >= 0 /\ ofiles = (IF log_file = 0 THEN {} ELSE {log_file})
    /\ p \notin {"use", "close", "clear", "delete"} /\ exists => undeleted

\* t is the only task in the ioctl, if any is.
OthersIdle(t) == \A u \in Tasks : u # t => opc[u] = "idle"

FileOptInv ==
    /\ O!TypeOK
    /\ ~ooverlap =>
        /\ \A t \in Tasks : opc[t] # "idle" => OthersIdle(t) /\ FileAt(opc[t])
        /\ (\A t \in Tasks : opc[t] = "idle") => FileAt("idle")

\* No ioctl is under way at the start, and no file is open.
LEMMA FileOptStart == ASSUME FileParameters, O!Init PROVE FileOptInv
<1>1. O!TypeOK
  <2>1. /\ file_test \in 0..MaxOpened /\ log_file \in -1..MaxOpened /\ oopened \in 0..MaxOpened
        /\ ofiles \subseteq 1..MaxOpened
    BY DEF FileParameters, O!Init
  <2>2. opc \in [Tasks -> {"idle"}]
    BY DEF O!Init
  <2>3. exists \in BOOLEAN /\ undeleted \in BOOLEAN /\ ooverlap \in BOOLEAN
    BY DEF O!Init
  <2> QED  BY <2>1, <2>2, <2>3 DEF O!TypeOK, O!Outside
<1>2. ofiles = {} /\ exists = FALSE /\ \A t \in Tasks : opc[t] = "idle"
  BY DEF O!Init
<1> QED  BY <1>1, <1>2 DEF FileOptInv, FileAt

\* An ioctl that is alone goes from one place to the next.
LEMMA FileOptGoes ==
    ASSUME FileOptInv, NEW t \in Tasks, opc[t] # "idle", ooverlap' = ooverlap,
           NEW p \in IoctlPlaces \cup {"idle", "dead"}, opc' = [opc EXCEPT ![t] = p],
           file_test' \in 0..MaxOpened, log_file' \in -1..MaxOpened,
           ofiles' \subseteq 1..MaxOpened, oopened' \in 0..MaxOpened,
           exists' \in BOOLEAN, undeleted' \in BOOLEAN,
           FileAt(opc[t]) => FileAt(p)'
    PROVE  FileOptInv'
<1>1. opc \in [Tasks -> O!Outside \cup IoctlPlaces] /\ ooverlap \in BOOLEAN
  BY DEF FileOptInv, O!TypeOK, IoctlPlaces
<1>2. O!TypeOK'
  <2>1. opc' \in [Tasks -> O!Outside \cup IoctlPlaces]
    BY <1>1 DEF O!Outside
  <2>2. ooverlap' \in BOOLEAN
    BY <1>1
  <2> QED  BY <2>1, <2>2 DEF O!TypeOK, IoctlPlaces
<1>3. ASSUME ~ooverlap
      PROVE  /\ \A u \in Tasks : opc'[u] # "idle" => OthersIdle(u)' /\ FileAt(opc[u])'
             /\ (\A u \in Tasks : opc'[u] = "idle") => FileAt("idle")'
  <2>1. OthersIdle(t) /\ FileAt(p)' /\ opc'[t] = p
    BY <1>1, <1>3 DEF FileOptInv
  <2>2. OthersIdle(t)'
    BY <1>1, <2>1 DEF OthersIdle
  <2>3. \A u \in Tasks : opc'[u] # "idle" => u = t
    BY <2>2 DEF OthersIdle
  <2>4. FileAt(opc[t])'
    BY <2>1 DEF FileAt
  <2>5. ASSUME NEW u \in Tasks, opc'[u] # "idle" PROVE OthersIdle(u)' /\ FileAt(opc[u])'
    <3>1. u = t
      BY <2>3, <2>5
    <3> QED  BY <2>2, <2>4, <3>1
  <2>6. (\A u \in Tasks : opc'[u] = "idle") => FileAt("idle")'
    BY <2>1 DEF FileAt
  <2> QED  BY <2>5, <2>6
<1> QED  BY <1>2, <1>3 DEF FileOptInv

\* ... and does nothing else.
LEMMA FileOptWalks ==
    ASSUME FileOptInv, NEW t \in Tasks, opc[t] # "idle",
           UNCHANGED <<file_test, log_file, ofiles, oopened, exists, undeleted, ooverlap>>,
           NEW p \in IoctlPlaces \cup {"idle", "dead"}, opc' = [opc EXCEPT ![t] = p],
           FileAt(opc[t]) => FileAt(p)
    PROVE  FileOptInv'
<1>1. FileAt(p) => FileAt(p)'
  BY DEF FileAt
<1>2. /\ file_test' \in 0..MaxOpened /\ log_file' \in -1..MaxOpened
      /\ ofiles' \subseteq 1..MaxOpened /\ oopened' \in 0..MaxOpened
  BY DEF FileOptInv, O!TypeOK
<1>3. exists' \in BOOLEAN /\ undeleted' \in BOOLEAN
  BY Zenon DEF FileOptInv, O!TypeOK
<1> QED  BY <1>1, <1>2, <1>3, FileOptGoes

\* Each step of the ioctl and of the module keeps the invariant.
LEMMA FileOptStep == ASSUME FileParameters, FileOptInv, O!Next PROVE FileOptInv'
<1> USE DEF FileParameters
<1>0. O!TypeOK
  BY DEF FileOptInv
<1>a. /\ file_test \in 0..MaxOpened /\ log_file \in -1..MaxOpened
      /\ oopened \in 0..MaxOpened /\ ofiles \subseteq 1..MaxOpened
  BY <1>0 DEF O!TypeOK
<1>1. PICK t \in Tasks : O!File(t) \/ O!Log(t)
  BY DEF O!Next
<1>2. CASE O!Ioctl(t)
  <2>1. /\ opc[t] = "idle" /\ opc' = [opc EXCEPT ![t] = "open"]
        /\ UNCHANGED <<file_test, log_file, ofiles, oopened, exists, undeleted>>
        /\ ooverlap' = (ooverlap \/ \E u \in Tasks : opc[u] # "idle")
    BY <1>2 DEF O!Ioctl, O!Go
  <2>2. ooverlap' \in BOOLEAN /\ (~ooverlap' => ~ooverlap /\ \A u \in Tasks : opc[u] = "idle")
    BY <2>1, Zenon
  <2>3. O!TypeOK'
    <3>1. opc' \in [Tasks -> O!Outside \cup {"open", "use", "close", "clear", "delete", "openlog",
                         "nolog", "testlog", "writelog", "closelog", "closing", "clearlog"}]
      BY <1>0, <2>1 DEF O!TypeOK
    <3> QED  BY <1>0, <2>1, <2>2, <3>1 DEF O!TypeOK
  <2>4. ASSUME ~ooverlap'
        PROVE  /\ opc'[t] = "open" /\ \A u \in Tasks : u # t => opc'[u] = "idle"
               /\ FileAt("open")'
    <3>1. FileAt("idle") /\ \A u \in Tasks : opc[u] = "idle"
      BY <2>2, <2>4 DEF FileOptInv
    <3> QED  BY <1>0, <2>1, <3>1 DEF O!TypeOK, FileAt
  <2>5. ASSUME ~ooverlap', NEW u \in Tasks, opc'[u] # "idle"
        PROVE  OthersIdle(u)' /\ FileAt(opc[u])'
    <3>1. u = t /\ opc'[u] = "open"
      BY <2>4, <2>5
    <3>2. FileAt(opc[u])'
      BY <2>4, <2>5, <3>1 DEF FileAt
    <3>3. OthersIdle(u)'
      BY <2>4, <2>5, <3>1 DEF OthersIdle
    <3> QED  BY <3>2, <3>3
  <2>6. ~ooverlap' => opc'[t] # "idle"
    BY <2>4
  <2> QED  BY <2>3, <2>5, <2>6 DEF FileOptInv
<1>3. CASE O!OpenFile(t)
  <2>1. CASE /\ O!Go(t, "open", "use") /\ O!NewFile /\ file_test' = oopened' /\ exists' = TRUE
             /\ UNCHANGED <<log_file, undeleted, ooverlap>>
    <3>1. /\ oopened' = oopened + 1 /\ file_test' = oopened + 1 /\ oopened + 1 \in 1..MaxOpened
          /\ ofiles' = ofiles \cup {oopened + 1}
      BY <1>0, <2>1 DEF O!NewFile, O!TypeOK
    <3>2. /\ file_test' \in 0..MaxOpened /\ log_file' \in -1..MaxOpened /\ oopened' \in 0..MaxOpened
          /\ ofiles' \subseteq 1..MaxOpened /\ exists' \in BOOLEAN /\ undeleted' \in BOOLEAN
      BY <1>0, <2>1, <3>1 DEF O!TypeOK
    <3>3. opc[t] = "open" /\ opc' = [opc EXCEPT ![t] = "use"] /\ ooverlap' = ooverlap
      BY <2>1 DEF O!Go
    <3>4. FileAt("open") => FileAt("use")'
      BY <3>1 DEF FileAt
    <3> QED  BY <3>2, <3>3, <3>4, FileOptGoes DEF IoctlPlaces
  <2>2. CASE /\ O!Go(t, "open", "idle") /\ file_test' = 0
             /\ UNCHANGED <<ofiles, oopened, exists, log_file, undeleted, ooverlap>>
    <3>1. /\ file_test' \in 0..MaxOpened /\ log_file' \in -1..MaxOpened /\ oopened' \in 0..MaxOpened
          /\ ofiles' \subseteq 1..MaxOpened /\ exists' \in BOOLEAN /\ undeleted' \in BOOLEAN
      BY <1>0, <2>2 DEF O!TypeOK
    <3>2. opc[t] = "open" /\ opc' = [opc EXCEPT ![t] = "idle"] /\ ooverlap' = ooverlap
      BY <2>2 DEF O!Go
    <3>3. FileAt("open") => FileAt("idle")'
      BY <1>a, <2>2 DEF FileAt
    <3> QED  BY <3>1, <3>2, <3>3, FileOptGoes DEF IoctlPlaces
  <2> QED  BY <1>3, <2>1, <2>2 DEF O!OpenFile
<1>4. CASE O!UseFile(t)
  <2>1. /\ opc[t] = "use" /\ UNCHANGED <<file_test, log_file, ofiles, oopened, exists, undeleted, ooverlap>>
        /\ \/ file_test > 0 /\ opc' = [opc EXCEPT ![t] = "use"]
           \/ file_test <= 0 /\ opc' = [opc EXCEPT ![t] = "dead"]
           \/ opc' = [opc EXCEPT ![t] = "close"]
    BY <1>4 DEF O!UseFile, O!Go
  <2>2. CASE file_test > 0 /\ opc' = [opc EXCEPT ![t] = "use"]
    <3>1. FileAt("use") => FileAt("use")
      BY <1>a, <2>2 DEF FileAt
    <3> QED  BY <2>1, <2>2, <3>1, FileOptWalks DEF IoctlPlaces
  <2>3. CASE file_test <= 0 /\ opc' = [opc EXCEPT ![t] = "dead"]
    <3>1. FileAt("use") => FileAt("dead")
      BY <1>a, <2>3 DEF FileAt
    <3> QED  BY <2>1, <2>3, <3>1, FileOptWalks DEF IoctlPlaces
  <2>4. CASE opc' = [opc EXCEPT ![t] = "close"]
    <3>1. FileAt("use") => FileAt("close")
      BY <1>a, <2>4 DEF FileAt
    <3> QED  BY <2>1, <2>4, <3>1, FileOptWalks DEF IoctlPlaces
  <2> QED  BY <2>1, <2>2, <2>3, <2>4
<1>5. CASE O!CloseFile(t)
  <2>1. CASE /\ opc[t] = "close" /\ opc' = [opc EXCEPT ![t] = "clear"]
             /\ file_test > 0 /\ ofiles' = ofiles \ {file_test}
             /\ UNCHANGED <<file_test, log_file, oopened, exists, undeleted, ooverlap>>
    <3>1. /\ file_test' \in 0..MaxOpened /\ log_file' \in -1..MaxOpened /\ oopened' \in 0..MaxOpened
          /\ ofiles' \subseteq 1..MaxOpened
      BY <1>0, <2>1 DEF O!TypeOK
    <3>2. exists' \in BOOLEAN /\ undeleted' \in BOOLEAN
      BY <1>0, <2>1, Zenon DEF O!TypeOK
    <3>3. FileAt("close") => FileAt("clear")'
      BY <1>a, <2>1 DEF FileAt
    <3> QED  BY <2>1, <3>1, <3>2, <3>3, FileOptGoes DEF IoctlPlaces
  <2>2. CASE /\ opc[t] = "close" /\ opc' = [opc EXCEPT ![t] = "dead"]
             /\ ~(file_test > 0) /\ ofiles' = ofiles \ {file_test}
             /\ UNCHANGED <<file_test, log_file, oopened, exists, undeleted, ooverlap>>
    <3>1. /\ file_test' \in 0..MaxOpened /\ log_file' \in -1..MaxOpened /\ oopened' \in 0..MaxOpened
          /\ ofiles' \subseteq 1..MaxOpened
      BY <1>0, <2>2 DEF O!TypeOK
    <3>2. exists' \in BOOLEAN /\ undeleted' \in BOOLEAN
      BY <1>0, <2>2, Zenon DEF O!TypeOK
    <3>3. FileAt("close") => FileAt("dead")'
      BY <1>a, <2>2 DEF FileAt
    <3> QED  BY <2>2, <3>1, <3>2, <3>3, FileOptGoes DEF IoctlPlaces
  <2> QED  BY <1>0, <1>5, <2>1, <2>2 DEF O!CloseFile, O!Go
<1>6. CASE O!ClearFile(t)
  <2>1. CASE /\ opc[t] = "clear" /\ opc' = [opc EXCEPT ![t] = "delete"]
             /\ file_test' = 0 /\ UNCHANGED <<log_file, ofiles, oopened, exists, undeleted, ooverlap>>
    <3>1. /\ file_test' \in 0..MaxOpened /\ log_file' \in -1..MaxOpened /\ oopened' \in 0..MaxOpened
          /\ ofiles' \subseteq 1..MaxOpened
      BY <1>0, <2>1 DEF O!TypeOK
    <3>2. exists' \in BOOLEAN /\ undeleted' \in BOOLEAN
      BY <1>0, <2>1, Zenon DEF O!TypeOK
    <3>3. FileAt("clear") => FileAt("delete")'
      BY <1>a, <2>1 DEF FileAt
    <3> QED  BY <2>1, <3>1, <3>2, <3>3, FileOptGoes DEF IoctlPlaces
  <2> QED  BY <1>0, <1>6, <2>1 DEF O!ClearFile, O!Go
<1>7. CASE O!DeleteFile(t)
  <2>1. CASE /\ opc[t] = "delete" /\ opc' = [opc EXCEPT ![t] = "openlog"]
             /\ exists' = FALSE /\ undeleted' = FALSE
             /\ UNCHANGED <<file_test, log_file, ofiles, oopened, ooverlap>>
    <3>1. /\ file_test' \in 0..MaxOpened /\ log_file' \in -1..MaxOpened /\ oopened' \in 0..MaxOpened
          /\ ofiles' \subseteq 1..MaxOpened
      BY <1>0, <2>1 DEF O!TypeOK
    <3>2. exists' \in BOOLEAN /\ undeleted' \in BOOLEAN
      BY <1>0, <2>1, Zenon DEF O!TypeOK
    <3>3. FileAt("delete") => FileAt("openlog")'
      BY <1>a, <2>1 DEF FileAt
    <3> QED  BY <2>1, <3>1, <3>2, <3>3, FileOptGoes DEF IoctlPlaces
  <2>2. CASE /\ opc[t] = "delete" /\ opc' = [opc EXCEPT ![t] = "openlog"]
             /\ exists' = exists /\ undeleted' = exists
             /\ UNCHANGED <<file_test, log_file, ofiles, oopened, ooverlap>>
    <3>1. /\ file_test' \in 0..MaxOpened /\ log_file' \in -1..MaxOpened /\ oopened' \in 0..MaxOpened
          /\ ofiles' \subseteq 1..MaxOpened
      BY <1>0, <2>2 DEF O!TypeOK
    <3>2. exists' \in BOOLEAN /\ undeleted' \in BOOLEAN
      BY <1>0, <2>2, Zenon DEF O!TypeOK
    <3>3. FileAt("delete") => FileAt("openlog")'
      BY <1>a, <2>2 DEF FileAt
    <3> QED  BY <2>2, <3>1, <3>2, <3>3, FileOptGoes DEF IoctlPlaces
  <2> QED  BY <1>0, <1>7, <2>1, <2>2 DEF O!DeleteFile, O!Go
<1>8. CASE O!OpenLog(t)
  <2>1. CASE /\ opc[t] = "openlog" /\ opc' = [opc EXCEPT ![t] = "testlog"]
             /\ oopened + 1 \in 1..MaxOpened /\ oopened' = oopened + 1
             /\ log_file' = oopened + 1 /\ ofiles' = ofiles \cup {oopened + 1}
             /\ UNCHANGED <<file_test, exists, undeleted, ooverlap>>
    <3>1. /\ file_test' \in 0..MaxOpened /\ log_file' \in -1..MaxOpened /\ oopened' \in 0..MaxOpened
          /\ ofiles' \subseteq 1..MaxOpened
      BY <1>0, <2>1 DEF O!TypeOK
    <3>2. exists' \in BOOLEAN /\ undeleted' \in BOOLEAN
      BY <1>0, <2>1, Zenon DEF O!TypeOK
    <3>3. ASSUME FileAt("openlog") PROVE FileAt("testlog")'
      <4>1. ofiles = {} /\ (exists => undeleted)
        BY <3>3 DEF FileAt
      <4>2. log_file' > 0 /\ ofiles' = {log_file'}
        BY <2>1, <4>1
      <4> QED  BY <2>1, <4>1, <4>2 DEF FileAt
    <3> QED  BY <2>1, <3>1, <3>2, <3>3, FileOptGoes DEF IoctlPlaces
  <2>2. CASE /\ opc[t] = "openlog" /\ opc' = [opc EXCEPT ![t] = "nolog"]
             /\ log_file' = -1 /\ UNCHANGED <<file_test, ofiles, oopened, exists, undeleted, ooverlap>>
    <3>1. /\ file_test' \in 0..MaxOpened /\ log_file' \in -1..MaxOpened /\ oopened' \in 0..MaxOpened
          /\ ofiles' \subseteq 1..MaxOpened
      BY <1>0, <2>2 DEF O!TypeOK
    <3>2. exists' \in BOOLEAN /\ undeleted' \in BOOLEAN
      BY <1>0, <2>2, Zenon DEF O!TypeOK
    <3>3. FileAt("openlog") => FileAt("nolog")'
      BY <1>a, <2>2 DEF FileAt
    <3> QED  BY <2>2, <3>1, <3>2, <3>3, FileOptGoes DEF IoctlPlaces
  <2> QED  BY <1>a, <1>8, <2>1, <2>2 DEF O!OpenLog, O!Go, O!NewFile
<1>9. CASE O!OpenLogFails(t)
  <2>1. CASE /\ opc[t] = "nolog" /\ opc' = [opc EXCEPT ![t] = "testlog"]
             /\ log_file' = 0 /\ UNCHANGED <<file_test, ofiles, oopened, exists, undeleted, ooverlap>>
    <3>1. /\ file_test' \in 0..MaxOpened /\ log_file' \in -1..MaxOpened /\ oopened' \in 0..MaxOpened
          /\ ofiles' \subseteq 1..MaxOpened
      BY <1>0, <2>1 DEF O!TypeOK
    <3>2. exists' \in BOOLEAN /\ undeleted' \in BOOLEAN
      BY <1>0, <2>1, Zenon DEF O!TypeOK
    <3>3. FileAt("nolog") => FileAt("testlog")'
      BY <1>a, <2>1 DEF FileAt
    <3> QED  BY <2>1, <3>1, <3>2, <3>3, FileOptGoes DEF IoctlPlaces
  <2> QED  BY <1>0, <1>9, <2>1 DEF O!OpenLogFails, O!Go
<1>10. CASE O!WriteLogTest(t)
  <2>1. /\ opc[t] = "testlog" /\ UNCHANGED <<file_test, log_file, ofiles, oopened, exists, undeleted, ooverlap>>
        /\ \/ log_file # 0 /\ opc' = [opc EXCEPT ![t] = "writelog"]
           \/ log_file = 0 /\ opc' = [opc EXCEPT ![t] = "closelog"]
    BY <1>10 DEF O!WriteLogTest, O!Go
  <2>2. CASE log_file # 0 /\ opc' = [opc EXCEPT ![t] = "writelog"]
    <3>1. FileAt("testlog") => FileAt("writelog")
      BY <1>a, <2>2 DEF FileAt
    <3> QED  BY <2>1, <2>2, <3>1, FileOptWalks DEF IoctlPlaces
  <2>3. CASE log_file = 0 /\ opc' = [opc EXCEPT ![t] = "closelog"]
    <3>1. FileAt("testlog") => FileAt("closelog")
      BY <1>a, <2>3 DEF FileAt
    <3> QED  BY <2>1, <2>3, <3>1, FileOptWalks DEF IoctlPlaces
  <2> QED  BY <2>1, <2>2, <2>3
<1>11. CASE O!WriteLog(t)
  <2>1. /\ opc[t] = "writelog" /\ UNCHANGED <<file_test, log_file, ofiles, oopened, exists, undeleted, ooverlap>>
        /\ \/ log_file > 0 /\ opc' = [opc EXCEPT ![t] = "closelog"]
           \/ ~(log_file > 0) /\ opc' = [opc EXCEPT ![t] = "dead"]
    BY <1>11 DEF O!WriteLog, O!Go
  <2>2. CASE log_file > 0 /\ opc' = [opc EXCEPT ![t] = "closelog"]
    <3>1. FileAt("writelog") => FileAt("closelog")
      BY <1>a, <2>2 DEF FileAt
    <3> QED  BY <2>1, <2>2, <3>1, FileOptWalks DEF IoctlPlaces
  <2>3. CASE ~(log_file > 0) /\ opc' = [opc EXCEPT ![t] = "dead"]
    <3>1. FileAt("writelog") => FileAt("dead")
      BY <1>a, <2>3 DEF FileAt
    <3> QED  BY <2>1, <2>3, <3>1, FileOptWalks DEF IoctlPlaces
  <2> QED  BY <2>1, <2>2, <2>3
<1>12. CASE O!CloseLogTest(t)
  <2>1. /\ opc[t] = "closelog" /\ UNCHANGED <<file_test, log_file, ofiles, oopened, exists, undeleted, ooverlap>>
        /\ \/ log_file # 0 /\ opc' = [opc EXCEPT ![t] = "closing"]
           \/ log_file = 0 /\ opc' = [opc EXCEPT ![t] = "idle"]
    BY <1>12 DEF O!CloseLogTest, O!Go
  <2>2. CASE log_file # 0 /\ opc' = [opc EXCEPT ![t] = "closing"]
    <3>1. FileAt("closelog") => FileAt("closing")
      BY <1>a, <2>2 DEF FileAt
    <3> QED  BY <2>1, <2>2, <3>1, FileOptWalks DEF IoctlPlaces
  <2>3. CASE log_file = 0 /\ opc' = [opc EXCEPT ![t] = "idle"]
    <3>1. FileAt("closelog") => FileAt("idle")
      BY <1>a, <2>3 DEF FileAt
    <3> QED  BY <2>1, <2>3, <3>1, FileOptWalks DEF IoctlPlaces
  <2> QED  BY <2>1, <2>2, <2>3
<1>13. CASE O!CloseLog(t)
  <2>1. CASE /\ opc[t] = "closing" /\ opc' = [opc EXCEPT ![t] = "clearlog"]
             /\ log_file > 0 /\ ofiles' = ofiles \ {log_file}
             /\ UNCHANGED <<file_test, log_file, oopened, exists, undeleted, ooverlap>>
    <3>1. /\ file_test' \in 0..MaxOpened /\ log_file' \in -1..MaxOpened /\ oopened' \in 0..MaxOpened
          /\ ofiles' \subseteq 1..MaxOpened
      BY <1>0, <2>1 DEF O!TypeOK
    <3>2. exists' \in BOOLEAN /\ undeleted' \in BOOLEAN
      BY <1>0, <2>1, Zenon DEF O!TypeOK
    <3>3. FileAt("closing") => FileAt("clearlog")'
      BY <1>a, <2>1 DEF FileAt
    <3> QED  BY <2>1, <3>1, <3>2, <3>3, FileOptGoes DEF IoctlPlaces
  <2>2. CASE /\ opc[t] = "closing" /\ opc' = [opc EXCEPT ![t] = "dead"]
             /\ ~(log_file > 0) /\ ofiles' = ofiles \ {log_file}
             /\ UNCHANGED <<file_test, log_file, oopened, exists, undeleted, ooverlap>>
    <3>1. /\ file_test' \in 0..MaxOpened /\ log_file' \in -1..MaxOpened /\ oopened' \in 0..MaxOpened
          /\ ofiles' \subseteq 1..MaxOpened
      BY <1>0, <2>2 DEF O!TypeOK
    <3>2. exists' \in BOOLEAN /\ undeleted' \in BOOLEAN
      BY <1>0, <2>2, Zenon DEF O!TypeOK
    <3>3. FileAt("closing") => FileAt("dead")'
      BY <1>a, <2>2 DEF FileAt
    <3> QED  BY <2>2, <3>1, <3>2, <3>3, FileOptGoes DEF IoctlPlaces
  <2> QED  BY <1>0, <1>13, <2>1, <2>2 DEF O!CloseLog, O!Go
<1>14. CASE O!ClearLog(t)
  <2>1. CASE /\ opc[t] = "clearlog" /\ opc' = [opc EXCEPT ![t] = "idle"]
             /\ log_file' = 0 /\ UNCHANGED <<file_test, ofiles, oopened, exists, undeleted, ooverlap>>
    <3>1. /\ file_test' \in 0..MaxOpened /\ log_file' \in -1..MaxOpened /\ oopened' \in 0..MaxOpened
          /\ ofiles' \subseteq 1..MaxOpened
      BY <1>0, <2>1 DEF O!TypeOK
    <3>2. exists' \in BOOLEAN /\ undeleted' \in BOOLEAN
      BY <1>0, <2>1, Zenon DEF O!TypeOK
    <3>3. FileAt("clearlog") => FileAt("idle")'
      BY <1>a, <2>1 DEF FileAt
    <3> QED  BY <2>1, <3>1, <3>2, <3>3, FileOptGoes DEF IoctlPlaces
  <2> QED  BY <1>0, <1>14, <2>1 DEF O!ClearLog, O!Go
<1>15. CASE O!File(t)
  BY <1>15, <1>2, <1>3, <1>4, <1>5, <1>6, <1>7 DEF O!File
<1>16. CASE O!Log(t)
  BY <1>16, <1>8, <1>9, <1>10, <1>11, <1>12, <1>13, <1>14 DEF O!Log
<1> QED  BY <1>1, <1>15, <1>16

\* From the invariant: an ioctl that is alone uses files it has open, and closes them.
LEMMA FileOptSound == FileOptInv => O!UsesOpenFiles /\ O!FilesClosed
<1>1. FileOptInv => O!FilesClosed
  BY DEF FileOptInv, FileAt, O!FilesClosed
<1>2. ASSUME FileOptInv, ~ooverlap, NEW t \in Tasks
      PROVE  /\ opc[t] # "dead"
             /\ opc[t] \in {"use", "close"} => file_test \in ofiles
             /\ opc[t] \in {"writelog", "closing"} => log_file \in ofiles
  <2>1. CASE opc[t] = "idle"
    BY <2>1
  <2>2. CASE opc[t] # "idle"
    <3>1. FileAt(opc[t])
      BY <1>2, <2>2 DEF FileOptInv
    <3> QED  BY <3>1 DEF FileAt
  <2> QED  BY <2>1, <2>2
<1> QED  BY <1>1, <1>2 DEF O!UsesOpenFiles
=============================================================================
