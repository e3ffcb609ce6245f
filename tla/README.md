# A TLA+ development of LearnLinuxDrv

LearnLinuxDrv is a collection of Linux kernel modules, each written to show one
facility of the kernel: a blocking FIFO device with poll and SIGIO, a seekable
memory device, kernel threads and workers, work queues, wait queues, sleeping
locks and RCU, timers, lists and kfifos, proc entries, DMA mappings.  A module
is small, but it runs concurrently with itself: every open file is a task that
calls it, and behind it run threads, timers and work items of its own.

The specifications here are translated from the C source; `PROJECT.json` names
the lines that each definition stands for.  TLC checks them on small instances,
and TLAPS proves what matters most for instances of any size: the safety of the
globalfifo driver in all its forms and its refinement, the wait queue lists, the DMA
driver with its test program, and the demos of threads, data structures, files and
drivers.

Contents: [the system](#the-system), [the modules](#the-modules),
[the runs](#the-runs), [fairness](#fairness), [the proofs](#the-proofs),
[what the code does not promise](#what-the-code-does-not-promise),
[limits of the models](#limits-of-the-models), [plan](#plan).

## The system

There is no program that links these parts together.  Each directory below
`00.mDemo`, and each driver below `06.char_drv`, is a kernel module of its own.
They interact with three things: user tasks through `file_operations`, the
kernel through its primitives (which call back: threads, timers, work items,
`seq_file`), and the module loader, which runs the init function at insmod and
the exit function at rmmod once no file is open.

| Part | State | Operations and contexts | Hard behaviour | What makes it correct |
|---|---|---|---|---|
| globalfifo (`06.char_drv/2.platform_cdev/globalfifo`, ch12) | `mem`, `current_len`, a mutex, two wait queues, the SIGIO list | open, release, read, write, poll, ioctl, fasync by any task | a task sleeps with its entry queued and the mutex dropped; signals; `goto out` against `goto out2`; poll against a wake-up; a memcpy between regions that overlap | bytes come out once and in order, as far as memcpy keeps them; no lost wake-up; mutex and wait entry right on every path; signals and O_NONBLOCK end a call |
| its test programs (ch8 `globalfifo_poll.c`, `globalfifo_epoll.c`, ch9 `globalfifo_test.c`) | a file, epoll's entries, a SIGIO handler | select, epoll_wait, sleep | they never read: they depend on being told | each is told what it waits for |
| its binding (ch12 `globalfifo-dev.c`, probe and remove) | two modules, the device's memory with mutex and queues, the misc device | add, probe, remove, open, close | any order of loading and unloading; unbinding with open files | a file leads to its own device, live and initialised |
| its wait queue lists | links of entries on the stacks of calls, a spin lock per head | add, remove, walk | `remove_wait_queue` is given the other head by read, without the mutex | the list stays a ring; a wake-up reaches everybody and ends |
| wait queue demo (`07.thread_sync/5.wait_queue`) | two conditions, two threads | open sets conditions, threads wait, exit stops one | `kthread_stop` against a conditional wait | the stopped thread is gone when the module is; rmmod returns |
| DMA demo (`08.dma/1.dma_base`) | per device: coherent buffer, streaming mapping, scatter-gather list, pool | 15 ioctls, exit | every allocation may fail in the middle; no lock anywhere | no leak, no double free, nothing freed that is mapped |
| kthread_worker demo (`06.thread/2.kthread_worker`) | worker, two heap items, in globals | open, release, the worker thread | items freed behind a flush; failed opens | work runs on live items, done before they are freed |
| deferred work demos (`06.thread/3`, `4`) | three static items, a timer, a list | open queues, release cancels and flushes | cancel against run, delayed item | flushed work has run; open initialises idle items only |
| sleeping locks and RCU demo (`07.thread_sync/2`) | six threads, an rw semaphore, an RCU pointer | threads, exit | replacement and unloading under an RCU reader | reads live data; all threads joined; rmmod returns |
| thread and completion demos (`06.thread/1`, `07.thread_sync/3`) | a thread, a completion | insmod waits for the thread, exit stops it | stop before first run; completion before wait | no lost completion; thread joined |
| timer demo (`05.timer_delay/1`) | a timer that arms itself | callback, exit | `del_timer` against a running callback | timer goes on; is gone when the module is |
| list demo (`02.base/3`) | two lists on the heap | 13 calls in init | splice and emptying, deleting while walking | both lists stay rings, nothing leaks |
| kfifo demo (`02.base/4`) | kfifo of bytes, kfifo of nodes, a spin lock | read, write, ioctl | unlocked tests, indices that run over, partial copies | bytes read once, in order |
| proc demo (`03.file_sysfs/3`) | five entries, two buffers with locks, a counter | reads, writes, seq_file, exit | faults in the middle of a copy, removal under readers | a reader sees one write; entries gone at unload |
| globalmem (`06.char_drv/1.cdev/0.ch6`) | memory per device, position per file | read, write, llseek, ioctl without a lock | position shared by tasks | copies stay in the device's own memory |
| module frame of all demos (`01.base_demo`) | region, class, a cdev and a node per minor; the file of its test program | init, exit, of several modules; open and close; `kDemo_2` linked to a symbol | errors that nobody looks at, names that clash, cdevs that are never deleted | a node leads to its own module, which stays while it is used; nodes and class are given back |
| DMA test program (`08.dma/1.dma_base/userDemoBase.c`) | file, mapped buffers | tests of ioctls, each in a fixed order | a call fails half-way | what it leaves behind with the device |
| DMA demo for ARM (`08.dma/2.dma_base_arm`) with its test program | as the DMA demo, for each of two minors | the same | a minor in use while the next one is set up | as the DMA demo; unloading takes both; what a test run leaves |
| earlier globalfifo (ch8, ch9) | as ch12, and region, memory, cdev | init, exit, and all calls of ch12 (ch8 without fasync) | visible before mutex and queues are initialised | an open file has its device; as ch12 unless a call came too early |
| buffer allocation demo (`02.base/6`) | ten global pointers | open, release | pointers that outlive what they point to | release frees live memory only |
| file demos (`03.file_sysfs/1`, `4`) | global file pointers | open, release; one ioctl in 14 steps | failed opens, overlapping calls | files are open when used, closed in the end |
| sysfs demo (`03.file_sysfs/2`) | a kobject, an attribute, a buffer | show, store, init, exit | no result looked at, removal under a call | no call in a module that is gone |
| fd table demo (`03.file_sysfs/5`) | a parameter | reads, while the target exits | RCU look-up against exit | the task is there while it is shown |
| platform driver demo (`04.platform_driver`) | two modules, the binding, a misc device | probe, remove, open | any order of unloading | the misc device lies in live memory |
| atomics demo (`02.base/2`) | three words | one ioctl | a lock made from compare-and-swap | no update lost, one task inside |

`PROJECT.json` lists these parts one by one, with those that keep no state
(prints, macros, delays), the copies of the frame's user program, the build rules and scripts and
the notes, and the reason when a part is not modelled.

## The modules

One step of a model is one access to state that another context can see: a
lock taken, a field stored, a wake-up, a call of `schedule()`.  What the kernel
does is modelled by what the code in this repository relies on, and marked
`external` in the map.  A definition under a comment that begins with
"Variant:" is a bug somebody might have written; no specification uses it.
It is put in place of the definition that follows it to see that the
properties notice.

**GlobalFifo** is the ch12 FIFO driver with its callers.  `mem`, `current_len`
and `mutex` are the fields of `struct globalfifo_dev`; `wait[q]` the tasks with an
entry on `r_wait` and `w_wait`; `async_queue` the SIGIO list; `state` and `sig` the
scheduler's state of a task and its pending signal; `op`, `filp`, `want`, `count`,
`ret`, `ubuf` the arguments and locals of the call it is in, and `pc` the place.
`cleared` is a history variable: the room there is was made by FIFO_CLEAR.  read and
write are mirror images, so `TransferLock`, `Go`, `Again`, `Prepare`, `UnlockToSleep`,
`Woken`, `Interrupted`, `Relock`, `TransferWake`, `Out` and `Out2` serve both, and only
the copy and the update differ.  Poll is followed through the loop of `poll(2)`, for one
event or, as select does it, for both (`Polled`).

**BoundedFifo** is what the device promises: an atomic queue of at most SIZE bytes.
`ImplementsFifo` maps GlobalFifo to it: a read takes effect where it moves the rest
of the buffer to the front, a write where it raises `current_len`.  The move is a `memcpy`
(line 135 of ch12), and its regions overlap when more bytes stay than are taken.  C leaves that
undefined, and copies of the kernel differ: they may go upwards, as memmove would, or
downwards, or in blocks.  `CopyDown` therefore lets any byte that is moved come from its own place or from
one or more lengths of the read further behind, where a byte put before has been read again.  So
a read of BoundedFifo gets the bytes that are first, and may spoil the others if it leaves more
than it takes.  `Kept` says that it has not; `ImplementsFifo` has it for the reads whose regions are
`Apart` and for those whose memcpy has done what memmove does (`LikeMemmove`).

**GlobalFifoClients** extends GlobalFifo by its test programs.  `at` is the place of a program
between its calls, and the history variable `unheard` has the programs that listen for SIGIO and
have not got it for bytes that have come.  Tasks that run none of them read and write.

**FifoLoad** extends GlobalFifo, too, by the init and exit functions of ch8 and ch9, which make
the device visible first and initialise it afterwards: calls that come in between find a
zeroed mutex, which works, or a zeroed list, on which they die.  `early` says that a call has
got in.  **FifoBinding** is the way the ch12 driver comes to its device, on top of
PlatformDemo: `gen` counts the devices, and `file` says to which one a file points.

**WaitQueue** is what a wait queue promises: a set of entries that a wake-up reaches in one step.
This is what GlobalFifo builds on.  WaitList implements it (`ImplementsQueue`): an entry is in
the set from its last link to the lock of its removal, and a wake-up takes effect where the walk
ends.

**WaitList** is one of the two wait queues of GlobalFifo link by link.  GlobalFifo
inserts and removes an entry in one step; WaitList shows when that is right.
`RemoveLock` says which head the removal locks.

**WaitDemo**, **KthreadWorker**, **DeferredWork**, **SyncDemo**, **TaskDemo**,
**TimerDemo** are the demos of threads.  In each, `mod` is the place in the init or
exit function, and the further variables are the globals of the source and the
places of its threads and calls.  **DeferredWork** and **TaskDemo** cover two demos
each that differ in a few steps, and say which is loaded in `demo`.

**DmaDevice** is the DMA demo.  `dd` holds the fields of the device data that are set,
`heap` and `mapping` count what is allocated and mapped, so that a leak and a double
free both show as a count the fields do not account for.  `Uses` says which task
uses which class of resource.

**DmaClient** adds the test program to DmaDevice, as a process that opens the device and
makes the calls of the tests main selects, each in its order; **DmaArm** puts two
instances of DmaDevice, one per minor, into one module that sets them up and takes
them down, and runs the test program on the first.

**ListDemo** keeps `next` and `prev` of every head and person as they are stored, and
runs the calls of init one after another.  **KfifoDemo** keeps the two indices and the
bytes, numbered in the order in which users wrote them.  **ProcDemo** copies byte by
byte, each byte known by the write it comes from.  **GlobalMem** keeps positions and
counts, and says which bytes a copy touches instead of what they hold.

**DemoFrame** has several modules with the frame of `01.base_demo/1.base`: they name their class
and nodes alike.  `regions`, `class`, `cdev_map` and `node` are what the kernel has registered for
them.  Next to them `test_base` of `userDemoBase.c` opens its two nodes one after the other (`ufile`),
and `kDemo_2` is loaded and unloaded (`demo2`); either one keeps a module from being unloaded.
**PlatformDemo** has the two modules of that demo and the driver core between them,
**AllocBuf**, **KernelFile** and **FileOpt** the global
pointers of their demos, **SysfsDemo** and **FdDump** an entry that is read while what it shows goes
away, **AtomicDemo** the words of its ioctl.  KernelFile and FileOpt keep in
`overlap` whether two uses have overlapped: nothing holds after that.

The small demos share nothing, so that **ThreadDemos** and **DriverDemos** put them on one
machine on which one of them is loaded: a run checks each under bounds of its own, and a property
of the run is the conjunction of a property of each.  DriverDemos is in parts: **DemoTasks**
has the constants that all of them use, **DataDemos** the demos of data structures, **FileDemos** those
of devices, files and entries; what is left are the two forms of globalfifo and the DMA demo for ARM.

**MCGlobalFifo**, **MCGlobalFifoClients**, **MCDmaDevice**, **MCThreadDemos** and **MCDriverDemos** give
the instances for TLC; WaitList and WaitDemo get theirs in the configuration files.

The theorems are in **GlobalFifoProofs** (GlobalFifo, its refinement, and FifoLoad), **WaitListProofs**,
**DmaDeviceProofs**, **DmaClientProofs**, **ThreadDemosProofs**, **DataDemosProofs**, **FileDemosProofs** and
**DriverDemosProofs**, which puts the last two together.

## The runs

| Run | Shows | Bounds |
|---|---|---|
| `globalfifo_data` | the bytes: the device implements the bounded FIFO, and the inductive invariant of the proofs holds | 2 tasks, 3-byte buffer, counts to 2, byte values 1 and 2 |
| `globalfifo_wait` | locks, task states, entries, no lost wake-up, no standoff, no early return | 3 tasks, 1-byte buffer |
| `globalfifo_live` | with the test programs: a signal ends a call, O_NONBLOCK returns, bytes wake a reader, and every program is told what it waits for | 2 tasks, one of which runs a program, 1-byte buffer |
| `globalfifo_clear` (violation) | FIFO_CLEAR makes room and wakes no writer | 2 tasks |
| `waitlist` | removal under the lock of the own head: the list is a ring, walks are safe and end, and it implements the abstract queue, so that a wake-up reaches exactly the entries there are | 3 sleepers, 1 waker |
| `waitlist_other` (violation) | removal under the lock of the other head loses a sleeper | the same |
| `waitdemo_stop` (violation) | rmmod hangs when the condition is not set | 2 files |
| `dma_apart` | tasks on different classes (never two on one), which call as they like or run the test program: no leak, no double free, mappings backed, clean unload, and what a test run leaves | 2 tasks, 2 pages |
| `dma_together` (violation) | two tasks on the coherent buffer lose one | the same |
| `thread_demos` | the six modules of thread demos, safety and liveness | 2 files, 2 RCU objects |
| `timer_removed` (violation) | the callback outlives the module | |
| `driver_demos` | the fifteen modules of demos of drivers, data structures and files | 2 tasks; see below |

Why the bounds are enough:

- *globalfifo.*  A buffer of 3 bytes has partial reads and writes and a rest that moves, to a
  region apart (a read of 2) or one that overlaps (a read of 1); two byte values tell a swapped or
  repeated byte.  Readers that compete are in
  `globalfifo_wait`, and in the proof of the refinement.  Waiting needs a
  full and an empty buffer only, so 1 byte serves, and three tasks give every
  competition in pairs with a third beside it: two readers for one byte, two writers
  for one place, a poller beside both.  For more tasks and larger buffers there are the
  proofs.  A test program depends on one queue or the SIGIO list alone, so one of them beside a
  task that writes and reads the bytes away is enough.
- *WaitList.*  Insertion touches the head and one neighbour, removal two neighbours:
  with three entries these are different nodes.
- *DMA.*  The classes do not share a field, so two tasks that take two classes each
  meet every pair of steps that can meet; two pages give a first, a last and an
  error between.
- *Threads.*  `MaxOpen` is 1 for the worker demo and one file is open in the deferred work
  demos, since a second open overwrites the globals (see below); a second file then
  reuses what the first left.  In SyncDemo the threads that are alone with their
  locks are represented by one of them.
- *driver_demos.*  KfifoDemo has a fifo of 2 bytes, indices modulo 4 and 5 bytes from
  users, so that the indices run over once; ProcDemo buffers of 3 bytes and 2 writes,
  the least for one write over another with a fault between; GlobalMem 2 devices of 2
  bytes, an unsigned int modulo 4, one file of one task and one that both share,
  whose position may drift 1 off its range.  DemoFrame has two modules (`kDemo` of `1.base` and `m_kDemo` of
  `2.cmake_build_simple`; all others are called `kDemo`, of which the kernel takes one at a time) and two majors, so
  that both can be loaded and the majors run out, and one run of the test program at a time; AllocBuf two failed opens; AtomicDemo two
  ioctls of each task; KernelFile four opens and FileOpt four files, two for each of two
  ioctls; SysfsDemo two loads; DmaArm one task and two pages, with two classes on each minor, and
  the coherent, pool and mask tests of uDemo; FifoLoad two tasks, a reader and one that writes, polls and clears,
  a buffer of one byte, and any number of loads of either chapter; FifoBinding two files and
  two bindings, the least for a file that outlives its device and finds another.

`CHECK_DEADLOCK FALSE` stands in the configurations of models that really stop: an
unloaded module, a module that failed to load, an rmmod that hangs, a task that has
died of an oops or left a spin lock held.  GlobalFifo and WaitList are checked for
deadlock where they must not stop.

## Fairness

Nobody is obliged to call a driver, to signal a task or to load and unload a
module, so these steps have none.  What is inside a call, a thread or an
interrupt is scheduled: weak fairness of its steps.  Locks need more, since a step that
waits for a lock is enabled again and again: strong fairness of the steps that
acquire `dev->mutex` (the kernel hands a mutex to its oldest waiter), the spin locks of a wait
queue (queued spin locks) and the read-write semaphore of SyncDemo.  Sleeping tasks
have no fairness beyond that: `WaiterTimer` ends a sleep only where the code passes a timeout.  epoll_wait has one of 15
seconds (`globalfifo_epoll.c:38`): they pass however often the task is woken for bytes that
are gone again, so the timeout is strongly fair (`Fifteen`).  select has none and gets none.  What the
programs and their user do is not fair.

## The proofs

Everything below holds for any number of tasks, files and threads and any sizes; assumed are
the named assumptions on constants, which TLC evaluates in the runs, and what is said here.  Nearly all
properties need more than they say to be inductive.  So each part has an invariant (IInv, or one
per demo) that the theorem `Invariance` proves step by step and the other theorems follow from.

*GlobalFifoProofs*: any set of tasks, buffer size, byte values, bound on counts and assignment of
calls to tasks.  NoLostDataWakeup and NoLostRoomWakeup, the two that matter most, are not
inductive by themselves: that a task prepares to sleep only when it must depends on the test being
made under the mutex, that is on LockDiscipline; that a wake-up reaches it, on its entry being
queued, that is on EntryLifetime; that a poller is not passed by, on what its place says about the
queues.  NoSpuriousEOF rests on EOFGuard, which says at which places the clipped count still equals the
argument or the condition still holds, and the bound of current_len on ClipHolds, that nobody
moves current_len between a clip and its use.  `IInv` is their conjunction; `globalfifo_data` checks
it.  NoStandoff follows from the two wake-up invariants: a reader that waits means an empty buffer or a
write at its wake-up, a writer that waits a full one, and SIZE > 0.

`Refinement` proves that GlobalFifo implements BoundedFifo, and assumes nothing of memcpy.  A transfer takes two steps, the copy and the
update.  `DataInv` says what the first has done and that it still holds at the second: a reader has the
bytes that are first in line, a writer has put bytes behind the valid ones, and nobody else holds
bytes that the device still has.  With it ReadShift is the abstract get and WriteCommit the abstract put
(ShiftGets, CommitPuts), ClearZero the abstract clear, the end of a read the abstract return, and every other
step a stutter.  The lemmas before say what the first bytes of a memory are, how they grow, and that what has
moved in the buffer has moved alike in the queue (`Moved`, `Hops`).  Kept rests on two facts: only ReadShift gives a
caller bytes (OnlyShiftGives), and it moves every byte from its own place if the regions are apart, since two
lengths of the read are then beyond the valid bytes (ApartHops).  `InOrder` is the corollary for builds whose memcpy
copies like memmove: each byte comes out once, in order and unchanged.  That assumption is its only one.

`EarlierSound` proves of FifoLoad, by the lemmas about GlobalFifo, that ch8 and ch9 keep IInv through
loading, use, unloading and loading again until a call has come too early, and that nobody dies.  Added
is `InTime`: in a module that is not loaded the mutex is free, and at the places where memory is given
out or taken back every file is closed, so nobody is in a call.

*WaitListProofs*, assumed that a removal takes the lock of its own head (`RemoveLock = OwnLock`; the run
`waitlist_other` shows that the theorems are false otherwise).  While an operation is half-way one backward
link is behind the forward ones, and the invariant says which: with that link put right the nodes are
a double ring.  That the ring is one and not several is stated without induction, by closed sets: a set that has the
head and that `next` does not leave has all nodes.  A walk stands at the head or at a live entry, and has
woken every entry before it.  From that follow Ring, WalkIsSafe, the refinement of WaitQueue
(`Refinement`), and `WakesEveryone`, the counterpart of what `waitlist_other` refutes.

*DmaDeviceProofs*: any tasks and any SG_NENTS, under `Disjoint`: no two tasks
use the same class of resource.  The driver has no lock, and the run
`dma_together` shows that without the assumption the theorems are false.  The
invariant has one conjunct per class, which says for every step inside an ioctl on that class how
far heap, mappings and fields are apart, and that they agree outside; with Disjoint
at most one task is inside, so the steps of other tasks leave the conjunct alone.

*DmaClientProofs*: the same with any number of test programs.  `ClientsAreTasks`: each step of a program is a step of
the driver or a stutter, so the theorems about the driver hold of it.  `ClientFlow` relates the next
call of a program to the ioctl it is in; it needs no Disjoint, and neither do the types.  With Disjoint,
`TestsClean` says what the device holds for a program between two calls of a test, and
`PoolClean` the same of the pool; hence ProgramsClean, that a run that has passed leaves nothing.

*ThreadDemosProofs*: any number of files, any memory, any threads of SyncDemo that keep the order of the
source.  The six demos share no state, so the conjunction of an invariant of each is inductive
(`IInv`).  The strengthenings say, per demo: that the globals of the kthread_worker demo point to the worker and the items of the file
that is open, that the worker has only items of that file, and that no item is lost between queueing and its end
(`Pointers`, `Own`, `NotLost`), with one file open at a time (`MaxOpen = 1`: with two the later open
overwrites the globals, see `WorkerKept`); which deferred items are neither queued, nor armed, nor running at each
place of open and release (`Resting`, `InOrder`); how far the threads of SyncDemo are
started and stopped, and that what the RCU reader has, or would get, is allocated (`Started`,
`Stopped`, `Protected`); and where the thread is while insmod waits for its completion (`TaskInv`).

*DataDemosProofs, FileDemosProofs, DriverDemosProofs*: `IInv` asks the invariant of the demo that is loaded,
of fourteen of the fifteen.  Assumed are DataParameters, FileParameters and LoadParameters: finitely many
tasks, a proc buffer of at least 2 bytes, NULL neither a number nor a task, and what the modules of the demos say of their
own constants.  What carries the longer of these proofs:

- *list.*  Rings are stated by closed sets as in WaitList, and each list operation has a lemma (Add, Del,
  Splice).  A walk, which the code writes as a loop, is unrolled over the eight nodes, and a walk that does not end at the head
  early reaches all of the ring.  While persons are added the links rise, so the sorted insert sorts.
- *atomic.*  How much each task has added and still owes is counted as the cardinality of a set of units (`Tally`
  lemmas), which is what `counter` holds; `spinlock` is 1 exactly while somebody is inside.
- *kfifo.*  The bytes between the indices are in the order they were written and later than all that was read
  (`InLine`).  What a task has copied but not yet moved an index by counts as gone or as there already.  The indices run
  over, so the lemmas are about remainders.
- *proc.*  The bytes of a buffer carry the write they come from, and a record that nobody holds the lock
  of is of one write.
- *frame.*  As long as the kernel refuses none, all regions have different numbers, so a new node meets no cdev
  that was left.  That a finite set of numbers has a maximum is proved by well-founded induction over strict subsets.
- *ch8, ch9 and the binding of ch12.*  While a file is open the module is at a place where the device is there, and entries are
  on the queues only during calls.  Each binding has a number of its own, and unless the device has been `torn` off, an
  open file has the number of the one that is bound.

Theorems: MemorySafe, KeepsStructures and GivesBack, the properties `InOwnMemory`, `StructuresSound` and `NothingLeft` of the
run `driver_demos`.

Only model-checked:

- everything temporal under fairness (SignalEndsCall, NonblockReturns, BytesWakeReader, ProgramsHear, WalkEnds,
  CallsReturn, UnloadReturns, TimerGoesOn), which is out of the prover's reach;
- `DriversSound` of DriverDemos.  Its part about ch8 and ch9 is EarlierSound again, which is proved about FifoLoad
  itself; the prover cannot carry a theorem over to an instance with other variables.  Its part about the DMA
  demo for ARM is two instances of DmaDevice, and the same would have to be proved twice more for the same reason;
- the ranges of the variables of DriverDemos (its TypeOK), as far as the invariants above do not contain them;
- the test programs of globalfifo.

## What the code does not promise

Statements one would expect that the code does not keep.  Five have a run that finds
the violation, and a finding in `PROJECT.json`: RoomWakesWriter, WakesAll under the
other head's lock, StopReturns, CleanUnload with two tasks, TimerRemoved.  For others the
models contain the steps, and TLC finds them false in the same way:

- `MaskFirst` (DmaDevice): the node is there before the DMA mask is set, so an early task makes
  DMA calls without.
- `WorkerKept` (KthreadWorker): with two files open the second open overwrites the
  pointer to the first worker, which is never destroyed.
- `OldDataFreed` (SyncDemo): the RCU writer never frees what it replaces, nor does the exit function.
- KfifoDemo: a failed allocation in `fifo_demo` (line 262) returns with the spin lock held, and the
  nodes stay (`NodesFreed` speaks of the states in which the lock is free).  If
  `kfifo_alloc` failed, open succeeds, and the ioctl stores through a null pointer.
  (`kfifo_to_user` under a spin lock may sleep on a page fault, which the model does not show.)
- ProcDemo: readers of entry_generic see mixtures, since it is written without the
  lock it is read under; the counter of entry_data loses updates; a failed init leaves
  the entries that were made.
- GlobalMem: the position of a file that tasks share leaves the range of the memory, a
  step at a time.
- `Kept` (BoundedFifo): a read that leaves more than it takes moves the rest by a memcpy between
  regions that overlap (ch12 line 135, and so in ch8 and ch9).  With a memcpy that does not copy upwards
  byte by byte or block by block, bytes get lost and others come twice.  The least is a read of 1 byte of 3, in
  the constants of `globalfifo_data`.
- `TouchesLive` with two tasks on one class (DmaDevice): `coherent_buf` is tested, copy_from_user may sleep, and
  the buffer may have been freed by another ioctl when it is used (line 246).  `dma_apart` checks TouchesLive
  and NoLeak, and the theorems prove them, for tasks that share no class.
- `RunsClean` (DmaClient): the coherent and the single test return on a failed `malloc` without
  freeing what the device holds; the next run gets -EBUSY.
- `RegionReturned` (DemoFrame): the exit function gives back a region of MINORMASK numbers where it was
  given MAX_DEV, and the kernel takes back nothing.  That the numbers are never given out again is
  what keeps nodes off the cdevs that are left (`NodeLeadsHome`, whose mutant is the
  correction of the count alone).
- `Exclusion` (FifoLoad): a task that opens ch8 or ch9 while it is loading holds the mutex when it is
  initialised, and a second task gets in.  ch12 initialises first.
- `FilesKeepDevice` (FifoBinding): when the device module goes, or the driver is unbound through sysfs, the
  memory with mutex and queues is freed although a file is open, since a file keeps the driver's
  module only.
- `LogFailureFails` (FileOpt): open_log_file returns PTR_ERR of the NULL it has just stored, and the
  test of the ioctl never sees an error.
- `StoresFit` (SysfsDemo): a store may bring a page, and sprintf writes it into the buffer of 100 bytes
  (lines 125 and 177).  The model ends with the step that writes too far.
- `ShownIsStored` (SysfsDemo): the buffer is shown before anything is stored in it; it is never freed.
- `FilesPinned` (FdDump): `task->files` of another task is used without a reference.
- ListDemo: between the splice and the emptying of `extra_list`, its links show into
  the other list.

## Limits of the models

- Memory is sequentially consistent.  What barriers are for is out of reach.
- Interrupt context, preemption and sleeping in atomic context are not told apart.
- Registration of regions, classes and devices is one step in the models of the demos
  (done, or failed where the code looks at the result).  The code ignores most of
  these results: that is the subject of DemoFrame.
- AllocBuf has one file open at a time, as KthreadWorker.
- FifoLoad ends where `mutex_init` has opened a mutex that a task holds: what two tasks then do
  to the buffer is not followed.  A driver that is unbound with a file open (`torn` of FifoBinding) is
  followed, but not what a call on that file then finds in freed memory.
- epoll keeps its entries on the queues across wake-ups; the model puts them there for one call.
- Of a text that is stored through sysfs only whether it fits into the buffer is kept; after one that does not,
  nothing is followed, so what `InOwnMemory` says of SysfsDemo is said of the module behind the attribute.  What the
  files hold that the kernel opens is left out.
- The memcpy of globalfifo reads and writes whole bytes of the two regions, each from its source or, where they
  overlap, from what it has put there; undefined behaviour of any other kind is left out.
- The text a driver prints and the text of its fixed answers are left out, and so are the `write`,
  `read` and `ioctl` of the frame, which keep no state.
- GlobalMem leaves out the bytes of the memory: without a lock the driver promises nothing about
  them.

## Plan

Done: GlobalFifo, its abstract specification, its test programs, its binding and its earlier
forms, WaitList and the abstract queue, the demos of threads, DmaDevice with its client and its ARM
variant, the demos of data structures, drivers and file interfaces, the frame, and the proofs
described above.  Left, the most important first:

1. The proof about DmaArm, and TypeOK of DriverDemos, should the prover learn to use theorems about an instance.
2. `aior.c`, should the driver learn asynchronous reads: today it is one read, straight through.

Not planned: the frame's `read`, `write` and `ioctl` and the copies of its test program
beside the other demos (`userDemoBase.c`), the delay, clock, printing and macro demos and the spin lock demo.  They keep no
state beyond a call, or run once on a single task, so there is nothing for a property to relate.
