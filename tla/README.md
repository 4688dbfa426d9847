# A verification project for pmu-min-suite

pmu-min-suite is a pair of Linux kernel modules. **shook** hooks the
scheduler's switch, fork and exit events and keeps track of chosen processes.
**client_mod** builds on it: it programs the performance counters of every CPU
and, from the performance monitoring interrupt (PMI), writes a sample for the
tracked process that is running into a circular buffer. The code is small and
almost every line of it runs concurrently with something: other CPUs, an NMI
on the same CPU, or the unload of the module it is part of.

This directory holds TLA+ modules of that code, TLC configurations that check
them on small instances, and TLAPS proofs for every instance.
`PROJECT.json` maps each definition to the lines it stands for and lists runs,
mutants, findings, hazards and theorems.

## 1. Inventory

| component | state | operations | hard behaviour |
|---|---|---|---|
| gate and plugins (`system_hook*.c`, `hooks.c`) | `shook_enabled`, `shook_initialized`, `usage`, `unmounting`, five hook pointers, the registered probes | `start_handler`, `stop_handler`, three handlers per plugin, `register_hook`, `unregister_hook`, `set_shook_callback`, init, exit | handlers on all CPUs against load, unload and a client that swaps the callbacks; registration that fails half way |
| tracker interface (`ptracker.c`) | none of its own | three wrappers, `register_hooks`, `unregister_hooks` | the fork wrapper may sleep inside a probe handler |
| hash tracker (`ptracker_hash.c`) | hash table, `tracked_count`, spinlock | `tracker_add`, `tracker_del`, `query_tracker`, `query_data_tracker` | NMIs interrupt the lock's holder; data is read after the unlock; double registration |
| stack tracker (`ptracker_stack.c`) | a tagged word at the end of each kernel stack | the same four | a word of another CPU's task is changed while it is read |
| perf tracker (`ptracker_perf.c`) | `perf_event_list` of a task, `pcpu_removing_event` | the same four | NMIs inside the removal, which may sleep and migrate; order of release and unlink |
| client (`client_module.c`) | callbacks in shook, `proc_data` | init, exit, attach, detach, `client_hook_sched_in`, `register_process` | error paths, teardown order, lifetime of `proc_data` |
| PMU (`pmu.c`, `pmu_low.h`) | per-CPU control registers, LVT entry | global and local enable and disable, init, fini | interrupts to all CPUs against the scheduler callback |
| PMI (`pmi.c`) | vector registration, LVT backup | `pmi_handler`, `snapshot_pmc`, set-up and clean-up | the handler interrupts everything, also the teardown |
| buffering (`buffering/`) | system, per-CPU or per-thread list; `removing`, `usage` | static and dynamic init and fini, `write_sample` | a writer in flight when the list is freed |
| sample lists (`clist/`) | `idx`, `buf`, lock; or a packed head and tail | `init_clist`, `write_clist`, `read_clist` | concurrent writers, wrap-around, units |
| proc files (`device/`) | one directory, one file | create, remove, write | failure during init |
| params (`params.c`) | `thread_filter`, `readable_pmcs`, `reset_period` | three setters, also while the client is loaded | a parameter that changes between two switches |
| breader, tools | a constant buffer | three readers | bounds arithmetic |

Interactions. The kernel calls the probe handlers; a handler that passes the
gate calls a hook pointer, which is the tracker's wrapper or the client's
callback; the fork and exit wrappers call a second hook pointer and the
tracker. The PMI handler calls the tracker and the buffer. The proc file calls
the tracker. Loaders change the pointers, the flags and the hardware from the
outside.

What makes each part correct:

* gate: the count is exact; the image is freed only when nothing runs in it;
  an unload ends; no callback outlives its owner;
* trackers: each operation is atomic, or misses; no node leaks while the tracker
  is in use, or is used after it is freed; a query from an NMI never waits;
* lists: every write is inside the allocation, samples stay whole, the newest
  samples are kept;
* PMI and counters: a CPU never stops sampling for good, a sample is charged to
  the task that caused it, and the counters run for tracked tasks only;
* client: on every path of init and exit what a PMI may use is there; the exit
  after a successful init releases every buffer, and ends;
* the whole: a `proc_data` has one owner from its allocation to its free, also
  across forks, exits, reuse of pids, and reloads of the client.

## 2. Modules

| module | source | what it is |
|---|---|---|
| `SystemHook` | `system_hook*.c`, `hooks.c`, `ptracker.c` | gate, plugins, load and unload of shook, callbacks of the client |
| `Tracker` | `ptracker.h` and the hash tracker's callers | abstract: four atomic operations of which the queries may miss |
| `HashTracker` | `ptracker_hash.c` | step by step, refines `Tracker` |
| `StackTracker` | `ptracker_stack.c` | the tag word bit by bit, load by load |
| `PerfTracker` | `ptracker_perf.c` | the task's event list and the removal in its steps |
| `Sampling` | `ptracker.c`, `client_module.c`, `bthread.c`, `proc_processes.c` | tasks, pids and the ownership of `proc_data`, with each tracker |
| `ClientModule` | `client_module.c`, `pmu.c`, `pmi.c`, `bsystem.c`, `bcpu.c`, `proc.c` | init and exit of the client composed with the PMU, the PMI handler, the buffers and the scheduler callback |
| `Pmi` | `pmi.c`, `pmu.c`, `client_module.c`, `params.c` | one CPU: counter, LVT entry, handler, context switches, writes to `thread_filter` |
| `SampleRing` | contract of `write_clist` | abstract: a ring of whole samples |
| `CArray` | `carray.c` | byte by byte, refines `SampleRing` |
| `NbBlist` | `nbboundedlist.c` | packed head and tail, loads and stores of it |
| `MC*` | | instances for TLC |
| `SystemHookProofs`, `HashTrackerProofs`, `StackTrackerProofs`, `PerfTrackerProofs`, `SamplingProofs`, `PmiProofs`, `NbBlistProofs` | | TLAPS proofs about the module in their name |
| `ClientProofs` | | TLAPS proofs about `ClientModule` and `CArray` |

How they fit together. `SystemHook` says when a wrapper and a callback run at
all, and takes the callbacks as opaque. `Sampling` is what the wrappers and
callbacks do to the data. It takes one tracker operation as a step, with the
outcomes that the three tracker modules find: the misses that `HashTracker`
proves of its implementation, a store to a stack that has changed hands
(`StackTracker`), an event that is hidden or not the tracker's (`PerfTracker`).
`ClientModule` and `Pmi` look at the same handler from two
sides: the first runs it against init and exit and leaves the tracker's answers
open, the second runs it against overflows and context switches while the client
is up. Both take the write of a sample as one step, which is `CArray` or
`NbBlist`.

Operators called "Mutant" in the modules are faulty variants of the operator
that follows them; `PROJECT.json` says which property each of them breaks. No
action uses them.

**SystemHook.** A context is one activation of a probe handler. Its phases are
the shared accesses of the code: `CheckEnabled` and `CheckUnmounting` (the two
tests of `start_handler`), `Admit` (the increment), `CallHook` (the load of the
hook pointer and the call), `CallInnerHook` (what the tracker's fork and exit
wrappers call), `StopHandler`. The loader registers the probes one by one, in
the order of the plugin's array, unwinds when one fails, installs the
tracker's callbacks and at exit sets `unmounting`, clears `shook_enabled`, spins
on `usage`, puts the dummies back, and unregisters each probe (two steps:
`UnregisterHook` and `Synchronize`, the kernel's wait for the callers of that
handler). `Plugin` selects the tracepoint or the kprobe variant; they differ in
their orders, in who enables the gate, and in `SkipFailedFork`. `MaySleep` says
whether the GFP_KERNEL allocations in the window of `track_fork_wrapper` may
sleep; a handler asleep there is not covered by an RCU grace period.

**HashTracker.** Each CPU has a task frame and an NMI frame. The lock, the
chain, the node contents and the frame's locals are the state; kmalloc, lock,
critical section, unlock and the code after the unlock are separate steps. An
NMI may start at any step of its CPU and runs to its end. The callers keep to
what the rest of the code does: a deletion concerns the current task only, and
so does the PMI's query. A task that is past its exit callback may be reaped
(`reaped`) while it still executes; from then on `Switch` may put a task with
the same pid on another CPU, and that one's exit may free a node that a PMI on
the reaped task has found. An addition may carry the NULL of an attach callback
that failed. Buckets are modelled as one chain for each id: a search
skips nodes of other ids, and `hash_add` pushes at the head. A registration
preempted in process context is covered by the task frame of another CPU.

**StackTracker.** A word is the set of its bits that are 1, so that masks are
intersections and `check_crc`, `build_ptr` and the construction of the tag are
the code's expressions. `*last_entry` is a plain variable which one query uses
up to five times; each use is a load of its own (a build that merges some has
fewer behaviours). Tasks run queries and their deletion, NMIs run queries on top
of them, adders store from other CPUs, and stacks are released and reused.

**PerfTracker.** The removal takes the first event of the list, sets
`pcpu_removing_event`, clears `pmu_private`, releases the event, and only
then unlinks it under the task's mutex. `perf_event_release_kernel` and
`mutex_lock` may sleep although preemption is off in the code's view, so the
removal may continue on another CPU and clear the flag there. Tasks also open
events of their own, in front of or behind the tracker's. `list_del` is
`Without`, which takes one node out of the list.

**Sampling.** A task is unborn, forked, live, dying, reaped, off its CPU; its
wrapper goes through the phases of `track_fork_wrapper` and `track_exit_wrapper`
with the client's callbacks inside. A pid is free for the next fork once its
holder was reaped, although that one may still execute. `register_process`
is a writer between lookup and `tracker_add`. The tracker is its table: per
pid and with duplicates for the hash tracker, per task for the other two.
With the stack tracker the writer's addition has two steps, as in the code: it
finds the word on the task's stack (`RegisterFind`), and stores when the stack
may be another task's (`LateStore`). With the perf-event tracker an entry is an
event, and one that the task opened itself (`OpenEvent`) is a Null: an addition
creates nothing when an event of whatever origin is there, unless it overlooks
it or the event comes after its test (`Added`). `Hidden` says when
`pcpu_removing_event` makes a task seem to have no event: some other task is in,
or beyond, the removal of its event, which may have migrated and left the flag
set. A fork's query and the deletion of an exit then miss (`ForkQuery`,
`ExitDelMisses`). `clean` is the history in which nothing happened that the
client does not handle: an addition that failed, met an entry or an event, or
came after the exit; a late store; an exit without a client or whose deletion
missed; a pid reused under a dying task.

**ClientModule.** One loader walks through the phases of `client_module_init`
and `client_module_exit`, with every error label; `on_each_cpu` visits CPUs one
at a time and reaches a CPU only between its two frames, the scheduler callback
and the PMI handler. A positive error from init leaves the module loaded, as
the kernel does. The buffering policy and the vector are chosen with each load.

**Pmi.** Overflow freezes the counters, an interrupt is delivered if the LVT
entry was open and masks it, and the handler reads the status, samples, re-arms,
writes the entry, clears the status: one step for each register. `Switch` to
`EndSwitch` is the scheduler's callback and the switch after it. `thread_filter`
is written at any time (`SetThreadFilter`), and the callback reads it once per
switch. The hardware is external and documented at the head of the module.

**CArray.** `CArrayInit`, `CArrayNext` and so on have the module's name, since
`ClientProofs` extends `ClientModule` as well. `memcpy` is a step per byte, `idx` a byte offset, and the wrap test
is the code's. A write takes effect, for `SampleRing`, with the last byte.

**NbBlist.** `<HEAD, TAIL>` is one integer with two halves of `Half` values, the
addition of a writer is atomic, and the increment of HEAD in `write_clist` a
load and a store. Sizes are chosen by `init_clist`, that is by `Init`.

## 3. Runs

| run | instance | checks |
|---|---|---|
| `hook_tracep` | 3 contexts, tracepoints, client comes and goes | `TypeOK`, `UsageCountsHandlers`, `NoHandlerAfterUnload`, `ClientUnused` |
| `hook_kprobe` | 2 contexts, kprobes, fair | `NoHandlerAfterUnload`, `AdmissionsOnlyDrain`, `UnloadCompletes` |
| `hash_safety` | 2 CPUs with NMIs, 2 pids that reaped tasks share, 2 nodes, 1 data value (1.4 million states) | `TypeOK`, `MutualExclusion`, `NodesAccounted`, `NoReadAfterFree` |
| `hash_nmi` | 2 CPUs with NMIs, 1 pid, 2 nodes, 1 data value, only NMIs fair | `NmiReturns`, `ImplementsTracker` |
| `stack` | 2 tasks one after the other on 1 stack, 2 adders, 2 addresses of 64 bits | `TypeOK`, `Genuine`, `DeletedIsGone`, `DeletesLatest` |
| `perf` | 2 tasks, 2 CPUs, 2 adders, 3 events | `FlagIsRemoval`, `NoReadAfterRelease`, `ListedAreAllocated`, `ForeignEventsKept` |
| `sampling` | 3 tasks, 2 pids, 2 proc_data, all trackers, 2 events per task (1.1 million states) | `TypeOK`, `SoleOwner`, `NoUseAfterFree`, `OwnSamples`, `NothingLost` |
| `carray_safety` | 3 writers, 7 entries of 3 bytes | `CArrayTypeOK`, `WritesInBounds`, `NoTornSample`, `ImplementsRing` |
| `nbblist` | 3 writers, 1 reader, sizes 4 by 3 and 6 by 2, halves of 4 bits, 10 entries taken | `SharedEntryIsLap`, `HeadBehindTail` |
| `client` | 2 CPUs, three policies, both vectors, fair | `TypeOK`, `NoWriteAfterFree`, `BuffersReleased`, `UnloadCompletes` |
| `pmi` | 3 tasks, both vectors, `thread_filter` written at any time, fair | `NeverDeaf`, `ChargedIsVictim`, `CountsTracked`, `SamplingContinues` |
| `hook_unload` | 2 contexts, tracepoints, fork handlers may sleep | `NoHandlerAfterUnload` is violated |

### Bounds

* Hook: two contexts are enough for one handler against the loader and another
  handler; the third lets a refused, an admitted and a late one meet.
* Hash: two CPUs with their NMI frames are four frames, which contains a holder of
  the lock, an NMI on top of it, and a competitor on the other CPU with its own
  NMI; two nodes allow one pid twice or two pids once, and exhaustion. One pid is
  enough for two tasks that share it, of which one was reaped. The
  second pid matters to the chains, so it is in the run with their invariant. The
  data is one value or the NULL of a failed attach, so that answers differ.
* Stack: one stack forces the two tasks to reuse it, two adders race each other
  and the task; one address is typical of the kernel, the other has low bits that
  make the checksum equal to the magic number. `CHECK_DEADLOCK FALSE`: when both
  tasks have ended and the adders are idle, nothing is left to do.
* Perf: two removals on two CPUs, each of which may migrate to the other's; three
  events are the tracker's of each task and one of a task's own.
  `CHECK_DEADLOCK FALSE`: events are not reused, and tasks end.
* Sampling: a parent, its child and a third that takes a pid of one of them; two
  pids force reuse; two `proc_data` allow a double registration and a hand-over.
  `MaxEvents = 2` bounds the events in a list when the task opens one, so that
  an event of its own comes before or behind the tracker's.
* Array: 7 entries of 3 bytes wrap strictly inside the allocation, several times.
* Lock-free list: 4 entries of 3 bytes have a stride that divides neither the
  length nor the range of TAIL, 6 entries of 2 bytes let writers meet a full
  list. With halves of 16 values TAIL wraps after 6 or 8 entries, and 10 entries
  let every writer come after the wrap. `MaxTaken` is the only bound that stops
  anything (`CHECK_DEADLOCK FALSE`).
* Client: two CPUs let one be interrupted while the other was already visited.
* Pmi: `prev`, `next` and a task that is neither.

All other counters stay finite by themselves, and the proofs of section 5 do
without these bounds. Symmetry is used in
runs with safety properties only; `ImplementsRing` is one, as neither side of it
has fairness, and the runs under fairness have no symmetry.

### What the properties say

Most properties hold, and the interesting part of several is their exception,
which is as small as the code allows:

* `NoUseAfterFree`: the PMI never uses a freed `proc_data`, except with the hash
  tracker when a dying task still runs under a pid that already has a new owner.
* `NoReadAfterFree`: a PMI reads the data of a node that is allocated, unless it
  interrupted a task that was reaped: another task with its pid may exit on
  another CPU between the unlock and the read. `Tracker` leaves open what such a
  query is told (`over`, `Outdate`).
* `OwnSamples`: with the perf-event tracker a sample always goes to the task it
  interrupts. With the hash tracker it may go to another task after a late
  registration, a missed exit, or an early reuse of the pid; with the stack
  tracker after a store that came late, to the data of a task that has left its
  CPU for good.
* `NothingLost`: in a clean history an exit finds and frees what its task owns.
  The data that is lost otherwise is lost in one of the ways that `clean` lists.
* `NoReadAfterRelease`, `FlagIsRemoval`, `ListedAreAllocated`: the flag hides an
  event until it is unlinked, unless the removal migrated in its sleep; the list
  holds freed memory only while a removal sleeps between release and unlink.
* `Genuine`: the words that several loads of a query combine give an address that
  was registered, or NULL, unless NULL had been registered for that stack and
  was replaced between two loads.
* `SharedEntryIsLap`: handlers share an entry of the lock-free list after a whole
  round, when TAIL wraps (2^32 is no multiple of the round), or when the non-atomic
  increment of HEAD took back an entry.
* `ChargedIsVictim`: an IRQ raised during a switch charges the next task.
* `CountsTracked`: the scheduler callback compares the two tasks, not the state
  of the counters. So they stay wrong after the running task was registered or
  exited, after a query missed, or after a switch between the two kinds found
  `thread_filter` cleared, until a switch between the kinds that finds it set.
* `SamplingContinues`: a CPU whose counters stay on keeps taking samples. It does
  not say that they are on: who clears `thread_filter` while an untracked task
  runs leaves the counters of that CPU off, whatever runs there, until the
  parameter is set again and a tracked task comes.

### The violation

`hook_unload`: a handler passes both tests of `start_handler`, the whole grace
loop of the exit goes by, the handler takes its reference, calls the tracker's
fork wrapper and sleeps in its allocation; no `Synchronize` waits for it, and the
image is freed. The count and the kernel's grace period each cover what the
other misses, except for this interleaving. Without `MaySleep` the property holds and is
proved.

### Facts that need no run

Reading the code for the models also showed the following. Where a module
contains it, no run checks the opposite, because no line of the repository
promises it, or because it happens on every execution:

* `carray.c:69` compares a byte offset with a number of entries: the index wraps
  after `len` bytes, so most of the allocation is never used. It is safe
  (`WritesInBounds`) and still a ring, of fewer slots (`ImplementsRing`).
* `pmi.c` takes the LVT backup after `init_pmu` has overwritten the entry, so the
  exit restores the client's own value.
* Init returns a positive error when the proc file cannot be made or the
  system-wide buffer not allocated. The labels have released everything, the
  kernel keeps the module, and an exit may follow all the same: it runs
  `fini_pmu` and `fini_shook` again and frees every buffer a second time
  (`client_module.c:117` and `:128`). `ClientModule` contains that exit;
  `BuffersReleased` is about exits after a successful init only.
* When the allocation of a per-CPU buffer fails, `bcpu.c:26` frees the NULL of
  that CPU where it means the buffers of the CPUs before it, and these leak.
* `tracker_fini` of the hash tracker (`ptracker_hash.c:164`) frees no node: what is
  tracked when shook is unloaded stays allocated.
* With the per-thread policy the list has entries of `sizeof(struct proc_data)`
  and is given `proc_data->pmcs`, so that each write copies 8 bytes from behind
  the `proc_data`. No module has these bytes.
* The client is freed under a fork callback that sleeps in its own allocation;
  `ClientUnused` holds without `MaySleep` only.
* A pid that was registered twice is still tracked after one deletion: `tracker_add`
  does not look for an existing node and `tracker_del` stops at the first match.
* `register_process` leaves `proc_data->clist` uninitialised (`garbage` in
  `Sampling`), and the per-thread policy writes through it.
* The counters stay on when a tracked task exits, and may be switched on again
  by a scheduler callback after the exit function has disabled them.
* With the default sizes (11915 entries of 88 bytes) `HEAD + len = TAIL` never
  holds in the lock-free list before TAIL wraps, since 88 does not divide 11915: writers
  never move HEAD. After a lap the reader's inner loop spins.
* In `bsystem.c` the flag `removing` and the drain of `usage` come after the
  handler was unregistered and its last activation returned. The proof of
  `NoWriteAfterFree` does not need them.

## 4. Fairness

* `SystemHook!FairSpec`: weak fairness of the steps of a handler that was
  called (it returns: the handlers do not block when they do not sleep) and of
  the loader (a process that runs on). Firing a probe and starting a load or an
  unload are never obliged. The grace loop ends because the gate stays shut
  (`AdmissionsOnlyDrain`).
* `HashTracker!NmiFairSpec`: weak fairness of NMI frames only. No other frame
  has to move, so `NmiReturns` says that the NMI depends on nobody.
* `ClientModule!FairSpec`: weak fairness of the PMI handler, strong fairness of
  the loader and of the scheduler callback, which PMIs interrupt again and
  again. That is justified because two PMIs on a CPU are at least 2^12 - 1
  events apart (`params.c` bounds `reset_period`) and an `on_each_cpu`
  interrupt stays pending until it is taken.
* `Pmi!FairSpec`: weak fairness of the overflow (a counter that runs gets there)
  and of the handler; strong fairness of the switch, which handlers interrupt,
  and of the delivery, which other NMIs and switches delay. No switch,
  registration, foreign NMI or write to `thread_filter` is obliged, and none is
  excluded. `SamplingContinues` promises nothing for counters that are switched
  off, since the system may run untracked tasks for ever, or clear the filter
  while they are off.

`StackTracker`, `PerfTracker`, `Sampling`, `CArray` and `NbBlist` state no
liveness: their operations have no loop that waits, except the lock of
`CArray`, which has one holder that never blocks, and `read_clist`, which nothing
calls.

## 5. Proofs

All theorems hold for any values of the constants under the modules' named
assumptions, which TLC evaluates in the runs.

**SystemHookProofs** (`~MaySleep`; any finite set of contexts, both plugins).
`IInv` is `TypeOK`, `UsageCountsHandlers` and `Shape`. The heart of `Shape` is
`ActiveTypes`, the probes that the loader's phase and index say may still be
called: registered probes are among them, and so is the probe of every context
that is not idle. `Synchronize` removes one element of it and is the only step
that may, because no context has that probe. `NoHandlerAfterUnload` is not
inductive without it. `ClientInv` says which pointers may still lead to the
client at each stage of its unload, and with `ClientTextInv` gives
`ClientUnused`. `UsageCountsHandlers` uses the cardinality theorems. Theorems:
`SystemHookTypeCorrect`, `UsageIsExact`, `UnloadIsSafe`, `CallbacksAreLive`,
`ClientUnloadIsSafe`, `GateStaysShut`.

**HashTrackerProofs** (any CPUs, pids, nodes and data; no frame is fair). The
invariant adds to the checked properties that each frame's operation, phase and
locals fit, that NMI frames only query the data of their CPU's task while the
task frame waits, that two CPUs run the same pid only if one of the tasks was
reaped, and a reaped task deletes nothing, and that a node found by a query on
top of a task that was not reaped is linked in the chain of that task, or
allocated because only the interrupted task could delete it. Theorems: `HashTrackerTypeCorrect`, `TrackerExcludes`,
`EveryNodeAccounted`, `ReadsAreSafe`.

On top of it `HashImplementsTracker` is proved. The refinement mapping gives an operation its abstract result at the step in
which it scans or changes the chain (`HashAdd`, `HashDel`, `Search`, or the
trylock or kmalloc that fails); the node in hand stands for the result until the
code has copied its data. So the proof must know that the data of a node does
not change while somebody holds it, which is what `FoundInv` and `Unique` of the
invariant say. The exception are the queries on top of reaped tasks: a kfree
that changes what they will answer maps to `Outdate`, `Reap` and `Switch` to
`Reap`, every other step to a stutter.

**StackTrackerProofs** (any tasks, stacks, adders and canonical kernel addresses).
`TagBits` is the tag bit by bit; from it follow that a tag passes `check_crc`
(`TagIsAccepted`) and that `build_ptr` of one tag's upper part and another's
lower part gives the latter's address (`TagIsAddress`). `WordInv` says that a
word is zero or the tag of something given to a task that had the stack, and
`LoadInv` that nobody clears it in the middle of a query. The second is why no
combination of loads makes up an address. `Places` follows one address: an adder
has it, or it was stored to one word and the frames of one task have read it
there, or a deletion returned it; tags of different addresses differ
(`TagsDiffer`), so a word in parts shows no address that is not in it.
`LatestInv` follows a deletion that no adder overlaps: what it has loaded so far
is the word it began with, phase by phase (`LatestAt`), and a word that is stable
while it is read is accepted unless it is zero and reads as the address whose tag
it is (`StableWord`). Theorems: `StackTypeCorrect`, `EntriesAreGenuine`,
`DeletedDataIsGone`, `DeletionIsLatest`.

**PerfTrackerProofs** (any tasks, CPUs, adders, events and data). The invariant has
two halves, of which the second uses the first. `CpuPart` is about
flags: `CpuInv` says on which CPU a deletion is and that it has it for
itself unless it sleeps, and `FlagInv` that a CPU from or to which nobody strayed
is the place of one removal. That is what makes `FlagIsRemoval` inductive: the
removal that resets the flag is the only one that began there, since another
one that came in its sleep found the flag set and returned NULL. `ListPart` is
about memory: an event is linked once (`ListInv`), an adder's event is live and
not yet linked (`AddInv`), what a removal holds stays the head of the list until
it is unlinked (`EventInv`), and a PMI holds a listed event and interrupts no
removal that did not stray (`PmiInv`), since the flag of its CPU is set. The
last gives `NoReadAfterRelease`: a listed event that is not live is one
that its removal has released, and then no PMI that did not stray has it.
`BehindInv` says that a foreign event has one of the tracker's in front of it, so
it is not what a removal takes. Theorems: `PerfTypeCorrect`, `FlagsAreRemovals`,
`PmiReadsLiveEvents`, `ListsHoldAllocated`, `ForeignEventsLive`.

**SamplingProofs** (any tasks, pids, data, and each tracker). `IInv` has a
conjunct for each thing that identifies something: the parts of a task's life and
the code it can be in (`LifeInv`), a child and its one parent until it is woken
(`KidInv`), pids and the tasks that have them (`PidInv`), the sort of keys of the
tracker (`KeyInv`). `OwnInv` is `SoleOwner` in terms of chains: data is in one chain
once, or in one hand, and then allocated. An addition keeps it because the data on
its way is intact and meant for the task it is added for (`AddInv`). `PmiInv` says
that what a PMI found is still an entry of its task, or is owned by nobody who
frees it, while the task waits; a wrapper that frees data has it in its hand, so
the two can only meet when another task took the entry by a shared pid, which
is the exception of `NoUseAfterFree`. `OwnSamples` needs `EntryInv`, which relates an
entry and its key to the task the data is for, and `PidInv`: the task whose data
a PMI finds has the interrupted task's pid, so it is that task. Data under a key
that is not its task's has `Strayed`: a late store put it there, its task is
off its CPU for good (`StraysOn`, `GoneForGood`), and the history is not clean.
`OnlyFirst` says that only the first entry of a key can be data as long as the
history is clean, so that an exit whose deletion does not miss finds what its
task owns (`NothingLost`). What an addition can do to a table is stated once, in
`AddEffect`. Theorems:
`SamplingTypeCorrect`, `EveryDataHasOneOwner`, `PmiUsesNoFreedData`,
`SamplesAreOwn`, `NoDataIsLost`.

**ClientProofs**, first half (`ClientModule`; any finite set of CPUs, all policies and vectors).
`HandlerInv`: the handler is registered or executes only in phases in which the buffers are
allocated; `LoadInv` and `ReleaseInv` follow the loops that allocate and free
them. `UsageInv` makes the type of `usage` inductive, and is not needed for the rest.
Theorems: `ClientTypeCorrect`, `WritesHitBuffers`, `ClientReleasesBuffers`.

**PmiProofs** (any tasks). `StatusInv` is the argument why the order of the
handler's writes is right: what the overflow spoiled is repaired before the
status is cleared, and while the status is set somebody is on the way.
`VictimInv` and `FilterInv` say what holds inside a switch; `FilterInv` asks
nothing of `thread_filter`, which may change in any state. Theorems:
`PmiTypeCorrect`, `CpuIsNeverDeaf`, `SamplesAreTheVictims`, `FilterIsExact`.

**ClientProofs**, second half (`CArray`; any writers, length and stride). The index is a multiple of the
stride at which an entry fits: the wrap test leaves at least two entries of
room, because `len - 2 + 2 * stride <= len * stride`. This is why comparing bytes
with entries wastes memory but never leaves it. Slots are disjoint, and of the slot
in work a prefix is written (`PartInv`), which gives `NoTornSample`; `AfterSlot`
shows that the byte index moves as the ring's slot does, and with it
`StepIsRingStep` that every step is a write of the ring or a stutter. Theorems:
`CArrayTypeCorrect`, `CArrayInBounds`, `CArrayOneWriter`, `SamplesStayWhole`,
`CArrayImplementsRing`.

**NbBlistProofs** (any writers and readers, all sizes, any width). Lemmas about
the packed word (`Halves`, `Pack`, `PlusTail`, `PlusHead`) turn additions to
`idx` into additions to one half. While TAIL is regular both halves are
multiples of the stride; a writer that took its entry from a full list leaves
HEAD more than `len` behind TAIL until it moves HEAD, so no reader's `cmpxchg`
succeeds meanwhile and no second writer meets a full list (`RegularInv`); and a
reader that succeeds moves HEAD by an entry that is there (`EntryBetween`).
`TicketInv` numbers the entries: no two writers have one number, and until TAIL
wraps or goes back it is as many strides ahead of a writer's entry as numbers
were taken since. Two writers in one entry are then a multiple of
`Period` apart: `Period` is the least number of strides that `len` divides
(`PeriodIsLeast`), which exists since a set of numbers has a smallest one
(`SmallestNumber`, from the well-foundedness of `<`). Theorems:
`NbBlistTypeCorrect`, `HeadStaysBehind`, `SharingIsLap`.

**Only model-checked:** liveness (`UnloadCompletes` in both modules,
`NmiReturns`, `SamplingContinues`; the prover has no support for fairness) and the
run that expects a violation. Every invariant and action property of a passing run,
and both refinements, are theorems (the types of `PerfTracker`, `NbBlist` and
`Pmi` are proved and not run); with one qualification: the theorems of
`SystemHook` assume `~MaySleep`, without which `NoHandlerAfterUnload` is false.
What the recursive definitions of a model would compute needs no proof, as there
are none.

## 6. Not modelled, and assumptions

* The kernel: `Synchronize`, `FreeClient` and `FreeModule` wait for what the
  RCU grace period waits for; `free_fast_irq`, which is not in this repository,
  is assumed to return when no handler runs; a module whose init returns a
  positive value stays loaded. The perf subsystem frees an event a grace
  period after its release.
* The hardware in `Pmi`: FREEZE_ON_PMI stops the counters while the status is set,
  delivery of a PMI masks its LVT entry, an overflow under a masked entry raises
  nothing, and one interrupt is latched. One counter stands for all.
* Plain loads and stores are sequentially consistent; the code targets x86, and what
  it does not order is split into steps.
* `system_wide_mode` is written and never read; `tracker_init` never fails, so
  the label `tracker_err` is unreachable; the branch of `pmi_handler` for
  foreign interrupts is dead (`&&` instead of `&`). All three are left out.
* Register contents, number parsing, log messages, the statistics
  `pcpu_pmi_counter`.
* `params.c`: the setters of `readable_pmcs` and `reset_period`, which select and
  fill registers whose contents are not modelled; that `readable_pmcs` is not
  checked is in the list of hazards. The setter of `thread_filter`, which the
  scheduler callback reads in every switch, is an action of `Pmi`.
* `breader/`: a separate module that exports one constant buffer; the only state is
  the file position of each reader. (`breader_raw.c:33` overwrites the number of bytes
  that are left by `count / 8`, so that the end of the buffer bounds nothing.)
* The unload of the hash tracker with entries in its table, sizes of samples and
  lists that disagree (section 3), and a client that is freed under its sleeping
  fork callback.
* `tools/` and the build files: measuring programs, and the choice of plugin,
  tracker, list and policy, which appears here as constants.

## 7. Plan

All six steps of the first plan are done: gate and plugins, the three trackers and
their contract, tasks and ownership (`Sampling`), both sample lists, the client's
life cycle and the PMI path, and a proof module for each component whose
argument does not depend on a small instance. The proofs now cover every safety
property of the runs. What would come next, in order of value:

1. The steps towards liveness that are safety properties: that each loop has a
   measure which its steps decrease and no other step increases, e.g. the grace
   loop of the unload and the readers of `NbBlist`.
2. `StackTracker` and `PerfTracker` as implementations of `Tracker`, with the
   exceptions that their properties name.
3. `Sampling` with `HashTracker`'s steps instead of its contract, which the
   refinement theorem makes unnecessary for safety.
