------------------------------ MODULE Sampling ------------------------------
(***************************************************************************)
(* Tasks and the proc_data they are sampled with: processes fork, exit and *)
(* are reaped, pids are used again, a writer of the proc file registers a  *)
(* process, the client comes and goes, and PMIs interrupt the tasks.       *)
(*                                                                         *)
(* The module composes the wrappers of ptracker.c with the client's        *)
(* callbacks and with what each of the three trackers keeps for a task.    *)
(* HashTracker, StackTracker and PerfTracker take the operations of a       *)
(* tracker apart.  Here an operation is one step, with the outcomes that    *)
(* they find: a query of the hash tracker may miss, the stack tracker       *)
(* stores to a stack that has changed hands since it was looked up, and the *)
(* perf-event tracker overlooks events and meets events that are not its    *)
(* own.                                                                     *)
(* A task runs on at most one CPU, so its frame and the PMI on top of it   *)
(* stand for those of the CPU; any number of tasks may run at a time.      *)
(***************************************************************************)
EXTENDS Naturals, Sequences

CONSTANTS
  Tasks, Pids, Data,  \* task_structs, process ids, and struct proc_data
  Null,               \* the NULL pointer
  Trackers,           \* builds: "HASH", "STACK", "PERF"
  MaxEvents           \* bound on the events of a task that opens its own

ASSUME NullAssumption == Null \notin Data /\ Null \notin Tasks
ASSUME KeyAssumption == Tasks \cap Pids = {}
ASSUME TrackersAssumption == Trackers \subseteq {"HASH", "STACK", "PERF"}
ASSUME MaxEventsAssumption == MaxEvents \in Nat

VARIABLES
  tracker,   \* the tracker that was built in
  client,    \* the client is loaded: its callbacks are installed, shook enabled
  life,      \* per task: unborn, forked but not awake, and so on
  pid,       \* per task: its pid, also after another task may have it
  fr,        \* per task: where its activation of a wrapper is
  kid,       \* per task: the child it forks
  hand,      \* per task: the proc_data its wrapper holds
  pmi,       \* per task: the proc_data a PMI on top of it holds, or Null
  writer,    \* register_process: the task, its proc_data, and whether the stack
             \* tracker has found the task's stack
  table,     \* what the tracker keeps: per pid, or per task; an event that is
             \* not the tracker's is a Null
  mem,       \* per proc_data: its allocation
  clist,     \* per proc_data: what its member clist is
  forTask,   \* history: the task a proc_data was allocated for
  clean      \* history: nothing happened that the client does not handle

taskVars == <<life, pid, fr, kid, hand>>
dataVars == <<mem, clist, forTask>>
vars == <<tracker, client, taskVars, pmi, writer, table, dataVars, clean>>

NoJob == [task |-> Null, data |-> Null, entry |-> FALSE]

-----------------------------------------------------------------------------
(***************************************************************************)
(* What a tracker keeps.                                                   *)
(***************************************************************************)

\* The hash tracker files under task->pid, the others in the task itself.
Key(t) == IF tracker = "HASH" THEN pid[t] ELSE t

Tracked(t) == table[Key(t)] # <<>>

\* query_data_tracker: the newest entry.
DataOf(t) == IF Tracked(t) THEN Head(table[Key(t)]) ELSE Null

\* A task that has left its CPU for the last time has no stack any more.
OffCpu(t) == life[t] \in {"zombie", "dead"}

\* What an addition can make of the entries of a key: the hash tracker pushes
\* without a search, and the stack tracker overwrites.  The perf-event tracker
\* creates nothing if the task has an event, unless it overlooks the event or
\* the event comes after the test.
Added(t, d) ==
  LET old == table[Key(t)] IN
  CASE tracker = "HASH"  -> {<<d>> \o old}
    [] tracker = "STACK" -> {IF OffCpu(t) THEN old ELSE <<d>>}
    [] tracker = "PERF"  -> IF OffCpu(t) THEN {old}
                            ELSE IF old = <<>> THEN {<<d>>}
                            ELSE {old, Append(old, d)}

\* The exit wrapper of t has taken the data, or will never do so.
PastExit(t) == fr[t] \in {"exit_detach", "exit_free", "tail"} \/ OffCpu(t)

\* tracker_add.
TrackerAdd(t, d) ==
  /\ \E new \in Added(t, d) : table' = [table EXCEPT ![Key(t)] = new]
  /\ clean' = (clean /\ ~Tracked(t) /\ ~PastExit(t))

\* kmalloc of a node or the creation of an event fails, and nobody takes the
\* data back.
TrackerAddFails(d) ==
  /\ tracker \in {"HASH", "PERF"}
  /\ clean' = (clean /\ d = Null)
  /\ UNCHANGED table

\* The stack in which the stack tracker looked up t's entry is another task's.
LateStore(t, d) ==
  /\ tracker = "STACK" /\ OffCpu(t)
  /\ \E u \in Tasks : /\ life[u] \in {"new", "live", "reaped"}
                      /\ table' = [table EXCEPT ![u] = <<d>>]
  /\ clean' = FALSE

\* pcpu_removing_event of t's CPU was left set by a removal of another task's
\* event that sleeps or went on elsewhere: t seems to have no event.
Hidden(t) ==
  /\ tracker = "PERF"
  /\ \E u \in Tasks \ {t} :
       fr[u] \in {"exit_del", "exit_detach", "exit_free", "tail"}

\* tracker_del takes the newest entry out.
TrackerDel(t) ==
  table' = [table EXCEPT ![Key(t)] = IF Tracked(t) THEN Tail(@) ELSE @]

-----------------------------------------------------------------------------
(***************************************************************************)
(* Tasks.                                                                  *)
(***************************************************************************)

\* t executes: nothing on top of it, and not before it is woken up.
Runs(t) == life[t] \in {"live", "reaped"} /\ pmi[t] = Null

InUse(p) == \E u \in Tasks : life[u] \in {"new", "live", "zombie"} /\ pid[u] = p

Goto(t, from, to) == Runs(t) /\ fr[t] = from /\ fr' = [fr EXCEPT ![t] = to]

\* copy_process, up to the tracepoint of the fork.  The child has a pid that no
\* task holds, although a dying task may still run under it.
Fork(t, c, p) ==
  /\ Goto(t, "run", IF client THEN "fork_query" ELSE "fork_wake")
  /\ life[c] = "none" /\ ~InUse(p)
  /\ life' = [life EXCEPT ![c] = "new"]
  /\ pid' = [pid EXCEPT ![c] = p]
  /\ kid' = [kid EXCEPT ![t] = c]
  /\ clean' = (clean /\ \A u \in Tasks : life[u] = "reaped" => pid[u] # p)
  /\ UNCHANGED <<tracker, client, hand, pmi, writer, table, dataVars>>

\* track_fork_wrapper: is the parent tracked?  The answer may be a miss.
ForkQuery(t) ==
  /\ \/ Tracked(t) /\ Goto(t, "fork_query", "fork_attach")
     \/ /\ ~Tracked(t) \/ tracker = "HASH" \/ Hidden(t)
        /\ Goto(t, "fork_query", "fork_wake")
  /\ UNCHANGED <<tracker, client, life, pid, kid, hand, pmi, writer, table,
                 dataVars, clean>>

\* client_hook_on_attach; its second allocation is buffering_dynamic_init.
ForkAttach(t) ==
  /\ Goto(t, "fork_attach", "fork_add")
  /\ client
  /\ \E d \in Data, l \in {"list", "null"} :
       /\ mem[d] = "unused"
       /\ mem' = [mem EXCEPT ![d] = "allocated"]
       /\ clist' = [clist EXCEPT ![d] = l]
       /\ forTask' = [forTask EXCEPT ![d] = kid[t]]
       /\ hand' = [hand EXCEPT ![t] = d]
  /\ UNCHANGED <<tracker, client, life, pid, kid, pmi, writer, table, clean>>

\* No memory, or already the dummy callback: a NULL is added all the same.
ForkAttachFails(t) ==
  /\ Goto(t, "fork_attach", "fork_add")
  /\ UNCHANGED <<tracker, client, life, pid, kid, hand, pmi, writer, table,
                 dataVars, clean>>

\* Mutant: the parent is added where the child is meant.
ForkAddParent(t) ==
  /\ Goto(t, "fork_add", "fork_wake")
  /\ TrackerAdd(t, hand[t]) \/ TrackerAddFails(hand[t])
  /\ hand' = [hand EXCEPT ![t] = Null]
  /\ UNCHANGED <<tracker, client, life, pid, kid, pmi, writer, dataVars>>

ForkAdd(t) ==
  /\ Goto(t, "fork_add", "fork_wake")
  /\ TrackerAdd(kid[t], hand[t]) \/ TrackerAddFails(hand[t])
  /\ hand' = [hand EXCEPT ![t] = Null]
  /\ UNCHANGED <<tracker, client, life, pid, kid, pmi, writer, dataVars>>

\* wake_up_new_task.
ForkWake(t) ==
  /\ Goto(t, "fork_wake", "run")
  /\ life' = [life EXCEPT ![kid[t]] = "live"]
  /\ UNCHANGED <<tracker, client, pid, kid, hand, pmi, writer, table, dataVars,
                 clean>>

\* do_exit, up to the tracepoint of the exit.  Without a client the gate of
\* shook is shut, and the exit of a tracked task goes unnoticed.
Exit(t) ==
  /\ Goto(t, "run", IF client THEN "exit_del" ELSE "tail")
  /\ clean' = (clean /\ (client \/ ~Tracked(t)))
  /\ UNCHANGED <<tracker, client, life, pid, kid, hand, pmi, writer, table,
                 dataVars>>

\* Mutant: the entry is looked up and stays in the tracker.
ExitDelKeepsEntry(t) ==
  /\ Goto(t, "exit_del", "exit_detach")
  /\ hand' = [hand EXCEPT ![t] = DataOf(t)]
  /\ UNCHANGED <<tracker, client, life, pid, kid, pmi, writer, table, dataVars,
                 clean>>

\* track_exit_wrapper: data = tracker_del(p).
ExitDel(t) ==
  /\ Goto(t, "exit_del", "exit_detach")
  /\ hand' = [hand EXCEPT ![t] = DataOf(t)]
  /\ TrackerDel(t)
  /\ UNCHANGED <<tracker, client, life, pid, kid, pmi, writer, dataVars, clean>>

\* tracker_del finds nothing because the event is hidden.
ExitDelMisses(t) ==
  /\ Hidden(t)
  /\ Goto(t, "exit_del", "exit_detach")
  /\ clean' = (clean /\ DataOf(t) = Null)
  /\ UNCHANGED <<tracker, client, life, pid, kid, hand, pmi, writer, table,
                 dataVars>>

\* Mutant: the callback does not test for NULL.
ExitDetachUntested(t) ==
  /\ Goto(t, "exit_detach", "exit_free")
  /\ client
  /\ clist' = [clist EXCEPT ![hand[t]] = "freed"]
  /\ UNCHANGED <<tracker, client, life, pid, kid, hand, pmi, writer, table, mem,
                 forTask, clean>>

\* client_hook_on_detach: buffering_dynamic_fini first.
ExitDetach(t) ==
  /\ Goto(t, "exit_detach", "exit_free")
  /\ client /\ hand[t] # Null
  /\ clist' = [clist EXCEPT ![hand[t]] = "freed"]
  /\ UNCHANGED <<tracker, client, life, pid, kid, hand, pmi, writer, table, mem,
                 forTask, clean>>

\* No data, or already the dummy callback.
ExitDetachNothing(t) ==
  /\ Goto(t, "exit_detach", "tail")
  /\ ~client \/ hand[t] = Null
  /\ hand' = [hand EXCEPT ![t] = Null]
  /\ clean' = (clean /\ hand[t] = Null)
  /\ UNCHANGED <<tracker, client, life, pid, kid, pmi, writer, table, dataVars>>

\* Mutant: the list is freed, proc_data is forgotten.
ExitFreeForgets(t) ==
  /\ Goto(t, "exit_free", "tail")
  /\ hand' = [hand EXCEPT ![t] = Null]
  /\ UNCHANGED <<tracker, client, life, pid, kid, pmi, writer, table, dataVars,
                 clean>>

\* ... then kfree.
ExitFree(t) ==
  /\ Goto(t, "exit_free", "tail")
  /\ mem' = [mem EXCEPT ![hand[t]] = "freed"]
  /\ hand' = [hand EXCEPT ![t] = Null]
  /\ UNCHANGED <<tracker, client, life, pid, kid, pmi, writer, table, clist,
                 forTask, clean>>

\* release_task, for a task that has passed exit_notify: its pid is free, even
\* if it has not left its CPU.
Reap(t) ==
  /\ fr[t] = "tail"
  /\ \/ life[t] = "live" /\ life' = [life EXCEPT ![t] = "reaped"]
     \/ life[t] = "zombie" /\ life' = [life EXCEPT ![t] = "dead"]
  /\ UNCHANGED <<tracker, client, pid, fr, kid, hand, pmi, writer, table,
                 dataVars, clean>>

\* The last context switch away from t: what is kept in the task is gone.
LastSwitch(t) ==
  /\ Runs(t) /\ fr[t] = "tail"
  /\ life' = [life EXCEPT ![t] = IF @ = "live" THEN "zombie" ELSE "dead"]
  /\ table' = IF tracker = "HASH" THEN table ELSE [table EXCEPT ![t] = <<>>]
  /\ UNCHANGED <<tracker, client, pid, fr, kid, hand, pmi, writer, dataVars,
                 clean>>

\* perf_event_open: an event of the task's own, without data for the tracker.
OpenEvent(t) ==
  /\ tracker = "PERF" /\ Runs(t) /\ fr[t] = "run"
  /\ Len(table[t]) < MaxEvents
  /\ table' = [table EXCEPT ![t] = Append(@, Null)]
  /\ UNCHANGED <<tracker, client, taskVars, pmi, writer, dataVars, clean>>

-----------------------------------------------------------------------------
(***************************************************************************)
(* PMIs, registrations, and the client.                                    *)
(***************************************************************************)

\* snapshot_pmc: query_data_tracker(current) finds data; from here on the
\* handler uses it.
Pmi(t) ==
  /\ client /\ Runs(t)
  /\ DataOf(t) # Null
  /\ pmi' = [pmi EXCEPT ![t] = DataOf(t)]
  /\ UNCHANGED <<tracker, client, taskVars, writer, table, dataVars, clean>>

\* The counters are in proc_data, the sample in its list: the handler returns.
PmiReturns(t) ==
  /\ pmi[t] # Null
  /\ pmi' = [pmi EXCEPT ![t] = Null]
  /\ UNCHANGED <<tracker, client, taskVars, writer, table, dataVars, clean>>

\* processes_write finds the task of a pid, register_process allocates; the
\* member clist keeps what kmalloc found in memory.
Register(t) ==
  /\ client /\ writer = NoJob
  /\ life[t] \in {"new", "live", "zombie"}
  /\ \E d \in Data :
       /\ mem[d] = "unused"
       /\ mem' = [mem EXCEPT ![d] = "allocated"]
       /\ clist' = [clist EXCEPT ![d] = "garbage"]
       /\ forTask' = [forTask EXCEPT ![d] = t]
       /\ writer' = [task |-> t, data |-> d, entry |-> FALSE]
  /\ UNCHANGED <<tracker, client, taskVars, pmi, table, clean>>

\* tracker_add of the stack tracker: last_entry_size, or -EINVAL, which is not
\* handed on, for a task without a stack.
RegisterFind ==
  /\ tracker = "STACK" /\ writer # NoJob /\ ~writer.entry
  /\ IF OffCpu(writer.task) THEN writer' = NoJob /\ clean' = FALSE
     ELSE writer' = [writer EXCEPT !.entry = TRUE] /\ UNCHANGED clean
  /\ UNCHANGED <<tracker, client, taskVars, pmi, table, dataVars>>

\* tracker_add, or its last part, perhaps long after the task was looked up.
RegisterAdd ==
  /\ writer # NoJob /\ (tracker = "STACK" => writer.entry)
  /\ \/ TrackerAdd(writer.task, writer.data) \/ TrackerAddFails(writer.data)
     \/ LateStore(writer.task, writer.data)
  /\ writer' = NoJob
  /\ UNCHANGED <<tracker, client, taskVars, pmi, dataVars>>

\* client_module_init, as far as tasks notice.
ClientLoad ==
  /\ ~client
  /\ client' = TRUE
  /\ UNCHANGED <<tracker, taskVars, pmi, writer, table, dataVars, clean>>

\* client_module_exit: the proc file and the PMI handler go first, and wait for
\* their users; fini_shook leaves the entries of the tracker where they are.
ClientUnload ==
  /\ client /\ writer = NoJob
  /\ \A t \in Tasks : pmi[t] = Null
  /\ client' = FALSE
  /\ UNCHANGED <<tracker, taskVars, pmi, writer, table, dataVars, clean>>

-----------------------------------------------------------------------------

Init ==
  /\ tracker \in Trackers /\ client = TRUE
  /\ \E t \in Tasks, p \in Pids :
       /\ life = [u \in Tasks |-> IF u = t THEN "live" ELSE "none"]
       /\ pid = [u \in Tasks |-> p]
  /\ fr = [t \in Tasks |-> "run"]
  /\ kid = [t \in Tasks |-> t]
  /\ hand = [t \in Tasks |-> Null]
  /\ pmi = [t \in Tasks |-> Null]
  /\ writer = NoJob
  /\ table = [k \in Tasks \cup Pids |-> <<>>]
  /\ mem = [d \in Data |-> "unused"]
  /\ clist = [d \in Data |-> "garbage"]
  /\ forTask = [d \in Data |-> Null]
  /\ clean = TRUE

TaskStep(t) ==
  \/ \E c \in Tasks, p \in Pids : Fork(t, c, p)
  \/ ForkQuery(t) \/ ForkAttach(t) \/ ForkAttachFails(t) \/ ForkAdd(t)
  \/ ForkWake(t)
  \/ Exit(t) \/ ExitDel(t) \/ ExitDelMisses(t)
  \/ ExitDetach(t) \/ ExitDetachNothing(t) \/ ExitFree(t) \/ LastSwitch(t)

Next ==
  \/ \E t \in Tasks :
       \/ TaskStep(t) \/ Reap(t) \/ OpenEvent(t)
       \/ Pmi(t) \/ PmiReturns(t) \/ Register(t)
  \/ RegisterFind \/ RegisterAdd \/ ClientLoad \/ ClientUnload

Spec == Init /\ [][Next]_vars

-----------------------------------------------------------------------------
(***************************************************************************)
(* Properties.                                                             *)
(***************************************************************************)

Lives == {"none", "new", "live", "reaped", "zombie", "dead"}
Frames == {"run", "fork_query", "fork_attach", "fork_add", "fork_wake",
           "exit_del", "exit_detach", "exit_free", "tail"}

\* The values of the variables, and the phases in which a wrapper holds data.
TypeOK ==
  /\ tracker \in Trackers /\ client \in BOOLEAN /\ clean \in BOOLEAN
  /\ life \in [Tasks -> Lives] /\ pid \in [Tasks -> Pids]
  /\ fr \in [Tasks -> Frames] /\ kid \in [Tasks -> Tasks]
  /\ hand \in [Tasks -> Data \cup {Null}] /\ pmi \in [Tasks -> Data \cup {Null}]
  /\ \A t \in Tasks :
       /\ hand[t] # Null => fr[t] \in {"fork_add", "exit_detach", "exit_free"}
       /\ fr[t] = "exit_free" => hand[t] # Null
  /\ writer \in [task : Tasks, data : Data, entry : BOOLEAN] \cup {NoJob}
  /\ table \in [Tasks \cup Pids -> Seq(Data \cup {Null})]
  /\ mem \in [Data -> {"unused", "allocated", "freed"}]
  /\ clist \in [Data -> {"garbage", "null", "list", "freed"}]
  /\ forTask \in [Data -> Tasks \cup {Null}]

\* d is among the entries of the tracker for the key k.
InEntries(d, k) == \E x \in DOMAIN table[k] : table[k][x] = d

\* A proc_data has one owner at a time: an entry of the tracker, a wrapper, or
\* the writer of the proc file.  So no detach frees it twice, and no exit takes
\* away what the exit of another task has taken.
SoleOwner ==
  /\ \A j, k \in DOMAIN table :
       \A x \in DOMAIN table[j], y \in DOMAIN table[k] :
         table[j][x] = table[k][y] /\ table[j][x] # Null => j = k /\ x = y
  /\ \A t \in Tasks : hand[t] # Null =>
       /\ mem[hand[t]] = "allocated" /\ writer.data # hand[t]
       /\ \A u \in Tasks \ {t} : hand[u] # hand[t]
       /\ \A k \in DOMAIN table : ~InEntries(hand[t], k)
  /\ \A k \in DOMAIN table : \A x \in DOMAIN table[k] :
       table[k][x] # Null =>
         /\ mem[table[k][x]] = "allocated" /\ clist[table[k][x]] # "freed"
         /\ writer.data # table[k][x]
  /\ writer.data # Null => mem[writer.data] = "allocated"

\* A dying task executes under a pid that another task has, or had, since.
PidTaken(t) ==
  /\ life[t] = "reaped"
  /\ \E u \in Tasks \ {t} : life[u] # "none" /\ pid[u] = pid[t]

\* What a PMI found is neither freed nor about to be, while it is used: the
\* proc_data is only freed by the exit of the task the PMI sits on.  The hash
\* tracker breaks it in one case only, when the pid is reused too early.
NoUseAfterFree ==
  \A t \in Tasks : pmi[t] # Null =>
    \/ mem[pmi[t]] = "allocated" /\ clist[pmi[t]] # "freed"
    \/ tracker = "HASH" /\ PidTaken(t)

\* A PMI charges its sample to the task it interrupts.  With the hash tracker
\* this takes a clean history: a stale entry is found by the next task with
\* that pid.  With the stack tracker the sample can go to the data of a task
\* that has left its CPU for good, if a late store put it on another's stack.
OwnSamples ==
  \A t \in Tasks : pmi[t] # Null =>
    \/ forTask[pmi[t]] = t
    \/ ~clean /\ tracker = "HASH"
    \/ ~clean /\ tracker = "STACK" /\ OffCpu(forTask[pmi[t]])

\* In a clean history an allocated proc_data is on its way into the tracker, on
\* its way out of it, or there for a task that is still to exit: the exit of a
\* task leaves nothing behind.
NothingLost ==
  clean => \A d \in Data : mem[d] = "allocated" =>
    \/ writer.data = d \/ \E t \in Tasks : hand[t] = d
    \/ \E t \in Tasks : /\ forTask[d] = t /\ life[t] # "none" /\ ~PastExit(t)
                        /\ InEntries(d, Key(t))
=============================================================================
