---------------------------- MODULE PerfTracker ----------------------------
(***************************************************************************)
(* ptracker_perf.c: the data of a tracked task hangs on a dummy perf event *)
(* at the head of task->perf_event_list.                                   *)
(*                                                                         *)
(* The exit wrapper of a task runs its deletion, a PMI on the task runs a  *)
(* query, and adders (a writer of the proc file, a forking parent) add     *)
(* events from other CPUs.  A CPU whose flag pcpu_removing_event is set    *)
(* answers every query with NULL.  The deletion disables preemption, but   *)
(* perf_event_release_kernel and mutex_lock may put it to sleep, and it    *)
(* may wake up on another CPU.  The perf subsystem is external: creation,  *)
(* release (the memory goes after an RCU grace period, which a deletion    *)
(* that does not sleep keeps from ending), and events that the task opens  *)
(* for itself, which are in the same list.                                 *)
(***************************************************************************)
EXTENDS Naturals, Sequences

CONSTANTS
  Tasks, CPUs, Adders,
  Events, Data,
  Null               \* the NULL pointer, no CPU, nobody

ASSUME NullAssumption ==
  Null \notin Tasks \cup CPUs \cup Adders \cup Events \cup Data

VARIABLES
  list,      \* per task: perf_event_list
  mutex,     \* per task: who holds perf_event_mutex
  mem,       \* per event: unused, live, released, freed
  private,   \* per event: pmu_private
  own,       \* the events that tracker_add created
  flag,      \* per CPU: pcpu_removing_event
  pc, event, data,  \* per task: its deletion, and its local variables
  cpu, from, \* per task: the CPU it deletes on (Null if asleep), began on
  slept,     \* per task: its deletion slept since the event was released
  pmi,       \* per task: the event whose data a PMI is about to read, or Null
  add,       \* per adder: where it is in tracker_add
  strays,    \* history: the CPUs that a deletion left, or came to, half done
  behind     \* history: events that a tracked task opened for itself

delVars == <<pc, event, data, cpu, from, slept>>
histVars == <<strays, behind>>
vars == <<list, mutex, mem, private, own, flag, delVars, pmi, add, histVars>>

\* Mutant: the last event instead of the first.
FirstIsLast(t) == IF list[t] = <<>> THEN Null ELSE list[t][Len(list[t])]

\* __get_perf_event.
First(t) == IF list[t] = <<>> THEN Null ELSE Head(list[t])

\* A deletion that is not asleep has its CPU for itself.
Busy(c) == \E t \in Tasks : cpu[t] = c

\* __get_task_event on CPU c: a removing operation was preempted, or the first
\* event of the list, read without the mutex.
TaskEvent(t, c) == IF flag[c] THEN Null ELSE First(t)

-----------------------------------------------------------------------------
(***************************************************************************)
(* tracker_add.                                                            *)
(***************************************************************************)

NotAdding == [pc |-> "idle", task |-> Null, data |-> Null, event |-> Null]

\* __get_task_event on the CPU of the adder: a tracked task is left alone, and
\* the data stays with nobody.
CallAdd(a, t, d, c) ==
  /\ add[a] = NotAdding /\ ~Busy(c)
  /\ pc[t] = "run"
  /\ TaskEvent(t, c) = Null
  /\ add' = [add EXCEPT ![a] = [pc |-> "create", task |-> t, data |-> d,
                                event |-> Null]]
  /\ UNCHANGED <<list, mutex, mem, private, own, flag, delVars, pmi, histVars>>

\* create_task_data: perf_event_create_kernel_counter, then pmu_private.
CreateEvent(a) ==
  /\ add[a].pc = "create"
  /\ \E e \in Events :
       /\ mem[e] = "unused"
       /\ mem' = [mem EXCEPT ![e] = "live"]
       /\ private' = [private EXCEPT ![e] = add[a].data]
       /\ own' = own \cup {e}
       /\ add' = [add EXCEPT ![a].pc = "lock", ![a].event = e]
  /\ UNCHANGED <<list, mutex, flag, delVars, pmi, histVars>>

\* No memory, or a task that exits; tracker_add reports success.
CreateFails(a) ==
  /\ add[a].pc = "create"
  /\ add' = [add EXCEPT ![a] = NotAdding]
  /\ UNCHANGED <<list, mutex, mem, private, own, flag, delVars, pmi, histVars>>

LockToLink(a) ==
  /\ add[a].pc = "lock" /\ mutex[add[a].task] = Null
  /\ mutex' = [mutex EXCEPT ![add[a].task] = a]
  /\ add' = [add EXCEPT ![a].pc = "link"]
  /\ UNCHANGED <<list, mem, private, own, flag, delVars, pmi, histVars>>

\* list_add_tail and mutex_unlock.
LinkEvent(a) ==
  /\ add[a].pc = "link"
  /\ LET t == add[a].task IN
     /\ list' = [list EXCEPT ![t] = Append(@, add[a].event)]
     /\ mutex' = [mutex EXCEPT ![t] = Null]
  /\ add' = [add EXCEPT ![a] = NotAdding]
  /\ UNCHANGED <<mem, private, own, flag, delVars, pmi, histVars>>

\* perf_event_open by the task: an event of the same list, whose pmu_private
\* is not the tracker's.
OpenEvent(t) ==
  /\ pc[t] = "run" /\ pmi[t] = Null /\ mutex[t] = Null
  /\ \E e \in Events :
       /\ mem[e] = "unused"
       /\ mem' = [mem EXCEPT ![e] = "live"]
       /\ list' = [list EXCEPT ![t] = Append(@, e)]
       /\ behind' = IF First(t) \in own THEN behind \cup {e} ELSE behind
  /\ UNCHANGED <<mutex, private, own, flag, delVars, pmi, add, strays>>

-----------------------------------------------------------------------------
(***************************************************************************)
(* tracker_del, by the exit wrapper of the task.                           *)
(***************************************************************************)

\* The deletion of t executes its next step: it is neither asleep nor under a
\* PMI.
DelGoto(t, at, to) ==
  /\ pc[t] = at /\ pmi[t] = Null /\ cpu[t] # Null
  /\ pc' = [pc EXCEPT ![t] = to]

\* The wrapper enters with preemption disabled.
CallDel(t, c) ==
  /\ pc[t] = "run" /\ pmi[t] = Null /\ ~Busy(c)
  /\ pc' = [pc EXCEPT ![t] = "get"]
  /\ cpu' = [cpu EXCEPT ![t] = c] /\ from' = [from EXCEPT ![t] = c]
  /\ UNCHANGED <<list, mutex, mem, private, own, flag, event, data, slept, pmi,
                 add, histVars>>

\* tracker_del returns data.
DelReturns(t, at) ==
  /\ DelGoto(t, at, "exited")
  /\ cpu' = [cpu EXCEPT ![t] = Null] /\ from' = [from EXCEPT ![t] = Null]
  /\ event' = [event EXCEPT ![t] = Null] /\ slept' = [slept EXCEPT ![t] = FALSE]
  /\ UNCHANGED <<list, mutex, mem, private, own, data, pmi, add, histVars>>

\* data = event->pmu_private of the event found, if one is.
ReadData(t) ==
  /\ DelGoto(t, "get", "flag")
  /\ TaskEvent(t, cpu[t]) # Null
  /\ data' = [data EXCEPT ![t] = private[TaskEvent(t, cpu[t])]]
  /\ UNCHANGED <<list, mutex, mem, private, own, flag, event, cpu, from, slept,
                 pmi, add, histVars>>

\* No event, or another removal sleeps on this CPU: NULL is returned.
NothingToDelete(t) ==
  /\ pc[t] = "get" /\ cpu[t] # Null
  /\ TaskEvent(t, cpu[t]) = Null
  /\ DelReturns(t, "get") /\ UNCHANGED flag

\* Mutant: the flag is not set.
SetFlagNot(t) ==
  /\ DelGoto(t, "flag", "clear")
  /\ event' = [event EXCEPT ![t] = First(t)]
  /\ UNCHANGED <<list, mutex, mem, private, own, flag, data, cpu, from, slept,
                 pmi, add, histVars>>

\* destroy_task_data: the flag, then the event once more.
SetFlag(t) ==
  /\ DelGoto(t, "flag", IF First(t) = Null THEN "unflag" ELSE "clear")
  /\ flag' = [flag EXCEPT ![cpu[t]] = TRUE]
  /\ event' = [event EXCEPT ![t] = First(t)]
  /\ UNCHANGED <<list, mutex, mem, private, own, data, cpu, from, slept, pmi,
                 add, histVars>>

ClearPrivate(t) ==
  /\ DelGoto(t, "clear", "release")
  /\ private' = [private EXCEPT ![event[t]] = Null]
  /\ UNCHANGED <<list, mutex, mem, own, flag, event, data, cpu, from, slept,
                 pmi, add, histVars>>

\* perf_event_release_kernel.
Release(t) ==
  /\ DelGoto(t, "release", "lock")
  /\ mem' = [mem EXCEPT ![event[t]] = "released"]
  /\ UNCHANGED <<list, mutex, private, own, flag, event, data, cpu, from, slept,
                 pmi, add, histVars>>

LockToUnlink(t) ==
  /\ DelGoto(t, "lock", "unlink")
  /\ mutex[t] = Null
  /\ mutex' = [mutex EXCEPT ![t] = t]
  /\ UNCHANGED <<list, mem, private, own, flag, event, data, cpu, from, slept,
                 pmi, add, histVars>>

\* Mutant: the event stays in the list.
UnlinkNothing(t) ==
  /\ DelGoto(t, "unlink", "unflag")
  /\ mutex' = [mutex EXCEPT ![t] = Null]
  /\ UNCHANGED <<list, mem, private, own, flag, event, data, cpu, from, slept,
                 pmi, add, histVars>>

\* list_del: the list without the node of e.
Without(s, e) ==
  LET i == CHOOSE j \in DOMAIN s : s[j] = e
  IN SubSeq(s, 1, i - 1) \o SubSeq(s, i + 1, Len(s))

\* list_del and mutex_unlock.
Unlink(t) ==
  /\ DelGoto(t, "unlink", "unflag")
  /\ list' = [list EXCEPT ![t] = Without(@, event[t])]
  /\ mutex' = [mutex EXCEPT ![t] = Null]
  /\ UNCHANGED <<mem, private, own, flag, event, data, cpu, from, slept, pmi,
                 add, histVars>>

\* Mutant: the flag is not reset.
ClearFlagNot(t) == DelReturns(t, "unflag") /\ UNCHANGED flag

\* The flag of the CPU the deletion ends on.
ClearFlag(t) ==
  /\ DelReturns(t, "unflag")
  /\ flag' = [flag EXCEPT ![cpu[t]] = FALSE]

\* The deletion goes to sleep in perf_event_release_kernel or mutex_lock ...
Sleep(t) ==
  /\ pc[t] \in {"release", "lock"} /\ pmi[t] = Null /\ cpu[t] # Null
  /\ cpu' = [cpu EXCEPT ![t] = Null]
  /\ slept' = [slept EXCEPT ![t] = pc[t] = "lock"]
  /\ UNCHANGED <<list, mutex, mem, private, own, flag, pc, event, data, from,
                 pmi, add, histVars>>

\* ... and wakes up, here or elsewhere.
Wake(t, c) ==
  /\ pc[t] \in {"release", "lock"} /\ cpu[t] = Null /\ ~Busy(c)
  /\ cpu' = [cpu EXCEPT ![t] = c]
  /\ strays' = IF c = from[t] THEN strays ELSE strays \cup {c, from[t]}
  /\ UNCHANGED <<list, mutex, mem, private, own, flag, pc, event, data, from,
                 slept, pmi, add, behind>>

\* The end of the grace period that follows the release.
FreeEvent(e) ==
  /\ mem[e] = "released"
  /\ \A t \in Tasks :
       event[t] = e /\ pc[t] \in {"lock", "unlink", "unflag"} => slept[t]
  /\ mem' = [mem EXCEPT ![e] = "freed"]
  /\ UNCHANGED <<list, mutex, private, own, flag, delVars, pmi, add, histVars>>

-----------------------------------------------------------------------------
(***************************************************************************)
(* query_data_tracker, by a PMI on the current task.                       *)
(***************************************************************************)

Pmi(t) ==
  /\ pmi[t] = Null
  /\ \E c \in CPUs :
       /\ IF pc[t] \in {"run", "exited"} THEN ~Busy(c) ELSE cpu[t] = c
       /\ TaskEvent(t, c) # Null
       /\ pmi' = [pmi EXCEPT ![t] = TaskEvent(t, c)]
  /\ UNCHANGED <<list, mutex, mem, private, own, flag, delVars, add, histVars>>

PmiReturns(t) ==
  /\ pmi[t] # Null
  /\ pmi' = [pmi EXCEPT ![t] = Null]
  /\ UNCHANGED <<list, mutex, mem, private, own, flag, delVars, add, histVars>>

-----------------------------------------------------------------------------

Init ==
  /\ list = [t \in Tasks |-> <<>>] /\ mutex = [t \in Tasks |-> Null]
  /\ mem = [e \in Events |-> "unused"]
  /\ private = [e \in Events |-> Null]
  /\ own = {} /\ flag = [c \in CPUs |-> FALSE]
  /\ pc = [t \in Tasks |-> "run"]
  /\ event = [t \in Tasks |-> Null] /\ data = [t \in Tasks |-> Null]
  /\ cpu = [t \in Tasks |-> Null] /\ from = [t \in Tasks |-> Null]
  /\ slept = [t \in Tasks |-> FALSE]
  /\ pmi = [t \in Tasks |-> Null]
  /\ add = [a \in Adders |-> NotAdding]
  /\ strays = {} /\ behind = {}

TaskStep(t) ==
  \/ OpenEvent(t) \/ ReadData(t) \/ NothingToDelete(t) \/ SetFlag(t)
  \/ ClearPrivate(t) \/ Release(t) \/ LockToUnlink(t) \/ Unlink(t) \/ ClearFlag(t)
  \/ Sleep(t) \/ Pmi(t) \/ PmiReturns(t)
  \/ \E c \in CPUs : CallDel(t, c) \/ Wake(t, c)

Next ==
  \/ \E t \in Tasks : TaskStep(t)
  \/ \E e \in Events : FreeEvent(e)
  \/ \E a \in Adders :
       \/ \E t \in Tasks, d \in Data \cup {Null}, c \in CPUs :
            CallAdd(a, t, d, c)
       \/ CreateEvent(a) \/ CreateFails(a) \/ LockToLink(a) \/ LinkEvent(a)

Spec == Init /\ [][Next]_vars

-----------------------------------------------------------------------------
(***************************************************************************)
(* Properties.                                                             *)
(***************************************************************************)

PCs == {"run", "get", "flag", "clear", "release", "lock", "unlink", "unflag",
        "exited"}

\* The values of the variables; only events are in a list, and who is about to
\* link one has it.
TypeOK ==
  /\ list \in [Tasks -> Seq(Events)]
  /\ mutex \in [Tasks -> Tasks \cup Adders \cup {Null}]
  /\ mem \in [Events -> {"unused", "live", "released", "freed"}]
  /\ private \in [Events -> Data \cup {Null}]
  /\ own \subseteq Events /\ flag \in [CPUs -> BOOLEAN]
  /\ pc \in [Tasks -> PCs] /\ event \in [Tasks -> Events \cup {Null}]
  /\ data \in [Tasks -> Data \cup {Null}]
  /\ cpu \in [Tasks -> CPUs \cup {Null}] /\ from \in [Tasks -> CPUs \cup {Null}]
  /\ slept \in [Tasks -> BOOLEAN] /\ pmi \in [Tasks -> Events \cup {Null}]
  /\ add \in [Adders -> [pc : {"idle", "create", "lock", "link"},
                         task : Tasks \cup {Null}, data : Data \cup {Null},
                         event : Events \cup {Null}]]
  /\ \A a \in Adders :
       /\ (add[a].pc # "idle" => add[a].task # Null)
       /\ (add[a].pc \in {"lock", "link"} => add[a].event # Null)
  /\ strays \subseteq CPUs /\ behind \subseteq Events

\* Between SetFlag and ClearFlag.
Removing(t) == pc[t] \in {"clear", "release", "lock", "unlink", "unflag"}

\* pcpu_removing_event says that a removal began on this CPU and is not over,
\* on every CPU that no removal left or reached in its sleep.
FlagIsRemoval ==
  \A c \in CPUs \ strays :
    flag[c] <=> \E t \in Tasks : from[t] = c /\ Removing(t)

\* A PMI reads no event whose memory is gone, and from the release of an event
\* on no data of it: the flag of the CPU hides the event until it is unlinked.
\* It does so although the removal may sleep, unless a removal changed its CPU.
NoReadAfterRelease ==
  \A t \in Tasks : pmi[t] # Null =>
    \/ mem[pmi[t]] = "live"
    \/ cpu[t] \in strays

\* The list of a task holds allocated events, and lets adders link behind them,
\* but for one window: the event is released before it is unlinked, and a
\* deletion that sleeps between the two leaves freed memory in the list.
ListedAreAllocated ==
  \A t \in Tasks : \A i \in DOMAIN list[t] : mem[list[t][i]] # "live" =>
    /\ event[t] = list[t][i] /\ pc[t] \in {"lock", "unlink"}
    /\ mem[list[t][i]] = "freed" => slept[t]

\* The deletion takes the first event for the tracker's.  An event that the
\* task opened for itself while it was tracked is never released by it.
ForeignEventsKept == \A e \in behind : mem[e] = "live"
=============================================================================
