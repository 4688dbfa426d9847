-------------------------------- MODULE Pmi --------------------------------
(***************************************************************************)
(* One CPU while the client is loaded: the counter that raises PMIs, the   *)
(* LVT entry that lets them through, pmi_handler, the scheduler's callback *)
(* that switches the counters with the tasks, and the module parameter     *)
(* thread_filter, which can be written at any time and which the callback  *)
(* reads once in each switch.                                              *)
(*                                                                         *)
(* The hardware is external.  With FREEZE_ON_PMI no counter runs while     *)
(* MSR_CORE_PERF_GLOBAL_STATUS has a bit set, and the APIC masks the LVT   *)
(* entry when it delivers a PMI.  An overflow under a masked entry raises  *)
(* nothing.  The vector is an NMI, which interrupts at once and which other *)
(* sources raise too, or an IRQ, which waits while a switch has interrupts *)
(* disabled.                                                               *)
(***************************************************************************)
EXTENDS Naturals

CONSTANTS
  Tasks,
  None,      \* no task
  Vectors    \* "NMI", "IRQ": the values of pmi_vector

ASSUME NoneAssumption == None \notin Tasks
ASSUME VectorsAssumption == Vectors \subseteq {"NMI", "IRQ"}

VARIABLES
  vector, thread_filter,  \* the vector, and the module parameter
  current, tracked,       \* the running task; the tasks the tracker knows
  on,                     \* MSR_CORE_PERF_GLOBAL_CTRL
  counter,                \* "armed" at -reset_period, or "spent"
  status,                 \* MSR_CORE_PERF_GLOBAL_STATUS is not zero
  lvt,                    \* the entry is "open" or "masked"
  pending,                \* the interrupt is latched in the CPU
  handler,                \* where pmi_handler is
  sched,                  \* where the switch is: phase, next, prev_en, next_en
  victim, switching,      \* history: who ran at the last overflow, and if in
                          \* the course of a switch
  charged,                \* history: the task that got the last sample
  synced                  \* history: the counters were switched, and nothing
                          \* that the callback does not notice happened since

params == <<vector, thread_filter>>
hw == <<counter, status, lvt, pending>>
hist == <<victim, switching, charged>>
vars == <<params, current, tracked, on, hw, handler, sched, hist, synced>>

NoSwitch ==
  [phase |-> "idle", next |-> None, prev_en |-> FALSE, next_en |-> FALSE]

-----------------------------------------------------------------------------
(***************************************************************************)
(* The hardware.                                                           *)
(***************************************************************************)

Overflow ==
  /\ on /\ ~status /\ counter = "armed"
  /\ status' = TRUE /\ counter' = "spent"
  /\ pending' = (pending \/ lvt = "open")
  /\ lvt' = "masked"
  /\ victim' = current /\ switching' = (sched # NoSwitch)
  /\ UNCHANGED <<params, current, tracked, on, handler, sched, charged, synced>>

\* The CPU enters the handler for a latched PMI ...
Deliver ==
  /\ pending /\ handler = "idle"
  /\ vector = "IRQ" => sched = NoSwitch
  /\ pending' = FALSE /\ handler' = "status"
  /\ UNCHANGED <<params, current, tracked, on, counter, status, lvt, sched, hist,
                 synced>>

\* ... or, as every handler of local NMIs is asked, for somebody else's.
ForeignNmi ==
  /\ vector = "NMI" /\ handler = "idle"
  /\ handler' = "status"
  /\ UNCHANGED <<params, current, tracked, on, hw, sched, hist, synced>>

-----------------------------------------------------------------------------
(***************************************************************************)
(* pmi_handler.                                                            *)
(***************************************************************************)

HandlerGoto(from, to) ==
  /\ handler = from /\ handler' = to
  /\ UNCHANGED <<params, current, tracked, on, pending, sched, victim, switching,
                 synced>>

\* "Nothing to do here": neither the LVT entry nor the counter is written.
NothingToDo ==
  ~status /\ HandlerGoto("status", "idle")
  /\ UNCHANGED <<counter, status, lvt, charged>>

ReadStatus ==
  status /\ HandlerGoto("status", "snapshot")
  /\ UNCHANGED <<counter, status, lvt, charged>>

\* Mutant: the sample goes to any task of the tracker.
SnapshotAny ==
  /\ HandlerGoto("snapshot", "rearm")
  /\ charged' \in tracked \cup {None}
  /\ UNCHANGED <<counter, status, lvt>>

\* snapshot_pmc(current); the query of a tracked task may miss.
Snapshot ==
  /\ HandlerGoto("snapshot", "rearm")
  /\ charged' \in (tracked \cap {current}) \cup {None}
  /\ UNCHANGED <<counter, status, lvt>>

Rearm ==
  /\ HandlerGoto("rearm", "lvt")
  /\ counter' = "armed"
  /\ UNCHANGED <<status, lvt, charged>>

\* Mutant: the entry is left masked.
WriteLvtNot ==
  HandlerGoto("lvt", "clear") /\ UNCHANGED <<counter, status, lvt, charged>>

WriteLvt ==
  /\ HandlerGoto("lvt", "clear")
  /\ lvt' = "open"
  /\ UNCHANGED <<counter, status, charged>>

\* MSR_CORE_PERF_GLOBAL_OVF_CTRL: the counters run again.
ClearStatus ==
  /\ HandlerGoto("clear", "idle")
  /\ status' = FALSE
  /\ UNCHANGED <<counter, lvt, charged>>

HandlerStep ==
  NothingToDo \/ ReadStatus \/ Snapshot \/ Rearm \/ WriteLvt \/ ClearStatus

-----------------------------------------------------------------------------
(***************************************************************************)
(* client_hook_sched_in, in the course of a switch.                        *)
(***************************************************************************)

\* The task side of the CPU executes: no handler is on top of it, and a latched
\* interrupt can only be an IRQ that the switch keeps away.
Runs ==
  /\ handler = "idle"
  /\ pending => vector = "IRQ" /\ sched # NoSwitch

SchedGoto(from, new) ==
  /\ Runs /\ sched.phase = from /\ sched' = new
  /\ UNCHANGED <<params, tracked, hw, handler, hist>>

\* The tracepoint is ahead of the switch itself: current is still prev.
Switch(t) ==
  /\ t # current
  /\ SchedGoto("idle", [NoSwitch EXCEPT !.phase = "query", !.next = t])
  /\ UNCHANGED <<current, on, synced>>

\* query_tracker for both tasks; TRUE is an answer for tracked tasks only.
QueryBoth ==
  \E prev_en, next_en \in BOOLEAN :
    /\ thread_filter
    /\ prev_en => current \in tracked
    /\ next_en => sched.next \in tracked
    /\ SchedGoto("query", [sched EXCEPT !.phase = "act", !.prev_en = prev_en,
                                        !.next_en = next_en])
    /\ synced' = (synced /\ prev_en = (current \in tracked)
                         /\ next_en = (sched.next \in tracked))
    /\ UNCHANGED <<current, on>>

\* The callback returns at once, whichever tasks are switched.
NoFilter ==
  /\ ~thread_filter
  /\ SchedGoto("query", [sched EXCEPT !.phase = "switch"])
  /\ synced' = (synced /\ (current \in tracked) = (sched.next \in tracked))
  /\ UNCHANGED <<current, on>>

\* Mutant: next_en is looked at first.
ActNextFirst ==
  /\ SchedGoto("act", [sched EXCEPT !.phase = "switch"])
  /\ on' = IF sched.next_en THEN TRUE ELSE on
  /\ synced' = (synced \/ sched.prev_en # sched.next_en)
  /\ UNCHANGED current

\* disable_pmcs_local, enable_pmcs_local, or nothing.
Act ==
  /\ SchedGoto("act", [sched EXCEPT !.phase = "switch"])
  /\ on' = IF sched.prev_en THEN on /\ sched.next_en ELSE on \/ sched.next_en
  /\ synced' = (sched.next_en = (sched.next \in tracked)
                /\ (synced \/ sched.prev_en # sched.next_en))
  /\ UNCHANGED current

EndSwitch ==
  /\ SchedGoto("switch", NoSwitch)
  /\ current' = sched.next
  /\ UNCHANGED <<on, synced>>

-----------------------------------------------------------------------------
(***************************************************************************)
(* A write to the parameter, and the tracker: a registration on another    *)
(* CPU, or the exit of a task.                                             *)
(***************************************************************************)

\* thread_filter_set, by a process on whatever CPU: no counter is touched.
SetThreadFilter(val) ==
  /\ thread_filter # val
  /\ thread_filter' = val
  /\ UNCHANGED <<vector, current, tracked, on, hw, handler, sched, hist, synced>>

Register(t) ==
  /\ t \notin tracked
  /\ tracked' = tracked \cup {t}
  /\ synced' = (synced /\ t \notin {current, sched.next})
  /\ UNCHANGED <<params, current, on, hw, handler, sched, hist>>

\* The exit wrapper takes the running task out and leaves the counters alone.
Unregister ==
  /\ Runs /\ sched = NoSwitch /\ current \in tracked
  /\ tracked' = tracked \ {current}
  /\ synced' = FALSE
  /\ UNCHANGED <<params, current, on, hw, handler, sched, hist>>

-----------------------------------------------------------------------------

\* After pmi_init: the entry is open, the counters enabled, whoever runs.
Init ==
  /\ vector \in Vectors /\ thread_filter \in BOOLEAN
  /\ current \in Tasks /\ tracked = {}
  /\ on = TRUE /\ counter = "armed" /\ status = FALSE
  /\ lvt = "open" /\ pending = FALSE
  /\ handler = "idle" /\ sched = NoSwitch
  /\ victim = None /\ switching = FALSE /\ charged = None /\ synced = FALSE

SwitchStep == QueryBoth \/ NoFilter \/ Act \/ EndSwitch

Next ==
  \/ Overflow \/ Deliver \/ ForeignNmi \/ HandlerStep
  \/ SwitchStep \/ Unregister
  \/ \E t \in Tasks : Switch(t) \/ Register(t)
  \/ \E val \in BOOLEAN : SetThreadFilter(val)

Spec == Init /\ [][Next]_vars

\* A running counter overflows, a handler and a switch that began go on, and a
\* latched interrupt is taken although switches and other NMIs come between.
FairSpec ==
  /\ Spec
  /\ WF_vars(Overflow) /\ WF_vars(HandlerStep)
  /\ SF_vars(SwitchStep) /\ SF_vars(Deliver)

-----------------------------------------------------------------------------
(***************************************************************************)
(* Properties.                                                             *)
(***************************************************************************)

Schedules ==
  [phase : {"idle", "query", "act", "switch"}, next : Tasks \cup {None},
   prev_en : BOOLEAN, next_en : BOOLEAN]

\* The values of the variables.
TypeOK ==
  /\ vector \in Vectors /\ thread_filter \in BOOLEAN
  /\ current \in Tasks /\ tracked \subseteq Tasks
  /\ on \in BOOLEAN /\ counter \in {"armed", "spent"} /\ status \in BOOLEAN
  /\ lvt \in {"open", "masked"} /\ pending \in BOOLEAN
  /\ handler \in {"idle", "status", "snapshot", "rearm", "lvt", "clear"}
  /\ sched \in Schedules
  /\ victim \in Tasks \cup {None} /\ switching \in BOOLEAN
  /\ charged \in Tasks \cup {None} /\ synced \in BOOLEAN

\* A CPU is never left deaf: when its entry is masked, its counters frozen or
\* its counter not armed, an interrupt or a handler is under way that ends it.
\* It holds although a handler that finds an empty status writes nothing.
NeverDeaf ==
  lvt = "masked" \/ status \/ counter = "spent" => pending \/ handler # "idle"

\* A sample goes to the task that ran at the overflow.  A PMI that is an IRQ
\* breaks it: raised in the course of a switch, it is taken by the next task.
ChargedIsVictim ==
  handler = "rearm" /\ charged # None =>
    charged = victim \/ (vector = "IRQ" /\ switching)

\* The counters run for tracked tasks and for no others, from a switch between
\* the two kinds with thread_filter until a query misses, the running task is
\* registered or exits, or a switch between the kinds finds thread_filter
\* cleared.  The callback compares tasks, not counters, and a write to the
\* parameter leaves the counters alone, so that nothing corrects them before the
\* next such switch.
CountsTracked ==
  synced /\ sched = NoSwitch => (on <=> current \in tracked)

\* A CPU whose counters stay on never ceases to take samples, whatever is done
\* to thread_filter.  (A CPU whose counters are off when it is cleared keeps
\* them off until it is set again.)
SamplingContinues == []<>(~on \/ handler = "rearm")
=============================================================================
