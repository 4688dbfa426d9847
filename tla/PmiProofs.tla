----------------------------- MODULE PmiProofs -----------------------------
(***************************************************************************)
(* Proofs about Pmi, for any set of tasks.                                 *)
(***************************************************************************)
EXTENDS Pmi, TLAPS

\* A switch that is over is forgotten, one under way has a task to go to.
SchedInv ==
  /\ sched.phase = "idle" => sched = NoSwitch
  /\ sched.phase # "idle" => sched.next \in Tasks

\* What an overflow spoils is repaired before its bit in the status is cleared,
\* and until then somebody is on the way to do so.
StatusInv ==
  /\ lvt = "masked" \/ counter = "spent" => status
  /\ handler \in {"snapshot", "rearm", "lvt", "clear"} => status
  /\ handler \in {"lvt", "clear"} => counter = "armed"
  /\ handler = "clear" => lvt = "open"
  /\ status => pending \/ handler # "idle"

\* Until then the task that ran stays, unless the interrupt had to wait for the
\* end of a switch.
VictimInv ==
  /\ status /\ ~switching => sched.phase = "idle"
  /\ status => victim = current \/ (vector = "IRQ" /\ switching)
  /\ handler = "rearm" => charged = None \/ charged = current

\* For whom the counters are set at each phase of a switch.
FilterInv ==
  synced =>
    /\ sched.phase # "switch" => (on <=> current \in tracked)
    /\ sched.phase = "act" => /\ sched.prev_en <=> current \in tracked
                              /\ sched.next_en <=> sched.next \in tracked
    /\ sched.phase = "switch" => (on <=> sched.next \in tracked)

IInv == TypeOK /\ SchedInv /\ StatusInv /\ VictimInv /\ FilterInv

-----------------------------------------------------------------------------

LEMMA InitInv == ASSUME Init PROVE IInv
BY DEF Init, IInv, TypeOK, SchedInv, StatusInv, VictimInv, FilterInv, NoSwitch,
       Schedules

\* The overflow and the two ways into the handler.
LEMMA HardwareInv ==
  ASSUME IInv, Overflow \/ Deliver \/ ForeignNmi
  PROVE  IInv'
<1>1. CASE Overflow
  <2>1. /\ status' = TRUE /\ counter' = "spent" /\ lvt' = "masked"
        /\ victim' = current /\ ~status
        /\ UNCHANGED <<vector, thread_filter, current, tracked, on, handler,
                       sched, charged, synced>>
    BY <1>1 DEF Overflow, params
  <2>2. /\ pending' \in BOOLEAN /\ switching' \in BOOLEAN
        /\ ~switching' => sched = NoSwitch
        /\ pending \/ lvt = "open" => pending'
    BY <1>1 DEF Overflow
  <2>3. lvt = "open" /\ handler \in {"idle", "status"}
    BY <2>1 DEF IInv, TypeOK, StatusInv
  <2>4. TypeOK'
    BY <2>1, <2>2 DEF IInv, TypeOK
  <2>5. SchedInv' /\ StatusInv'
    BY <2>1, <2>2, <2>3 DEF IInv, SchedInv, StatusInv
  <2>6. VictimInv' /\ FilterInv'
    BY <2>1, <2>2, <2>3 DEF IInv, VictimInv, FilterInv, NoSwitch
  <2> QED
    BY <2>4, <2>5, <2>6 DEF IInv
<1>2. CASE Deliver \/ ForeignNmi
  <2>1. /\ handler = "idle" /\ handler' = "status" /\ pending' \in BOOLEAN
        /\ UNCHANGED <<vector, thread_filter, current, tracked, on, counter,
                       status, lvt, sched, victim, switching, charged, synced>>
    BY <1>2 DEF Deliver, ForeignNmi, params, hist, hw, IInv, TypeOK
  <2>2. TypeOK'
    BY <2>1 DEF IInv, TypeOK
  <2>3. SchedInv' /\ StatusInv'
    BY <2>1 DEF IInv, SchedInv, StatusInv
  <2>4. VictimInv' /\ FilterInv'
    BY <2>1 DEF IInv, VictimInv, FilterInv
  <2> QED
    BY <2>2, <2>3, <2>4 DEF IInv
<1> QED
  BY <1>1, <1>2

LEMMA HandlerInv ==
  ASSUME IInv, HandlerStep
  PROVE  IInv'
<1> USE DEF HandlerGoto, params
<1>1. CASE NothingToDo
  BY <1>1 DEF NothingToDo, IInv, TypeOK, SchedInv, StatusInv, VictimInv, FilterInv
<1>2. CASE ReadStatus
  BY <1>2 DEF ReadStatus, IInv, TypeOK, SchedInv, StatusInv, VictimInv, FilterInv
<1>3. CASE Snapshot
  BY <1>3 DEF Snapshot, IInv, TypeOK, SchedInv, StatusInv, VictimInv, FilterInv
<1>4. CASE Rearm
  BY <1>4 DEF Rearm, IInv, TypeOK, SchedInv, StatusInv, VictimInv, FilterInv
<1>5. CASE WriteLvt
  BY <1>5 DEF WriteLvt, IInv, TypeOK, SchedInv, StatusInv, VictimInv, FilterInv
<1>6. CASE ClearStatus
  BY <1>6 DEF ClearStatus, IInv, TypeOK, SchedInv, StatusInv, VictimInv, FilterInv
<1> QED
  BY <1>1, <1>2, <1>3, <1>4, <1>5, <1>6 DEF HandlerStep

\* What the task side needs to know: nothing spoilt by an overflow is left when
\* it executes outside of a switch.
LEMMA NothingLatched ==
  ASSUME IInv, Runs, sched.phase = "idle"
  PROVE  ~status /\ ~pending
BY DEF Runs, IInv, SchedInv, StatusInv, TypeOK

LEMMA SwitchInv ==
  ASSUME IInv, NEW t \in Tasks, Switch(t)
  PROVE  IInv'
<1>1. /\ Runs /\ sched.phase = "idle"
      /\ sched' = [NoSwitch EXCEPT !.phase = "query", !.next = t]
      /\ UNCHANGED <<vector, thread_filter, tracked, counter, status, lvt,
                     pending, handler, victim, switching, charged, current, on,
                     synced>>
  BY DEF Switch, SchedGoto, params, hw, hist
<1>2. ~status
  BY <1>1, NothingLatched
<1>3. /\ sched' \in Schedules /\ sched'.phase = "query" /\ sched'.next = t
  BY <1>1 DEF NoSwitch, Schedules
<1>4. TypeOK'
  BY <1>1, <1>3 DEF IInv, TypeOK, Schedules
<1>5. SchedInv' /\ StatusInv' /\ VictimInv' /\ FilterInv'
  BY <1>1, <1>2, <1>3 DEF IInv, SchedInv, StatusInv, VictimInv, FilterInv
<1> QED
  BY <1>4, <1>5 DEF IInv

\* A step of the callback keeps what does not depend on the counters.
LEMMA CallbackInv ==
  ASSUME IInv, NEW from, NEW new \in Schedules, SchedGoto(from, new),
         from # "idle", new.phase # "idle", new.next = sched.next,
         current' = current, on' \in BOOLEAN, synced' \in BOOLEAN
  PROVE  TypeOK' /\ SchedInv' /\ StatusInv' /\ VictimInv'
<1>1. /\ sched' = new /\ sched.phase # "idle"
      /\ UNCHANGED <<vector, thread_filter, tracked, counter, status, lvt,
                     pending, handler, victim, switching, charged, current>>
  BY DEF SchedGoto, params, hw, hist
<1>2. TypeOK'
  BY <1>1 DEF IInv, TypeOK, Schedules
<1>3. SchedInv' /\ StatusInv' /\ VictimInv'
  BY <1>1 DEF IInv, SchedInv, StatusInv, VictimInv
<1> QED
  BY <1>2, <1>3

LEMMA QueryBothInv == ASSUME IInv, QueryBoth PROVE IInv'
<1>1. PICK p \in BOOLEAN, n \in BOOLEAN :
        /\ SchedGoto("query", [sched EXCEPT !.phase = "act", !.prev_en = p,
                                            !.next_en = n])
        /\ synced' = (synced /\ p = (current \in tracked)
                             /\ n = (sched.next \in tracked))
        /\ UNCHANGED <<current, on>>
  BY DEF QueryBoth
<1> DEFINE new == [sched EXCEPT !.phase = "act", !.prev_en = p, !.next_en = n]
<1>2. /\ new \in Schedules /\ new.phase = "act" /\ new.next = sched.next
      /\ new.prev_en = p /\ new.next_en = n
  BY DEF IInv, TypeOK, Schedules
<1>3. sched' = new /\ sched.phase = "query" /\ UNCHANGED <<thread_filter, tracked>>
  BY <1>1 DEF SchedGoto, params
<1>4. TypeOK' /\ SchedInv' /\ StatusInv' /\ VictimInv'
  <2>1. on' \in BOOLEAN /\ synced' \in BOOLEAN
    BY <1>1 DEF IInv, TypeOK
  <2> HIDE DEF new
  <2> QED
    BY <1>1, <1>2, <2>1, CallbackInv DEF new
<1>5. FilterInv'
  BY <1>1, <1>2, <1>3 DEF IInv, FilterInv
<1> QED
  BY <1>4, <1>5 DEF IInv

LEMMA NoFilterInv == ASSUME IInv, NoFilter PROVE IInv'
<1> DEFINE new == [sched EXCEPT !.phase = "switch"]
<1>1. /\ SchedGoto("query", new) /\ UNCHANGED <<current, on>>
      /\ synced' = (synced /\ (current \in tracked) = (sched.next \in tracked))
      /\ sched.phase = "query" /\ sched' = new /\ tracked' = tracked
  BY DEF NoFilter, SchedGoto, params
<1>2. new \in Schedules /\ new.phase = "switch" /\ new.next = sched.next
  BY DEF IInv, TypeOK, Schedules
<1>3. on' \in BOOLEAN /\ synced' \in BOOLEAN
  BY <1>1 DEF IInv, TypeOK
<1> HIDE DEF new
<1>4. TypeOK' /\ SchedInv' /\ StatusInv' /\ VictimInv'
  BY <1>1, <1>2, <1>3, CallbackInv
<1>5. FilterInv'
  BY <1>1, <1>2 DEF IInv, FilterInv
<1> QED
  BY <1>4, <1>5 DEF IInv

\* The counters are set to what the next task asks for, if they were right for
\* the last one or the two tasks differ.
LEMMA ActInv == ASSUME IInv, Act PROVE IInv'
<1> DEFINE new == [sched EXCEPT !.phase = "switch"]
<1>1. /\ SchedGoto("act", new) /\ current' = current
      /\ on' = IF sched.prev_en THEN on /\ sched.next_en ELSE on \/ sched.next_en
      /\ synced' = (sched.next_en = (sched.next \in tracked)
                    /\ (synced \/ sched.prev_en # sched.next_en))
      /\ sched.phase = "act" /\ sched' = new
      /\ UNCHANGED <<thread_filter, tracked>>
  BY DEF Act, SchedGoto, params
<1>2. /\ new \in Schedules /\ new.phase = "switch" /\ new.next = sched.next
      /\ sched.prev_en \in BOOLEAN /\ sched.next_en \in BOOLEAN
  BY DEF IInv, TypeOK, Schedules
<1>3. on' \in BOOLEAN /\ synced' \in BOOLEAN
  BY <1>1, <1>2 DEF IInv, TypeOK
<1> HIDE DEF new
<1>4. TypeOK' /\ SchedInv' /\ StatusInv' /\ VictimInv'
  BY <1>1, <1>2, <1>3, CallbackInv
<1>5. FilterInv'
  BY <1>1, <1>2 DEF IInv, TypeOK, FilterInv
<1> QED
  BY <1>4, <1>5 DEF IInv

\* The next task takes over; a PMI that is latched now had to wait.
LEMMA EndSwitchInv == ASSUME IInv, EndSwitch PROVE IInv'
<1>1. /\ Runs /\ sched.phase = "switch" /\ sched' = NoSwitch
      /\ current' = sched.next /\ sched.next \in Tasks
      /\ UNCHANGED <<vector, thread_filter, tracked, counter, status, lvt,
                     pending, handler, victim, switching, charged, on, synced>>
  BY DEF EndSwitch, SchedGoto, params, hw, hist, IInv, SchedInv
<1>2. handler = "idle" /\ (status => vector = "IRQ" /\ switching)
  BY <1>1 DEF Runs, IInv, StatusInv, VictimInv, TypeOK
<1>3. NoSwitch \in Schedules /\ NoSwitch.phase = "idle"
  BY DEF NoSwitch, Schedules
<1>4. TypeOK'
  BY <1>1, <1>3 DEF IInv, TypeOK, Schedules
<1>5. SchedInv' /\ StatusInv' /\ VictimInv'
  BY <1>1, <1>2, <1>3 DEF IInv, SchedInv, StatusInv, VictimInv
<1>6. FilterInv'
  BY <1>1, <1>3 DEF IInv, FilterInv
<1> QED
  BY <1>4, <1>5, <1>6 DEF IInv

LEMMA TrackerInv ==
  ASSUME IInv, Unregister \/ \E t \in Tasks : Register(t)
  PROVE  IInv'
<1>1. CASE Unregister
  <2>1. /\ tracked' = tracked \ {current} /\ synced' = FALSE
        /\ UNCHANGED <<vector, thread_filter, current, on, counter, status, lvt,
                       pending, handler, sched, victim, switching, charged>>
    BY <1>1 DEF Unregister, params, hw, hist
  <2>2. TypeOK'
    <3>1. synced' \in BOOLEAN
      BY <2>1
    <3> QED
      BY <2>1, <3>1 DEF IInv, TypeOK, Schedules
  <2>3. SchedInv' /\ StatusInv' /\ VictimInv' /\ FilterInv'
    BY <2>1 DEF IInv, SchedInv, StatusInv, VictimInv, FilterInv
  <2> QED
    BY <2>2, <2>3 DEF IInv
<1>2. ASSUME NEW t \in Tasks, Register(t) PROVE IInv'
  <2>1. /\ tracked' = tracked \cup {t}
        /\ synced' = (synced /\ t \notin {current, sched.next})
        /\ UNCHANGED <<vector, thread_filter, current, on, counter, status, lvt,
                       pending, handler, sched, victim, switching, charged>>
    BY <1>2 DEF Register, params, hw, hist
  <2>2. /\ synced' \in BOOLEAN /\ tracked' \subseteq Tasks
        /\ synced' => synced /\ t # current /\ t # sched.next
    BY <2>1 DEF IInv, TypeOK
  <2>3. TypeOK'
    BY <2>1, <2>2 DEF IInv, TypeOK, Schedules
  <2>4. SchedInv' /\ StatusInv' /\ VictimInv'
    BY <2>1 DEF IInv, SchedInv, StatusInv, VictimInv
  <2>5. FilterInv'
    BY <2>1, <2>2 DEF IInv, FilterInv
  <2> QED
    BY <2>3, <2>4, <2>5 DEF IInv
<1> QED
  BY <1>1, <1>2

\* A write to the parameter changes neither tasks nor counters.
LEMMA ParameterInv ==
  ASSUME IInv, NEW val \in BOOLEAN, SetThreadFilter(val)
  PROVE  IInv'
<1>1. /\ thread_filter' \in BOOLEAN
      /\ UNCHANGED <<vector, current, tracked, on, counter, status, lvt, pending,
                     handler, sched, victim, switching, charged, synced>>
  BY DEF SetThreadFilter, hw, hist
<1>2. TypeOK'
  BY <1>1 DEF IInv, TypeOK, Schedules
<1>3. SchedInv' /\ StatusInv' /\ VictimInv' /\ FilterInv'
  BY <1>1 DEF IInv, SchedInv, StatusInv, VictimInv, FilterInv
<1> QED
  BY <1>2, <1>3 DEF IInv

LEMMA NextInv == ASSUME IInv, [Next]_vars PROVE IInv'
<1>1. CASE UNCHANGED vars
  BY <1>1 DEF vars, params, hw, hist, IInv, TypeOK, SchedInv, StatusInv,
              VictimInv, FilterInv, Schedules
<1>2. CASE SwitchStep
  BY <1>2, QueryBothInv, NoFilterInv, ActInv, EndSwitchInv DEF SwitchStep
<1>3. ASSUME NEW t \in Tasks, Switch(t) PROVE IInv'
  BY <1>3, SwitchInv
<1> QED
  BY <1>1, <1>2, <1>3, HardwareInv, HandlerInv, TrackerInv, ParameterInv
     DEF Next

LEMMA Inductive == Spec => []IInv
<1>1. Init => IInv
  BY InitInv
<1>2. IInv /\ [Next]_vars => IInv'
  BY NextInv
<1> QED
  BY <1>1, <1>2, PTL DEF Spec

-----------------------------------------------------------------------------

\* The variables keep their types.
THEOREM PmiTypeCorrect == Spec => []TypeOK
<1>1. IInv => TypeOK
  BY DEF IInv
<1> QED
  BY <1>1, Inductive, PTL

\* A masked entry, a frozen or a spent counter is followed by an interrupt or a
\* handler that repairs it.
THEOREM CpuIsNeverDeaf == Spec => []NeverDeaf
<1>1. IInv => NeverDeaf
  BY DEF IInv, StatusInv, NeverDeaf
<1> QED
  BY <1>1, Inductive, PTL

\* The sample goes to the task that ran at the overflow, except for an IRQ
\* that a switch delayed.
THEOREM SamplesAreTheVictims == Spec => []ChargedIsVictim
<1>1. IInv => ChargedIsVictim
  BY DEF IInv, StatusInv, VictimInv, ChargedIsVictim
<1> QED
  BY <1>1, Inductive, PTL

\* From a switch on that sets the counters, they run for tracked tasks only,
\* whatever is written to thread_filter, until a switch between the two kinds
\* finds it cleared or the callback misses something else.
THEOREM FilterIsExact == Spec => []CountsTracked
<1>1. IInv => CountsTracked
  BY DEF IInv, FilterInv, CountsTracked, NoSwitch
<1> QED
  BY <1>1, Inductive, PTL
=============================================================================
