---------------------------- MODULE ClientProofs ----------------------------
(***************************************************************************)
(* Proofs about the client.  ClientModule, for any finite set of CPUs, and *)
(* any builds: the sample buffers outlive the handlers that write to them, *)
(* and are released.  CArray, the list in each buffer, for any writers,    *)
(* entry count and entry size.                                             *)
(***************************************************************************)
EXTENDS ClientModule, CArray, FiniteSetTheorems, TLAPS

\* The phases in which the buffers are ready, but init has not succeeded yet;
\* and those in which a client whose init succeeded has not freed them.
Ready == {"shook", "pmu", "handler", "lvt", "enable", "proc"}
Kept == {"live", "disable", "restore", "unregister", "sync", "pmc_fini",
         "fini_shook", "removing", "drain"}

\* The phases in which the vector may have its handler.
Vectored == {"lvt", "enable", "proc", "live", "disable", "restore", "unregister"}

Allocated == \A b \in Buffers(policy) : mem[b] = "allocated"

\* A handler is registered, or still executes, only while the buffers are
\* allocated; it executes on until HandlersDone at the latest.
HandlerInv ==
  /\ handler => client \in Vectored /\ Allocated
  /\ client = "enable" /\ err = "negative" => ~handler
  /\ \A c \in CPUs : pmi[c] # "idle" => (handler \/ client = "sync") /\ Allocated

\* The loop of buffering_static_init.
LoadInv ==
  /\ client \in Ready \cup {"buffering"} => ~init_ok
  /\ client \in (Ready \ {"enable"}) \cup {"buffering"} => err = "none"
  /\ client = "buffering" =>
       \A b \in Buffers(policy) :
         mem[b] = IF b \in todo THEN "none" ELSE "allocated"
  /\ client \in Ready => Allocated

\* A client whose init succeeded never leaves with the label of an error.
ReleaseInv ==
  init_ok =>
    /\ err = "none"
    /\ client \in Kept => Allocated
    /\ client = "free" =>
         \A b \in Buffers(policy) :
           mem[b] = IF b \in todo THEN "allocated" ELSE "freed"
    /\ client \in {"rcu", "absent"} => \A b \in Buffers(policy) : mem[b] = "freed"

\* Where a handler may be under each policy.
WriterInv ==
  \A c \in CPUs :
    /\ pmi[c] \in {"removing", "count", "uncount"} => policy = "SYSTEM"
    /\ pmi[c] = "write" => policy \in {"SYSTEM", "CPU"}

\* The reference count of the system-wide buffer.
Counted == {c \in CPUs : policy = "SYSTEM" /\ pmi[c] \in {"write", "uncount"}}
UsageInv == usage = 1 + Cardinality(Counted)

\* The types of all variables but usage, whose type follows from UsageInv.
Types ==
  /\ policy \in Policies /\ vector \in Vectors
  /\ client \in ClientPhases /\ todo \in SUBSET AllBuffers
  /\ err \in {"none", "negative", "positive"} /\ init_ok \in BOOLEAN
  /\ shook \in BOOLEAN /\ handler \in BOOLEAN
  /\ on \in [CPUs -> BOOLEAN]
  /\ lvt \in [CPUs -> {"old", "zero", "pmi"}]
  /\ pcpu_lvt_bkp \in [CPUs -> {"old", "zero", "pmi"}]
  /\ removing \in BOOLEAN
  /\ mem \in [AllBuffers -> {"none", "allocated", "freed", "freed_twice"}]
  /\ pmi \in [CPUs -> PmiPhases] /\ sched \in [CPUs -> {"idle", "in"}]

IInv == Types /\ HandlerInv /\ LoadInv /\ ReleaseInv /\ WriterInv /\ UsageInv

-----------------------------------------------------------------------------

LEMMA CountedFinite == IsFiniteSet(Counted) /\ Cardinality(Counted) \in Nat
<1>1. Counted \subseteq CPUs
  BY DEF Counted
<1> QED
  BY <1>1, CPUsAssumption, FS_Subset, FS_CardinalityType

LEMMA BuffersAreBuffers ==
  \A p \in Policies : Buffers(p) \subseteq AllBuffers
BY BuildAssumption DEF Buffers, AllBuffers

\* Nothing the loader does concerns the writers.
LEMMA WritersSame ==
  ASSUME IInv, UNCHANGED <<policy, pmi, usage>>
  PROVE  WriterInv' /\ UsageInv'
<1>1. Counted' = Counted
  BY DEF Counted
<1> QED
  BY <1>1 DEF IInv, WriterInv, UsageInv

\* The steps of the loader from a phase to another.
PhaseStep ==
  \/ Exit
  \/ AllocBufferFails \/ BuffersReady \/ InitShook \/ PmuReady
  \/ RegisterHandler \/ RegisterHandlerFails \/ LvtReady \/ PmcsEnabled
  \/ InitProc \/ InitProcFails
  \/ PmcsDisabled \/ LvtRestoredAll \/ UnregisterHandler \/ HandlersDone
  \/ PmcFiniDone \/ FiniShook \/ SetRemoving \/ Drained \/ BuffersFreed
  \/ FreeModule

LEMMA PhaseInv ==
  ASSUME IInv, PhaseStep
  PROVE  Types' /\ HandlerInv' /\ LoadInv' /\ ReleaseInv'
<1> USE DEF Leave, Enter, Skip, buildVars, pmuVars, bufferVars, frameVars,
            IInv, HandlerInv, LoadInv, ReleaseInv, Types, Allocated, Ready, Kept,
            Vectored, ClientPhases
<1>0. Buffers(policy) \subseteq AllBuffers /\ CPUs \subseteq AllBuffers
  BY BuffersAreBuffers DEF AllBuffers
<1>1. CASE Exit
  BY <1>0, <1>1 DEF Exit
<1>2. CASE AllocBufferFails
  BY <1>0, <1>2 DEF AllocBufferFails
<1>3. CASE BuffersReady
  BY <1>0, <1>3 DEF BuffersReady
<1>4. CASE InitShook
  BY <1>0, <1>4 DEF InitShook
<1>5. CASE PmuReady
  BY <1>0, <1>5 DEF PmuReady
<1>6. CASE RegisterHandler
  BY <1>0, <1>6 DEF RegisterHandler
<1>7. CASE RegisterHandlerFails
  BY <1>0, <1>7 DEF RegisterHandlerFails
<1>8. CASE LvtReady
  BY <1>0, <1>8 DEF LvtReady
<1>9. CASE PmcsEnabled
  BY <1>0, <1>9 DEF PmcsEnabled
<1>10. CASE InitProc
  BY <1>0, <1>10 DEF InitProc
<1>11. CASE InitProcFails
  BY <1>0, <1>11 DEF InitProcFails
<1>12. CASE PmcsDisabled
  BY <1>0, <1>12 DEF PmcsDisabled
<1>13. CASE LvtRestoredAll
  BY <1>0, <1>13 DEF LvtRestoredAll
<1>14. CASE UnregisterHandler
  BY <1>0, <1>14 DEF UnregisterHandler
<1>15. CASE HandlersDone
  BY <1>0, <1>15 DEF HandlersDone
<1>16. CASE PmcFiniDone
  BY <1>0, <1>16 DEF PmcFiniDone
<1>17. CASE FiniShook
  BY <1>0, <1>17 DEF FiniShook
<1>18. CASE SetRemoving
  BY <1>0, <1>18 DEF SetRemoving
<1>19. CASE Drained
  BY <1>0, <1>19 DEF Drained
<1>20. CASE BuffersFreed
  BY <1>0, <1>20 DEF BuffersFreed
<1>21. CASE FreeModule
  BY <1>0, <1>21 DEF FreeModule
<1> QED
  BY <1>1, <1>2, <1>3, <1>4, <1>5, <1>6, <1>7, <1>8, <1>9, <1>10, <1>11,
     <1>12, <1>13, <1>14, <1>15, <1>16, <1>17, <1>18, <1>19, <1>20, <1>21 DEF PhaseStep

\* insmod finds neither a handler nor a user of the buffers.
LEMMA InsmodInv ==
  ASSUME IInv, Insmod
  PROVE  IInv'
<1>1. /\ client = "absent" /\ client' = "buffering" /\ todo' = Buffers(policy')
      /\ policy' \in Policies /\ vector' \in Vectors
      /\ err' = "none" /\ init_ok' = FALSE /\ removing' = FALSE /\ usage' = 1
      /\ mem' = [b \in AllBuffers |-> "none"]
      /\ pcpu_lvt_bkp' = [c \in CPUs |-> "zero"]
      /\ UNCHANGED <<shook, handler, on, lvt, pmi, sched>>
  BY DEF Insmod, Enter, frameVars
<1>2. ~handler /\ \A c \in CPUs : pmi[c] = "idle"
  BY <1>1 DEF IInv, HandlerInv, Vectored, Types
<1>3. Buffers(policy') \subseteq AllBuffers
  BY <1>1, BuffersAreBuffers
<1>4. Types'
  BY <1>1, <1>3 DEF IInv, Types, ClientPhases
<1>5. HandlerInv' /\ WriterInv'
  BY <1>1, <1>2 DEF HandlerInv, WriterInv
<1>6. LoadInv' /\ ReleaseInv'
  BY <1>1, <1>3 DEF LoadInv, ReleaseInv, Ready
<1>7. UsageInv'
  <2>1. Counted' = {}
    BY <1>1, <1>2 DEF Counted
  <2> QED
    BY <1>1, <2>1, FS_EmptySet DEF UsageInv
<1> QED
  BY <1>4, <1>5, <1>6, <1>7 DEF IInv

\* A buffer is allocated, or freed, while nobody writes.
LEMMA BufferStepInv ==
  ASSUME IInv, NEW b \in AllBuffers, AllocBuffer(b) \/ FreeBuffer(b)
  PROVE  IInv'
<1> DEFINE to == IF client = "buffering" THEN "allocated" ELSE Released(mem[b])
<1>1. /\ client \in {"buffering", "free"} /\ b \in todo /\ todo' = todo \ {b}
      /\ mem' = [mem EXCEPT ![b] = to]
      /\ UNCHANGED <<client, err, init_ok, policy, vector, shook, handler, on,
                     lvt, pcpu_lvt_bkp, removing, usage, pmi, sched>>
  BY DEF AllocBuffer, FreeBuffer, ForBuffer, buildVars, pmuVars, frameVars
<1>2. to \in {"none", "allocated", "freed", "freed_twice"}
  BY DEF Released
<1>3. client = "free" /\ mem[b] = "allocated" => to = "freed"
  BY DEF Released
<1>4. client = "buffering" => to = "allocated"
  OBVIOUS
<1> HIDE DEF to
<1>5. \A d \in AllBuffers : mem'[d] = IF d = b THEN to ELSE mem[d]
  BY <1>1 DEF IInv, Types
<1>6. Types'
  BY <1>1, <1>2 DEF IInv, Types
<1>7. Buffers(policy) \subseteq AllBuffers
  BY BuffersAreBuffers DEF IInv, Types
<1>8. HandlerInv'
  BY <1>1 DEF IInv, HandlerInv, Vectored
<1>9. LoadInv'
  BY <1>1, <1>4, <1>5, <1>7 DEF IInv, LoadInv, Ready
<1>10. ReleaseInv'
  BY <1>1, <1>3, <1>5, <1>7 DEF IInv, ReleaseInv, LoadInv, Kept
<1>11. WriterInv' /\ UsageInv'
  BY <1>1, WritersSame
<1> QED
  BY <1>6, <1>8, <1>9, <1>10, <1>11 DEF IInv

\* An on_each_cpu interrupt, and the callback of the scheduler, concern the
\* registers of a CPU.
LEMMA CpuStepInv ==
  ASSUME IInv, NEW c \in CPUs,
         \/ InitPmuLocal(c) \/ LvtSetupLocal(c) \/ EnablePmcs(c)
         \/ DisablePmcs(c) \/ LvtCleanupLocal(c)
         \/ SchedEnter(c) \/ SchedAct(c)
  PROVE  IInv'
<1>1. /\ UNCHANGED <<client, err, init_ok, policy, vector, shook, handler,
                     removing, usage, mem, pmi>>
      /\ todo' = todo \/ (todo' = todo \ {c} /\ client \notin {"buffering", "free"})
  BY DEF InitPmuLocal, LvtSetupLocal, EnablePmcs, DisablePmcs, LvtCleanupLocal,
         SchedEnter, SchedAct, OnCpu, loaderVars, buildVars, pmuVars,
         bufferVars, frameVars
<1>2. /\ on' \in [CPUs -> BOOLEAN]
      /\ lvt' \in [CPUs -> {"old", "zero", "pmi"}]
      /\ pcpu_lvt_bkp' \in [CPUs -> {"old", "zero", "pmi"}]
      /\ sched' \in [CPUs -> {"idle", "in"}]
  <2> USE DEF OnCpu, loaderVars, buildVars, pmuVars, bufferVars, frameVars,
              IInv, Types
  <2>1. CASE InitPmuLocal(c)
    BY <2>1 DEF InitPmuLocal
  <2>2. CASE LvtSetupLocal(c)
    BY <2>2 DEF LvtSetupLocal
  <2>3. CASE EnablePmcs(c)
    BY <2>3 DEF EnablePmcs
  <2>4. CASE DisablePmcs(c)
    BY <2>4 DEF DisablePmcs
  <2>5. CASE LvtCleanupLocal(c)
    BY <2>5 DEF LvtCleanupLocal
  <2>6. CASE SchedEnter(c)
    BY <2>6 DEF SchedEnter
  <2>7. CASE SchedAct(c)
    <3>1. PICK v \in BOOLEAN : on' = [on EXCEPT ![c] = v]
      BY <2>7 DEF SchedAct
    <3>2. /\ sched' = [sched EXCEPT ![c] = "idle"]
          /\ lvt' = lvt /\ pcpu_lvt_bkp' = pcpu_lvt_bkp
      BY <2>7 DEF SchedAct
    <3> QED
      BY <3>1, <3>2
  <2> QED
    BY <2>1, <2>2, <2>3, <2>4, <2>5, <2>6, <2>7
<1>3. Types'
  BY <1>1, <1>2 DEF IInv, Types
<1>4. HandlerInv' /\ LoadInv' /\ ReleaseInv'
  BY <1>1 DEF IInv, HandlerInv, LoadInv, ReleaseInv, Allocated
<1>5. WriterInv' /\ UsageInv'
  BY <1>1, WritersSame
<1> QED
  BY <1>3, <1>4, <1>5 DEF IInv

-----------------------------------------------------------------------------
(***************************************************************************)
(* The handler.                                                            *)
(***************************************************************************)

\* A step of the handler that is not its entry: the handler was under way, so
\* that the buffers are allocated.
LEMMA PmiMoveInv ==
  ASSUME IInv, NEW c \in CPUs, NEW from, NEW to \in PmiPhases,
         PmiGoto(c, from, to), from # "idle" \/ handler,
         lvt' \in [CPUs -> {"old", "zero", "pmi"}],
         to \in {"removing", "count", "uncount"} => policy = "SYSTEM",
         to = "write" => policy \in {"SYSTEM", "CPU"}
  PROVE  Types' /\ HandlerInv' /\ LoadInv' /\ ReleaseInv' /\ WriterInv'
<1>1. /\ pmi[c] = from /\ pmi' = [pmi EXCEPT ![c] = to]
      /\ UNCHANGED <<client, todo, err, init_ok, policy, vector, shook, handler,
                     on, pcpu_lvt_bkp, removing, mem, sched>>
  BY DEF PmiGoto, loaderVars, buildVars
<1>2. \A d \in CPUs : pmi'[d] = IF d = c THEN to ELSE pmi[d]
  BY <1>1 DEF IInv, Types
<1>3. (handler \/ client = "sync") /\ Allocated
  BY <1>1 DEF IInv, HandlerInv
<1>4. Types'
  BY <1>1 DEF IInv, Types
<1>5. HandlerInv'
  BY <1>1, <1>2, <1>3 DEF IInv, HandlerInv, Allocated
<1>6. LoadInv' /\ ReleaseInv'
  BY <1>1 DEF IInv, LoadInv, ReleaseInv, Allocated
<1>7. WriterInv'
  BY <1>1, <1>2 DEF IInv, WriterInv
<1> QED
  BY <1>4, <1>5, <1>6, <1>7

LEMMA PmiStepInv ==
  ASSUME IInv, NEW c \in CPUs, Pmi(c) \/ PmiStep(c)
  PROVE  Types' /\ HandlerInv' /\ LoadInv' /\ ReleaseInv' /\ WriterInv'
<1>1. PICK from \in PmiPhases, to \in PmiPhases :
        /\ PmiGoto(c, from, to)
        /\ from # "idle" \/ handler
        /\ to \in {"removing", "count", "uncount"} => policy = "SYSTEM"
        /\ to = "write" => policy \in {"SYSTEM", "CPU"}
  <2> USE DEF PmiPhases
  <2>1. CASE Pmi(c)
    BY <2>1 DEF Pmi
  <2>2. CASE NothingToDo(c)
    BY <2>2 DEF NothingToDo
  <2>3. CASE NoProcData(c)
    BY <2>3 DEF NoProcData
  <2>4. CASE Snapshot(c)
    BY <2>4 DEF Snapshot
  <2>5. CASE CheckRemoving(c)
    <3>1. pmi[c] = "removing"
      BY <2>5 DEF CheckRemoving, PmiGoto
    <3>2. policy = "SYSTEM"
      BY <3>1 DEF IInv, WriterInv
    <3> QED
      BY <2>5, <3>2 DEF CheckRemoving
  <2>6. CASE CountWriter(c)
    <3>1. pmi[c] = "count"
      BY <2>6 DEF CountWriter, PmiGoto
    <3>2. policy = "SYSTEM"
      BY <3>1 DEF IInv, WriterInv
    <3> QED
      BY <2>6, <3>2 DEF CountWriter
  <2>7. CASE WriteClist(c)
    BY <2>7 DEF WriteClist
  <2>8. CASE UncountWriter(c)
    BY <2>8 DEF UncountWriter
  <2>9. CASE Rearm(c)
    BY <2>9 DEF Rearm
  <2> QED
    BY <2>1, <2>2, <2>3, <2>4, <2>5, <2>6, <2>7, <2>8, <2>9 DEF PmiStep
<1>2. lvt' \in [CPUs -> {"old", "zero", "pmi"}]
  BY DEF PmiStep, Pmi, NothingToDo, NoProcData, Snapshot, CheckRemoving,
         CountWriter, WriteClist, UncountWriter, Rearm, IInv, Types
<1> QED
  BY <1>1, <1>2, PmiMoveInv

\* The count follows the handlers that are between CountWriter and
\* UncountWriter.
LEMMA PmiCount ==
  ASSUME IInv, NEW c \in CPUs, Pmi(c) \/ PmiStep(c)
  PROVE  UsageInv'
<1>0. IsFiniteSet(Counted) /\ Cardinality(Counted) \in Nat
  BY CountedFinite
<1>1. CASE CountWriter(c)
  <2>1. /\ pmi[c] = "count" /\ pmi' = [pmi EXCEPT ![c] = "write"]
        /\ policy' = policy /\ usage' = usage + 1
    BY <1>1 DEF CountWriter, PmiGoto, loaderVars, buildVars
  <2>2. policy = "SYSTEM"
    BY <2>1 DEF IInv, WriterInv
  <2>3. c \notin Counted /\ Counted' = Counted \cup {c}
    BY <2>1, <2>2 DEF Counted, IInv, Types
  <2>4. Cardinality(Counted') = Cardinality(Counted) + 1
    BY <1>0, <2>3, FS_AddElement
  <2> QED
    BY <1>0, <2>1, <2>4 DEF IInv, UsageInv
<1>2. CASE UncountWriter(c)
  <2>1. /\ pmi[c] = "uncount" /\ pmi' = [pmi EXCEPT ![c] = "rearm"]
        /\ policy' = policy /\ usage' = usage - 1
    BY <1>2 DEF UncountWriter, PmiGoto, loaderVars, buildVars
  <2>2. policy = "SYSTEM"
    BY <2>1 DEF IInv, WriterInv
  <2>3. c \in Counted /\ Counted' = Counted \ {c}
    BY <2>1, <2>2 DEF Counted, IInv, Types
  <2>4. Cardinality(Counted') = Cardinality(Counted) - 1
    BY <1>0, <2>3, FS_RemoveElement
  <2> QED
    BY <1>0, <2>1, <2>4 DEF IInv, UsageInv
<1>3. CASE \/ Pmi(c) \/ NothingToDo(c) \/ NoProcData(c) \/ Snapshot(c)
           \/ CheckRemoving(c) \/ WriteClist(c) \/ Rearm(c)
  <2>1. \E from, to \in PmiPhases :
          /\ pmi[c] = from /\ pmi' = [pmi EXCEPT ![c] = to]
          /\ policy = "SYSTEM" =>
               (from \in {"write", "uncount"} <=> to \in {"write", "uncount"})
          /\ policy' = policy /\ usage' = usage
    BY <1>3 DEF Pmi, NothingToDo, NoProcData, Snapshot, CheckRemoving,
                WriteClist, Rearm, PmiGoto, PmiPhases, loaderVars, buildVars
  <2>2. Counted' = Counted
    BY <2>1 DEF Counted, IInv, Types
  <2> QED
    BY <2>1, <2>2 DEF IInv, UsageInv
<1> QED
  BY <1>1, <1>2, <1>3 DEF PmiStep

-----------------------------------------------------------------------------
(***************************************************************************)
(* The invariants.                                                         *)
(***************************************************************************)

LEMMA InitInv == ASSUME Init PROVE IInv
<1>1. Types
  BY DEF Init, Types, ClientPhases, PmiPhases
<1>2. HandlerInv /\ LoadInv /\ ReleaseInv /\ WriterInv
  BY DEF Init, HandlerInv, LoadInv, ReleaseInv, WriterInv, Ready
<1>3. Counted = {}
  BY DEF Init, Counted
<1>4. UsageInv
  BY <1>3, FS_EmptySet DEF Init, UsageInv
<1> QED
  BY <1>1, <1>2, <1>4 DEF IInv

LEMMA NextInv == ASSUME IInv, [Next]_vars PROVE IInv'
<1>1. CASE UNCHANGED vars
  <2>1. Types' /\ HandlerInv' /\ LoadInv' /\ ReleaseInv'
    BY <1>1 DEF vars, loaderVars, buildVars, pmuVars, bufferVars, frameVars,
                IInv, Types, HandlerInv, LoadInv, ReleaseInv, Allocated
  <2>2. WriterInv' /\ UsageInv'
    BY <1>1, WritersSame DEF vars, loaderVars, buildVars, bufferVars, frameVars
  <2> QED
    BY <2>1, <2>2 DEF IInv
<1>2. CASE Insmod
  BY <1>2, InsmodInv
<1>3. CASE Exit \/ LoaderStep
  <2>1. CASE \E b \in AllBuffers : AllocBuffer(b) \/ FreeBuffer(b)
    BY <2>1, BufferStepInv
  <2>2. CASE \E c \in CPUs : \/ InitPmuLocal(c) \/ LvtSetupLocal(c)
                             \/ EnablePmcs(c) \/ DisablePmcs(c)
                             \/ LvtCleanupLocal(c)
    BY <2>2, CpuStepInv
  <2>3. CASE PhaseStep
    <3>1. Types' /\ HandlerInv' /\ LoadInv' /\ ReleaseInv'
      BY <2>3, PhaseInv
    <3>2. UNCHANGED <<policy, pmi, usage>>
      BY <2>3 DEF PhaseStep,
                  Exit, AllocBufferFails, BuffersReady,
                  InitShook, PmuReady, RegisterHandler,
                  RegisterHandlerFails, LvtReady, PmcsEnabled,
                  InitProc, InitProcFails, PmcsDisabled,
                  LvtRestoredAll, UnregisterHandler,
                  HandlersDone, PmcFiniDone, FiniShook,
                  SetRemoving, Drained, BuffersFreed, FreeModule,
                  Leave, Enter, Skip, buildVars, bufferVars, frameVars
    <3> QED
      BY <3>1, <3>2, WritersSame DEF IInv
  <2> QED
    BY <1>3, <2>1, <2>2, <2>3 DEF LoaderStep, PhaseStep
<1>4. ASSUME NEW c \in CPUs, SchedEnter(c) \/ SchedAct(c) PROVE IInv'
  BY <1>4, CpuStepInv
<1>5. ASSUME NEW c \in CPUs, Pmi(c) \/ PmiStep(c) PROVE IInv'
  BY <1>5, PmiStepInv, PmiCount DEF IInv
<1> QED
  BY <1>1, <1>2, <1>3, <1>4, <1>5 DEF Next

LEMMA Inductive == Spec => []IInv
<1>1. Init => IInv
  BY InitInv
<1>2. IInv /\ [Next]_vars => IInv'
  BY NextInv
<1> QED
  BY <1>1, <1>2, PTL DEF Spec

-----------------------------------------------------------------------------

\* The variables keep their types; that the count of writers is never negative
\* says that no writer gives back a reference it did not take.
THEOREM ClientTypeCorrect == Spec => []TypeOK
<1>1. IInv => TypeOK
  BY CountedFinite DEF IInv, Types, UsageInv, TypeOK
<1> QED
  BY <1>1, Inductive, PTL

\* A handler writes to allocated buffers only, for each buffering policy, each
\* vector, and each error of init.
THEOREM WritesHitBuffers == Spec => []NoWriteAfterFree
<1>1. IInv => NoWriteAfterFree
  <2> SUFFICES ASSUME IInv, NEW c \in CPUs, pmi[c] = "write"
               PROVE  mem[BufferOf(c)] = "allocated"
    BY DEF NoWriteAfterFree
  <2>1. Allocated /\ policy \in {"SYSTEM", "CPU"}
    BY DEF IInv, HandlerInv, WriterInv
  <2>2. BufferOf(c) \in Buffers(policy)
    BY <2>1 DEF BufferOf, Buffers
  <2> QED
    BY <2>1, <2>2 DEF Allocated
<1> QED
  BY <1>1, Inductive, PTL

\* A client whose init succeeded frees each buffer once.
THEOREM ClientReleasesBuffers == Spec => []BuffersReleased
<1>1. IInv => BuffersReleased
  BY DEF IInv, ReleaseInv, BuffersReleased
<1> QED
  BY <1>1, Inductive, PTL

-----------------------------------------------------------------------------
(***************************************************************************)
(* client/clist/carray.c.                                                  *)
(***************************************************************************)

\* The writer inside the critical section is the one the lock names, and
\* memcpy has not passed the end of the entry.
LockInv == \A w \in Writers : Inside(w) <=> lock = w
CopyInv == \A w \in Writers :
             /\ pc[w] = "copy" => copied[w] < Stride
             /\ pc[w] \in {"idle", "lock"} => copied[w] = 0

CArrayInv == CArrayTypeOK /\ LockInv /\ CopyInv /\ WritesInBounds

-----------------------------------------------------------------------------

\* The arithmetic of the wrap test: len entries of stride bytes hold at least
\* len - 2 bytes followed by two entries.
LEMMA EntriesOutnumberBytes ==
  ASSUME NEW l \in Nat, NEW s \in Nat, l >= 2, s >= 1
  PROVE  l - 2 + s + s <= l * s
<1>1. PICK a \in Nat : l = a + 2
  <2>1. l - 2 \in Nat /\ l = (l - 2) + 2
    OBVIOUS
  <2>2. QED
    BY <2>1
<1>2. PICK b \in Nat : s = b + 1
  <2>1. s - 1 \in Nat /\ s = (s - 1) + 1
    OBVIOUS
  <2>2. QED
    BY <2>1
<1>3. a * b \in Nat
  OBVIOUS
<1>4. l * s = a * b + a + 2 * b + 2
  BY <1>1, <1>2
<1>5. QED
  BY <1>1, <1>2, <1>3, <1>4

\* After returns an offset at which an entry fits, if it is given one.
LEMMA AfterInBounds ==
  ASSUME NEW i \in Nat, i + Stride <= Len * Stride
  PROVE  After(i) \in Nat /\ After(i) + Stride <= Len * Stride
<1> USE SizeAssumption
<1>1. CASE i < Len - 1
  <2>1. Len >= 2 /\ Stride >= 1
    BY <1>1
  <2>2. Len - 2 + Stride + Stride <= Len * Stride
    BY <2>1, EntriesOutnumberBytes
  <2>3. Len * Stride \in Nat
    OBVIOUS
  <2>4. QED
    BY <1>1, <2>2, <2>3 DEF After
<1>2. CASE ~(i < Len - 1)
  <2>1. Len * Stride \in Nat
    OBVIOUS
  <2>2. QED
    BY <1>2, <2>1 DEF After
<1>3. QED
  BY <1>1, <1>2

-----------------------------------------------------------------------------

LEMMA InitIInv == CArrayInit => CArrayInv
<1> USE SizeAssumption, NoWriterAssumption
<1> SUFFICES ASSUME CArrayInit PROVE CArrayInv
  OBVIOUS
<1>1. CArrayTypeOK
  BY DEF CArrayInit, CArrayTypeOK, Contents
<1>2. LockInv /\ CopyInv
  BY DEF CArrayInit, LockInv, CopyInv, Inside
<1>3. WritesInBounds
  <2>1. Len >= 1 /\ Stride >= 1 /\ Len \in Nat /\ Stride \in Nat
    OBVIOUS
  <2>2. PICK a \in Nat : Len = a + 1
    BY <2>1, Len - 1 \in Nat /\ Len = (Len - 1) + 1
  <2>3. Len * Stride = a * Stride + Stride /\ a * Stride \in Nat
    BY <2>1, <2>2
  <2>4. QED
    BY <2>1, <2>3 DEF CArrayInit, WritesInBounds
<1>4. QED
  BY <1>1, <1>2, <1>3 DEF CArrayInv

LEMMA NextIInv == CArrayInv /\ [CArrayNext]_carrayVars => CArrayInv'
<1> USE SizeAssumption, NoWriterAssumption
<1> SUFFICES ASSUME CArrayInv, [CArrayNext]_carrayVars PROVE CArrayInv'
  OBVIOUS
<1> USE DEF CArrayInv
<1>1. ASSUME NEW w \in Writers, Call(w) PROVE CArrayInv'
  <2>1. CArrayTypeOK'
    BY <1>1 DEF CArrayTypeOK, Call, Contents
  <2>2. LockInv' /\ CopyInv' /\ WritesInBounds'
    BY <1>1 DEF CArrayTypeOK, LockInv, CopyInv, WritesInBounds, Inside, Call
  <2>3. QED
    BY <2>1, <2>2
<1>2. ASSUME NEW w \in Writers, Lock(w) PROVE CArrayInv'
  <2>1. CArrayTypeOK'
    BY <1>2 DEF CArrayTypeOK, Lock
  <2>2. LockInv' /\ CopyInv' /\ WritesInBounds'
    BY <1>2 DEF CArrayTypeOK, LockInv, CopyInv, WritesInBounds, Inside, Lock
  <2>3. QED
    BY <2>1, <2>2
<1>3. ASSUME NEW w \in Writers, Copy(w) PROVE CArrayInv'
  <2>1. copied[w] \in Nat /\ copied[w] < Stride
    BY <1>3 DEF CArrayTypeOK, CopyInv, Copy
  <2>2. copied' = [copied EXCEPT ![w] = copied[w] + 1]
    BY <1>3 DEF Copy
  <2>3. copied' \in [Writers -> 0 .. Stride]
    BY <2>1, <2>2 DEF CArrayTypeOK
  <2>4. pc' = [pc EXCEPT ![w] = IF copied[w] + 1 = Stride THEN "advance"
                                ELSE "copy"]
    BY <1>3, <2>2 DEF Copy, CArrayTypeOK
  <2>5. CArrayTypeOK'
    BY <1>3, <2>3, <2>4 DEF CArrayTypeOK, Copy, Contents
  <2>6. LockInv' /\ WritesInBounds'
    BY <1>3, <2>4 DEF CArrayTypeOK, LockInv, WritesInBounds, Inside, Copy
  <2>7. CopyInv'
    BY <1>3, <2>1, <2>2, <2>4 DEF CArrayTypeOK, CopyInv, Copy
  <2>8. QED
    BY <2>5, <2>6, <2>7
<1>4. ASSUME NEW w \in Writers, Advance(w) PROVE CArrayInv'
  <2>1. idx' \in Nat /\ idx' + Stride <= Len * Stride
    BY <1>4, AfterInBounds DEF CArrayTypeOK, WritesInBounds, Advance
  <2>2. CArrayTypeOK'
    BY <1>4, <2>1 DEF CArrayTypeOK, Advance
  <2>3. LockInv' /\ CopyInv'
    BY <1>4 DEF CArrayTypeOK, LockInv, CopyInv, Inside, Advance
  <2>4. QED
    BY <2>1, <2>2, <2>3 DEF WritesInBounds
<1>5. ASSUME NEW w \in Writers, Unlock(w) PROVE CArrayInv'
  <2>1. CArrayTypeOK'
    BY <1>5 DEF CArrayTypeOK, Unlock, Contents
  <2>2. LockInv' /\ CopyInv' /\ WritesInBounds'
    BY <1>5 DEF CArrayTypeOK, LockInv, CopyInv, WritesInBounds, Inside, Unlock
  <2>3. QED
    BY <2>1, <2>2
<1>6. ASSUME UNCHANGED carrayVars PROVE CArrayInv'
  BY <1>6 DEF carrayVars, CArrayTypeOK, LockInv, CopyInv, WritesInBounds, Inside
<1>7. QED
  BY <1>1, <1>2, <1>3, <1>4, <1>5, <1>6 DEF CArrayNext

-----------------------------------------------------------------------------

\* The inductive invariant holds in every reachable state.
THEOREM CArrayInvariant == CArraySpec => []CArrayInv
BY InitIInv, NextIInv, PTL DEF CArraySpec

\* Type correctness of the list's fields and the writers' locals.
THEOREM CArrayTypeCorrect == CArraySpec => []CArrayTypeOK
<1>1. CArrayInv => CArrayTypeOK
  BY DEF CArrayInv
<1>2. QED
  BY <1>1, CArrayInvariant, PTL

\* write_clist stays inside the memory init_clist allocated for every entry
\* count and entry size, although its wrap test confuses the two units.
THEOREM CArrayInBounds == CArraySpec => []WritesInBounds
<1>1. CArrayInv => WritesInBounds
  BY DEF CArrayInv
<1>2. QED
  BY <1>1, CArrayInvariant, PTL

\* The spinlock keeps two PMI handlers from writing one list at a time.
THEOREM CArrayOneWriter == CArraySpec => []OneWriter
<1>1. CArrayInv => OneWriter
  BY DEF CArrayInv, LockInv, OneWriter
<1>2. QED
  BY <1>1, CArrayInvariant, PTL

-----------------------------------------------------------------------------
(***************************************************************************)
(* Whole samples.                                                          *)
(***************************************************************************)

\* The index is a number of slots.
AlignInv == \E n \in Nat : idx = n * Stride

\* What memcpy has written of the sample.
PartInv ==
  \A w \in Writers :
    pc[w] = "copy" => \A i \in 0 .. copied[w] - 1 : buf[idx + i] = bucket[w]

WholeInv == CArrayInv /\ AlignInv /\ PartInv /\ NoTornSample

\* A slot ends before the next one begins.
LEMMA SlotsInOrder ==
  ASSUME NEW k \in Nat, NEW n \in Nat, NEW s \in Nat, k < n
  PROVE  k * s + s <= n * s
<1>1. PICK d \in Nat : n = k + 1 + d
  <2>1. n - k - 1 \in Nat /\ n = k + 1 + (n - k - 1)
    OBVIOUS
  <2> QED
    BY <2>1
<1>2. n * s = k * s + s + d * s /\ d * s \in Nat /\ k * s \in Nat
  BY <1>1
<1> QED
  BY <1>2

\* The bytes of a slot are in the allocation, and in no other slot.
LEMMA SlotsAreDisjoint ==
  ASSUME NEW k \in Nat, NEW n \in Nat, k # n, NEW b \in SlotBytes(k),
         NEW i \in 0 .. Stride - 1
  PROVE  b # n * Stride + i
<1> USE SizeAssumption
<1>1. /\ k * Stride \in Nat /\ n * Stride \in Nat
      /\ b >= k * Stride /\ b <= k * Stride + Stride - 1 /\ b \in Int
  BY DEF SlotBytes
<1>2. CASE k < n
  BY <1>1, <1>2, SlotsInOrder
<1>3. CASE n < k
  BY <1>1, <1>3, SlotsInOrder
<1> QED
  BY <1>2, <1>3

LEMMA SlotInBytes ==
  ASSUME NEW k \in 0 .. Len - 1, NEW b \in SlotBytes(k)
  PROVE  b \in Bytes
<1> USE SizeAssumption
<1>1. k * Stride + Stride <= Len * Stride
  BY SlotsInOrder
<1>2. k * Stride \in Nat /\ Len * Stride \in Nat
  OBVIOUS
<1> QED
  BY <1>1, <1>2 DEF SlotBytes, Bytes

\* The index is that of a slot of the array.
LEMMA IndexIsSlot ==
  ASSUME WritesInBounds, NEW n \in Nat, idx = n * Stride
  PROVE  n \in 0 .. Len - 1
<1> USE SizeAssumption
<1>1. ASSUME n >= Len PROVE FALSE
  <2>1. n * Stride >= Len * Stride
    <3>1. CASE n = Len
      BY <3>1
    <3>2. CASE n > Len
      BY <3>2, SlotsInOrder
    <3> QED
      BY <1>1, <3>1, <3>2
  <2>2. n * Stride \in Nat /\ Len * Stride \in Nat
    OBVIOUS
  <2> QED
    BY <2>1, <2>2 DEF WritesInBounds
<1> QED
  BY <1>1

\* The step that copies a byte: the other slots stay, and with the last byte
\* the slot is a whole sample.
LEMMA CopyWhole ==
  ASSUME WholeInv, NEW w \in Writers, Copy(w)
  PROVE  PartInv' /\ NoTornSample'
<1> USE SizeAssumption
<1>1. PICK n \in Nat : idx = n * Stride
  BY DEF WholeInv, AlignInv
<1> DEFINE at == idx + copied[w]
<1>2. /\ pc[w] = "copy" /\ copied[w] \in 0 .. Stride - 1 /\ idx' = idx
      /\ buf' = [buf EXCEPT ![at] = bucket[w]] /\ bucket' = bucket
      /\ copied' = [copied EXCEPT ![w] = copied[w] + 1]
  BY DEF WholeInv, CArrayInv, CArrayTypeOK, CopyInv, Copy
<1>3. pc' = [pc EXCEPT ![w] = IF copied[w] + 1 = Stride THEN "advance" ELSE "copy"]
  BY <1>2 DEF Copy, WholeInv, CArrayInv, CArrayTypeOK
<1>4. n \in 0 .. Len - 1 /\ n * Stride \in Nat
  BY <1>1, IndexIsSlot DEF WholeInv, CArrayInv
<1>5. \A v \in Writers : v # w => pc[v] # "copy" /\ pc'[v] # "copy"
  BY <1>2, <1>3 DEF WholeInv, CArrayInv, CArrayTypeOK, LockInv, Inside
<1>6. buf \in [Bytes -> Contents] /\ at \in SlotBytes(n) /\ at \in Bytes
  <2>1. at \in SlotBytes(n)
    BY <1>1, <1>2, <1>4 DEF SlotBytes
  <2> QED
    BY <1>4, <2>1, SlotInBytes DEF WholeInv, CArrayInv, CArrayTypeOK
<1> HIDE DEF at
<1>7. \A b \in Bytes : buf'[b] = IF b = at THEN bucket[w] ELSE buf[b]
  BY <1>2, <1>6
<1>8. \A i \in 0 .. copied[w] : idx + i \in Bytes /\ buf'[idx + i] = bucket[w]
  <2> TAKE i \in 0 .. copied[w]
  <2>1. idx + i \in SlotBytes(n)
    BY <1>1, <1>2, <1>4 DEF SlotBytes
  <2>2. idx + i \in Bytes
    BY <1>4, <2>1, SlotInBytes
  <2>3. CASE i = copied[w]
    BY <1>7, <2>2, <2>3 DEF at
  <2>4. CASE i # copied[w]
    <3>1. i \in 0 .. copied[w] - 1 /\ idx + i # at
      BY <1>1, <1>2, <1>4, <2>4 DEF at
    <3>2. buf[idx + i] = bucket[w]
      BY <1>2, <3>1 DEF WholeInv, PartInv
    <3> QED
      BY <1>7, <2>2, <3>1, <3>2
  <2> QED
    BY <2>2, <2>3, <2>4
<1>9. PartInv'
  <2> SUFFICES ASSUME NEW v \in Writers, pc'[v] = "copy",
                      NEW i \in 0 .. copied'[v] - 1
               PROVE  buf'[idx + i] = bucket[v]
    BY <1>2 DEF PartInv
  <2>1. v = w
    BY <1>5
  <2>2. copied'[v] = copied[w] + 1
    BY <1>2, <2>1 DEF WholeInv, CArrayInv, CArrayTypeOK
  <2> QED
    BY <1>2, <1>8, <2>1, <2>2
<1>10. NoTornSample'
  <2> SUFFICES ASSUME NEW k \in 0 .. Len - 1, ~Filling(k)',
                      NEW b \in SlotBytes(k), NEW d \in SlotBytes(k)
               PROVE  buf'[b] = buf'[d]
    BY DEF NoTornSample
  <2>1. b \in Bytes /\ d \in Bytes
    BY SlotInBytes
  <2>2. CASE k = n
    <3>1. pc'[w] # "copy"
      BY <1>1, <1>2, <2>2 DEF Filling
    <3>2. copied[w] + 1 = Stride
      BY <1>3, <3>1 DEF WholeInv, CArrayInv, CArrayTypeOK
    <3>3. \A x \in SlotBytes(k) : buf'[x] = bucket[w]
      <4> TAKE x \in SlotBytes(k)
      <4>1. x - idx \in 0 .. copied[w] /\ idx + (x - idx) = x
        BY <1>1, <1>2, <1>4, <2>2, <3>2 DEF SlotBytes
      <4> QED
        BY <1>8, <4>1
    <3> QED
      BY <3>3
  <2>3. CASE k # n
    <3>1. b # at /\ d # at
      BY <1>1, <1>2, <2>3, SlotsAreDisjoint DEF at
    <3>2. ~Filling(k)
      <4>1. k * Stride # n * Stride
        <5>1. k * Stride \in SlotBytes(k) /\ n * Stride = n * Stride + 0
          BY <1>4 DEF SlotBytes
        <5> QED
          BY <2>3, <5>1, SlotsAreDisjoint
      <4> QED
        BY <1>1, <4>1 DEF Filling
    <3>3. buf[b] = buf[d]
      BY <3>2 DEF WholeInv, NoTornSample
    <3> QED
      BY <1>7, <2>1, <3>1, <3>3
  <2> QED
    BY <2>2, <2>3
<1> QED
  BY <1>9, <1>10

LEMMA NextWhole == ASSUME WholeInv, [CArrayNext]_carrayVars PROVE WholeInv'
<1> USE SizeAssumption
<1>1. CArrayInv'
  BY NextIInv DEF WholeInv
<1>2. ASSUME NEW w \in Writers, Call(w) PROVE AlignInv' /\ PartInv' /\ NoTornSample'
  <2>1. /\ pc[w] = "idle" /\ pc' = [pc EXCEPT ![w] = "lock"]
        /\ UNCHANGED <<idx, buf, copied>>
        /\ \A v \in Writers : v # w => bucket'[v] = bucket[v]
    BY <1>2 DEF Call, WholeInv, CArrayInv, CArrayTypeOK
  <2>2. \A v \in Writers : pc'[v] = "copy" <=> pc[v] = "copy"
    BY <2>1 DEF WholeInv, CArrayInv, CArrayTypeOK
  <2>3. \A v \in Writers : pc[v] = "copy" => bucket'[v] = bucket[v]
    BY <2>1
  <2> QED
    BY <2>1, <2>2, <2>3 DEF WholeInv, AlignInv, PartInv, NoTornSample, Filling
<1>3. ASSUME NEW w \in Writers, Lock(w) PROVE AlignInv' /\ PartInv' /\ NoTornSample'
  <2>1. /\ pc[w] = "lock" /\ pc' = [pc EXCEPT ![w] = "copy"]
        /\ UNCHANGED <<idx, buf, bucket, copied>>
    BY <1>3 DEF Lock
  <2>2. \A v \in Writers : pc[v] = "copy" => pc'[v] = "copy"
    BY <2>1 DEF WholeInv, CArrayInv, CArrayTypeOK
  <2>3. \A v \in Writers : pc'[v] = "copy" => pc[v] = "copy" \/ copied[v] = 0
    BY <2>1 DEF WholeInv, CArrayInv, CArrayTypeOK, CopyInv
  <2>4. AlignInv' /\ PartInv'
    BY <2>1, <2>3 DEF WholeInv, AlignInv, PartInv
  <2>5. \A k : Filling(k) => Filling(k)'
    BY <2>1, <2>2 DEF Filling
  <2>6. NoTornSample'
    BY <2>1, <2>5 DEF WholeInv, NoTornSample
  <2> QED
    BY <2>4, <2>6
<1>4. ASSUME NEW w \in Writers, Copy(w) PROVE AlignInv' /\ PartInv' /\ NoTornSample'
  <2>1. AlignInv'
    BY <1>4 DEF WholeInv, AlignInv, Copy
  <2> QED
    BY <1>4, <2>1, CopyWhole
<1>5. ASSUME NEW w \in Writers, Advance(w) PROVE AlignInv' /\ PartInv' /\ NoTornSample'
  <2>1. /\ pc[w] = "advance" /\ pc' = [pc EXCEPT ![w] = "unlock"]
        /\ idx' = After(idx) /\ buf' = buf
    BY <1>5 DEF Advance
  <2>2. \A v \in Writers : pc[v] # "copy" /\ pc'[v] # "copy"
    BY <2>1 DEF WholeInv, CArrayInv, CArrayTypeOK, LockInv, Inside
  <2>3. AlignInv'
    <3>1. PICK n \in Nat : idx = n * Stride
      BY DEF WholeInv, AlignInv
    <3>2. CASE idx' = idx + Stride
      <4>1. idx' = (n + 1) * Stride /\ n + 1 \in Nat
        BY <3>1, <3>2
      <4> QED
        BY <4>1 DEF AlignInv
    <3>3. CASE idx' = 0
      <4>1. idx' = 0 * Stride
        BY <3>3
      <4> QED
        BY <4>1 DEF AlignInv
    <3> QED
      BY <2>1, <3>2, <3>3 DEF After
  <2>4. PartInv' /\ NoTornSample'
    BY <2>1, <2>2 DEF WholeInv, PartInv, NoTornSample, Filling
  <2> QED
    BY <2>3, <2>4
<1>6. ASSUME NEW w \in Writers, Unlock(w) PROVE AlignInv' /\ PartInv' /\ NoTornSample'
  <2>1. /\ pc[w] = "unlock" /\ pc' = [pc EXCEPT ![w] = "idle"]
        /\ UNCHANGED <<idx, buf>>
    BY <1>6 DEF Unlock
  <2>2. \A v \in Writers : pc[v] # "copy" /\ pc'[v] # "copy"
    BY <2>1 DEF WholeInv, CArrayInv, CArrayTypeOK, LockInv, Inside
  <2> QED
    BY <2>1, <2>2 DEF WholeInv, AlignInv, PartInv, NoTornSample, Filling
<1>7. ASSUME UNCHANGED carrayVars PROVE AlignInv' /\ PartInv' /\ NoTornSample'
  BY <1>7 DEF carrayVars, WholeInv, AlignInv, PartInv, NoTornSample, Filling
<1> QED
  BY <1>1, <1>2, <1>3, <1>4, <1>5, <1>6, <1>7 DEF CArrayNext, WholeInv

LEMMA InitWhole == ASSUME CArrayInit PROVE WholeInv
<1> USE SizeAssumption
<1>1. CArrayInv
  BY InitIInv
<1>2. AlignInv /\ PartInv
  <2>1. 0 = 0 * Stride
    OBVIOUS
  <2> QED
    BY <2>1 DEF CArrayInit, AlignInv, PartInv
<1>3. NoTornSample
  BY SlotInBytes DEF CArrayInit, NoTornSample
<1> QED
  BY <1>1, <1>2, <1>3 DEF WholeInv

LEMMA WholeInvariant == CArraySpec => []WholeInv
<1>1. CArrayInit => WholeInv
  BY InitWhole
<1>2. WholeInv /\ [CArrayNext]_carrayVars => WholeInv'
  BY NextWhole
<1> QED
  BY <1>1, <1>2, PTL DEF CArraySpec

\* A slot that no writer is filling holds one sample, for every entry count and
\* entry size: the offsets that the wrap test lets through are those of slots.
THEOREM SamplesStayWhole == CArraySpec => []NoTornSample
<1>1. WholeInv => NoTornSample
  BY DEF WholeInv
<1> QED
  BY <1>1, WholeInvariant, PTL

-----------------------------------------------------------------------------
(***************************************************************************)
(* The refinement.                                                         *)
(***************************************************************************)

LastSlot == (Len + Stride - 2) \div Stride

\* A writer has a sample, and the index is that of a slot of the ring.
RingInv ==
  /\ \A w \in Writers : pc[w] \in {"lock", "copy"} => bucket[w] \in Samples
  /\ \E n \in 0 .. LastSlot : idx = n * Stride

\* The quotient of a division, and its remainder.
LEMMA Quotient ==
  ASSUME NEW a \in Nat, NEW s \in Nat \ {0}
  PROVE  /\ a \div s \in Nat
         /\ (a \div s) * s <= a /\ a < (a \div s) * s + s
OBVIOUS

LEMMA QuotientOfProduct ==
  ASSUME NEW n \in Nat, NEW s \in Nat \ {0}
  PROVE  (n * s) \div s = n
<1> DEFINE q == (n * s) \div s
<1>1. n * s \in Nat
  OBVIOUS
<1>2. q \in Nat /\ q * s <= n * s /\ n * s < q * s + s
  BY <1>1, Quotient
<1> HIDE DEF q
<1>3. q * s \in Nat
  BY <1>2
<1>4. ~(q < n)
  <2>1. q < n => q * s + s <= n * s
    BY <1>2, SlotsInOrder
  <2> QED
    BY <1>1, <1>2, <1>3, <2>1
<1>5. ~(n < q)
  <2>1. n < q => n * s + s <= q * s
    BY <1>2, SlotsInOrder
  <2> QED
    BY <1>1, <1>2, <1>3, <2>1
<1>6. q = n
  BY <1>2, <1>4, <1>5
<1> QED
  BY <1>6 DEF q

\* The ring has the slots that the wrap test lets the index through to.
LEMMA WrapTest ==
  /\ LastSlot \in 0 .. Len - 1 /\ UsedSlots = LastSlot + 1
  /\ \A n \in Nat : n * Stride < Len - 1 <=> n < LastSlot
<1> USE SizeAssumption
<1>1. Len + Stride - 2 \in Nat
  OBVIOUS
<1>2. /\ LastSlot \in Nat /\ LastSlot * Stride <= Len + Stride - 2
      /\ Len + Stride - 2 < LastSlot * Stride + Stride
  BY <1>1, Quotient DEF LastSlot
<1>3. UsedSlots = LastSlot + 1
  BY <1>2 DEF UsedSlots, LastSlot
<1> HIDE DEF LastSlot
<1>4. LastSlot * Stride \in Nat
  BY <1>2
<1>5. ASSUME NEW n \in Nat PROVE n * Stride < Len - 1 <=> n < LastSlot
  <2>1. n * Stride \in Nat
    OBVIOUS
  <2>2. CASE n < LastSlot
    <3>1. n * Stride + Stride <= LastSlot * Stride
      BY <1>2, <2>2, SlotsInOrder
    <3> QED
      BY <1>2, <1>4, <2>1, <2>2, <3>1
  <2>3. CASE n = LastSlot
    BY <1>2, <1>4, <2>3
  <2>4. CASE LastSlot < n
    <3>1. LastSlot * Stride + Stride <= n * Stride
      BY <1>2, <2>4, SlotsInOrder
    <3> QED
      BY <1>2, <1>4, <2>1, <2>4, <3>1
  <2> QED
    BY <1>2, <2>2, <2>3, <2>4
<1>6. LastSlot <= Len - 1
  <2>1. ASSUME Len - 1 < LastSlot PROVE FALSE
    <3>1. (Len - 1) * Stride < Len - 1
      BY <1>5, <2>1
    <3>2. Len - 1 <= (Len - 1) * Stride
      <4>1. PICK s \in Nat : Stride = s + 1
        <5>1. Stride - 1 \in Nat /\ Stride = (Stride - 1) + 1
          OBVIOUS
        <5> QED
          BY <5>1
      <4>2. (Len - 1) * Stride = (Len - 1) * s + (Len - 1) /\ (Len - 1) * s \in Nat
        BY <4>1
      <4> QED
        BY <4>2
    <3>3. (Len - 1) * Stride \in Nat
      OBVIOUS
    <3> QED
      BY <3>1, <3>2, <3>3
  <2> QED
    BY <1>2, <2>1
<1> QED
  BY <1>2, <1>3, <1>5, <1>6

\* The slot after slot n.
LEMMA AfterSlot ==
  ASSUME NEW n \in 0 .. LastSlot
  PROVE  /\ After(n * Stride) = ((n + 1) % UsedSlots) * Stride
         /\ (n + 1) % UsedSlots \in 0 .. LastSlot
<1> USE SizeAssumption
<1>1. LastSlot \in Nat /\ UsedSlots = LastSlot + 1
  BY WrapTest
<1>2. CASE n < LastSlot
  <2>1. (n + 1) % UsedSlots = n + 1
    BY <1>1, <1>2
  <2>2. After(n * Stride) = n * Stride + Stride
    BY <1>2, WrapTest DEF After
  <2> QED
    BY <1>1, <1>2, <2>1, <2>2
<1>3. CASE n = LastSlot
  <2>1. (n + 1) % UsedSlots = 0
    BY <1>1, <1>3
  <2>2. After(n * Stride) = 0
    BY <1>1, <1>3, WrapTest DEF After
  <2> QED
    BY <1>1, <2>1, <2>2
<1> QED
  BY <1>1, <1>2, <1>3

LEMMA InitRing == ASSUME CArrayInit PROVE RingInv
<1>1. 0 \in 0 .. LastSlot /\ 0 = 0 * Stride
  BY WrapTest, SizeAssumption
<1> QED
  BY <1>1 DEF CArrayInit, RingInv

LEMMA NextRing == ASSUME CArrayInv, RingInv, [CArrayNext]_carrayVars PROVE RingInv'
<1> USE SizeAssumption
<1>1. ASSUME NEW w \in Writers, Call(w) PROVE RingInv'
  <2>1. PICK s \in Samples : bucket' = [bucket EXCEPT ![w] = s]
    BY <1>1 DEF Call
  <2> QED
    BY <1>1, <2>1 DEF Call, RingInv, CArrayInv, CArrayTypeOK
<1>2. ASSUME NEW w \in Writers, Lock(w) PROVE RingInv'
  BY <1>2 DEF Lock, RingInv, CArrayInv, CArrayTypeOK
<1>3. ASSUME NEW w \in Writers, Copy(w) PROVE RingInv'
  <2>1. \A v \in Writers : pc'[v] \in {"lock", "copy"} => pc[v] \in {"lock", "copy"}
    BY <1>3 DEF Copy, CArrayInv, CArrayTypeOK
  <2> QED
    BY <1>3, <2>1 DEF Copy, RingInv
<1>4. ASSUME NEW w \in Writers, Advance(w) PROVE RingInv'
  <2>1. PICK n \in 0 .. LastSlot : idx = n * Stride
    BY DEF RingInv
  <2>2. \E m \in 0 .. LastSlot : idx' = m * Stride
    BY <1>4, <2>1, AfterSlot DEF Advance
  <2>3. \A v \in Writers : pc'[v] \in {"lock", "copy"} => pc[v] \in {"lock", "copy"}
    BY <1>4 DEF Advance, CArrayInv, CArrayTypeOK
  <2> QED
    BY <1>4, <2>2, <2>3 DEF Advance, RingInv
<1>5. ASSUME NEW w \in Writers, Unlock(w) PROVE RingInv'
  BY <1>5 DEF Unlock, RingInv, CArrayInv, CArrayTypeOK
<1>6. CASE UNCHANGED carrayVars
  BY <1>6 DEF carrayVars, RingInv
<1> QED
  BY <1>1, <1>2, <1>3, <1>4, <1>5, <1>6 DEF CArrayNext

\* An empty array is an empty ring.
LEMMA InitIsRingInit == ASSUME CArrayInit PROVE Ring!Init
<1> USE SizeAssumption
<1>1. ASSUME NEW k \in 0 .. UsedSlots - 1
      PROVE  buf[k * Stride + Stride - 1] = Unwritten
  <2>1. k \in 0 .. Len - 1
    BY WrapTest
  <2>2. k * Stride + Stride - 1 \in SlotBytes(k)
    BY DEF SlotBytes
  <2> QED
    BY <2>1, <2>2, SlotInBytes DEF CArrayInit
<1>2. RingSlots = [k \in 0 .. UsedSlots - 1 |-> Unwritten]
  BY <1>1 DEF RingSlots
<1>3. RingNext = 0
  <2>1. RingNext = idx \div Stride
    BY DEF CArrayInit, RingNext
  <2>2. idx = 0 * Stride
    BY DEF CArrayInit
  <2> QED
    BY <2>1, <2>2, QuotientOfProduct
<1> QED
  BY <1>2, <1>3 DEF Ring!Init

\* The step of the last byte is the write; the slot it goes to is the one due.
LEMMA CopyIsWrite ==
  ASSUME CArrayInv, RingInv, NEW w \in Writers, Copy(w)
  PROVE  Ring!Next \/ UNCHANGED <<RingSlots, RingNext>>
<1> USE SizeAssumption
<1>1. PICK n \in 0 .. LastSlot : idx = n * Stride
  BY DEF RingInv
<1> DEFINE at == idx + copied[w]
           end(k) == k * Stride + Stride - 1
<1>2. /\ pc[w] = "copy" /\ copied[w] \in 0 .. Stride - 1 /\ idx' = idx
      /\ buf' = [buf EXCEPT ![at] = bucket[w]] /\ bucket[w] \in Samples
  BY DEF CArrayInv, CArrayTypeOK, CopyInv, Copy, RingInv
<1>3. pc' = [pc EXCEPT ![w] = IF copied[w] + 1 = Stride THEN "advance" ELSE "copy"]
  BY <1>2 DEF Copy, CArrayInv, CArrayTypeOK
<1>4. \A v \in Writers : pc[v] # "advance" /\ (pc'[v] = "advance" => v = w)
  BY <1>2, <1>3 DEF CArrayInv, CArrayTypeOK, LockInv, Inside
<1>5. LastSlot \in 0 .. Len - 1 /\ UsedSlots = LastSlot + 1
  BY WrapTest
<1>6. n * Stride \in Nat /\ at \in SlotBytes(n) /\ at \in Bytes
  <2>1. n * Stride \in Nat
    BY <1>5
  <2>2. at \in SlotBytes(n)
    BY <1>1, <1>2, <2>1 DEF SlotBytes
  <2> QED
    BY <1>5, <2>1, <2>2, SlotInBytes
<1>7. \A k \in 0 .. UsedSlots - 1 : end(k) \in Bytes /\ end(k) \in SlotBytes(k)
  <2> TAKE k \in 0 .. UsedSlots - 1
  <2>1. k \in 0 .. Len - 1
    BY <1>5
  <2>2. end(k) \in SlotBytes(k)
    BY <2>1 DEF SlotBytes
  <2> QED
    BY <2>1, <2>2, SlotInBytes
<1>8. \A b \in Bytes : buf'[b] = IF b = at THEN bucket[w] ELSE buf[b]
  BY <1>2, <1>6 DEF CArrayInv, CArrayTypeOK
<1>9. \A k \in 0 .. UsedSlots - 1 : k # n => end(k) # at
  <2> TAKE k \in 0 .. UsedSlots - 1
  <2> HAVE k # n
  <2>1. copied[w] \in 0 .. Stride - 1 /\ at = n * Stride + copied[w]
    BY <1>1, <1>2
  <2> QED
    BY <1>5, <1>7, <2>1, SlotsAreDisjoint
<1>10. RingNext = n
  <2>1. RingNext = idx \div Stride
    BY <1>4 DEF RingNext
  <2> QED
    BY <1>1, <1>5, <2>1, QuotientOfProduct
<1>11. CASE copied[w] + 1 = Stride
  <2>1. end(n) = at
    BY <1>1, <1>2, <1>6, <1>11
  <2>2. RingSlots' = [RingSlots EXCEPT ![n] = bucket[w]]
    <3>1. \A k \in 0 .. UsedSlots - 1 :
            buf'[end(k)] = IF k = n THEN bucket[w] ELSE buf[end(k)]
      BY <1>7, <1>8, <1>9, <2>1
    <3>2. RingSlots = [k \in 0 .. UsedSlots - 1 |-> buf[end(k)]]
      BY DEF RingSlots
    <3>3. RingSlots' = [k \in 0 .. UsedSlots - 1 |-> buf'[end(k)]]
      BY DEF RingSlots
    <3> HIDE DEF end
    <3> QED
      BY <3>1, <3>2, <3>3
  <2>3. RingNext' = (n + 1) % UsedSlots
    <3>1. pc'[w] = "advance"
      BY <1>3, <1>11 DEF CArrayInv, CArrayTypeOK
    <3>2. RingNext' = After(idx) \div Stride
      BY <1>2, <3>1 DEF RingNext, After
    <3>3. After(idx) = ((n + 1) % UsedSlots) * Stride /\ (n + 1) % UsedSlots \in Nat
      BY <1>1, <1>5, AfterSlot
    <3> QED
      BY <3>2, <3>3, QuotientOfProduct
  <2>4. Ring!Write(bucket[w])
    BY <1>10, <2>2, <2>3 DEF Ring!Write
  <2> QED
    BY <1>2, <2>4 DEF Ring!Next
<1>12. CASE copied[w] + 1 # Stride
  <2>1. end(n) # at
    BY <1>1, <1>2, <1>6, <1>12
  <2>2. \A k \in 0 .. UsedSlots - 1 : buf'[end(k)] = buf[end(k)]
    BY <1>7, <1>8, <1>9, <2>1
  <2>3. RingSlots' = RingSlots
    BY <2>2 DEF RingSlots
  <2>4. \A v \in Writers : pc'[v] # "advance"
    BY <1>3, <1>4, <1>12 DEF CArrayInv, CArrayTypeOK
  <2>5. RingNext' = RingNext
    BY <1>2, <1>4, <2>4 DEF RingNext
  <2> QED
    BY <2>3, <2>5
<1> QED
  BY <1>11, <1>12

\* Every other step is none of the ring's.
LEMMA StepIsRingStep ==
  ASSUME CArrayInv, RingInv, [CArrayNext]_carrayVars
  PROVE  [Ring!Next]_<<RingSlots, RingNext>>
<1>1. ASSUME NEW w \in Writers, Copy(w)
      PROVE  Ring!Next \/ UNCHANGED <<RingSlots, RingNext>>
  BY <1>1, CopyIsWrite
<1>2. ASSUME NEW w \in Writers, Call(w) \/ Lock(w) \/ Unlock(w)
      PROVE  UNCHANGED <<RingSlots, RingNext>>
  <2>1. idx' = idx /\ buf' = buf
    BY <1>2 DEF Call, Lock, Unlock
  <2>2. \A v \in Writers : pc'[v] = "advance" <=> pc[v] = "advance"
    BY <1>2 DEF Call, Lock, Unlock, CArrayInv, CArrayTypeOK
  <2> QED
    BY <2>1, <2>2 DEF RingSlots, RingNext
<1>3. ASSUME NEW w \in Writers, Advance(w)
      PROVE  UNCHANGED <<RingSlots, RingNext>>
  <2>1. pc[w] = "advance" /\ idx' = After(idx) /\ buf' = buf
    BY <1>3 DEF Advance
  <2>2. \A v \in Writers : pc'[v] # "advance"
    BY <1>3 DEF Advance, CArrayInv, CArrayTypeOK, LockInv, Inside
  <2>3. RingNext = After(idx) \div Stride /\ RingNext' = idx' \div Stride
    BY <2>1, <2>2 DEF RingNext
  <2> QED
    BY <2>1, <2>3 DEF RingSlots
<1>4. CASE UNCHANGED carrayVars
  BY <1>4 DEF carrayVars, RingSlots, RingNext
<1> QED
  BY <1>1, <1>2, <1>3, <1>4 DEF CArrayNext

\* Every behaviour of the array is one of a ring of UsedSlots samples, for any
\* CPUs, entry count and entry size.
THEOREM CArrayImplementsRing == CArraySpec => ImplementsRing
<1>1. CArrayInit => Ring!Init /\ RingInv
  BY InitIsRingInit, InitRing
<1>2. CArrayInv /\ RingInv /\ [CArrayNext]_carrayVars => RingInv'
  BY NextRing
<1>3. CArrayInv /\ RingInv /\ [CArrayNext]_carrayVars => [Ring!Next]_<<RingSlots, RingNext>>
  BY StepIsRingStep
<1> QED
  BY <1>1, <1>2, <1>3, CArrayInvariant, PTL DEF CArraySpec, ImplementsRing, Ring!Spec
=============================================================================
