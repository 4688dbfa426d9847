---------------------------- MODULE ClientModule ----------------------------
(***************************************************************************)
(* The client module as a whole: its init and exit functions with every    *)
(* error path, the counters and the PMI vector of each CPU, the PMI        *)
(* handler, and the sample buffers the handler writes to.                  *)
(*                                                                         *)
(* Each CPU has two frames: the scheduler's tracepoint, which the client's *)
(* callback uses to switch the counters of the CPU on and off, and the PMI *)
(* handler, which interrupts anything on its CPU.  The answers of the      *)
(* tracker are left open here (HashTracker), the gate in front of the      *)
(* callback too (SystemHook), and a write to a buffer is one step (CArray).*)
(***************************************************************************)
EXTENDS Integers, FiniteSets

CONSTANTS
  CPUs,
  Policies,  \* BUFFERP of the Makefile: "SYSTEM" (bsystem.c), "CPU" (bcpu.c),
             \* "THREAD" (bthread.c)
  Vectors    \* pmi_vector: "NMI", or "IRQ" (a kernel with asm/fast_irq.h)

ASSUME CPUsAssumption == IsFiniteSet(CPUs) /\ "system" \notin CPUs
ASSUME BuildAssumption ==
  /\ Policies \subseteq {"SYSTEM", "CPU", "THREAD"} /\ Policies # {}
  /\ Vectors \subseteq {"NMI", "IRQ"} /\ Vectors # {}

VARIABLES
  policy, vector,    \* which build of the client is, or was last, loaded
  client, todo,      \* phase of init or exit; what its loop has still to visit
  err, init_ok,      \* the error init returns; init ran to its success message
  shook,             \* the client's callbacks are installed and enabled
  handler,           \* pmi_handler is registered for the vector
  on,                \* per CPU: MSR_CORE_PERF_GLOBAL_CTRL enables the counters
  lvt, pcpu_lvt_bkp, \* per CPU: the APIC_LVTPC entry, and its backup
  removing, usage,   \* bsystem.c
  mem,               \* per buffer: its allocation
  pmi, sched         \* per CPU: where its two frames are

buildVars  == <<policy, vector>>
loaderVars == <<client, todo, err, init_ok, buildVars>>
pmuVars    == <<handler, on, lvt, pcpu_lvt_bkp>>
bufferVars == <<removing, usage, mem>>
frameVars  == <<pmi, sched>>
vars == <<loaderVars, shook, pmuVars, bufferVars, frameVars>>

\* The static buffers of a policy: system_clist, or pcpu_clist of each CPU.
\* Those of the policy "THREAD" belong to the tracked tasks (Sampling).
AllBuffers == {"system"} \cup CPUs
Buffers(p) == CASE p = "SYSTEM" -> {"system"}
                [] p = "CPU"    -> CPUs
                [] p = "THREAD" -> {}
BufferOf(c) == IF policy = "SYSTEM" THEN "system" ELSE c

-----------------------------------------------------------------------------
(***************************************************************************)
(* Loops of the loader: a phase that visits every CPU, or every buffer.    *)
(***************************************************************************)

Enter(phase, set) == client' = phase /\ todo' = set

\* An on_each_cpu interrupt reaches c when c runs neither of its frames.
OnCpu(c, phase) ==
  /\ client = phase /\ c \in todo
  /\ sched[c] = "idle" /\ pmi[c] = "idle"
  /\ todo' = todo \ {c}
  /\ UNCHANGED <<client, err, init_ok, buildVars, shook, bufferVars,
                 frameVars>>

ForBuffer(b, phase) ==
  /\ client = phase /\ b \in todo
  /\ todo' = todo \ {b}
  /\ UNCHANGED <<client, err, init_ok, buildVars, shook, pmuVars, removing,
                 usage, frameVars>>

\* The loop of a phase is over (a phase without a loop has an empty todo).
Leave(phase, next, set) ==
  /\ client = phase /\ todo = {}
  /\ Enter(next, set)

\* Nothing changes but the phase.
Skip == UNCHANGED <<err, init_ok, buildVars, shook, pmuVars, bufferVars,
                    frameVars>>

-----------------------------------------------------------------------------
(***************************************************************************)
(* client_module_init.                                                     *)
(***************************************************************************)

\* insmod: a fresh image, the static variables at their initial values.
Insmod ==
  /\ client = "absent"
  /\ policy' \in Policies /\ vector' \in Vectors
  /\ Enter("buffering", Buffers(policy'))
  /\ err' = "none" /\ init_ok' = FALSE
  /\ removing' = FALSE /\ usage' = 1
  /\ mem' = [b \in AllBuffers |-> "none"]
  /\ pcpu_lvt_bkp' = [c \in CPUs |-> "zero"]
  /\ UNCHANGED <<shook, handler, on, lvt, frameVars>>

\* buffering_static_init: init_clist for the next buffer succeeds ...
AllocBuffer(b) ==
  /\ ForBuffer(b, "buffering")
  /\ mem' = [mem EXCEPT ![b] = "allocated"]

\* ... or fails.  bsystem.c returns !system_clist, that is 1, and the kernel
\* keeps a module whose init returns a positive value.  bcpu.c returns
\* -ENOMEM, and its loop frees the entry that failed instead of the others.
AllocBufferFails ==
  /\ client = "buffering" /\ todo # {}
  /\ \/ policy = "SYSTEM" /\ Enter("live", {}) /\ err' = "positive"
     \/ policy = "CPU" /\ Enter("rcu", {}) /\ err' = "negative"
  /\ UNCHANGED <<init_ok, buildVars, shook, pmuVars, bufferVars, frameVars>>

BuffersReady == Leave("buffering", "shook", {}) /\ Skip

\* init_shook.
InitShook ==
  /\ Leave("shook", "pmu", CPUs)
  /\ shook' = TRUE
  /\ UNCHANGED <<err, init_ok, buildVars, pmuVars, bufferVars, frameVars>>

\* pmu_global_init: __init_pmu_local writes the LVT entry.
InitPmuLocal(c) ==
  /\ OnCpu(c, "pmu")
  /\ lvt' = [lvt EXCEPT ![c] = "pmi"]
  /\ UNCHANGED <<handler, on, pcpu_lvt_bkp>>

PmuReady == Leave("pmu", "handler", {}) /\ Skip

\* pmi_nmi_setup or pmi_irq_setup registers the handler ...
RegisterHandler ==
  /\ Leave("handler", "lvt", CPUs)
  /\ handler' = TRUE
  /\ UNCHANGED <<err, init_ok, buildVars, shook, on, lvt, pcpu_lvt_bkp,
                 bufferVars, frameVars>>

\* ... or fails; pmi_init enables the counters all the same.
RegisterHandlerFails ==
  /\ Leave("handler", "enable", CPUs)
  /\ err' = "negative"
  /\ UNCHANGED <<init_ok, buildVars, shook, pmuVars, bufferVars, frameVars>>

\* pmi_lvt_setup_local: backup of the LVT entry, then its new value.
LvtSetupLocal(c) ==
  /\ OnCpu(c, "lvt")
  /\ pcpu_lvt_bkp' = [pcpu_lvt_bkp EXCEPT ![c] = lvt[c]]
  /\ lvt' = [lvt EXCEPT ![c] = "pmi"]
  /\ UNCHANGED <<handler, on>>

LvtReady == Leave("lvt", "enable", CPUs) /\ Skip

\* enable_pmcs_global.
EnablePmcs(c) ==
  /\ OnCpu(c, "enable")
  /\ on' = [on EXCEPT ![c] = TRUE]
  /\ UNCHANGED <<handler, lvt, pcpu_lvt_bkp>>

\* init_pmu returns, with pmc_global_fini first if the setup failed.
PmcsEnabled ==
  /\ \/ err = "none" /\ Leave("enable", "proc", {})
     \/ err = "negative" /\ Leave("enable", "pmc_fini", CPUs)
  /\ Skip

\* init_proc: also a failed proc_mkdir counts as success.
InitProc ==
  /\ Leave("proc", "live", {})
  /\ init_ok' = TRUE
  /\ UNCHANGED <<err, buildVars, shook, pmuVars, bufferVars, frameVars>>

\* register_proc_processes returns !dir, that is 1, and init unwinds.
InitProcFails ==
  /\ Leave("proc", "disable", CPUs)
  /\ err' = "positive"
  /\ UNCHANGED <<init_ok, buildVars, shook, pmuVars, bufferVars, frameVars>>

-----------------------------------------------------------------------------
(***************************************************************************)
(* client_module_exit, and the labels of init that undo the same things.   *)
(***************************************************************************)

\* rmmod: client_module_exit starts with fini_proc.
Exit ==
  /\ client = "live"
  /\ Enter("disable", CPUs)
  /\ err' = "none"
  /\ UNCHANGED <<init_ok, buildVars, shook, pmuVars, bufferVars, frameVars>>

\* disable_pmcs_global, from pmi_fini and again from pmc_global_fini.
DisablePmcs(c) ==
  /\ OnCpu(c, "disable") \/ OnCpu(c, "pmc_fini")
  /\ on' = [on EXCEPT ![c] = FALSE]
  /\ UNCHANGED <<handler, lvt, pcpu_lvt_bkp>>

\* Only pmi_nmi_cleanup restores the LVT entries.
PmcsDisabled ==
  /\ \/ vector = "NMI" /\ Leave("disable", "restore", CPUs)
     \/ vector = "IRQ" /\ Leave("disable", "unregister", {})
  /\ Skip

\* pmi_lvt_cleanup_local.
LvtCleanupLocal(c) ==
  /\ OnCpu(c, "restore")
  /\ lvt' = [lvt EXCEPT ![c] = pcpu_lvt_bkp[c]]
  /\ UNCHANGED <<handler, on, pcpu_lvt_bkp>>

LvtRestoredAll == Leave("restore", "unregister", {}) /\ Skip

\* Mutant: the handler is not removed (as when its name does not match).
UnregisterHandlerKeepsIt == Leave("unregister", "sync", {}) /\ Skip

\* unregister_nmi_handler or free_fast_irq: no new PMI reaches the handler ...
UnregisterHandler ==
  /\ Leave("unregister", "sync", {})
  /\ handler' = FALSE
  /\ UNCHANGED <<err, init_ok, buildVars, shook, on, lvt, pcpu_lvt_bkp,
                 bufferVars, frameVars>>

\* ... and those that run have returned.
HandlersDone ==
  /\ \A c \in CPUs : pmi[c] = "idle"
  /\ Leave("sync", "pmc_fini", CPUs)
  /\ Skip

PmcFiniDone == Leave("pmc_fini", "fini_shook", {}) /\ Skip

\* fini_shook; buffering_static_fini follows.
FiniShook ==
  /\ \/ policy = "SYSTEM" /\ Leave("fini_shook", "removing", {})
     \/ policy # "SYSTEM" /\ Leave("fini_shook", "free", Buffers(policy))
  /\ shook' = FALSE
  /\ UNCHANGED <<err, init_ok, buildVars, pmuVars, bufferVars, frameVars>>

\* bsystem.c: removing = true, then wait for the writers that hold usage.
SetRemoving ==
  /\ Leave("removing", "drain", {})
  /\ removing' = TRUE
  /\ UNCHANGED <<err, init_ok, buildVars, shook, pmuVars, usage, mem,
                 frameVars>>

\* Mutant: the loop waits for a count that starts at zero.
DrainedAtZero == usage < 1 /\ Leave("drain", "free", Buffers(policy)) /\ Skip

Drained == usage <= 1 /\ Leave("drain", "free", Buffers(policy)) /\ Skip

\* kvfree: nothing to do for a NULL pointer.
Released(m) == CASE m = "none" -> "none"
                 [] m = "allocated" -> "freed"
                 [] OTHER -> "freed_twice"

\* Mutant: the loop that frees the buffers forgets the CPU it runs on.
FreeBufferSkipsOne(b) ==
  /\ ForBuffer(b, "free")
  /\ mem' = IF todo' = {} THEN mem ELSE [mem EXCEPT ![b] = Released(@)]

FreeBuffer(b) ==
  /\ ForBuffer(b, "free")
  /\ mem' = [mem EXCEPT ![b] = Released(@)]

\* Exit, or an init that failed with a negative error, is followed by the
\* release of the image; a positive error leaves the module in place.
BuffersFreed ==
  /\ \/ err = "positive" /\ Leave("free", "live", {})
     \/ err # "positive" /\ Leave("free", "rcu", {})
  /\ Skip

\* The kernel frees the image after a grace period in which every CPU has
\* left the code of the module.
FreeModule ==
  /\ \A c \in CPUs : pmi[c] = "idle" /\ sched[c] = "idle"
  /\ Leave("rcu", "absent", {})
  /\ Skip

\* What the init and exit functions do on their own.
LoaderStep ==
  \/ \E b \in AllBuffers : AllocBuffer(b) \/ FreeBuffer(b)
  \/ \E c \in CPUs : \/ InitPmuLocal(c) \/ LvtSetupLocal(c) \/ EnablePmcs(c)
                     \/ DisablePmcs(c) \/ LvtCleanupLocal(c)
  \/ AllocBufferFails \/ BuffersReady \/ InitShook \/ PmuReady
  \/ RegisterHandler \/ RegisterHandlerFails \/ LvtReady \/ PmcsEnabled
  \/ InitProc \/ InitProcFails
  \/ PmcsDisabled \/ LvtRestoredAll \/ UnregisterHandler \/ HandlersDone
  \/ PmcFiniDone \/ FiniShook \/ SetRemoving \/ Drained \/ BuffersFreed
  \/ FreeModule

-----------------------------------------------------------------------------
(***************************************************************************)
(* client_hook_sched_in.                                                   *)
(***************************************************************************)

SchedEnter(c) ==
  /\ shook /\ sched[c] = "idle" /\ pmi[c] = "idle"
  /\ sched' = [sched EXCEPT ![c] = "in"]
  /\ UNCHANGED <<loaderVars, shook, pmuVars, bufferVars, pmi>>

\* A tracked task gives way to an untracked one, the converse, or neither.
SchedAct(c) ==
  /\ sched[c] = "in" /\ pmi[c] = "idle"
  /\ \E v \in {TRUE, FALSE, on[c]} : on' = [on EXCEPT ![c] = v]
  /\ sched' = [sched EXCEPT ![c] = "idle"]
  /\ UNCHANGED <<loaderVars, shook, handler, lvt, pcpu_lvt_bkp, bufferVars,
                 pmi>>

-----------------------------------------------------------------------------
(***************************************************************************)
(* pmi_handler, snapshot_pmc and write_sample.                             *)
(***************************************************************************)

PmiGoto(c, from, to) ==
  /\ pmi[c] = from
  /\ pmi' = [pmi EXCEPT ![c] = to]
  /\ UNCHANGED <<loaderVars, shook, handler, on, pcpu_lvt_bkp, removing, mem,
                 sched>>

\* The vector fires: an overflow, or any other local NMI.
Pmi(c) == handler /\ PmiGoto(c, "idle", "status") /\ UNCHANGED <<lvt, usage>>

\* MSR_CORE_PERF_GLOBAL_STATUS is 0 and there is nothing to do.
NothingToDo(c) == PmiGoto(c, "status", "idle") /\ UNCHANGED <<lvt, usage>>

\* snapshot_pmc: query_data_tracker finds no data for the current task ...
NoProcData(c) == PmiGoto(c, "status", "rearm") /\ UNCHANGED <<lvt, usage>>

\* ... or finds some, and the sample goes to write_sample, which for the policy
\* "THREAD" writes to no static buffer (the list of the task is in Sampling).
Snapshot(c) ==
  /\ \/ policy = "SYSTEM" /\ PmiGoto(c, "status", "removing")
     \/ policy = "CPU" /\ PmiGoto(c, "status", "write")
     \/ policy = "THREAD" /\ PmiGoto(c, "status", "rearm")
  /\ UNCHANGED <<lvt, usage>>

\* bsystem.c refuses to write once the buffer is being removed.
CheckRemoving(c) ==
  /\ \/ ~removing /\ PmiGoto(c, "removing", "count")
     \/ removing /\ PmiGoto(c, "removing", "rearm")
  /\ UNCHANGED <<lvt, usage>>

CountWriter(c) ==
  PmiGoto(c, "count", "write") /\ usage' = usage + 1 /\ UNCHANGED lvt

\* write_clist.
WriteClist(c) ==
  /\ \/ policy = "SYSTEM" /\ PmiGoto(c, "write", "uncount")
     \/ policy = "CPU" /\ PmiGoto(c, "write", "rearm")
  /\ UNCHANGED <<lvt, usage>>

\* Mutant: refcount_dec is called twice.
UncountTwice(c) ==
  PmiGoto(c, "uncount", "rearm") /\ usage' = usage - 2 /\ UNCHANGED lvt

UncountWriter(c) ==
  PmiGoto(c, "uncount", "rearm") /\ usage' = usage - 1 /\ UNCHANGED lvt

\* The LVT entry, masked by the interrupt, is written anew.
Rearm(c) ==
  /\ PmiGoto(c, "rearm", "idle")
  /\ lvt' = [lvt EXCEPT ![c] = "pmi"]
  /\ UNCHANGED usage

PmiStep(c) ==
  \/ NothingToDo(c) \/ NoProcData(c) \/ Snapshot(c) \/ CheckRemoving(c)
  \/ CountWriter(c) \/ WriteClist(c) \/ UncountWriter(c) \/ Rearm(c)

-----------------------------------------------------------------------------

Init ==
  /\ client = "absent" /\ todo = {} /\ err = "none" /\ init_ok = FALSE
  /\ shook = FALSE /\ handler = FALSE
  /\ on = [c \in CPUs |-> FALSE]
  /\ lvt = [c \in CPUs |-> "old"]
  /\ pcpu_lvt_bkp = [c \in CPUs |-> "zero"]
  /\ removing = FALSE /\ usage = 1
  /\ mem = [b \in AllBuffers |-> "none"]
  /\ policy \in Policies /\ vector \in Vectors
  /\ pmi = [c \in CPUs |-> "idle"]
  /\ sched = [c \in CPUs |-> "idle"]

Next ==
  \/ Insmod \/ Exit \/ LoaderStep
  \/ \E c \in CPUs : SchedEnter(c) \/ SchedAct(c) \/ Pmi(c) \/ PmiStep(c)

Spec == Init /\ [][Next]_vars

\* Frames that were entered return.  The fairness is strong for the loader and
\* the scheduler's frame: PMIs interrupt them again and again, but two PMIs are
\* at least 2^12 - 1 cycles apart (reset_period), so that the code below moves
\* on, and the interrupt of on_each_cpu stays pending until it is taken.
Fairness ==
  /\ SF_vars(LoaderStep)
  /\ \A c \in CPUs : SF_vars(SchedAct(c)) /\ WF_vars(PmiStep(c))

FairSpec == Spec /\ Fairness

-----------------------------------------------------------------------------
(***************************************************************************)
(* Properties.                                                             *)
(***************************************************************************)

ClientPhases == {"absent", "buffering", "shook", "pmu", "handler", "lvt",
  "enable", "proc", "live", "disable", "restore", "unregister", "sync",
  "pmc_fini", "fini_shook", "removing", "drain", "free", "rcu"}
PmiPhases ==
  {"idle", "status", "removing", "count", "write", "uncount", "rearm"}

\* The values of the client's variables, the hardware's and the frames'.
TypeOK ==
  /\ policy \in Policies /\ vector \in Vectors
  /\ client \in ClientPhases /\ todo \in SUBSET AllBuffers
  /\ err \in {"none", "negative", "positive"} /\ init_ok \in BOOLEAN
  /\ shook \in BOOLEAN /\ handler \in BOOLEAN
  /\ on \in [CPUs -> BOOLEAN]
  /\ lvt \in [CPUs -> {"old", "zero", "pmi"}]
  /\ pcpu_lvt_bkp \in [CPUs -> {"old", "zero", "pmi"}]
  /\ removing \in BOOLEAN /\ usage \in Nat
  /\ mem \in [AllBuffers -> {"none", "allocated", "freed", "freed_twice"}]
  /\ pmi \in [CPUs -> PmiPhases] /\ sched \in [CPUs -> {"idle", "in"}]

\* A PMI handler that writes a sample writes it to a buffer that is
\* allocated, on every path of init and exit, and although a handler may have
\* passed the test of removing before buffering_static_fini set it.
NoWriteAfterFree ==
  \A c \in CPUs : pmi[c] = "write" => mem[BufferOf(c)] = "allocated"

\* A client whose init succeeded has released each buffer, once, when it is
\* gone.
BuffersReleased ==
  client = "absent" /\ init_ok => \A b \in Buffers(policy) : mem[b] = "freed"

\* An exit that began comes to its end, whatever PMIs and context switches
\* interleave with it.
UnloadCompletes == client = "disable" ~> client \in {"absent", "live"}
=============================================================================
