----------------------------- MODULE SystemHook -----------------------------
(***************************************************************************)
(* The hook module "shook": the gate every probe handler passes            *)
(* (start_handler / stop_handler), the table of callbacks behind it, the   *)
(* registration of the three probes, and the load and unload of shook and  *)
(* of the client module that installs its own callbacks.                   *)
(*                                                                         *)
(* A context is one activation of a probe handler.  Several are in flight  *)
(* at a time, one for each CPU or more when an allocation of the fork      *)
(* callback sleeps.  Every access to a shared variable (shook_enabled,     *)
(* unmounting, usage, a hook pointer) is a step.                           *)
(***************************************************************************)
EXTENDS Integers, FiniteSets

CONSTANTS
  Contexts,   \* activations of the probe handlers
  Plugin,     \* the PLUGIN of the Makefile: "TRACEP" or "KPROBE"
  MaySleep    \* the GFP_KERNEL allocations of the fork callback may sleep

ASSUME ContextsAssumption == IsFiniteSet(Contexts)
ASSUME PluginAssumption == Plugin \in {"TRACEP", "KPROBE"}
ASSUME MaySleepAssumption == MaySleep \in BOOLEAN

VARIABLES
  shook_enabled, shook_initialized,   \* flags of system_hook.c
  unmounting, usage,                  \* its two reference counts
  hook,                               \* hook_sched_in .. hook_on_detach
  probes,                             \* probe types the kernel calls us for
  module, step,                       \* phase of shook's loader, loop index
  client, cstep,                      \* the same for the client module
  pc, ptype, cb                       \* per context: where, probe, callback

gateVars   == <<shook_enabled, shook_initialized, unmounting, usage>>
loaderVars == <<module, step>>
clientVars == <<client, cstep>>
ctxVars    == <<pc, ptype, cb>>
vars == <<gateVars, hook, probes, loaderVars, clientVars, ctxVars>>

ProbeTypes == {"SCHED_IN", "PROC_FORK", "PROC_EXIT"}
HookTypes  == ProbeTypes \cup {"ON_ATTACH", "ON_DETACH"}
Callbacks  == {"dummy", "tracker", "client"}

\* hook_funcs[] of the tracepoint plugin, krps[] of the kprobe plugin.
RegisterOrder ==
  IF Plugin = "TRACEP" THEN <<"SCHED_IN", "PROC_FORK", "PROC_EXIT">>
                       ELSE <<"SCHED_IN", "PROC_EXIT", "PROC_FORK">>

\* The order of the unload: the same array, or krps[] written in reverse.
UnregisterOrder ==
  IF Plugin = "TRACEP" THEN RegisterOrder
                       ELSE <<"PROC_FORK", "PROC_EXIT", "SCHED_IN">>

\* The order in which register_hooks and unregister_hooks set the callbacks.
TrackerOrder == <<"SCHED_IN", "PROC_FORK", "PROC_EXIT">>

\* set_shook_callback(f, t); a NULL callback installs the dummy.
SetCallback(t, f) == hook' = [hook EXCEPT ![t] = f]

-----------------------------------------------------------------------------
(***************************************************************************)
(* The probe handlers.                                                     *)
(***************************************************************************)

\* A context returns to the kernel from the handler it was running.
Return(c) ==
  /\ pc' = [pc EXCEPT ![c] = "idle"]
  /\ ptype' = [ptype EXCEPT ![c] = "none"]
  /\ cb' = [cb EXCEPT ![c] = "dummy"]

Goto(c, from, to) ==
  /\ pc[c] = from
  /\ pc' = [pc EXCEPT ![c] = to]
  /\ UNCHANGED ptype

\* The kernel reaches a registered probe point and calls the handler.
Fire(c) ==
  /\ pc[c] = "idle"
  /\ \E t \in probes : ptype' = [ptype EXCEPT ![c] = t]
  /\ pc' = [pc EXCEPT ![c] = "entered"]
  /\ UNCHANGED <<cb, gateVars, hook, probes, loaderVars, clientVars>>

\* Mutant: the handler calls stop_handler even when it was refused.
CheckEnabledStopsAnyway(c) ==
  /\ IF shook_enabled THEN Goto(c, "entered", "enabled")
                      ELSE Goto(c, "entered", "returning")
  /\ UNCHANGED <<cb, gateVars, hook, probes, loaderVars, clientVars>>

\* Mutant: start_handler forgets to look at shook_enabled.
CheckEnabledNoTest(c) ==
  /\ Goto(c, "entered", "enabled")
  /\ UNCHANGED <<cb, gateVars, hook, probes, loaderVars, clientVars>>

\* start_handler, first test: refuse when the module is not enabled.
CheckEnabled(c) ==
  /\ \/ shook_enabled /\ Goto(c, "entered", "enabled") /\ UNCHANGED cb
     \/ ~shook_enabled /\ pc[c] = "entered" /\ Return(c)
  /\ UNCHANGED <<gateVars, hook, probes, loaderVars, clientVars>>

\* start_handler, second test: refuse when the module is being unloaded.
CheckUnmounting(c) ==
  /\ \/ unmounting <= 1 /\ Goto(c, "enabled", "admitted") /\ UNCHANGED cb
     \/ unmounting > 1 /\ pc[c] = "enabled" /\ Return(c)
  /\ UNCHANGED <<gateVars, hook, probes, loaderVars, clientVars>>

\* start_handler takes its reference, after the tests that admitted it.
Admit(c) ==
  /\ Goto(c, "admitted", "counted")
  /\ usage' = usage + 1
  /\ UNCHANGED <<cb, shook_enabled, shook_initialized, unmounting, hook,
                 probes, loaderVars, clientVars>>

\* The handler loads the hook pointer of its probe and calls through it.
CallHook(c) ==
  /\ Goto(c, "counted", "running")
  /\ cb' = [cb EXCEPT ![c] = hook[ptype[c]]]
  /\ UNCHANGED <<gateVars, hook, probes, loaderVars, clientVars>>

\* fork_handler of the kprobe plugin skips the hook when the fork failed.
SkipFailedFork(c) ==
  /\ Plugin = "KPROBE" /\ ptype[c] = "PROC_FORK"
  /\ Goto(c, "counted", "returning")
  /\ UNCHANGED <<cb, gateVars, hook, probes, loaderVars, clientVars>>

\* The callback the tracker's callback calls in turn: attach the child of a
\* tracked parent (and tracker_add it), or detach the data of the process
\* that exits (after tracker_del).
InnerHook(t) == IF t = "PROC_FORK" THEN "ON_ATTACH" ELSE "ON_DETACH"

\* track_fork_wrapper (when the parent is tracked) and track_exit_wrapper.
CallInnerHook(c) ==
  /\ cb[c] = "tracker" /\ ptype[c] \in {"PROC_FORK", "PROC_EXIT"}
  /\ Goto(c, "running", "nested")
  /\ cb' = [cb EXCEPT ![c] = hook[InnerHook(ptype[c])]]
  /\ UNCHANGED <<gateVars, hook, probes, loaderVars, clientVars>>

\* The callback returns; track_exit_wrapper always calls its inner hook.
CallbackReturns(c) ==
  /\ \/ Goto(c, "nested", "returning")
     \/ /\ ~(cb[c] = "tracker" /\ ptype[c] = "PROC_EXIT")
        /\ Goto(c, "running", "returning")
  /\ UNCHANGED <<cb, gateVars, hook, probes, loaderVars, clientVars>>

\* Mutant: an early return of the handler that forgets stop_handler.
StopHandlerForgotten(c) ==
  /\ pc[c] = "returning"
  /\ Return(c)
  /\ UNCHANGED <<gateVars, hook, probes, loaderVars, clientVars>>

\* stop_handler drops the reference.
StopHandler(c) ==
  /\ pc[c] = "returning"
  /\ Return(c)
  /\ usage' = usage - 1
  /\ UNCHANGED <<shook_enabled, shook_initialized, unmounting, hook, probes,
                 loaderVars, clientVars>>

\* What a handler does once the kernel has called it.
HandlerStep(c) ==
  \/ CheckEnabled(c) \/ CheckUnmounting(c) \/ Admit(c)
  \/ CallHook(c) \/ SkipFailedFork(c)
  \/ CallInnerHook(c) \/ CallbackReturns(c) \/ StopHandler(c)

-----------------------------------------------------------------------------
(***************************************************************************)
(* Load and unload of shook: switch_hook_module_init and _exit.            *)
(***************************************************************************)

\* insmod: a fresh image, so every static variable has its initial value.
Insmod ==
  /\ module = "absent"
  /\ module' = "hooking" /\ step' = 1
  /\ shook_enabled' = FALSE /\ shook_initialized' = FALSE
  /\ unmounting' = 1 /\ usage' = 1
  /\ hook' = [t \in HookTypes |-> "dummy"]
  /\ UNCHANGED <<probes, clientVars, ctxVars>>

\* register_hook / register_kretprobe of the next probe succeeds ...
RegisterHook ==
  /\ module = "hooking"
  /\ probes' = probes \cup {RegisterOrder[step]}
  /\ IF step = 3 THEN module' = "tracker_init" /\ step' = 1
                 ELSE step' = step + 1 /\ UNCHANGED module
  /\ UNCHANGED <<gateVars, hook, clientVars, ctxVars>>

\* Mutant: the loop that unwinds starts one probe too low.
FirstToUnwindTooLow == IF step > 1 THEN step - 2 ELSE 0

\* for (i = i - 1; ...): the last probe registered before the failure.
FirstToUnwind == step - 1

\* ... or fails: the probes registered before it are unregistered.
RegisterHookFails ==
  /\ module = "hooking"
  /\ module' = "unwinding" /\ step' = FirstToUnwind
  /\ UNCHANGED <<gateVars, hook, probes, clientVars, ctxVars>>

\* The probe whose turn it is to be unregistered.
Removing ==
  IF module \in {"unwinding", "unwind_sync"} THEN RegisterOrder[step]
                                             ELSE UnregisterOrder[step]

\* unregister_hook / unregister_kretprobe: no new call of the handler ...
UnregisterHook ==
  /\ \/ module = "unwinding" /\ step > 0 /\ module' = "unwind_sync"
     \/ module = "unhooking" /\ step < 4 /\ module' = "unhook_sync"
  /\ probes' = probes \ {Removing}
  /\ UNCHANGED <<step, gateVars, hook, clientVars, ctxVars>>

\* A handler that sleeps in the window of track_fork_wrapper has given up its
\* CPU, and the kernel's RCU grace periods do not wait for it.
Asleep(c) == MaySleep /\ pc[c] = "nested" /\ ptype[c] = "PROC_FORK"

\* Mutant: unregister_hook does not wait for the handlers in flight.
InFlightIgnored(t) == FALSE

\* A call of the handler of probe t that the kernel made has not returned.
InFlight(t) == \E c \in Contexts : ptype[c] = t /\ ~Asleep(c)

\* ... and wait (tracepoint_synchronize_unregister, or the grace period in
\* unregister_kretprobe) until no call of this handler is in flight.
Synchronize ==
  /\ module \in {"unwind_sync", "unhook_sync"}
  /\ ~InFlight(Removing)
  /\ \/ /\ module = "unwind_sync" /\ module' = "unwinding"
        /\ step' = step - 1
     \/ /\ module = "unhook_sync" /\ module' = "unhooking"
        /\ step' = step + 1
  /\ UNCHANGED <<gateVars, hook, probes, clientVars, ctxVars>>

\* The init function returns its error and the image is freed.
InitFails ==
  /\ module = "unwinding" /\ step = 0
  /\ module' = "absent"
  /\ UNCHANGED <<step, gateVars, hook, probes, clientVars, ctxVars>>

\* register_hooks: tracker_init installs the tracker's callbacks.
TrackerInit ==
  /\ module = "tracker_init"
  /\ SetCallback(TrackerOrder[step], "tracker")
  /\ IF step = 3 THEN module' = "enabling" /\ step' = 1
                 ELSE step' = step + 1 /\ UNCHANGED module
  /\ UNCHANGED <<gateVars, probes, clientVars, ctxVars>>

\* End of init: only the tracepoint plugin enables the handlers by itself.
InitDone ==
  /\ module = "enabling"
  /\ shook_initialized' = TRUE
  /\ shook_enabled' = (Plugin = "TRACEP")
  /\ module' = "live"
  /\ UNCHANGED <<step, unmounting, usage, hook, probes, clientVars, ctxVars>>

\* rmmod shook: only when no module uses its symbols.
ExitBegins ==
  /\ module = "live" /\ client = "absent" /\ shook_initialized
  /\ unmounting' = unmounting + 1
  /\ module' = "disabling"
  /\ UNCHANGED <<step, shook_enabled, shook_initialized, usage, hook, probes,
                 clientVars, ctxVars>>

ExitDisables ==
  /\ module = "disabling"
  /\ shook_enabled' = FALSE
  /\ module' = "grace"
  /\ UNCHANGED <<step, shook_initialized, unmounting, usage, hook, probes,
                 clientVars, ctxVars>>

\* Mutant: the busy loop waits for a count that starts at zero.
GraceEndsAtZero ==
  /\ module = "grace" /\ usage <= 0
  /\ module' = "tracker_fini" /\ step' = 1
  /\ UNCHANGED <<gateVars, hook, probes, clientVars, ctxVars>>

\* The busy loop on usage ends.
GraceEnds ==
  /\ module = "grace" /\ usage <= 1
  /\ module' = "tracker_fini" /\ step' = 1
  /\ UNCHANGED <<gateVars, hook, probes, clientVars, ctxVars>>

\* unregister_hooks: tracker_fini puts the dummies back.
TrackerFini ==
  /\ module = "tracker_fini"
  /\ SetCallback(TrackerOrder[step], "dummy")
  /\ IF step = 3 THEN module' = "unhooking" /\ step' = 1
                 ELSE step' = step + 1 /\ UNCHANGED module
  /\ UNCHANGED <<gateVars, probes, clientVars, ctxVars>>

\* The exit function returns and the image is freed.
ExitDone ==
  /\ module = "unhooking" /\ step = 4
  /\ shook_initialized' = FALSE
  /\ module' = "absent" /\ step' = 1
  /\ UNCHANGED <<shook_enabled, unmounting, usage, hook, probes, clientVars,
                 ctxVars>>

\* The part of the loader that nobody but shook itself decides.
LoaderStep ==
  \/ RegisterHook \/ RegisterHookFails \/ UnregisterHook \/ Synchronize
  \/ InitFails \/ TrackerInit \/ InitDone
  \/ ExitDisables \/ GraceEnds \/ TrackerFini \/ ExitDone

-----------------------------------------------------------------------------
(***************************************************************************)
(* The client module: init_shook and fini_shook.                           *)
(***************************************************************************)

\* insmod client_mod: needs the symbols of a live shook.
ClientInsmod ==
  /\ client = "absent" /\ module = "live"
  /\ client' = "init" /\ cstep' = 1
  /\ UNCHANGED <<gateVars, hook, probes, loaderVars, ctxVars>>

\* The callbacks init_shook sets, in its order.
ClientOrder == <<"ON_ATTACH", "ON_DETACH", "SCHED_IN">>

\* init_shook sets its callbacks, then enables the handlers.
InitShook ==
  /\ client = "init"
  /\ \/ /\ cstep <= 3
        /\ SetCallback(ClientOrder[cstep], "client")
        /\ cstep' = cstep + 1
        /\ UNCHANGED <<client, shook_enabled>>
     \/ /\ cstep = 4
        /\ shook_enabled' = TRUE
        /\ client' = "live" /\ cstep' = 1
        /\ UNCHANGED hook
  /\ UNCHANGED <<shook_initialized, unmounting, usage, probes, loaderVars,
                 ctxVars>>

\* rmmod client_mod, or a later stage of its init failed.
ClientExit ==
  /\ client = "live"
  /\ client' = "fini"
  /\ UNCHANGED <<cstep, gateVars, hook, probes, loaderVars, ctxVars>>

\* Mutant: fini_shook leaves hook_on_detach pointing into the client.
ClientFiniOrderKeepsDetach == <<"SCHED_IN", "ON_ATTACH", "ON_ATTACH">>

\* The callbacks fini_shook takes back, in its order.
ClientFiniOrder == <<"SCHED_IN", "ON_ATTACH", "ON_DETACH">>

\* fini_shook disables the handlers, then puts the dummies back.
FiniShook ==
  /\ client = "fini"
  /\ \/ /\ cstep = 1
        /\ shook_enabled' = FALSE
        /\ cstep' = 2
        /\ UNCHANGED <<client, hook>>
     \/ /\ cstep > 1
        /\ SetCallback(ClientFiniOrder[cstep - 1], "dummy")
        /\ IF cstep = 4 THEN client' = "rcu" /\ cstep' = 1
                        ELSE cstep' = cstep + 1 /\ UNCHANGED client
        /\ UNCHANGED shook_enabled
  /\ UNCHANGED <<shook_initialized, unmounting, usage, probes, loaderVars,
                 ctxVars>>

\* The contexts that execute a callback of the client.
InClient == {c \in Contexts : pc[c] \in {"running", "nested"} /\ cb[c] = "client"}

\* After the exit function the kernel waits for a grace period and frees the
\* image of the client.
FreeClient ==
  /\ client = "rcu" /\ \A c \in InClient : Asleep(c)
  /\ client' = "absent"
  /\ UNCHANGED <<cstep, gateVars, hook, probes, loaderVars, ctxVars>>

ClientStep == InitShook \/ FiniShook \/ FreeClient

-----------------------------------------------------------------------------

Init ==
  /\ shook_enabled = FALSE /\ shook_initialized = FALSE
  /\ unmounting = 1 /\ usage = 1
  /\ hook = [t \in HookTypes |-> "dummy"]
  /\ probes = {}
  /\ module = "absent" /\ step = 1
  /\ client = "absent" /\ cstep = 1
  /\ pc = [c \in Contexts |-> "idle"]
  /\ ptype = [c \in Contexts |-> "none"]
  /\ cb = [c \in Contexts |-> "dummy"]

Next ==
  \/ \E c \in Contexts : Fire(c) \/ HandlerStep(c)
  \/ Insmod \/ ExitBegins \/ LoaderStep
  \/ ClientInsmod \/ ClientExit \/ ClientStep

Spec == Init /\ [][Next]_vars

\* A handler that was called returns, and a load or unload that was started
\* runs on.  Nobody is obliged to fire a probe or to load a module.
Fairness ==
  /\ \A c \in Contexts : WF_vars(HandlerStep(c))
  /\ WF_vars(LoaderStep)

FairSpec == Spec /\ Fairness

-----------------------------------------------------------------------------
(***************************************************************************)
(* Properties.                                                             *)
(***************************************************************************)

ModulePhases == {"absent", "hooking", "unwinding", "unwind_sync",
  "tracker_init", "enabling", "live", "disabling", "grace", "tracker_fini",
  "unhooking", "unhook_sync"}
ContextPhases == {"idle", "entered", "enabled", "admitted", "counted",
  "running", "nested", "returning"}

\* The values each variable of the gate, the loaders and the handlers takes.
TypeOK ==
  /\ shook_enabled \in BOOLEAN /\ shook_initialized \in BOOLEAN
  /\ unmounting \in 1 .. 2 /\ usage \in Nat
  /\ hook \in [HookTypes -> Callbacks]
  /\ probes \in SUBSET ProbeTypes
  /\ module \in ModulePhases /\ step \in 0 .. 4
  /\ client \in {"absent", "init", "live", "fini", "rcu"} /\ cstep \in 1 .. 4
  /\ pc \in [Contexts -> ContextPhases]
  /\ ptype \in [Contexts -> ProbeTypes \cup {"none"}]
  /\ cb \in [Contexts -> Callbacks]

\* The contexts between the increment and the decrement of usage.
Counted == {c \in Contexts : pc[c] \in {"counted", "running", "nested", "returning"}}

\* usage is one more than the number of handlers that hold a reference, on
\* every path through start_handler and stop_handler, also when a handler
\* outlives the grace period: it never underflows and never leaks, so the
\* loop "while (refcount_read(&usage) > 1)" tests what it means to test.
UsageCountsHandlers == usage = 1 + Cardinality(Counted)

\* Once shook's image is freed (unloaded, or its init failed half way) the
\* kernel has no probe that points into it and no context executes in it,
\* the handlers refused by start_handler included.
NoHandlerAfterUnload ==
  module = "absent" => probes = {} /\ \A c \in Contexts : pc[c] = "idle"

\* When the exit function of the client has returned no hook pointer of shook
\* names a function of the client, so that the grace period of the kernel,
\* which comes next, waits for the last caller.
NoDanglingCallback ==
  client \in {"rcu", "absent"} => \A t \in HookTypes : hook[t] # "client"

\* "safe-unmount": no probe handler executes code of a client whose image is
\* freed.  The count of the gate is no help, as fini_shook does not look at it.
ClientUnused == client = "absent" => InClient = {}

\* The contexts that passed the first test of start_handler.
Inside == {c \in Contexts : pc[c] \notin {"idle", "entered"}}

\* From the moment the exit function cleared shook_enabled, contexts leave
\* the gate and none gets in: the grace loop waits for a finite set.
AdmissionsOnlyDrain ==
  [][/\ module \in {"grace", "tracker_fini", "unhooking", "unhook_sync"}
     => Inside' \subseteq Inside]_vars

\* "it will complete eventually": an unload that began runs to its end.
UnloadCompletes == module = "disabling" ~> module = "absent"
=============================================================================
