--------------------------- MODULE SystemHookProofs ---------------------------
(***************************************************************************)
(* Proofs about the hook module for every number of handler activations    *)
(* and both plugins, as long as no handler sleeps in an allocation.        *)
(***************************************************************************)
EXTENDS SystemHook, FiniteSetTheorems, TLAPS

\* TypeOK in two parts: the Boolean flags, and the rest.
FlagsOK == shook_enabled \in BOOLEAN /\ shook_initialized \in BOOLEAN
RestOK ==
  /\ unmounting \in 1 .. 2 /\ usage \in Nat
  /\ hook \in [HookTypes -> Callbacks]
  /\ probes \in SUBSET ProbeTypes
  /\ module \in ModulePhases /\ step \in 0 .. 4
  /\ client \in {"absent", "init", "live", "fini", "rcu"} /\ cstep \in 1 .. 4
  /\ pc \in [Contexts -> ContextPhases]
  /\ ptype \in [Contexts -> ProbeTypes \cup {"none"}]
  /\ cb \in [Contexts -> Callbacks]

\* The range of the loop index, and of unmounting, in the phases that use it.
StepInv ==
  /\ module \in {"hooking", "tracker_init", "tracker_fini", "unhook_sync"} => step \in 1 .. 3
  /\ module = "unwinding" => step \in 0 .. 2
  /\ module = "unwind_sync" => step \in 1 .. 2
  /\ module = "unhooking" => step \in 1 .. 4
  /\ module \notin {"absent", "disabling", "grace", "tracker_fini", "unhooking", "unhook_sync"}
       => unmounting = 1

\* A client is loaded only on top of a live shook, and where its unload is.
ClientInv ==
  /\ module # "live" => client = "absent"
  /\ client \in {"absent", "live", "rcu"} => cstep = 1
  /\ \A t \in {"PROC_FORK", "PROC_EXIT"} : hook[t] # "client"
  /\ client \in {"absent", "rcu"} \/ (client = "fini" /\ cstep > 2) => hook["SCHED_IN"] # "client"
  /\ client \in {"absent", "rcu"} \/ (client = "fini" /\ cstep > 3) => hook["ON_ATTACH"] # "client"
  /\ client \in {"absent", "rcu"} => hook["ON_DETACH"] # "client"

\* From the grace period on the gate is shut.
GateInv ==
  module \in {"grace", "tracker_fini", "unhooking", "unhook_sync"} => ~shook_enabled

\* The probes whose handler may be called, or still be running.
ActiveTypes ==
  IF module = "absent" THEN {}
  ELSE IF module = "hooking" THEN {RegisterOrder[j] : j \in 1 .. step - 1}
  ELSE IF module \in {"unwinding", "unwind_sync"} THEN {RegisterOrder[j] : j \in 1 .. step}
  ELSE IF module \in {"unhooking", "unhook_sync"} THEN {UnregisterOrder[j] : j \in step .. 3}
  ELSE ProbeTypes

ProbeInv ==
  /\ probes \subseteq ActiveTypes
  /\ module \in {"unwind_sync", "unhook_sync"} => Removing \notin probes

CtxInv ==
  \A c \in Contexts : IF pc[c] = "idle" THEN ptype[c] = "none"
                                        ELSE ptype[c] \in ActiveTypes

\* An unloaded client is not executed.
ClientTextInv == client = "absent" => \A c \in Contexts : c \notin InClient

\* Everything but the reference count.
Shape == StepInv /\ ClientInv /\ GateInv /\ ProbeInv /\ CtxInv /\ ClientTextInv

IInv == TypeOK /\ Shape /\ UsageCountsHandlers

-----------------------------------------------------------------------------

LEMMA TypeParts ==
  /\ TypeOK <=> FlagsOK /\ RestOK
  /\ TypeOK' <=> FlagsOK' /\ RestOK'
BY DEF TypeOK, FlagsOK, RestOK

\* Both plugins go through each probe once, to register and to unregister.
LEMMA Orders ==
  /\ RegisterOrder \in [1 .. 3 -> ProbeTypes]
  /\ UnregisterOrder \in [1 .. 3 -> ProbeTypes]
  /\ ProbeTypes = {UnregisterOrder[j] : j \in 1 .. 3}
<1>1. CASE Plugin = "TRACEP"
  BY <1>1 DEF RegisterOrder, UnregisterOrder, ProbeTypes
<1>2. CASE Plugin = "KPROBE"
  BY <1>2 DEF RegisterOrder, UnregisterOrder, ProbeTypes
<1>3. QED
  BY <1>1, <1>2, PluginAssumption

\* Only probes can be active.
LEMMA ActiveAreProbes ==
  ASSUME StepInv
  PROVE  ActiveTypes \subseteq ProbeTypes
<1>1. \A j \in 1 .. 3 : RegisterOrder[j] \in ProbeTypes /\ UnregisterOrder[j] \in ProbeTypes
  BY Orders
<1>2. /\ module = "hooking" => step - 1 <= 3
      /\ module \in {"unwinding", "unwind_sync"} => step <= 3
      /\ module \in {"unhooking", "unhook_sync"} => step >= 1
  BY DEF StepInv
<1>3. QED
  BY <1>1, <1>2 DEF ActiveTypes, StepInv

LEMMA CountedFinite == IsFiniteSet(Counted) /\ Cardinality(Counted) \in Nat
<1>1. Counted \subseteq Contexts
  BY DEF Counted
<1>2. QED
  BY <1>1, ContextsAssumption, FS_Subset, FS_CardinalityType

-----------------------------------------------------------------------------
(***************************************************************************)
(* The steps of a probe handler.                                           *)
(***************************************************************************)

\* What every step of a handler leaves alone.
LEMMA HandlerFrame ==
  ASSUME NEW c \in Contexts, Fire(c) \/ HandlerStep(c)
  PROVE  /\ UNCHANGED <<shook_enabled, shook_initialized, unmounting>>
         /\ UNCHANGED <<hook, probes, loaderVars, clientVars>>
BY DEF HandlerStep, Fire, CheckEnabled, CheckUnmounting, Admit, CallHook,
       SkipFailedFork, CallInnerHook, CallbackReturns, StopHandler, Return,
       Goto, gateVars

\* A handler keeps to a probe that may be active.
LEMMA HandlerContext ==
  ASSUME TypeOK, Shape, NEW c \in Contexts, Fire(c) \/ HandlerStep(c)
  PROVE  /\ pc' \in [Contexts -> ContextPhases]
         /\ ptype' \in [Contexts -> ProbeTypes \cup {"none"}]
         /\ cb' \in [Contexts -> Callbacks]
         /\ CtxInv'
<1>1. ActiveTypes' = ActiveTypes
  BY HandlerFrame DEF ActiveTypes, loaderVars
<1>2. hook \in [HookTypes -> Callbacks] /\ ProbeTypes \subseteq HookTypes
  BY DEF TypeOK, HookTypes
<1>3. CASE Fire(c)
  BY <1>1, <1>3 DEF Fire, TypeOK, Shape, ProbeInv, CtxInv, ContextPhases
<1>4. CASE HandlerStep(c)
  <2> DEFINE Moves == \E p \in ContextPhases \ {"idle"} :
               /\ pc[c] # "idle" /\ pc' = [pc EXCEPT ![c] = p]
               /\ ptype' = ptype
             Leaves == pc[c] # "idle" /\ Return(c)
  <2>1. (Moves /\ cb' \in [Contexts -> Callbacks]) \/ Leaves
    <3>1. CASE CheckEnabled(c) \/ CheckUnmounting(c)
      BY <3>1 DEF CheckEnabled, CheckUnmounting, Goto, ContextPhases, TypeOK
    <3>2. CASE Admit(c) \/ SkipFailedFork(c) \/ CallbackReturns(c)
      BY <3>2 DEF Admit, SkipFailedFork, CallbackReturns, Goto, ContextPhases, TypeOK
    <3>3. CASE CallHook(c)
      <4>1. pc[c] # "idle" /\ ptype[c] \in ProbeTypes
        <5>1. pc[c] # "idle"
          BY <3>3 DEF CallHook, Goto
        <5>2. ptype[c] \in ActiveTypes
          BY <5>1 DEF Shape, CtxInv
        <5>3. QED
          BY <5>1, <5>2, ActiveAreProbes DEF Shape
      <4>2. hook[ptype[c]] \in Callbacks
        BY <4>1, <1>2
      <4>3. QED
        BY <3>3, <4>2 DEF CallHook, Goto, ContextPhases, TypeOK
    <3>4. CASE CallInnerHook(c)
      <4>1. hook[InnerHook(ptype[c])] \in Callbacks
        BY <1>2 DEF InnerHook, HookTypes
      <4>2. QED
        BY <3>4, <4>1 DEF CallInnerHook, Goto, ContextPhases, TypeOK
    <3>5. CASE StopHandler(c)
      BY <3>5 DEF StopHandler
    <3>6. QED
      BY <1>4, <3>1, <3>2, <3>3, <3>4, <3>5 DEF HandlerStep
  <2>2. CASE Moves /\ cb' \in [Contexts -> Callbacks]
    BY <1>1, <2>2 DEF TypeOK, Shape, CtxInv
  <2>3. CASE Leaves
    BY <1>1, <2>3 DEF Return, TypeOK, Shape, CtxInv, ContextPhases, Callbacks
  <2>4. QED
    BY <2>1, <2>2, <2>3
<1>5. QED
  BY <1>3, <1>4

\* The reference count follows the handlers that hold a reference.
LEMMA HandlerCount ==
  ASSUME TypeOK, UsageCountsHandlers, NEW c \in Contexts, Fire(c) \/ HandlerStep(c)
  PROVE  usage' \in Nat /\ UsageCountsHandlers'
<1>0. IsFiniteSet(Counted) /\ Cardinality(Counted) \in Nat
  BY CountedFinite
<1>1. CASE Admit(c)
  <2>1. c \notin Counted /\ Counted' = Counted \cup {c}
    BY <1>1 DEF Admit, Goto, Counted, TypeOK
  <2>2. Cardinality(Counted') = Cardinality(Counted) + 1
    BY <1>0, <2>1, FS_AddElement
  <2>3. usage' = usage + 1
    BY <1>1 DEF Admit
  <2>4. QED
    BY <1>0, <2>2, <2>3 DEF UsageCountsHandlers
<1>2. CASE StopHandler(c)
  <2>1. c \in Counted /\ Counted' = Counted \ {c}
    BY <1>2 DEF StopHandler, Return, Counted, TypeOK
  <2>2. Cardinality(Counted') = Cardinality(Counted) - 1
    BY <1>0, <2>1, FS_RemoveElement
  <2>3. IsFiniteSet(Counted') /\ Cardinality(Counted') \in Nat
    BY <1>0, <2>1, FS_RemoveElement, FS_CardinalityType
  <2>4. usage' = usage - 1
    BY <1>2 DEF StopHandler
  <2>5. QED
    BY <1>0, <2>2, <2>3, <2>4 DEF UsageCountsHandlers
<1>3. CASE \/ Fire(c) \/ CheckEnabled(c) \/ CheckUnmounting(c) \/ CallHook(c)
           \/ SkipFailedFork(c) \/ CallInnerHook(c) \/ CallbackReturns(c)
  <2>1. Counted' = Counted /\ usage' = usage
    BY <1>3 DEF Fire, CheckEnabled, CheckUnmounting, CallHook, SkipFailedFork,
                CallInnerHook, CallbackReturns, Goto, Return, Counted, TypeOK,
                gateVars
  <2>2. QED
    BY <2>1 DEF UsageCountsHandlers, TypeOK
<1>4. QED
  BY <1>1, <1>2, <1>3 DEF HandlerStep

\* A handler enters the client only through a hook pointer, and there is none
\* that leads to an unloaded client.
LEMMA HandlerText ==
  ASSUME TypeOK, Shape, NEW c \in Contexts, Fire(c) \/ HandlerStep(c)
  PROVE  ClientTextInv'
<1> SUFFICES ASSUME client' = "absent", NEW d \in Contexts
             PROVE  d \notin InClient'
  BY DEF ClientTextInv
<1>1. client = "absent" /\ d \notin InClient
  BY HandlerFrame DEF clientVars, Shape, ClientTextInv
<1>2. \A t \in HookTypes : hook[t] # "client"
  BY <1>1 DEF Shape, ClientInv, HookTypes, ProbeTypes
<1>3. CASE CallHook(c)
  <2>1. pc[c] # "idle" /\ ptype[c] \in ProbeTypes
    <3>1. pc[c] # "idle"
      BY <1>3 DEF CallHook, Goto
    <3>2. ptype[c] \in ActiveTypes
      BY <3>1 DEF Shape, CtxInv
    <3>3. ActiveTypes \subseteq ProbeTypes
      BY ActiveAreProbes DEF Shape
    <3>4. QED
      BY <3>1, <3>2, <3>3
  <2>2. hook[ptype[c]] # "client"
    BY <1>2, <2>1 DEF HookTypes
  <2>3. QED
    BY <1>1, <1>3, <2>2 DEF CallHook, Goto, InClient, TypeOK
<1>4. CASE CallInnerHook(c)
  <2>1. hook[InnerHook(ptype[c])] # "client"
    BY <1>2 DEF InnerHook, HookTypes
  <2>2. QED
    BY <1>1, <1>4, <2>1 DEF CallInnerHook, Goto, InClient, TypeOK
<1>5. CASE \/ Fire(c) \/ CheckEnabled(c) \/ CheckUnmounting(c) \/ Admit(c)
           \/ SkipFailedFork(c) \/ CallbackReturns(c) \/ StopHandler(c)
  BY <1>1, <1>5 DEF Fire, CheckEnabled, CheckUnmounting, Admit, SkipFailedFork,
     CallbackReturns, StopHandler, Return, Goto, InClient, TypeOK
<1>6. QED
  BY <1>3, <1>4, <1>5 DEF HandlerStep

LEMMA HandlerIInv ==
  ASSUME IInv, NEW c \in Contexts, Fire(c) \/ HandlerStep(c)
  PROVE  IInv'
<1>1. TypeOK /\ Shape /\ UsageCountsHandlers
  BY DEF IInv
<1>2. TypeOK'
  BY <1>1, HandlerFrame, HandlerContext, HandlerCount DEF TypeOK, loaderVars, clientVars
<1>3. StepInv' /\ ClientInv' /\ GateInv'
  BY <1>1, HandlerFrame DEF Shape, StepInv, ClientInv, GateInv, loaderVars, clientVars
<1>4. ActiveTypes' = ActiveTypes /\ Removing' = Removing
  BY HandlerFrame DEF ActiveTypes, Removing, loaderVars
<1>5. ProbeInv'
  BY <1>1, <1>4, HandlerFrame DEF Shape, ProbeInv, loaderVars
<1>6. ClientTextInv'
  BY <1>1, HandlerText DEF Shape
<1>7. QED
  BY <1>1, <1>2, <1>3, <1>5, <1>6, HandlerContext, HandlerCount DEF IInv, Shape

-----------------------------------------------------------------------------
(***************************************************************************)
(* The steps of the loaders.                                               *)
(***************************************************************************)

LEMMA CountFrame ==
  ASSUME UsageCountsHandlers, pc' = pc, usage' = usage
  PROVE  UsageCountsHandlers'
BY DEF UsageCountsHandlers, Counted

LEMMA TextFrame ==
  ASSUME ClientTextInv, UNCHANGED ctxVars, client' = "absent" => client = "absent"
  PROVE  ClientTextInv'
BY DEF ClientTextInv, InClient, ctxVars

LEMMA InsmodIInv == IInv /\ Insmod => IInv'
<1> SUFFICES ASSUME IInv, Insmod PROVE IInv'
  OBVIOUS
<1> USE DEF IInv, Shape
<1>1. TypeOK'
  <2>1. FlagsOK'
    BY DEF Insmod, FlagsOK
  <2>2. RestOK'
    BY TypeParts DEF Insmod, RestOK, ModulePhases, HookTypes, ProbeTypes, Callbacks, clientVars, ctxVars
  <2>3. QED
    BY <2>1, <2>2, TypeParts
<1>2. StepInv' /\ ClientInv' /\ GateInv'
  BY DEF Insmod, TypeOK, StepInv, ClientInv, GateInv, HookTypes, ProbeTypes, clientVars
<1>3. probes = {} /\ \A c \in Contexts : pc[c] = "idle"
  BY DEF Insmod, ProbeInv, CtxInv, ActiveTypes
<1>4. ProbeInv' /\ CtxInv'
  BY <1>3 DEF Insmod, ProbeInv, CtxInv, ctxVars
<1>5. UsageCountsHandlers'
  <2>1. Counted' = {}
    BY <1>3 DEF Insmod, Counted, ctxVars
  <2>2. QED
    BY <2>1, FS_EmptySet DEF Insmod, UsageCountsHandlers
<1>6. ClientTextInv'
  BY TextFrame DEF Insmod, clientVars
<1>7. QED
  BY <1>1, <1>2, <1>4, <1>5, <1>6

\* The steps that register and unregister the probes.
LEMMA HookingIInv ==
  ASSUME ~MaySleep, IInv,
         RegisterHook \/ RegisterHookFails \/ UnregisterHook
           \/ Synchronize \/ InitFails \/ ExitDone
  PROVE  IInv'
<1> USE DEF IInv, Shape
<1>0. /\ RegisterOrder \in [1 .. 3 -> ProbeTypes]
      /\ UnregisterOrder \in [1 .. 3 -> ProbeTypes]
      /\ RegisterOrder' = RegisterOrder /\ UnregisterOrder' = UnregisterOrder
  BY Orders DEF RegisterOrder, UnregisterOrder
<1>1. /\ UNCHANGED <<hook, clientVars, ctxVars>>
      /\ UNCHANGED <<shook_enabled, unmounting, usage>>
  BY DEF RegisterHook, RegisterHookFails, UnregisterHook, Synchronize,
         InitFails, ExitDone, gateVars
<1>2. UsageCountsHandlers' /\ ClientTextInv'
  BY <1>1, CountFrame, TextFrame DEF clientVars, ctxVars
<1>3. CASE RegisterHook
  <2>1. TypeOK'
    BY <1>0, <1>1, <1>3 DEF RegisterHook, TypeOK, StepInv, ModulePhases, gateVars, clientVars, ctxVars
  <2>2. StepInv' /\ ClientInv' /\ GateInv'
    BY <1>1, <1>3 DEF RegisterHook, TypeOK, StepInv, ClientInv, GateInv, clientVars
  <2>3. ActiveTypes \subseteq ActiveTypes' /\ probes' \subseteq ActiveTypes'
    <3>1. step \in 1 .. 3 /\ ActiveTypes = {RegisterOrder[j] : j \in 1 .. step - 1}
      BY <1>3 DEF RegisterHook, StepInv, ActiveTypes
    <3>2. CASE step = 3
      BY <1>0, <1>3, <3>1, <3>2 DEF RegisterHook, ActiveTypes, ProbeInv
    <3>3. CASE step # 3
      <4>1. ActiveTypes' = {RegisterOrder[j] : j \in 1 .. step}
        BY <1>0, <1>3, <3>1, <3>3 DEF RegisterHook, ActiveTypes
      <4>2. QED
        BY <1>3, <3>1, <4>1 DEF RegisterHook, ProbeInv
    <3>4. QED
      BY <3>2, <3>3
  <2>4. ProbeInv' /\ CtxInv'
    BY <1>1, <1>3, <2>3 DEF RegisterHook, ProbeInv, CtxInv, ctxVars
  <2>5. QED
    BY <1>2, <2>1, <2>2, <2>4
<1>4. CASE RegisterHookFails
  <2>1. TypeOK'
    BY <1>1, <1>4 DEF RegisterHookFails, FirstToUnwind, TypeOK, StepInv, ModulePhases, gateVars, clientVars, ctxVars
  <2>2. StepInv' /\ ClientInv' /\ GateInv'
    BY <1>1, <1>4 DEF RegisterHookFails, FirstToUnwind, TypeOK, StepInv, ClientInv, GateInv, clientVars
  <2>3. ActiveTypes' = ActiveTypes
    BY <1>0, <1>4 DEF RegisterHookFails, FirstToUnwind, ActiveTypes
  <2>4. ProbeInv' /\ CtxInv'
    BY <1>1, <1>4, <2>3 DEF RegisterHookFails, ProbeInv, CtxInv, ctxVars
  <2>5. QED
    BY <1>2, <2>1, <2>2, <2>4
<1>5. CASE UnregisterHook
  <2>1. TypeOK'
    BY <1>1, <1>5 DEF UnregisterHook, TypeOK, ModulePhases, gateVars, clientVars, ctxVars
  <2>2. StepInv' /\ ClientInv' /\ GateInv'
    BY <1>1, <1>5 DEF UnregisterHook, TypeOK, StepInv, ClientInv, GateInv, clientVars
  <2>3. ActiveTypes' = ActiveTypes
    BY <1>0, <1>5 DEF UnregisterHook, ActiveTypes
  <2>4. Removing' = Removing
    BY <1>0, <1>5 DEF UnregisterHook, Removing
  <2>5. ProbeInv' /\ CtxInv'
    BY <1>1, <1>5, <2>3, <2>4 DEF UnregisterHook, ProbeInv, CtxInv, ctxVars
  <2>6. QED
    BY <1>2, <2>1, <2>2, <2>5
<1>6. CASE Synchronize
  <2>1. TypeOK'
    BY <1>1, <1>6 DEF Synchronize, StepInv, TypeOK, ModulePhases, gateVars, clientVars, ctxVars
  <2>2. StepInv' /\ ClientInv' /\ GateInv'
    BY <1>1, <1>6 DEF Synchronize, TypeOK, StepInv, ClientInv, GateInv, clientVars
  <2>3. ActiveTypes \ {Removing} \subseteq ActiveTypes'
    <3>1. CASE module = "unwind_sync"
      <4>1. /\ ActiveTypes = {RegisterOrder[j] : j \in 1 .. step}
            /\ Removing = RegisterOrder[step] /\ step \in 1 .. 2
            /\ ActiveTypes' = {RegisterOrder[j] : j \in 1 .. step - 1}
        BY <1>0, <1>6, <3>1 DEF Synchronize, ActiveTypes, Removing, StepInv
      <4>2. QED
        BY <4>1
    <3>2. CASE module = "unhook_sync"
      <4>1. /\ ActiveTypes = {UnregisterOrder[j] : j \in step .. 3}
            /\ Removing = UnregisterOrder[step] /\ step \in 1 .. 3
            /\ ActiveTypes' = {UnregisterOrder[j] : j \in step + 1 .. 3}
        BY <1>0, <1>6, <3>2 DEF Synchronize, ActiveTypes, Removing, StepInv
      <4>2. QED
        BY <4>1
    <3>3. QED
      BY <1>6, <3>1, <3>2 DEF Synchronize
  <2>4. \A c \in Contexts : ptype[c] # Removing
    BY <1>6 DEF Synchronize, InFlight, Asleep
  <2>5. ProbeInv'
    BY <1>6, <2>3 DEF Synchronize, ProbeInv
  <2>6. CtxInv'
    BY <1>1, <2>3, <2>4 DEF CtxInv, ctxVars
  <2>7. QED
    BY <1>2, <2>1, <2>2, <2>5, <2>6
<1>7. CASE InitFails \/ ExitDone
  <2>1. TypeOK'
    <3>1. FlagsOK'
      BY <1>7 DEF InitFails, ExitDone, TypeOK, FlagsOK, gateVars
    <3>2. RestOK'
      BY <1>1, <1>7, TypeParts DEF InitFails, ExitDone, RestOK, ModulePhases, gateVars, clientVars, ctxVars
    <3>3. QED
      BY <3>1, <3>2, TypeParts
  <2>2. StepInv' /\ ClientInv' /\ GateInv'
    BY <1>1, <1>7 DEF InitFails, ExitDone, TypeOK, StepInv, ClientInv, GateInv, clientVars
  <2>3. ActiveTypes = {} /\ probes' = probes /\ module' = "absent"
    BY <1>7 DEF InitFails, ExitDone, ActiveTypes
  <2>4. ActiveTypes' = {}
    BY <2>3 DEF ActiveTypes
  <2>5. ProbeInv' /\ CtxInv'
    BY <1>1, <2>3, <2>4 DEF ProbeInv, CtxInv, ctxVars
  <2>6. QED
    BY <1>2, <2>1, <2>2, <2>5
<1>8. QED
  BY <1>3, <1>4, <1>5, <1>6, <1>7

\* The steps during which all three probes are registered.
LEMMA HookedIInv ==
  ASSUME ~MaySleep, IInv,
         TrackerInit \/ InitDone \/ ExitBegins \/ ExitDisables
           \/ GraceEnds \/ TrackerFini \/ ClientInsmod \/ ClientExit
           \/ ClientStep
  PROVE  IInv'
<1> USE DEF IInv, Shape
<1>1. UNCHANGED <<probes, ctxVars, usage>>
  BY DEF TrackerInit, InitDone, ExitBegins, ExitDisables, GraceEnds,
         TrackerFini, ClientInsmod, ClientExit, ClientStep, InitShook,
         FiniShook, FreeClient, gateVars
<1>2. UsageCountsHandlers' /\ ClientTextInv'
  <2>1. UsageCountsHandlers'
    BY <1>1, CountFrame DEF ctxVars
  <2>2. CASE FreeClient
    BY <1>1, <2>1, <2>2 DEF FreeClient, ClientTextInv, InClient, Asleep, ctxVars
  <2>3. CASE ~FreeClient
    <3>1. client' = "absent" => client = "absent"
      BY <2>3 DEF TrackerInit, InitDone, ExitBegins, ExitDisables, GraceEnds,
         TrackerFini, ClientInsmod, ClientExit, ClientStep, InitShook,
         FiniShook, clientVars
    <3>2. QED
      BY <1>1, <2>1, <3>1, TextFrame
  <2>4. QED
    BY <2>2, <2>3
<1>3. CASE TrackerInit \/ TrackerFini
  <2>1. PICK t \in ProbeTypes, f \in {"tracker", "dummy"} : SetCallback(t, f)
    BY <1>3 DEF TrackerInit, TrackerFini, TrackerOrder, StepInv, ProbeTypes
  <2>2. UNCHANGED <<gateVars, clientVars>> /\ client = "absent"
    BY <1>3 DEF TrackerInit, TrackerFini, ClientInv
  <2>3. TypeOK'
    BY <1>1, <1>3, <2>1, <2>2 DEF TrackerInit, TrackerFini, SetCallback,
      TypeOK, StepInv, ModulePhases, HookTypes, Callbacks, gateVars,
      clientVars, ctxVars
  <2>4. StepInv' /\ ClientInv' /\ GateInv'
    <3>1. StepInv'
      BY <1>3, <2>2 DEF TrackerInit, TrackerFini, TypeOK, StepInv, gateVars
    <3>2. ClientInv'
      BY <1>3, <2>1, <2>2 DEF TrackerInit, TrackerFini, SetCallback, TypeOK,
        ClientInv, HookTypes, ProbeTypes, clientVars
    <3>3. GateInv'
      BY <1>3, <2>2 DEF TrackerInit, TrackerFini, GateInv, gateVars
    <3>4. QED
      BY <3>1, <3>2, <3>3
  <2>5. ProbeInv' /\ CtxInv'
    <3>1. ActiveTypes = ProbeTypes /\ ActiveTypes' = ProbeTypes
      BY <1>3, Orders DEF TrackerInit, TrackerFini, ActiveTypes, UnregisterOrder,
        RegisterOrder, ProbeTypes
    <3>2. QED
      BY <1>1, <1>3, <3>1 DEF TrackerInit, TrackerFini, ProbeInv, CtxInv, ctxVars
  <2>6. QED
    BY <1>2, <2>3, <2>4, <2>5
<1>4. CASE InitDone \/ ExitBegins \/ ExitDisables \/ GraceEnds
  <2>1. TypeOK'
    <3>1. FlagsOK'
      BY <1>4 DEF InitDone, ExitBegins, ExitDisables, GraceEnds, TypeOK, FlagsOK, gateVars
    <3>2. RestOK'
      BY <1>1, <1>4, TypeParts DEF InitDone, ExitBegins, ExitDisables, GraceEnds, RestOK,
      StepInv, ModulePhases, gateVars, clientVars, ctxVars
    <3>3. QED
      BY <3>1, <3>2, TypeParts
  <2>2. StepInv' /\ ClientInv' /\ GateInv'
    BY <1>1, <1>4 DEF InitDone, ExitBegins, ExitDisables, GraceEnds, TypeOK,
      StepInv, ClientInv, GateInv, gateVars, clientVars
  <2>3. ActiveTypes = ProbeTypes /\ ActiveTypes' = ProbeTypes
    BY <1>4 DEF InitDone, ExitBegins, ExitDisables, GraceEnds, ActiveTypes
  <2>4. ProbeInv' /\ CtxInv'
    BY <1>1, <1>4, <2>3 DEF InitDone, ExitBegins, ExitDisables, GraceEnds,
      ProbeInv, CtxInv, ctxVars
  <2>5. QED
    BY <1>2, <2>1, <2>2, <2>4
<1>5. CASE ClientInsmod \/ ClientExit \/ ClientStep
  <2>1. /\ module = "live" /\ UNCHANGED <<loaderVars, unmounting, shook_initialized>>
    BY <1>5 DEF ClientInsmod, ClientExit, ClientStep, InitShook, FiniShook,
      FreeClient, ClientInv, gateVars
  <2>2. TypeOK'
    <3>1. FlagsOK'
      BY <1>5, <2>1 DEF ClientInsmod, ClientExit, ClientStep, InitShook,
        FiniShook, FreeClient, TypeOK, FlagsOK, gateVars
    <3>2. RestOK'
      <4>1. CASE ClientInsmod \/ ClientExit \/ FreeClient
        BY <1>1, <2>1, <4>1, TypeParts DEF ClientInsmod, ClientExit, FreeClient,
          RestOK, ClientInv, loaderVars, ctxVars
      <4>2. CASE InitShook
        BY <1>1, <2>1, <4>2, TypeParts DEF InitShook, ClientOrder, SetCallback,
          RestOK, HookTypes, ProbeTypes, Callbacks, loaderVars, ctxVars
      <4>3. CASE FiniShook
        BY <1>1, <2>1, <4>3, TypeParts DEF FiniShook, ClientFiniOrder, SetCallback,
          RestOK, HookTypes, ProbeTypes, Callbacks, loaderVars, ctxVars
      <4>4. QED
        BY <1>5, <4>1, <4>2, <4>3 DEF ClientStep
    <3>3. QED
      BY <3>1, <3>2, TypeParts
  <2>3. ClientInv'
    <3>1. CASE ClientInsmod \/ ClientExit \/ FreeClient
      BY <2>1, <3>1 DEF ClientInsmod, ClientExit, FreeClient, ClientInv, loaderVars
    <3>2. CASE InitShook
      BY <2>1, <3>2, TypeParts DEF InitShook, ClientOrder, SetCallback, RestOK,
        ClientInv, HookTypes, ProbeTypes, loaderVars
    <3>3. CASE FiniShook
      BY <2>1, <3>3, TypeParts DEF FiniShook, ClientFiniOrder, SetCallback, RestOK,
        ClientInv, HookTypes, ProbeTypes, loaderVars
    <3>4. QED
      BY <1>5, <3>1, <3>2, <3>3 DEF ClientStep
  <2>4. StepInv' /\ GateInv'
    BY <2>1 DEF StepInv, GateInv, loaderVars
  <2>5. ProbeInv' /\ CtxInv'
    BY <1>1, <2>1 DEF ProbeInv, CtxInv, ActiveTypes, loaderVars, ctxVars
  <2>6. QED
    BY <1>2, <2>2, <2>3, <2>4, <2>5
<1>6. QED
  BY <1>3, <1>4, <1>5

-----------------------------------------------------------------------------

LEMMA InitIInv == Init => IInv
<1> SUFFICES ASSUME Init PROVE IInv
  OBVIOUS
<1>1. TypeOK
  <2>1. FlagsOK
    BY DEF Init, FlagsOK
  <2>2. RestOK
    BY DEF Init, RestOK, ModulePhases, ContextPhases, Callbacks, HookTypes, ProbeTypes
  <2>3. QED
    BY <2>1, <2>2, TypeParts
<1>2. Shape
  BY DEF Init, Shape, StepInv, ClientInv, GateInv, ProbeInv, CtxInv, ClientTextInv,
     InClient, HookTypes, ProbeTypes
<1>3. UsageCountsHandlers
  <2>1. Counted = {}
    BY DEF Init, Counted
  <2>2. QED
    BY <2>1, FS_EmptySet DEF Init, UsageCountsHandlers
<1>4. QED
  BY <1>1, <1>2, <1>3 DEF IInv

LEMMA NextIInv == ~MaySleep => (IInv /\ [Next]_vars => IInv')
<1> SUFFICES ASSUME ~MaySleep, IInv, [Next]_vars PROVE IInv'
  OBVIOUS
<1>1. CASE UNCHANGED vars
  <2>1. TypeOK'
    BY <1>1 DEF IInv, TypeOK, vars, gateVars, loaderVars, clientVars, ctxVars
  <2>2. Shape'
    <3> USE DEF vars, gateVars, loaderVars, clientVars, ctxVars, IInv, Shape
    <3>1. StepInv' /\ ClientInv' /\ GateInv'
      BY <1>1 DEF StepInv, ClientInv, GateInv
    <3>2. ProbeInv' /\ CtxInv'
      BY <1>1 DEF ProbeInv, CtxInv, ActiveTypes, Removing
    <3>3. ClientTextInv'
      BY <1>1 DEF ClientTextInv, InClient
    <3>4. QED
      BY <3>1, <3>2, <3>3
  <2>3. UsageCountsHandlers'
    BY <1>1, CountFrame DEF IInv, vars, gateVars, ctxVars
  <2>4. QED
    BY <2>1, <2>2, <2>3 DEF IInv
<1>2. QED
  BY <1>1, HandlerIInv, InsmodIInv, HookingIInv, HookedIInv DEF Next, LoaderStep

\* The inductive invariant holds in every reachable state.
THEOREM SystemHookInvariant == ~MaySleep => (Spec => []IInv)
<1> SUFFICES ASSUME ~MaySleep PROVE Spec => []IInv
  OBVIOUS
<1>1. IInv /\ [Next]_vars => IInv'
  BY NextIInv
<1>2. QED
  BY InitIInv, <1>1, PTL DEF Spec

\* Type correctness of the gate, the callbacks, the loaders and the handlers.
THEOREM SystemHookTypeCorrect == ~MaySleep => (Spec => []TypeOK)
<1>1. IInv => TypeOK
  BY DEF IInv
<1>2. QED
  BY <1>1, SystemHookInvariant, PTL

\* usage is exact for any number of handlers in flight: start_handler and
\* stop_handler pair up on every path.
THEOREM UsageIsExact == ~MaySleep => (Spec => []UsageCountsHandlers)
<1>1. IInv => UsageCountsHandlers
  BY DEF IInv
<1>2. QED
  BY <1>1, SystemHookInvariant, PTL

\* When the image of shook is freed no handler runs in it and no probe
\* points into it, although the grace period on usage guarantees neither:
\* the argument is that each probe is unregistered and then waited for.
THEOREM UnloadIsSafe == ~MaySleep => (Spec => []NoHandlerAfterUnload)
<1>1. IInv => NoHandlerAfterUnload
  BY DEF IInv, Shape, ProbeInv, CtxInv, ActiveTypes, NoHandlerAfterUnload
<1>2. QED
  BY <1>1, SystemHookInvariant, PTL

\* The exit function of the client leaves no callback of it in shook's table.
THEOREM CallbacksAreLive == ~MaySleep => (Spec => []NoDanglingCallback)
<1>1. IInv => NoDanglingCallback
  BY DEF IInv, Shape, ClientInv, NoDanglingCallback, HookTypes, ProbeTypes
<1>2. QED
  BY <1>1, SystemHookInvariant, PTL

\* No handler executes a client whose image is freed: the pointers are gone
\* before the grace period in which the kernel waits for the last caller.
THEOREM ClientUnloadIsSafe == ~MaySleep => (Spec => []ClientUnused)
<1>1. IInv => ClientUnused
  BY DEF IInv, Shape, ClientTextInv, ClientUnused, InClient
<1>2. QED
  BY <1>1, SystemHookInvariant, PTL

\* Once shook_enabled was cleared by the unload the gate admits nobody.
THEOREM GateStaysShut == ~MaySleep => (Spec => AdmissionsOnlyDrain)
<1> SUFFICES ASSUME ~MaySleep PROVE Spec => AdmissionsOnlyDrain
  OBVIOUS
<1> DEFINE Late == module \in {"grace", "tracker_fini", "unhooking", "unhook_sync"}
<1>1. IInv /\ [Next]_vars => [Late => Inside' \subseteq Inside]_vars
  <2> SUFFICES ASSUME IInv, [Next]_vars, Late PROVE Inside' \subseteq Inside
    OBVIOUS
  <2>1. ~shook_enabled
    BY DEF IInv, Shape, GateInv
  <2>2. ASSUME NEW c \in Contexts, Fire(c) \/ HandlerStep(c)
        PROVE  Inside' \subseteq Inside
    BY <2>1, <2>2 DEF IInv, TypeOK, Inside, Fire, HandlerStep, CheckEnabled,
      CheckUnmounting, Admit, CallHook, SkipFailedFork, CallInnerHook,
      CallbackReturns, StopHandler, Return, Goto
  <2>3. CASE UNCHANGED pc
    BY <2>3 DEF Inside
  <2>4. QED
    BY <2>2, <2>3 DEF Next, LoaderStep, ClientStep, Insmod, ExitBegins,
      RegisterHook, RegisterHookFails, UnregisterHook, Synchronize, InitFails,
      TrackerInit, InitDone, ExitDisables, GraceEnds, TrackerFini, ExitDone,
      ClientInsmod, ClientExit, InitShook, FiniShook, FreeClient, vars, ctxVars
<1>2. QED
  BY <1>1, SystemHookInvariant, PTL DEF Spec, AdmissionsOnlyDrain
=============================================================================
