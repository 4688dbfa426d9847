---------------------------- MODULE StackTracker ----------------------------
(***************************************************************************)
(* ptracker_stack.c: a tracked task is recognised by a word at the end of  *)
(* its kernel stack, which packs the address of its data with a checksum   *)
(* and an enable bit.                                                      *)
(*                                                                         *)
(* A word is the set of its bits that are 1, so & is \cap, | is \cup.  The *)
(* functions read the word through a plain pointer, several times: each    *)
(* use is a load of its own, which covers the builds that merge some.  The *)
(* task itself runs its queries and its deletion, NMIs run queries on top  *)
(* of it, and adders on other CPUs (a writer of the proc file, a forking   *)
(* parent) store to the word; interrupts are off in an adder, and that     *)
(* keeps nobody else away.                                                 *)
(***************************************************************************)
EXTENDS Integers, FiniteSets

CONSTANTS
  Tasks, Stacks, Adders,
  Addresses,    \* addresses of proc_data
  None          \* no task, no stack

VARIABLES
  stack,    \* per task: task->stack, or None (before its fork, after its end)
  gone,     \* the tasks whose stack was released
  word,     \* per stack: *last_entry
  add,      \* per adder: where it is in patch_thread_stack
  frame,    \* per task and level: where its query or deletion is
  deleted,  \* history: the data that deletions returned
  given,    \* history, per task: the data it was to be tracked with
  past,     \* history, per stack: the tasks that had it
  latest    \* history, per task: the word when its deletion began, or None
            \* once another store overlapped the deletion

vars == <<stack, gone, word, add, frame, deleted, given, past, latest>>

-----------------------------------------------------------------------------
(***************************************************************************)
(* The word.                                                               *)
(***************************************************************************)

Bits == 0 .. 63
PTR_THR == 47                   \* the threshold bit
PTR_USED_MASK == 0 .. 47
PTR_FREE_MASK == 48 .. 63
PTR_CRC_MASK == 48 .. 61
PTR_CCB_MASK == 0 .. 13
PROCESS_BIT == 62
ENABLED_BIT == 63
CRC_MAGIC == {2, 3}             \* 0xc

Zero == {}
Xor(v, w) == (v \ w) \cup (w \ v)
Left(w, n) == {b + n : b \in w}
Right(w, n) == {b - n : b \in w}

\* Addresses the kernel allocates from are canonical with the high half set.
KernelAddress(w) == w \subseteq Bits /\ PTR_THR .. 63 \subseteq w

ASSUME AddressAssumption == \A d \in Addresses : KernelAddress(d)
ASSUME NoneAssumption == None \notin Tasks /\ None \notin Stacks

\* Mutant: the checksum is not mixed with CRC_MAGIC.
MagicEntryPlain(d) ==
  LET entry == d \cap PTR_USED_MASK
      crc == Left(entry \cap PTR_CCB_MASK, 48)
  IN ((entry \cup crc) \ {PROCESS_BIT}) \cup {ENABLED_BIT}

\* The word that patch_thread_stack builds for the address d.
MagicEntry(d) ==
  LET entry == d \cap PTR_USED_MASK
      crc == Left(Xor(entry \cap PTR_CCB_MASK, CRC_MAGIC), 48)
  IN ((entry \cup crc) \ {PROCESS_BIT}) \cup {ENABLED_BIT}

\* check_crc, whose argument is loaded once for each side of the comparison.
check_crc(v, w) ==
  Xor(v \cap PTR_CCB_MASK, CRC_MAGIC) = Right(w \cap PTR_CRC_MASK, 48)

\* Mutant: the sign is not extended.
BuildPtrPlain(v, w) == PTR_USED_MASK \cap w

\* build_ptr, whose argument is loaded for the test and for the value.
build_ptr(v, w) ==
  IF PTR_THR \in v THEN PTR_FREE_MASK \cup w ELSE PTR_USED_MASK \cap w

-----------------------------------------------------------------------------
(***************************************************************************)
(* The life of tasks and their stacks.                                     *)
(***************************************************************************)

Levels == {"task", "nmi"}
Idle == [op |-> "none", pc |-> "idle", load |-> Zero, data |-> Zero]
NotAdding == [pc |-> "idle", task |-> None, stack |-> None, data |-> Zero]

Owned(s) == \E t \in Tasks : stack[t] = s

\* A fork: the stack may be one that was used before, and is cleared.
NewTask(t, s) ==
  /\ stack[t] = None /\ t \notin gone /\ ~Owned(s)
  /\ stack' = [stack EXCEPT ![t] = s]
  /\ word' = [word EXCEPT ![s] = Zero]
  /\ past' = [past EXCEPT ![s] = @ \cup {t}]
  /\ UNCHANGED <<gone, add, frame, deleted, given, latest>>

\* The last context switch away from a task that ran its exit.
FreeStack(t) ==
  /\ stack[t] # None
  /\ frame[<<t, "task">>].op = "exited" /\ frame[<<t, "nmi">>] = Idle
  /\ stack' = [stack EXCEPT ![t] = None]
  /\ gone' = gone \cup {t}
  /\ UNCHANGED <<word, add, frame, deleted, given, past, latest>>

-----------------------------------------------------------------------------
(***************************************************************************)
(* tracker_add: patch_thread_stack.                                        *)
(***************************************************************************)

\* The caller found the task; it may be gone when the function gets to it.
\* The address is a new one, or NULL from an attach callback that failed.
CallAdd(a, t, d) ==
  /\ add[a] = NotAdding
  /\ stack[t] # None
  /\ d # Zero => \A u \in Tasks : d \notin given[u]
  /\ add' = [add EXCEPT ![a] = [pc |-> "stack", task |-> t, stack |-> None,
                                data |-> d]]
  /\ given' = [given EXCEPT ![t] = @ \cup {d}]
  /\ UNCHANGED <<stack, gone, word, frame, deleted, past, latest>>

\* Mutant: task_stack_page is not tested.
LastEntryUntested(a) ==
  /\ add[a].pc = "stack"
  /\ add' = [add EXCEPT ![a].pc = "store", ![a].stack = stack[add[a].task]]
  /\ UNCHANGED <<stack, gone, word, frame, deleted, given, past, latest>>

\* last_entry_size: without a stack the result is -EINVAL, which tracker_add
\* does not pass on.
LastEntry(a) ==
  /\ add[a].pc = "stack"
  /\ LET s == stack[add[a].task] IN
     add' = [add EXCEPT ![a] =
               IF s = None THEN NotAdding ELSE [@ EXCEPT !.pc = "store",
                                                         !.stack = s]]
  /\ UNCHANGED <<stack, gone, word, frame, deleted, given, past, latest>>

\* *last_entry = magic_entry.  By now the stack may be another task's.
StoreEntry(a) ==
  /\ add[a].pc = "store"
  /\ LET s == add[a].stack IN
     /\ word' = [word EXCEPT ![s] = MagicEntry(add[a].data)]
     /\ latest' = [t \in Tasks |-> IF stack[t] = s THEN None ELSE latest[t]]
  /\ add' = [add EXCEPT ![a] = NotAdding]
  /\ UNCHANGED <<stack, gone, frame, deleted, given, past>>

-----------------------------------------------------------------------------
(***************************************************************************)
(* tracker_del, query_tracker and query_data_tracker.  The loads of        *)
(* get_magic_entry are "ccb", "crc" and "enabled"; tracker_del runs it     *)
(* twice, the second time in get_patched_data ("again" ...).               *)
(***************************************************************************)

\* The task executes at this level: an NMI on top of it keeps it waiting.
Runs(t, l) == stack[t] # None /\ (l = "task" => frame[<<t, "nmi">>] = Idle)

Call(t, l, op) ==
  /\ Runs(t, l) /\ frame[<<t, l>>] = Idle
  /\ frame' = [frame EXCEPT ![<<t, l>>] =
                 [Idle EXCEPT !.op = op,
                              !.pc = IF op = "data" THEN "again" ELSE "ccb"]]
  /\ latest' = IF op = "del" THEN [latest EXCEPT ![t] = word[stack[t]]]
               ELSE latest
  /\ UNCHANGED <<stack, gone, word, add, deleted, given, past>>

\* A callback of the scheduler asks, the exit wrapper deletes, a PMI asks.
CallQuery(t) == Call(t, "task", "query")
CallDel(t) == Call(t, "task", "del")
CallQueryData(t) == Call(t, "nmi", "data")

\* One step of the function at this level; new is the frame after it.
Step(t, l, pc, new) ==
  /\ Runs(t, l) /\ frame[<<t, l>>].pc = pc
  /\ frame' = [frame EXCEPT ![<<t, l>>] = new]
  /\ UNCHANGED <<stack, gone, add, deleted, given, past, latest>>

At(t, l, pc) == [frame[<<t, l>>] EXCEPT !.pc = pc]
Word(t) == word[stack[t]]

\* get_magic_entry returned NULL: nothing to delete, nothing to report, or, in
\* get_patched_data under tracker_del, no data for an entry that is cleared.
Missed(t, l, pc) ==
  At(t, l, IF pc \in {"crc", "enabled"} THEN "done"
           ELSE IF frame[<<t, l>>].op = "del" THEN "restore" ELSE "done")

LoadCcb(t, l) ==
  /\ \E pc \in {<<"ccb", "crc">>, <<"again", "again_crc">>} :
       Step(t, l, pc[1], [At(t, l, pc[2]) EXCEPT !.load = Word(t)])
  /\ UNCHANGED word

LoadCrc(t, l) ==
  /\ \E pc \in {<<"crc", "enabled">>, <<"again_crc", "again_enabled">>} :
       Step(t, l, pc[1], IF check_crc(frame[<<t, l>>].load, Word(t))
                         THEN At(t, l, pc[2]) ELSE Missed(t, l, pc[1]))
  /\ UNCHANGED word

\* A query is done, a deletion goes on to get_patched_data.
LoadEnabled(t, l) ==
  /\ \/ Step(t, l, "enabled",
             IF ENABLED_BIT \in Word(t) /\ frame[<<t, l>>].op = "del"
             THEN At(t, l, "again") ELSE At(t, l, "done"))
     \/ Step(t, l, "again_enabled",
             IF ENABLED_BIT \in Word(t) THEN At(t, l, "thr")
             ELSE Missed(t, l, "again_enabled"))
  /\ UNCHANGED word

\* build_ptr(*magic_entry).
LoadThr(t, l) ==
  /\ Step(t, l, "thr", [At(t, l, "value") EXCEPT !.load = Word(t)])
  /\ UNCHANGED word

LoadValue(t, l) ==
  /\ Step(t, l, "value",
          [At(t, l, IF frame[<<t, l>>].op = "del" THEN "restore" ELSE "done")
             EXCEPT !.data = build_ptr(frame[<<t, l>>].load, Word(t))])
  /\ UNCHANGED word

\* Mutant: the word is left as it is.
RestoreNothing(t) ==
  Step(t, "task", "restore", At(t, "task", "done")) /\ UNCHANGED word

\* restore_thread_stack: an entry stored meanwhile is lost.
Restore(t) ==
  /\ Step(t, "task", "restore", At(t, "task", "done"))
  /\ word' = [word EXCEPT ![stack[t]] = Zero]

\* The function returns; after its deletion a task only goes on to its end.
Return(t, l) ==
  /\ Runs(t, l) /\ frame[<<t, l>>].pc = "done"
  /\ frame' = [frame EXCEPT ![<<t, l>>] =
                 IF frame[<<t, l>>].op = "del" THEN [Idle EXCEPT !.op = "exited"]
                 ELSE Idle]
  /\ deleted' = IF frame[<<t, l>>].op = "del" THEN deleted \cup {frame[<<t, l>>].data}
                ELSE deleted
  /\ UNCHANGED <<stack, gone, word, add, given, past, latest>>

-----------------------------------------------------------------------------

Init ==
  /\ stack = [t \in Tasks |-> None]
  /\ gone = {}
  /\ word = [s \in Stacks |-> Zero]
  /\ add = [a \in Adders |-> NotAdding]
  /\ frame = [x \in Tasks \X Levels |-> Idle]
  /\ deleted = {}
  /\ given = [t \in Tasks |-> {}]
  /\ past = [s \in Stacks |-> {}]
  /\ latest = [t \in Tasks |-> None]

FrameStep(t, l) ==
  \/ LoadCcb(t, l) \/ LoadCrc(t, l) \/ LoadEnabled(t, l)
  \/ LoadThr(t, l) \/ LoadValue(t, l) \/ Return(t, l)

Next ==
  \/ \E t \in Tasks :
       \/ \E s \in Stacks : NewTask(t, s)
       \/ FreeStack(t) \/ CallQuery(t) \/ CallDel(t) \/ CallQueryData(t)
       \/ Restore(t)
       \/ \E l \in Levels : FrameStep(t, l)
  \/ \E a \in Adders :
       \/ \E t \in Tasks, d \in Addresses \cup {Zero} : CallAdd(a, t, d)
       \/ LastEntry(a) \/ StoreEntry(a)

Spec == Init /\ [][Next]_vars

-----------------------------------------------------------------------------
(***************************************************************************)
(* Properties.                                                             *)
(***************************************************************************)

Words == {Zero} \cup {MagicEntry(d) : d \in Addresses \cup {Zero}}
PCs == {"idle", "ccb", "crc", "enabled", "again", "again_crc", "again_enabled",
        "thr", "value", "restore", "done"}

\* The values of the variables; a word is zero or the tag of an address, and
\* who is about to store has a stack to store to.
TypeOK ==
  /\ stack \in [Tasks -> Stacks \cup {None}] /\ gone \subseteq Tasks
  /\ word \in [Stacks -> Words]
  /\ add \in [Adders -> [pc : {"idle", "stack", "store"},
                         task : Tasks \cup {None}, stack : Stacks \cup {None},
                         data : Addresses \cup {Zero}]]
  /\ \A a \in Adders :
       /\ (add[a].pc = "stack" => add[a].task # None)
       /\ (add[a].pc = "store" => add[a].stack # None)
  /\ frame \in [Tasks \X Levels ->
                  [op : {"none", "query", "del", "data", "exited"}, pc : PCs,
                   load : Words, data : SUBSET Bits]]
  /\ deleted \subseteq SUBSET Bits
  /\ given \in [Tasks -> SUBSET (Addresses \cup {Zero})]
  /\ past \in [Stacks -> SUBSET Tasks]

\* The data a stack may carry: what was meant for the tasks that had it.
GivenOn(s) == UNION {given[t] : t \in past[s]}

\* A query or deletion returns NULL or an address that was registered, never
\* one put together from two words or from a word that is no tag.  It is the
\* task's own, unless an adder came too late for an earlier owner of the stack;
\* and a NULL registered first must not be replaced between the loads of
\* build_ptr.
Genuine ==
  \A t \in Tasks, l \in Levels :
    /\ frame[<<t, l>>].pc \in {"done", "restore"} /\ Zero \notin GivenOn(stack[t])
    => frame[<<t, l>>].data \in {Zero} \cup GivenOn(stack[t])

\* Data that a deletion returned, which the exit wrapper frees, is in no word,
\* and no query that is under way will return it.
DeletedIsGone ==
  \A d \in deleted \cap Addresses :
    /\ \A s \in Stacks : word[s] # MagicEntry(d)
    /\ \A t \in Tasks, l \in Levels : frame[<<t, l>>].data # d

\* A deletion that no addition overlaps returns what the word said when it
\* began, although NMIs read the word in between.
DeletesLatest ==
  \A t \in Tasks :
    frame[<<t, "task">>].op = "del" /\ frame[<<t, "task">>].pc = "done" =>
      \/ latest[t] = None
      \/ latest[t] = Zero /\ frame[<<t, "task">>].data = Zero
      \/ latest[t] = MagicEntry(frame[<<t, "task">>].data)
=============================================================================
