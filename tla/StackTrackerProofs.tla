------------------------- MODULE StackTrackerProofs -------------------------
(***************************************************************************)
(* Proofs about StackTracker, for any tasks, stacks and adders and for any *)
(* set of kernel addresses: first what a tag says of its address, bit by   *)
(* bit, then the invariants.                                               *)
(***************************************************************************)
EXTENDS StackTracker, TLAPS

Loadable == Addresses \cup {Zero}

-----------------------------------------------------------------------------
(***************************************************************************)
(* The word.                                                               *)
(***************************************************************************)

\* The bits of a tag: the low bits of the address, the checksum, the enable bit.
LEMMA TagBits ==
  ASSUME NEW d, d \subseteq Bits, NEW b
  PROVE  b \in MagicEntry(d) <=>
           \/ b \in d /\ b \in 0 .. 47
           \/ b \in 48 .. 61 /\ ((b - 48 \in d) # (b - 48 \in CRC_MAGIC))
           \/ b = 63
<1> DEFINE low == (d \cap PTR_USED_MASK) \cap PTR_CCB_MASK
           mix == Xor(low, CRC_MAGIC)
           crc == Left(mix, 48)
<1>1. MagicEntry(d) =
        (((d \cap PTR_USED_MASK) \cup crc) \ {PROCESS_BIT}) \cup {ENABLED_BIT}
  BY DEF MagicEntry
<1>2. \A x : x \in mix <=> x \in 0 .. 13 /\ ((x \in d) # (x \in CRC_MAGIC))
  BY DEF Xor, PTR_USED_MASK, PTR_CCB_MASK, CRC_MAGIC, Bits
<1>3. b \in crc <=> \E x \in mix : b = x + 48
  BY DEF Left
<1> HIDE DEF mix, crc
<1>4. b \in crc <=> b \in 48 .. 61 /\ ((b - 48 \in d) # (b - 48 \in CRC_MAGIC))
  <2>1. CASE b \in crc
    <3>1. PICK x \in mix : b = x + 48
      BY <1>3, <2>1
    <3>2. x \in 0 .. 13 /\ b - 48 = x
      BY <1>2, <3>1
    <3> QED
      BY <1>2, <2>1, <3>1, <3>2
  <2>2. CASE b \in 48 .. 61 /\ ((b - 48 \in d) # (b - 48 \in CRC_MAGIC))
    <3>1. b - 48 \in 0 .. 13 /\ b = (b - 48) + 48
      BY <2>2
    <3> QED
      BY <1>2, <1>3, <2>2, <3>1
  <2> QED
    BY <2>1, <2>2
<1> QED
  BY <1>1, <1>4 DEF PTR_USED_MASK, PROCESS_BIT, ENABLED_BIT

\* The tag of an address passes the test of the checksum, and is enabled; a
\* word that was cleared passes no test.
LEMMA TagIsAccepted ==
  ASSUME NEW d, d \subseteq Bits
  PROVE  /\ check_crc(MagicEntry(d), MagicEntry(d))
         /\ ENABLED_BIT \in MagicEntry(d)
         /\ MagicEntry(d) # Zero
<1> DEFINE w == MagicEntry(d)
<1>1. \A b : b \in Xor(w \cap PTR_CCB_MASK, CRC_MAGIC) <=>
             b \in 0 .. 13 /\ ((b \in d) # (b \in CRC_MAGIC))
  BY TagBits DEF Xor, PTR_CCB_MASK, CRC_MAGIC
<1>2. \A b : b \in w \cap PTR_CRC_MASK <=>
             b \in 48 .. 61 /\ ((b - 48 \in d) # (b - 48 \in CRC_MAGIC))
  BY TagBits DEF PTR_CRC_MASK
<1>3. \A b : b \in Right(w \cap PTR_CRC_MASK, 48) <=>
             b \in 0 .. 13 /\ ((b \in d) # (b \in CRC_MAGIC))
  <2> TAKE b
  <2>1. b \in Right(w \cap PTR_CRC_MASK, 48) <=>
          \E x \in w \cap PTR_CRC_MASK : b = x - 48
    BY DEF Right
  <2>2. CASE b \in Right(w \cap PTR_CRC_MASK, 48)
    <3>1. PICK x \in w \cap PTR_CRC_MASK : b = x - 48
      BY <2>1, <2>2
    <3> QED
      BY <1>2, <2>2, <3>1
  <2>3. CASE b \in 0 .. 13 /\ ((b \in d) # (b \in CRC_MAGIC))
    <3>1. b + 48 \in 48 .. 61 /\ (b + 48) - 48 = b
      BY <2>3
    <3>2. b + 48 \in w \cap PTR_CRC_MASK
      BY <1>2, <2>3, <3>1
    <3> QED
      BY <2>1, <2>3, <3>1, <3>2
  <2> QED
    BY <2>2, <2>3
<1>4. Xor(w \cap PTR_CCB_MASK, CRC_MAGIC) = Right(w \cap PTR_CRC_MASK, 48)
  BY <1>1, <1>3
<1>5. ENABLED_BIT \in w
  BY TagBits DEF ENABLED_BIT
<1> QED
  BY <1>4, <1>5 DEF check_crc, Zero

\* build_ptr gives back the address of the tag it loaded last, if the tag it
\* loaded first was that of an address, too.
LEMMA TagIsAddress ==
  ASSUME NEW c, NEW d, KernelAddress(c), KernelAddress(d)
  PROVE  build_ptr(MagicEntry(c), MagicEntry(d)) = d
<1>1. PTR_THR \in MagicEntry(c)
  BY TagBits DEF PTR_THR, KernelAddress
<1>2. d \subseteq 0 .. 63 /\ 48 .. 63 \subseteq d
  BY DEF KernelAddress, Bits, PTR_THR
<1>3. ASSUME NEW b PROVE b \in PTR_FREE_MASK \cup MagicEntry(d) <=> b \in d
  <2>1. b \in MagicEntry(d) <=>
          \/ b \in d /\ b \in 0 .. 47
          \/ b \in 48 .. 61 /\ ((b - 48 \in d) # (b - 48 \in CRC_MAGIC))
          \/ b = 63
    BY <1>2, TagBits DEF Bits
  <2>2. b \in d => b \in 0 .. 47 \/ b \in 48 .. 63
    BY <1>2
  <2>3. b \in 48 .. 61 \/ b = 63 => b \in 48 .. 63
    OBVIOUS
  <2> QED
    BY <1>2, <2>1, <2>2, <2>3 DEF PTR_FREE_MASK
<1>4. PTR_FREE_MASK \cup MagicEntry(d) = d
  BY <1>3
<1> QED
  BY <1>1, <1>4 DEF build_ptr

\* A mixture of the tag of NULL with another tag is not an address.
LEMMA TornTag ==
  ASSUME NEW d, KernelAddress(d)
  PROVE  /\ ~KernelAddress(build_ptr(MagicEntry(Zero), MagicEntry(d)))
         /\ ~KernelAddress(build_ptr(MagicEntry(d), MagicEntry(Zero)))
         /\ ~KernelAddress(build_ptr(MagicEntry(Zero), MagicEntry(Zero)))
<1>1. Zero \subseteq Bits
  BY DEF Zero
<1>2. PTR_THR \notin MagicEntry(Zero)
  BY <1>1, TagBits DEF PTR_THR, Zero
<1>3. 48 \notin build_ptr(MagicEntry(Zero), MagicEntry(d))
  BY <1>2 DEF build_ptr, PTR_USED_MASK
<1>4. PTR_THR \notin build_ptr(MagicEntry(d), MagicEntry(Zero))
  BY <1>2 DEF build_ptr, PTR_FREE_MASK, PTR_USED_MASK, PTR_THR
<1>5. PTR_THR \notin build_ptr(MagicEntry(Zero), MagicEntry(Zero))
  BY <1>2 DEF build_ptr, PTR_USED_MASK
<1> QED
  BY <1>3, <1>4, <1>5 DEF KernelAddress, PTR_THR

\* So the address that build_ptr gives is that of the tag it loaded last.
LEMMA LastTag ==
  ASSUME NEW c \in Loadable, NEW e \in Loadable, NEW d \in Addresses,
         build_ptr(MagicEntry(c), MagicEntry(e)) = d
  PROVE  e = d
<1>1. KernelAddress(d)
  BY AddressAssumption
<1>2. c = Zero \/ KernelAddress(c)
  BY AddressAssumption DEF Loadable
<1>3. e = Zero \/ KernelAddress(e)
  BY AddressAssumption DEF Loadable
<1> QED
  BY <1>1, <1>2, <1>3, TornTag, TagIsAddress

\* Different addresses have different tags, and none has the tag of NULL.
LEMMA TagsDiffer ==
  ASSUME NEW c \in Loadable, NEW d \in Addresses, MagicEntry(c) = MagicEntry(d)
  PROVE  c = d
<1>1. c = Zero \/ KernelAddress(c)
  BY AddressAssumption DEF Loadable
<1>2. KernelAddress(d)
  BY AddressAssumption
<1>3. \A e : KernelAddress(e) => PTR_THR \in MagicEntry(e)
  BY TagBits DEF PTR_THR, KernelAddress
<1>4. PTR_THR \notin MagicEntry(Zero)
  BY TagBits DEF PTR_THR, Zero
<1> QED
  BY <1>1, <1>2, <1>3, <1>4, TagIsAddress

\* A tag is not a cleared word.
LEMMA TagNotZero == \A d : MagicEntry(d) # Zero
BY DEF MagicEntry, Zero, ENABLED_BIT

LEMMA AddressNotZero == \A d \in Addresses : d # Zero
BY AddressAssumption DEF KernelAddress, Zero, PTR_THR

-----------------------------------------------------------------------------
(***************************************************************************)
(* What the steps preserve.                                                *)
(***************************************************************************)

\* The type of a frame.
FrameRecords ==
  [op : {"none", "query", "del", "data", "exited"}, pc : PCs, load : Words,
   data : SUBSET Bits]

\* Tags(s): the words that stores made for the tasks of the stack s may leave.
Tags(s) == {MagicEntry(d) : d \in GivenOn(s)}

\* Who is about to store has a task of the stack, and the data it was given.
AddInv ==
  \A a \in Adders :
    /\ add[a].pc \in {"stack", "store"} =>
         add[a].task \in Tasks /\ add[a].data \in given[add[a].task]
    /\ add[a].pc = "store" =>
         add[a].stack \in Stacks /\ add[a].task \in past[add[a].stack]

\* A stack belongs to one task, which is one of those that had it.
StackInv ==
  /\ \A t \in Tasks : stack[t] # None => t \in past[stack[t]]
  /\ \A t, u \in Tasks : stack[t] = stack[u] /\ stack[t] # None => t = u

\* A word is cleared or a tag of the stack's own.
WordInv == \A s \in Stacks : word[s] = Zero \/ word[s] \in Tags(s)

\* What operation may be at which level, and where it may be.
Shape(l, r) ==
  /\ r.op \in IF l = "task" THEN {"none", "query", "del", "exited"}
                            ELSE {"none", "data"}
  /\ r.pc = "idle" <=> r.op \in {"none", "exited"}
  /\ r.pc = "idle" => r.data = Zero
  /\ r.pc = "restore" => r.op = "del"

ShapeInv ==
  \A t \in Tasks, l \in Levels :
    /\ Shape(l, frame[<<t, l>>])
    /\ stack[t] = None => frame[<<t, l>>].pc = "idle"

\* Between the test of the tag and the end of its use nobody clears the word.
LoadInv ==
  \A t \in Tasks, l \in Levels :
    /\ frame[<<t, l>>].pc \in {"thr", "value"} => word[stack[t]] # Zero
    /\ frame[<<t, l>>].pc = "value" => frame[<<t, l>>].load \in Tags(stack[t])

\* The data of a frame is the task's, or a NULL was registered.
DataInv ==
  \A t \in Tasks, l \in Levels :
    stack[t] # None =>
      \/ Zero \in GivenOn(stack[t])
      \/ frame[<<t, l>>].data \in {Zero} \cup GivenOn(stack[t])

IInv == TypeOK /\ AddInv /\ StackInv /\ WordInv /\ ShapeInv /\ LoadInv /\ DataInv

-----------------------------------------------------------------------------
(***************************************************************************)
(* Facts the steps share.                                                  *)
(***************************************************************************)

LEMMA LoadableBits == \A d \in Loadable : d \subseteq Bits
BY AddressAssumption DEF Loadable, KernelAddress, Zero

LEMMA WordsAreBits == \A w \in Words : w \subseteq Bits
<1>1. ASSUME NEW d \in Loadable PROVE MagicEntry(d) \subseteq Bits
  BY LoadableBits, TagBits DEF Bits
<1> QED
  BY <1>1 DEF Words, Loadable, Zero

LEMMA PointersAreBits ==
  ASSUME NEW v, NEW w, w \subseteq Bits
  PROVE  build_ptr(v, w) \in SUBSET Bits
<1>1. \A b \in PTR_FREE_MASK : b \in Bits
  BY DEF PTR_FREE_MASK, Bits
<1> QED
  BY <1>1 DEF build_ptr

LEMMA FrameTyped ==
  ASSUME TypeOK, NEW t \in Tasks, NEW l \in Levels
  PROVE  frame[<<t, l>>] \in FrameRecords
BY DEF TypeOK, FrameRecords

\* What was given stays given.
LEMMA GivenSame ==
  ASSUME UNCHANGED <<given, past>>
  PROVE  \A s : GivenOn(s)' = GivenOn(s) /\ Tags(s)' = Tags(s)
BY DEF GivenOn, Tags

LEMMA GivenGrows ==
  ASSUME NEW s, \A t \in past[s] : t \in past'[s] /\ given[t] \subseteq given'[t]
  PROVE  GivenOn(s) \subseteq GivenOn(s)' /\ Tags(s) \subseteq Tags(s)'
<1>1. GivenOn(s) \subseteq GivenOn(s)'
  BY DEF GivenOn
<1> QED
  BY <1>1 DEF Tags

\* A step of a frame that leaves the word alone preserves the invariant, if the
\* new frame satisfies it.
LEMMA FrameStepInv ==
  ASSUME IInv, NEW t \in Tasks, NEW l \in Levels, NEW pc, NEW new,
         Step(t, l, pc, new), UNCHANGED word,
         new \in FrameRecords,
         new.op = frame[<<t, l>>].op /\ new.op \notin {"none", "exited"},
         new.pc # "idle" /\ (new.pc = "restore" => new.op = "del"),
         new.pc \in {"thr", "value"} => word[stack[t]] # Zero,
         new.pc = "value" => new.load \in Tags(stack[t]),
         \/ Zero \in GivenOn(stack[t])
         \/ new.data \in {Zero} \cup GivenOn(stack[t])
  PROVE  IInv'
<1>1. /\ UNCHANGED <<stack, gone, add, deleted, given, past, latest, word>>
      /\ stack[t] # None
      /\ frame' = [frame EXCEPT ![<<t, l>>] = new]
  BY DEF Step, Runs
<1>2. \A u \in Tasks, k \in Levels :
        frame'[<<u, k>>] = IF u = t /\ k = l THEN new ELSE frame[<<u, k>>]
  BY <1>1 DEF IInv, TypeOK
<1>3. TypeOK'
  <2>1. frame' \in [Tasks \X Levels -> FrameRecords]
    BY <1>1 DEF IInv, TypeOK, FrameRecords
  <2> QED
    BY <1>1, <2>1 DEF IInv, TypeOK, FrameRecords
<1>4. \A s : GivenOn(s)' = GivenOn(s) /\ Tags(s)' = Tags(s)
  BY <1>1, GivenSame
<1>5. AddInv' /\ StackInv'
  BY <1>1 DEF IInv, AddInv, StackInv
<1>6. WordInv'
  BY <1>1, <1>4 DEF IInv, WordInv
<1>7. ShapeInv'
  <2>1. Shape(l, new)
    BY DEF IInv, ShapeInv, Shape
  <2>2. ASSUME NEW u \in Tasks, NEW k \in Levels
        PROVE  /\ Shape(k, frame'[<<u, k>>])
               /\ stack'[u] = None => frame'[<<u, k>>].pc = "idle"
    <3>1. CASE u = t /\ k = l
      BY <1>1, <1>2, <2>1, <3>1
    <3>2. CASE ~(u = t /\ k = l)
      BY <1>1, <1>2, <3>2 DEF IInv, ShapeInv
    <3> QED
      BY <3>1, <3>2
  <2> QED
    BY <2>2 DEF ShapeInv
<1>8. LoadInv'
  <2> SUFFICES ASSUME NEW u \in Tasks, NEW k \in Levels
      PROVE  /\ frame'[<<u, k>>].pc \in {"thr", "value"} => word[stack[u]] # Zero
             /\ frame'[<<u, k>>].pc = "value"
                  => frame'[<<u, k>>].load \in Tags(stack[u])
    BY <1>1, <1>4 DEF LoadInv
  <2>1. CASE u = t /\ k = l
    BY <1>2, <2>1
  <2>2. CASE ~(u = t /\ k = l)
    BY <1>2, <2>2 DEF IInv, LoadInv
  <2> QED
    BY <2>1, <2>2
<1>9. DataInv'
  BY <1>1, <1>2, <1>4 DEF IInv, DataInv
<1> QED
  BY <1>3, <1>5, <1>6, <1>7, <1>8, <1>9 DEF IInv

\* A frame at work: the task has a stack, and the frame an operation.
LEMMA AtWork ==
  ASSUME IInv, NEW t \in Tasks, NEW l \in Levels, Runs(t, l),
         frame[<<t, l>>].pc # "idle"
  PROVE  /\ stack[t] \in Stacks /\ word[stack[t]] \in Words
         /\ frame[<<t, l>>] \in FrameRecords
         /\ frame[<<t, l>>].op \notin {"none", "exited"}
         /\ \/ Zero \in GivenOn(stack[t])
            \/ frame[<<t, l>>].data \in {Zero} \cup GivenOn(stack[t])
<1>1. stack[t] \in Stacks /\ word[stack[t]] \in Words
  BY DEF IInv, TypeOK, Runs
<1>2. frame[<<t, l>>] \in FrameRecords
  BY FrameTyped DEF IInv
<1>3. frame[<<t, l>>].op \notin {"none", "exited"}
  BY DEF IInv, ShapeInv, Shape
<1>4. \/ Zero \in GivenOn(stack[t])
      \/ frame[<<t, l>>].data \in {Zero} \cup GivenOn(stack[t])
  BY DEF IInv, DataInv, Runs
<1> QED
  BY <1>1, <1>2, <1>3, <1>4

\* A step that only goes to another place in the code.
LEMMA MoveInv ==
  ASSUME IInv, NEW t \in Tasks, NEW l \in Levels, NEW pc, NEW to \in PCs,
         Step(t, l, pc, At(t, l, to)), UNCHANGED word,
         pc # "idle", to \notin {"idle", "value"},
         to = "restore" => frame[<<t, l>>].op = "del",
         to = "thr" => word[stack[t]] # Zero
  PROVE  IInv'
<1> DEFINE new == At(t, l, to)
<1>1. Runs(t, l) /\ frame[<<t, l>>].pc # "idle"
  BY DEF Step
<1>2. /\ frame[<<t, l>>] \in FrameRecords
      /\ frame[<<t, l>>].op \notin {"none", "exited"}
      /\ \/ Zero \in GivenOn(stack[t])
         \/ frame[<<t, l>>].data \in {Zero} \cup GivenOn(stack[t])
  BY <1>1, AtWork
<1>3. /\ new \in FrameRecords /\ new.op = frame[<<t, l>>].op /\ new.pc = to
      /\ new.data = frame[<<t, l>>].data
  BY <1>2 DEF At, FrameRecords
<1> HIDE DEF new
<1> QED
  BY <1>2, <1>3, FrameStepInv DEF new

LEMMA LoadCcbInv ==
  ASSUME IInv, NEW t \in Tasks, NEW l \in Levels, LoadCcb(t, l)
  PROVE  IInv'
<1>1. PICK pc \in {<<"ccb", "crc">>, <<"again", "again_crc">>} :
        Step(t, l, pc[1], [At(t, l, pc[2]) EXCEPT !.load = Word(t)])
  BY DEF LoadCcb
<1> DEFINE new == [At(t, l, pc[2]) EXCEPT !.load = Word(t)]
<1>2. pc[1] # "idle" /\ pc[2] \in {"crc", "again_crc"}
  OBVIOUS
<1>3. Runs(t, l) /\ frame[<<t, l>>].pc # "idle"
  BY <1>1, <1>2 DEF Step
<1>4. /\ word[stack[t]] \in Words
      /\ frame[<<t, l>>] \in FrameRecords
      /\ frame[<<t, l>>].op \notin {"none", "exited"}
      /\ \/ Zero \in GivenOn(stack[t])
         \/ frame[<<t, l>>].data \in {Zero} \cup GivenOn(stack[t])
  BY <1>3, AtWork
<1>5. /\ new \in FrameRecords /\ new.op = frame[<<t, l>>].op /\ new.pc = pc[2]
      /\ new.data = frame[<<t, l>>].data
  BY <1>2, <1>4 DEF At, FrameRecords, Word, PCs
<1>6. Step(t, l, pc[1], new) /\ UNCHANGED word
  BY <1>1 DEF LoadCcb
<1> HIDE DEF new
<1> QED
  BY <1>2, <1>4, <1>5, <1>6, FrameStepInv

LEMMA LoadCrcInv ==
  ASSUME IInv, NEW t \in Tasks, NEW l \in Levels, LoadCrc(t, l)
  PROVE  IInv'
<1>1. PICK pc \in {<<"crc", "enabled">>, <<"again_crc", "again_enabled">>} :
        Step(t, l, pc[1], IF check_crc(frame[<<t, l>>].load, Word(t))
                          THEN At(t, l, pc[2]) ELSE Missed(t, l, pc[1]))
  BY DEF LoadCrc
<1>2. \E to \in {"enabled", "again_enabled", "done", "restore"} :
        /\ Step(t, l, pc[1], At(t, l, to))
        /\ to = "restore" => frame[<<t, l>>].op = "del"
  <2>1. CASE check_crc(frame[<<t, l>>].load, Word(t))
    BY <1>1, <2>1
  <2>2. CASE ~check_crc(frame[<<t, l>>].load, Word(t))
    <3>1. Step(t, l, pc[1], Missed(t, l, pc[1]))
      BY <1>1, <2>2
    <3>2. CASE pc[1] # "crc" /\ frame[<<t, l>>].op = "del"
      BY <3>1, <3>2 DEF Missed
    <3>3. CASE pc[1] = "crc" \/ frame[<<t, l>>].op # "del"
      BY <3>1, <3>3 DEF Missed
    <3> QED
      BY <3>2, <3>3
  <2> QED
    BY <2>1, <2>2
<1>3. pc[1] # "idle" /\ UNCHANGED word
  BY DEF LoadCrc
<1> QED
  BY <1>2, <1>3, MoveInv DEF PCs

LEMMA LoadEnabledInv ==
  ASSUME IInv, NEW t \in Tasks, NEW l \in Levels, LoadEnabled(t, l)
  PROVE  IInv'
<1>1. UNCHANGED word
  BY DEF LoadEnabled
<1>2. CASE Step(t, l, "enabled",
                IF ENABLED_BIT \in Word(t) /\ frame[<<t, l>>].op = "del"
                THEN At(t, l, "again") ELSE At(t, l, "done"))
  <2>1. \E to \in {"again", "done"} : Step(t, l, "enabled", At(t, l, to))
    BY <1>2
  <2> QED
    BY <1>1, <2>1, MoveInv DEF PCs
<1>3. CASE Step(t, l, "again_enabled",
                IF ENABLED_BIT \in Word(t) THEN At(t, l, "thr")
                ELSE Missed(t, l, "again_enabled"))
  <2>1. CASE ENABLED_BIT \in Word(t)
    <3>1. Step(t, l, "again_enabled", At(t, l, "thr"))
      BY <1>3, <2>1
    <3>2. word[stack[t]] # Zero
      BY <2>1 DEF Word, Zero
    <3> QED
      BY <1>1, <3>1, <3>2, MoveInv DEF PCs
  <2>2. CASE ENABLED_BIT \notin Word(t)
    <3>1. Step(t, l, "again_enabled", Missed(t, l, "again_enabled"))
      BY <1>3, <2>2
    <3>2. CASE frame[<<t, l>>].op = "del"
      <4>1. Step(t, l, "again_enabled", At(t, l, "restore"))
        BY <3>1, <3>2 DEF Missed
      <4> QED
        BY <1>1, <3>2, <4>1, MoveInv DEF PCs
    <3>3. CASE frame[<<t, l>>].op # "del"
      <4>1. Step(t, l, "again_enabled", At(t, l, "done"))
        BY <3>1, <3>3 DEF Missed
      <4> QED
        BY <1>1, <4>1, MoveInv DEF PCs
    <3> QED
      BY <3>2, <3>3
  <2> QED
    BY <2>1, <2>2
<1> QED
  BY <1>2, <1>3 DEF LoadEnabled

LEMMA LoadThrInv ==
  ASSUME IInv, NEW t \in Tasks, NEW l \in Levels, LoadThr(t, l)
  PROVE  IInv'
<1> DEFINE new == [At(t, l, "value") EXCEPT !.load = Word(t)]
<1>1. Step(t, l, "thr", new) /\ UNCHANGED word
  BY DEF LoadThr
<1>2. Runs(t, l) /\ frame[<<t, l>>].pc = "thr"
  BY <1>1 DEF Step
<1>3. /\ stack[t] \in Stacks /\ word[stack[t]] \in Words
      /\ frame[<<t, l>>] \in FrameRecords
      /\ frame[<<t, l>>].op \notin {"none", "exited"}
      /\ \/ Zero \in GivenOn(stack[t])
         \/ frame[<<t, l>>].data \in {Zero} \cup GivenOn(stack[t])
  BY <1>2, AtWork
<1>4. /\ new \in FrameRecords /\ new.op = frame[<<t, l>>].op /\ new.pc = "value"
      /\ new.data = frame[<<t, l>>].data /\ new.load = word[stack[t]]
  BY <1>3 DEF At, FrameRecords, Word, PCs
<1>5. word[stack[t]] # Zero
  BY <1>2 DEF IInv, LoadInv
<1>6. word[stack[t]] \in Tags(stack[t])
  BY <1>3, <1>5 DEF IInv, WordInv
<1> HIDE DEF new
<1> QED
  BY <1>1, <1>3, <1>4, <1>5, <1>6, FrameStepInv

\* The step that builds the pointer: two tags of the stack's own are mixed.
LEMMA LoadValueInv ==
  ASSUME IInv, NEW t \in Tasks, NEW l \in Levels, LoadValue(t, l)
  PROVE  IInv'
<1> DEFINE s == stack[t]
           ptr == build_ptr(frame[<<t, l>>].load, Word(t))
           to == IF frame[<<t, l>>].op = "del" THEN "restore" ELSE "done"
           new == [At(t, l, to) EXCEPT !.data = ptr]
<1>1. Step(t, l, "value", new) /\ UNCHANGED word
  BY DEF LoadValue
<1>2. Runs(t, l) /\ frame[<<t, l>>].pc = "value"
  BY <1>1 DEF Step
<1>3. /\ s \in Stacks /\ word[s] \in Words
      /\ frame[<<t, l>>] \in FrameRecords
      /\ frame[<<t, l>>].op \notin {"none", "exited"}
  BY <1>2, AtWork
<1>4. ptr \in SUBSET Bits
  BY <1>3, PointersAreBits, WordsAreBits DEF Word
<1>5. /\ new \in FrameRecords /\ new.op = frame[<<t, l>>].op /\ new.pc = to
      /\ new.data = ptr
  BY <1>3, <1>4 DEF At, FrameRecords, PCs
<1>6. frame[<<t, l>>].load \in Tags(s) /\ word[s] \in Tags(s)
  BY <1>2, <1>3 DEF IInv, LoadInv, WordInv
<1>7. Zero \in GivenOn(s) \/ ptr \in GivenOn(s)
  <2> SUFFICES ASSUME Zero \notin GivenOn(s) PROVE ptr \in GivenOn(s)
    OBVIOUS
  <2>1. PICK c \in GivenOn(s), d \in GivenOn(s) :
          frame[<<t, l>>].load = MagicEntry(c) /\ word[s] = MagicEntry(d)
    BY <1>6 DEF Tags
  <2>2. GivenOn(s) \subseteq Addresses
    BY <1>3 DEF IInv, TypeOK, GivenOn
  <2>3. KernelAddress(c) /\ KernelAddress(d)
    BY <2>1, <2>2, AddressAssumption
  <2> QED
    BY <2>1, <2>3, TagIsAddress DEF Word
<1> HIDE DEF new, ptr
<1> QED
  BY <1>1, <1>3, <1>5, <1>7, FrameStepInv

\* The word is cleared: nobody else reads it then, as the NMI is over and the
\* stack has one owner.
LEMMA RestoreInv ==
  ASSUME IInv, NEW t \in Tasks, Restore(t)
  PROVE  IInv'
<1> DEFINE x == <<t, "task">>
           new == At(t, "task", "done")
<1>1. /\ UNCHANGED <<stack, gone, add, deleted, given, past, latest>>
      /\ frame' = [frame EXCEPT ![x] = new]
      /\ word' = [word EXCEPT ![stack[t]] = Zero]
      /\ Runs(t, "task") /\ frame[x].pc = "restore"
  BY DEF Restore, Step
<1>2. /\ stack[t] \in Stacks
      /\ frame[x] \in FrameRecords /\ frame[x].op \notin {"none", "exited"}
      /\ \/ Zero \in GivenOn(stack[t])
         \/ frame[x].data \in {Zero} \cup GivenOn(stack[t])
  BY <1>1, AtWork DEF Levels
<1>3. /\ new \in FrameRecords /\ new.op = frame[x].op /\ new.pc = "done"
      /\ new.data = frame[x].data
  BY <1>2 DEF At, FrameRecords, PCs
<1> HIDE DEF new
<1>4. \A u \in Tasks, k \in Levels :
        frame'[<<u, k>>] = IF u = t /\ k = "task" THEN new ELSE frame[<<u, k>>]
  BY <1>1 DEF IInv, TypeOK
<1>5. \A s : GivenOn(s)' = GivenOn(s) /\ Tags(s)' = Tags(s)
  BY <1>1, GivenSame
<1>6. TypeOK'
  <2>1. frame' \in [Tasks \X Levels -> FrameRecords]
    BY <1>1, <1>3 DEF IInv, TypeOK, FrameRecords
  <2>2. word' \in [Stacks -> Words]
    BY <1>1 DEF IInv, TypeOK, Words
  <2> QED
    BY <1>1, <2>1, <2>2 DEF IInv, TypeOK, FrameRecords
<1>7. AddInv' /\ StackInv'
  BY <1>1 DEF IInv, AddInv, StackInv
<1>8. WordInv'
  BY <1>1, <1>5 DEF IInv, WordInv, TypeOK
<1>9. ShapeInv'
  <2>1. Shape("task", new)
    <3>1. Shape("task", frame[x]) /\ frame[x].pc = "restore"
      BY <1>1 DEF IInv, ShapeInv, Levels
    <3>2. QED
      BY <1>3, <3>1 DEF Shape
  <2> SUFFICES ASSUME NEW u \in Tasks, NEW k \in Levels
      PROVE  /\ Shape(k, frame'[<<u, k>>])
             /\ stack[u] = None => frame'[<<u, k>>].pc = "idle"
    BY <1>1 DEF ShapeInv, Shape
  <2>2. CASE u = t /\ k = "task"
    BY <1>1, <1>4, <2>1, <2>2 DEF Runs
  <2>3. CASE ~(u = t /\ k = "task")
    <3>1. frame'[<<u, k>>] = frame[<<u, k>>]
      BY <1>4, <2>3
    <3> QED
      BY <3>1 DEF IInv, ShapeInv
  <2> QED
    BY <2>2, <2>3
<1>10. LoadInv'
  <2> SUFFICES ASSUME NEW u \in Tasks, NEW k \in Levels
      PROVE  /\ frame'[<<u, k>>].pc \in {"thr", "value"} => word'[stack[u]] # Zero
             /\ frame'[<<u, k>>].pc = "value"
                  => frame'[<<u, k>>].load \in Tags(stack[u])
    BY <1>1, <1>5 DEF LoadInv
  <2>1. CASE u = t
    <3>1. frame[<<t, "nmi">>].pc = "idle"
      BY <1>1 DEF Runs, Idle
    <3>2. frame'[<<u, k>>].pc \in {"done", "idle"}
      BY <1>3, <1>4, <2>1, <3>1 DEF Levels
    <3> QED
      BY <3>2
  <2>2. CASE u # t
    <3>1. frame'[<<u, k>>] = frame[<<u, k>>]
      BY <1>4, <2>2
    <3>2. CASE stack[u] = None
      BY <3>1, <3>2 DEF IInv, ShapeInv
    <3>3. CASE stack[u] # None
      <4>1. stack[u] # stack[t]
        BY <2>2, <3>3 DEF IInv, StackInv
      <4>2. word'[stack[u]] = word[stack[u]]
        BY <1>1, <3>3, <4>1 DEF IInv, TypeOK
      <4> QED
        BY <3>1, <4>2 DEF IInv, LoadInv
    <3> QED
      BY <3>2, <3>3
  <2> QED
    BY <2>1, <2>2
<1>11. DataInv'
  BY <1>1, <1>2, <1>3, <1>4, <1>5 DEF IInv, DataInv
<1> QED
  BY <1>6, <1>7, <1>8, <1>9, <1>10, <1>11 DEF IInv

\* The end of a function, and the beginning of one.
LEMMA IdleOrNewInv ==
  ASSUME IInv, NEW t \in Tasks, NEW l \in Levels, NEW new \in FrameRecords,
         stack[t] # None,
         UNCHANGED <<stack, gone, word, add, given, past>>,
         frame' = [frame EXCEPT ![<<t, l>>] = new],
         Shape(l, new), new.data = Zero, new.pc \notin {"thr", "value"},
         deleted' \in SUBSET SUBSET Bits
  PROVE  IInv'
<1>1. \A u \in Tasks, k \in Levels :
        frame'[<<u, k>>] = IF u = t /\ k = l THEN new ELSE frame[<<u, k>>]
  BY DEF IInv, TypeOK
<1>2. \A s : GivenOn(s)' = GivenOn(s) /\ Tags(s)' = Tags(s)
  BY GivenSame
<1>3. TypeOK'
  <2>1. frame' \in [Tasks \X Levels -> FrameRecords]
    BY DEF IInv, TypeOK, FrameRecords
  <2> QED
    BY <2>1 DEF IInv, TypeOK, FrameRecords
<1>4. AddInv' /\ StackInv'
  BY DEF IInv, AddInv, StackInv
<1>5. WordInv'
  BY <1>2 DEF IInv, WordInv
<1>6. ASSUME NEW u \in Tasks, NEW k \in Levels
      PROVE  \/ u = t /\ k = l /\ frame'[<<u, k>>] = new
             \/ frame'[<<u, k>>] = frame[<<u, k>>]
  BY <1>1
<1>7. ShapeInv' /\ LoadInv'
  <2> SUFFICES ASSUME NEW u \in Tasks, NEW k \in Levels
      PROVE  /\ Shape(k, frame'[<<u, k>>])
             /\ stack[u] = None => frame'[<<u, k>>].pc = "idle"
             /\ frame'[<<u, k>>].pc \in {"thr", "value"} => word[stack[u]] # Zero
             /\ frame'[<<u, k>>].pc = "value"
                  => frame'[<<u, k>>].load \in Tags(stack[u])
    BY <1>2 DEF ShapeInv, LoadInv, Shape
  <2>1. CASE u = t /\ k = l /\ frame'[<<u, k>>] = new
    BY <2>1
  <2>2. CASE frame'[<<u, k>>] = frame[<<u, k>>]
    BY <2>2 DEF IInv, ShapeInv, LoadInv
  <2> QED
    BY <1>6, <2>1, <2>2
<1>8. DataInv'
  BY <1>1, <1>2 DEF IInv, DataInv
<1> QED
  BY <1>3, <1>4, <1>5, <1>7, <1>8 DEF IInv

LEMMA ReturnInv ==
  ASSUME IInv, NEW t \in Tasks, NEW l \in Levels, Return(t, l)
  PROVE  IInv'
<1> DEFINE del == frame[<<t, l>>].op = "del"
           new == IF del THEN [Idle EXCEPT !.op = "exited"] ELSE Idle
<1>1. Runs(t, l) /\ frame[<<t, l>>].pc = "done"
  BY DEF Return
<1>2. frame[<<t, l>>] \in FrameRecords /\ Shape(l, frame[<<t, l>>])
  BY FrameTyped DEF IInv, ShapeInv
<1>3. deleted' \in SUBSET SUBSET Bits
  BY <1>2 DEF Return, FrameRecords, IInv, TypeOK
<1>4. Zero \in Words
  BY DEF Words
<1>5. /\ new \in FrameRecords /\ new.data = Zero
      /\ new.pc = "idle"
      /\ new.op = IF del THEN "exited" ELSE "none"
  BY <1>4 DEF FrameRecords, Idle, PCs, Zero
<1>6. del => l = "task"
  BY <1>2 DEF Shape, Levels
<1>7. Shape(l, new)
  BY <1>5, <1>6 DEF Shape
<1>8. /\ UNCHANGED <<stack, gone, word, add, given, past>>
      /\ frame' = [frame EXCEPT ![<<t, l>>] = new]
  BY DEF Return
<1>9. stack[t] # None
  BY <1>1 DEF Runs
<1> HIDE DEF new
<1> QED
  BY <1>3, <1>5, <1>7, <1>8, <1>9, IdleOrNewInv

LEMMA CallInv ==
  ASSUME IInv, NEW t \in Tasks, NEW l \in Levels,
         NEW op \in IF l = "task" THEN {"query", "del"} ELSE {"data"},
         Call(t, l, op)
  PROVE  IInv'
<1> DEFINE new == [Idle EXCEPT !.op = op,
                               !.pc = IF op = "data" THEN "again" ELSE "ccb"]
<1>1. Zero \in Words
  BY DEF Words
<1>2. /\ new \in FrameRecords /\ new.data = Zero /\ new.op = op
      /\ new.pc \in {"again", "ccb"}
  BY <1>1 DEF FrameRecords, Idle, PCs, Zero
<1>3. Shape(l, new)
  BY <1>2 DEF Shape
<1>4. /\ UNCHANGED <<stack, gone, word, add, given, past, deleted>>
      /\ frame' = [frame EXCEPT ![<<t, l>>] = new]
      /\ stack[t] # None
  BY DEF Call, Runs
<1>5. deleted' \in SUBSET SUBSET Bits
  BY <1>4 DEF IInv, TypeOK
<1> HIDE DEF new
<1> QED
  BY <1>2, <1>3, <1>4, <1>5, IdleOrNewInv

-----------------------------------------------------------------------------
(***************************************************************************)
(* The life of tasks, and the adders.                                      *)
(***************************************************************************)

\* A word that was cleared for a new owner is read by nobody yet.
LEMMA NewTaskInv ==
  ASSUME IInv, NEW t \in Tasks, NEW s \in Stacks, NewTask(t, s)
  PROVE  IInv'
<1>1. /\ stack[t] = None /\ \A u \in Tasks : stack[u] # s
      /\ stack' = [stack EXCEPT ![t] = s]
      /\ word' = [word EXCEPT ![s] = Zero]
      /\ past' = [past EXCEPT ![s] = past[s] \cup {t}]
      /\ UNCHANGED <<gone, add, frame, deleted, given>>
  BY DEF NewTask, Owned
<1>2. s # None
  BY NoneAssumption
<1>3. \A u \in Tasks : stack'[u] = IF u = t THEN s ELSE stack[u]
  BY <1>1 DEF IInv, TypeOK
<1>4. \A r \in Stacks :
        /\ word'[r] = IF r = s THEN Zero ELSE word[r]
        /\ past'[r] = IF r = s THEN past[s] \cup {t} ELSE past[r]
  BY <1>1 DEF IInv, TypeOK
<1>5. \A r \in Stacks : GivenOn(r) \subseteq GivenOn(r)' /\ Tags(r) \subseteq Tags(r)'
  <2> TAKE r \in Stacks
  <2>1. \A u \in past[r] : u \in past'[r] /\ given[u] \subseteq given'[u]
    BY <1>1, <1>4
  <2> QED
    BY <2>1, GivenGrows
<1>6. TypeOK'
  <2>1. word' \in [Stacks -> Words]
    BY <1>1 DEF IInv, TypeOK, Words
  <2>2. past' \in [Stacks -> SUBSET Tasks]
    BY <1>1 DEF IInv, TypeOK
  <2>3. stack' \in [Tasks -> Stacks \cup {None}]
    BY <1>1 DEF IInv, TypeOK
  <2> QED
    BY <1>1, <2>1, <2>2, <2>3 DEF IInv, TypeOK
<1>7. AddInv'
  BY <1>1, <1>4 DEF IInv, AddInv
<1>8. StackInv'
  <2>1. ASSUME NEW u \in Tasks, stack'[u] # None PROVE u \in past'[stack'[u]]
    <3>1. CASE u = t
      BY <1>3, <1>4, <3>1
    <3>2. CASE u # t
      <4>1. stack'[u] = stack[u] /\ stack[u] \in Stacks
        BY <1>3, <2>1, <3>2 DEF IInv, TypeOK
      <4>2. u \in past[stack[u]]
        BY <2>1, <4>1 DEF IInv, StackInv
      <4> QED
        BY <1>4, <4>1, <4>2
    <3> QED
      BY <3>1, <3>2
  <2>2. ASSUME NEW u \in Tasks, NEW v \in Tasks,
               stack'[u] = stack'[v], stack'[u] # None
        PROVE  u = v
    BY <1>1, <1>3, <2>2 DEF IInv, StackInv
  <2> QED
    BY <2>1, <2>2 DEF StackInv
<1>9. WordInv'
  <2> SUFFICES ASSUME NEW r \in Stacks
      PROVE  word'[r] = Zero \/ word'[r] \in Tags(r)'
    BY DEF WordInv
  <2> QED
    BY <1>4, <1>5 DEF IInv, WordInv
<1>10. ASSUME NEW k \in Levels
       PROVE  frame[<<t, k>>].pc = "idle" /\ frame[<<t, k>>].data = Zero
  BY <1>1 DEF IInv, ShapeInv, Shape
<1>11. ShapeInv'
  <2> SUFFICES ASSUME NEW u \in Tasks, NEW k \in Levels
      PROVE  /\ Shape(k, frame'[<<u, k>>])
             /\ stack'[u] = None => frame'[<<u, k>>].pc = "idle"
    BY DEF ShapeInv, Shape
  <2>1. /\ Shape(k, frame[<<u, k>>])
        /\ stack[u] = None => frame[<<u, k>>].pc = "idle"
    BY DEF IInv, ShapeInv
  <2>2. stack'[u] = None => stack[u] = None
    BY <1>2, <1>3
  <2> QED
    BY <1>1, <2>1, <2>2
<1>12. LoadInv'
  <2> SUFFICES ASSUME NEW u \in Tasks, NEW k \in Levels,
                      frame[<<u, k>>].pc \in {"thr", "value"}
      PROVE  /\ word'[stack'[u]] # Zero
             /\ frame[<<u, k>>].pc = "value"
                  => frame[<<u, k>>].load \in Tags(stack[u])'
    BY <1>1 DEF LoadInv
  <2>1. u # t
    BY <1>10
  <2>2. stack[u] # None
    BY DEF IInv, ShapeInv
  <2>3. stack'[u] = stack[u] /\ stack[u] \in Stacks /\ stack[u] # s
    BY <1>1, <1>3, <2>1, <2>2 DEF IInv, TypeOK
  <2>4. word'[stack[u]] = word[stack[u]]
    BY <1>4, <2>3
  <2>5. Tags(stack[u]) \subseteq Tags(stack[u])'
    <3>1. past'[stack[u]] = past[stack[u]]
      BY <1>4, <2>3
    <3> QED
      BY <1>1, <2>3, <3>1 DEF Tags, GivenOn
  <2> QED
    BY <2>3, <2>4, <2>5 DEF IInv, LoadInv
<1>13. DataInv'
  <2> SUFFICES ASSUME NEW u \in Tasks, NEW k \in Levels, stack'[u] # None
      PROVE  \/ Zero \in GivenOn(stack[u])'
             \/ frame[<<u, k>>].data \in {Zero} \cup GivenOn(stack[u])'
    BY <1>1 DEF DataInv, GivenOn
  <2>1. CASE u = t
    BY <1>10, <2>1
  <2>2. CASE u # t
    <3>1. stack'[u] = stack[u] /\ stack[u] \in Stacks
      BY <1>3, <2>2 DEF IInv, TypeOK
    <3>2. \A d \in GivenOn(stack[u]) : d \in GivenOn(stack[u])'
      <4>1. past[stack[u]] \subseteq past'[stack'[u]]
        BY <1>4, <3>1
      <4> QED
        BY <1>1, <4>1 DEF GivenOn
    <3>3. \/ Zero \in GivenOn(stack[u])
          \/ frame[<<u, k>>].data \in {Zero} \cup GivenOn(stack[u])
      BY <3>1 DEF IInv, DataInv
    <3> QED
      BY <3>2, <3>3
  <2> QED
    BY <2>1, <2>2
<1> QED
  BY <1>6, <1>7, <1>8, <1>9, <1>11, <1>12, <1>13 DEF IInv

\* A task that ended has no function under way.
LEMMA FreeStackInv ==
  ASSUME IInv, NEW t \in Tasks, FreeStack(t)
  PROVE  IInv'
<1>1. /\ stack[t] # None
      /\ frame[<<t, "task">>].op = "exited" /\ frame[<<t, "nmi">>] = Idle
      /\ stack' = [stack EXCEPT ![t] = None] /\ gone' = gone \cup {t}
      /\ UNCHANGED <<word, add, frame, deleted, given, past>>
  BY DEF FreeStack
<1>2. \A u \in Tasks : stack'[u] = IF u = t THEN None ELSE stack[u]
  BY <1>1 DEF IInv, TypeOK
<1>3. \A s : GivenOn(s)' = GivenOn(s) /\ Tags(s)' = Tags(s)
  BY <1>1, GivenSame
<1>4. TypeOK'
  <2>1. stack' \in [Tasks -> Stacks \cup {None}]
    BY <1>1 DEF IInv, TypeOK
  <2> QED
    BY <1>1, <2>1 DEF IInv, TypeOK
<1>5. AddInv'
  BY <1>1 DEF IInv, AddInv
<1>6. StackInv'
  BY <1>1, <1>2 DEF IInv, StackInv
<1>7. WordInv'
  BY <1>1, <1>3 DEF IInv, WordInv
<1>8. \A k \in Levels : frame[<<t, k>>].pc = "idle"
  BY <1>1 DEF IInv, ShapeInv, Shape, Levels, Idle
<1>9. ShapeInv'
  <2> SUFFICES ASSUME NEW u \in Tasks, NEW k \in Levels
      PROVE  /\ Shape(k, frame'[<<u, k>>])
             /\ stack'[u] = None => frame'[<<u, k>>].pc = "idle"
    BY DEF ShapeInv, Shape
  <2>1. /\ Shape(k, frame[<<u, k>>])
        /\ stack[u] = None => frame[<<u, k>>].pc = "idle"
    BY DEF IInv, ShapeInv
  <2> QED
    BY <1>1, <1>2, <1>8, <2>1
<1>10. ASSUME NEW u \in Tasks, stack'[u] # None
       PROVE  /\ stack'[u] = stack[u]
              /\ GivenOn(stack[u])' = GivenOn(stack[u])
              /\ Tags(stack[u])' = Tags(stack[u])
  <2>1. stack'[u] = stack[u]
    BY <1>2, <1>10
  <2> QED
    BY <1>1, <2>1 DEF GivenOn, Tags
<1>11. LoadInv'
  <2> SUFFICES ASSUME NEW u \in Tasks, NEW k \in Levels,
                      frame[<<u, k>>].pc \in {"thr", "value"}
      PROVE  /\ word[stack'[u]] # Zero
             /\ frame[<<u, k>>].pc = "value"
                  => frame[<<u, k>>].load \in Tags(stack[u])'
    BY <1>1 DEF LoadInv
  <2>1. u # t
    BY <1>8
  <2>2. stack[u] # None
    BY DEF IInv, ShapeInv
  <2>3. stack'[u] = stack[u] /\ Tags(stack[u])' = Tags(stack[u])
    BY <1>2, <1>10, <2>1, <2>2
  <2> QED
    BY <2>3 DEF IInv, LoadInv
<1>12. DataInv'
  <2> SUFFICES ASSUME NEW u \in Tasks, NEW k \in Levels, stack'[u] # None
      PROVE  \/ Zero \in GivenOn(stack[u])'
             \/ frame[<<u, k>>].data \in {Zero} \cup GivenOn(stack[u])'
    BY <1>1 DEF DataInv
  <2> QED
    BY <1>10 DEF IInv, DataInv
<1> QED
  BY <1>4, <1>5, <1>6, <1>7, <1>9, <1>11, <1>12 DEF IInv

\* What a step must keep, if it leaves the stacks and frames alone, and what
\* was given only grows.
LEMMA AdderStepInv ==
  ASSUME IInv, TypeOK', AddInv', WordInv',
         UNCHANGED <<stack, gone, frame, past, deleted>>,
         \A t \in Tasks : given[t] \subseteq given'[t],
         \A s \in Stacks : word[s] # Zero => word'[s] # Zero
  PROVE  IInv'
<1>1. ASSUME NEW t \in Tasks, stack[t] # None
      PROVE  /\ stack[t] \in Stacks
             /\ \A d \in GivenOn(stack[t]) : d \in GivenOn(stack[t])'
             /\ \A w \in Tags(stack[t]) : w \in Tags(stack[t])'
  <2>1. stack[t] \in Stacks /\ past[stack[t]] \subseteq Tasks
    BY <1>1 DEF IInv, TypeOK
  <2>2. \A d \in GivenOn(stack[t]) : d \in GivenOn(stack[t])'
    BY <2>1 DEF GivenOn
  <2> QED
    BY <2>1, <2>2 DEF Tags
<1>2. StackInv'
  BY DEF IInv, StackInv
<1>3. ShapeInv'
  <2> SUFFICES ASSUME NEW t \in Tasks, NEW l \in Levels
      PROVE  /\ Shape(l, frame'[<<t, l>>])
             /\ stack'[t] = None => frame'[<<t, l>>].pc = "idle"
    BY DEF ShapeInv, Shape
  <2>1. /\ Shape(l, frame[<<t, l>>])
        /\ stack[t] = None => frame[<<t, l>>].pc = "idle"
    BY DEF IInv, ShapeInv
  <2> QED
    BY <2>1
<1>4. LoadInv'
  <2> SUFFICES ASSUME NEW t \in Tasks, NEW l \in Levels,
                      frame[<<t, l>>].pc \in {"thr", "value"}
      PROVE  /\ word'[stack[t]] # Zero
             /\ frame[<<t, l>>].pc = "value"
                  => frame[<<t, l>>].load \in Tags(stack[t])'
    BY DEF LoadInv
  <2>1. stack[t] # None
    BY DEF IInv, ShapeInv
  <2> QED
    BY <1>1, <2>1 DEF IInv, LoadInv
<1>5. DataInv'
  <2> SUFFICES ASSUME NEW t \in Tasks, NEW l \in Levels, stack[t] # None
      PROVE  \/ Zero \in GivenOn(stack[t])'
             \/ frame[<<t, l>>].data \in {Zero} \cup GivenOn(stack[t])'
    BY DEF DataInv
  <2> QED
    BY <1>1 DEF IInv, DataInv
<1> QED
  BY <1>2, <1>3, <1>4, <1>5 DEF IInv

LEMMA CallAddInv ==
  ASSUME IInv, NEW a \in Adders, NEW t \in Tasks, NEW d \in Loadable,
         CallAdd(a, t, d)
  PROVE  IInv'
<1> DEFINE new == [pc |-> "stack", task |-> t, stack |-> None, data |-> d]
<1>1. /\ add' = [add EXCEPT ![a] = new]
      /\ given' = [given EXCEPT ![t] = given[t] \cup {d}]
      /\ UNCHANGED <<stack, gone, word, frame, deleted, past>>
  BY DEF CallAdd
<1>2. \A u \in Tasks : given'[u] = IF u = t THEN given[t] \cup {d} ELSE given[u]
  BY <1>1 DEF IInv, TypeOK
<1>3. \A b \in Adders : add'[b] = IF b = a THEN new ELSE add[b]
  BY <1>1 DEF IInv, TypeOK
<1>4. TypeOK'
  <2>1. given' \in [Tasks -> SUBSET (Addresses \cup {Zero})]
    BY <1>1 DEF IInv, TypeOK, Loadable
  <2>2. add' \in [Adders -> [pc : {"idle", "stack", "store"},
                             task : Tasks \cup {None}, stack : Stacks \cup {None},
                             data : Addresses \cup {Zero}]]
    BY <1>1 DEF IInv, TypeOK, Loadable
  <2>3. \A b \in Adders :
          /\ (add'[b].pc = "stack" => add'[b].task # None)
          /\ (add'[b].pc = "store" => add'[b].stack # None)
    BY <1>3, NoneAssumption DEF IInv, TypeOK
  <2> QED
    BY <1>1, <2>1, <2>2, <2>3 DEF IInv, TypeOK
<1>5. AddInv'
  <2> SUFFICES ASSUME NEW b \in Adders
      PROVE  /\ add'[b].pc \in {"stack", "store"} =>
                  add'[b].task \in Tasks /\ add'[b].data \in given'[add'[b].task]
             /\ add'[b].pc = "store" =>
                  /\ add'[b].stack \in Stacks
                  /\ add'[b].task \in past[add'[b].stack]
    BY <1>1 DEF AddInv
  <2>1. CASE b = a
    BY <1>2, <1>3, <2>1
  <2>2. CASE b # a
    <3>1. add'[b] = add[b]
      BY <1>3, <2>2
    <3> QED
      BY <1>2, <3>1 DEF IInv, AddInv
  <2> QED
    BY <2>1, <2>2
<1>6. \A u \in Tasks : given[u] \subseteq given'[u]
  BY <1>2
<1>7. WordInv'
  <2> SUFFICES ASSUME NEW s \in Stacks, word[s] # Zero PROVE word[s] \in Tags(s)'
    BY <1>1 DEF WordInv
  <2>1. \A u \in past[s] : u \in past'[s] /\ given[u] \subseteq given'[u]
    BY <1>1, <1>6 DEF IInv, TypeOK
  <2> QED
    BY <2>1, GivenGrows DEF IInv, WordInv
<1> QED
  BY <1>1, <1>4, <1>5, <1>6, <1>7, AdderStepInv

LEMMA LastEntryInv ==
  ASSUME IInv, NEW a \in Adders, LastEntry(a)
  PROVE  IInv'
<1> DEFINE s == stack[add[a].task]
           new == IF s = None THEN NotAdding
                  ELSE [add[a] EXCEPT !.pc = "store", !.stack = s]
<1>1. /\ add[a].pc = "stack" /\ add' = [add EXCEPT ![a] = new]
      /\ UNCHANGED <<stack, gone, word, frame, deleted, given, past>>
  BY DEF LastEntry
<1>2. /\ add[a].task \in Tasks /\ add[a].data \in given[add[a].task]
      /\ add[a].data \in Addresses \cup {Zero}
  BY <1>1 DEF IInv, AddInv, TypeOK
<1>3. /\ new.pc \in {"idle", "store"}
      /\ new.pc = "store" => /\ new.task = add[a].task /\ new.data = add[a].data
                             /\ new.stack \in Stacks /\ new.stack # None
                             /\ new.task \in past[new.stack]
      /\ new \in [pc : {"idle", "stack", "store"},
                  task : Tasks \cup {None}, stack : Stacks \cup {None},
                  data : Addresses \cup {Zero}]
  <2>1. CASE s = None
    BY <2>1 DEF NotAdding
  <2>2. CASE s # None
    <3>1. s \in Stacks /\ add[a].task \in past[s]
      BY <1>2, <2>2 DEF IInv, TypeOK, StackInv
    <3>2. add[a] \in [pc : {"idle", "stack", "store"},
                      task : Tasks \cup {None}, stack : Stacks \cup {None},
                      data : Addresses \cup {Zero}]
      BY DEF IInv, TypeOK
    <3>3. new = [add[a] EXCEPT !.pc = "store", !.stack = s]
      BY <2>2
    <3> HIDE DEF new, s
    <3> QED
      BY <2>2, <3>1, <3>2, <3>3
  <2> QED
    BY <2>1, <2>2
<1> HIDE DEF new
<1>4. \A b \in Adders : add'[b] = IF b = a THEN new ELSE add[b]
  BY <1>1 DEF IInv, TypeOK
<1>5. TypeOK'
  <2>1. add' \in [Adders -> [pc : {"idle", "stack", "store"},
                             task : Tasks \cup {None}, stack : Stacks \cup {None},
                             data : Addresses \cup {Zero}]]
    BY <1>1, <1>3 DEF IInv, TypeOK
  <2>2. \A b \in Adders :
          /\ (add'[b].pc = "stack" => add'[b].task # None)
          /\ (add'[b].pc = "store" => add'[b].stack # None)
    BY <1>3, <1>4 DEF IInv, TypeOK
  <2> QED
    BY <1>1, <2>1, <2>2 DEF IInv, TypeOK
<1>6. AddInv'
  <2> SUFFICES ASSUME NEW b \in Adders
      PROVE  /\ add'[b].pc \in {"stack", "store"} =>
                  add'[b].task \in Tasks /\ add'[b].data \in given[add'[b].task]
             /\ add'[b].pc = "store" =>
                  /\ add'[b].stack \in Stacks
                  /\ add'[b].task \in past[add'[b].stack]
    BY <1>1 DEF AddInv
  <2>1. CASE b = a
    BY <1>2, <1>3, <1>4, <2>1
  <2>2. CASE b # a
    <3>1. add'[b] = add[b]
      BY <1>4, <2>2
    <3> QED
      BY <3>1 DEF IInv, AddInv
  <2> QED
    BY <2>1, <2>2
<1>7. WordInv'
  BY <1>1, GivenSame DEF IInv, WordInv
<1> QED
  BY <1>1, <1>5, <1>6, <1>7, AdderStepInv

\* The store leaves a tag of data that was meant for a task of this stack.
LEMMA StoreEntryInv ==
  ASSUME IInv, NEW a \in Adders, StoreEntry(a)
  PROVE  IInv'
<1> DEFINE s == add[a].stack
           tag == MagicEntry(add[a].data)
<1>1. /\ add[a].pc = "store" /\ add' = [add EXCEPT ![a] = NotAdding]
      /\ word' = [word EXCEPT ![s] = tag]
      /\ UNCHANGED <<stack, gone, frame, deleted, given, past>>
  BY DEF StoreEntry
<1>2. /\ s \in Stacks /\ add[a].task \in past[s]
      /\ add[a].data \in given[add[a].task] /\ add[a].data \in Loadable
  BY <1>1 DEF IInv, AddInv, TypeOK, Loadable
<1>3. tag # Zero /\ tag \in Words /\ tag \in Tags(s)
  <2>1. tag # Zero
    BY <1>2, LoadableBits, TagIsAccepted
  <2>2. tag \in Words
    BY <1>2 DEF Words, Loadable
  <2> QED
    BY <1>2, <2>1, <2>2 DEF Tags, GivenOn
<1> HIDE DEF s, tag
<1>4. \A b \in Adders : add'[b] = IF b = a THEN NotAdding ELSE add[b]
  BY <1>1 DEF IInv, TypeOK
<1>5. \A r \in Stacks : word'[r] = IF r = s THEN tag ELSE word[r]
  BY <1>1 DEF IInv, TypeOK
<1>6. TypeOK'
  <2>1. word' \in [Stacks -> Words]
    BY <1>1, <1>3 DEF IInv, TypeOK
  <2>2. NotAdding \in [pc : {"idle", "stack", "store"},
                       task : Tasks \cup {None}, stack : Stacks \cup {None},
                       data : Addresses \cup {Zero}]
    BY DEF NotAdding
  <2>3. add' \in [Adders -> [pc : {"idle", "stack", "store"},
                             task : Tasks \cup {None}, stack : Stacks \cup {None},
                             data : Addresses \cup {Zero}]]
    BY <1>1, <2>2 DEF IInv, TypeOK
  <2>4. \A b \in Adders :
          /\ (add'[b].pc = "stack" => add'[b].task # None)
          /\ (add'[b].pc = "store" => add'[b].stack # None)
    BY <1>4 DEF IInv, TypeOK, NotAdding
  <2> QED
    BY <1>1, <2>1, <2>3, <2>4 DEF IInv, TypeOK
<1>7. AddInv'
  <2> SUFFICES ASSUME NEW b \in Adders
      PROVE  /\ add'[b].pc \in {"stack", "store"} =>
                  add'[b].task \in Tasks /\ add'[b].data \in given[add'[b].task]
             /\ add'[b].pc = "store" =>
                  /\ add'[b].stack \in Stacks
                  /\ add'[b].task \in past[add'[b].stack]
    BY <1>1 DEF AddInv
  <2>1. CASE b = a
    BY <1>4, <2>1 DEF NotAdding
  <2>2. CASE b # a
    <3>1. add'[b] = add[b]
      BY <1>4, <2>2
    <3> QED
      BY <3>1 DEF IInv, AddInv
  <2> QED
    BY <2>1, <2>2
<1>8. WordInv'
  <2> SUFFICES ASSUME NEW r \in Stacks
      PROVE  word'[r] = Zero \/ word'[r] \in Tags(r)'
    BY DEF WordInv
  <2>1. Tags(r)' = Tags(r)
    BY <1>1, GivenSame
  <2> QED
    BY <1>3, <1>5, <2>1 DEF IInv, WordInv
<1> QED
  BY <1>1, <1>3, <1>5, <1>6, <1>7, <1>8, AdderStepInv

-----------------------------------------------------------------------------
(***************************************************************************)
(* The invariants.                                                         *)
(***************************************************************************)

LEMMA InitInv == ASSUME Init PROVE IInv
<1>1. Zero \in Words /\ Zero \in SUBSET Bits
  BY DEF Words, Zero
<1>2. TypeOK
  BY <1>1 DEF Init, TypeOK, Idle, NotAdding, PCs
<1>3. AddInv /\ StackInv /\ WordInv
  BY DEF Init, AddInv, StackInv, WordInv, NotAdding
<1>4. ShapeInv /\ LoadInv /\ DataInv
  BY DEF Init, ShapeInv, LoadInv, DataInv, Shape, Idle, Levels
<1> QED
  BY <1>2, <1>3, <1>4 DEF IInv

LEMMA NextInv == ASSUME IInv, [Next]_vars PROVE IInv'
<1>1. CASE UNCHANGED vars
  <2>1. \A s : GivenOn(s)' = GivenOn(s) /\ Tags(s)' = Tags(s)
    BY <1>1, GivenSame DEF vars
  <2>2. TypeOK'
    BY <1>1 DEF IInv, TypeOK, vars
  <2>3. AddInv' /\ StackInv' /\ WordInv'
    BY <1>1, <2>1 DEF IInv, AddInv, StackInv, WordInv, vars
  <2> QED
    BY <1>1, <2>2, <2>3, AdderStepInv DEF vars
<1>2. ASSUME NEW t \in Tasks, NEW s \in Stacks, NewTask(t, s) PROVE IInv'
  BY <1>2, NewTaskInv
<1>3. ASSUME NEW t \in Tasks, FreeStack(t) PROVE IInv'
  BY <1>3, FreeStackInv
<1>4. ASSUME NEW t \in Tasks, CallQuery(t) \/ CallDel(t) \/ CallQueryData(t)
      PROVE  IInv'
  BY <1>4, CallInv DEF CallQuery, CallDel, CallQueryData, Levels
<1>5. ASSUME NEW t \in Tasks, Restore(t) PROVE IInv'
  BY <1>5, RestoreInv
<1>6. ASSUME NEW t \in Tasks, NEW l \in Levels, FrameStep(t, l) PROVE IInv'
  BY <1>6, LoadCcbInv, LoadCrcInv, LoadEnabledInv, LoadThrInv, LoadValueInv,
     ReturnInv DEF FrameStep
<1>7. ASSUME NEW a \in Adders, NEW t \in Tasks, NEW d \in Addresses \cup {Zero},
             CallAdd(a, t, d)
      PROVE  IInv'
  BY <1>7, CallAddInv DEF Loadable
<1>8. ASSUME NEW a \in Adders, LastEntry(a) \/ StoreEntry(a) PROVE IInv'
  BY <1>8, LastEntryInv, StoreEntryInv
<1> QED
  BY <1>1, <1>2, <1>3, <1>4, <1>5, <1>6, <1>7, <1>8 DEF Next

LEMMA Inductive == Spec => []IInv
<1>1. Init => IInv
  BY InitInv
<1>2. IInv /\ [Next]_vars => IInv'
  BY NextInv
<1> QED
  BY <1>1, <1>2, PTL DEF Spec

\* The variables keep their types: a word is zero or the tag of an address or
\* of NULL, whatever stores to it, and no adder stores without a stack.
THEOREM StackTypeCorrect == Spec => []TypeOK
<1>1. IInv => TypeOK
  BY DEF IInv
<1> QED
  BY <1>1, Inductive, PTL

\* A query or a deletion returns NULL or data that was meant for a task of this
\* stack, in every interleaving of its loads with stores, unless a NULL was
\* registered.
THEOREM EntriesAreGenuine == Spec => []Genuine
<1>1. IInv => Genuine
  <2> SUFFICES ASSUME IInv, NEW t \in Tasks, NEW l \in Levels,
                      frame[<<t, l>>].pc \in {"done", "restore"},
                      Zero \notin GivenOn(stack[t])
      PROVE  frame[<<t, l>>].data \in {Zero} \cup GivenOn(stack[t])
    BY DEF Genuine
  <2>1. stack[t] # None
    BY DEF IInv, ShapeInv
  <2> QED
    BY <2>1 DEF IInv, DataInv
<1> QED
  BY <1>1, Inductive, PTL

-----------------------------------------------------------------------------
(***************************************************************************)
(* Where an address is.                                                    *)
(***************************************************************************)

\* The data d is in the word of the stack s, with the adder a, in a frame of the
\* task t, or among what was given to some task.
InWord(d, s) == word[s] = MagicEntry(d)
Pending(d, a) == add[a].pc # "idle" /\ add[a].data = d
Holds(d, t) == \E l \in Levels : frame[<<t, l>>].data = d
Known(d) == \E t \in Tasks : d \in given[t]

\* An address is on its way to a word, or it was stored to one word and the
\* frames of one task have read it there, or it is deleted.
OnePlace(d) ==
  /\ \A a, b \in Adders : Pending(d, a) /\ Pending(d, b) => a = b
  /\ \A a \in Adders : Pending(d, a) =>
       /\ d \notin deleted
       /\ \A s \in Stacks : ~InWord(d, s)
       /\ \A t \in Tasks : ~Holds(d, t)
  /\ \A r, s \in Stacks : InWord(d, r) /\ InWord(d, s) => r = s
  /\ \A t \in Tasks, s \in Stacks : Holds(d, t) /\ InWord(d, s) => s = stack[t]
  /\ \A t, u \in Tasks : Holds(d, t) /\ Holds(d, u) => t = u
  /\ \A t \in Tasks : Holds(d, t) => d \notin deleted
  /\ \A s \in Stacks : InWord(d, s) => d \notin deleted
  /\ \/ d \in deleted
     \/ \E a \in Adders : Pending(d, a)
     \/ \E s \in Stacks : InWord(d, s)
     \/ \E t \in Tasks : Holds(d, t)
     => Known(d)

\* A deletion about to return d has cleared the word that d was in.
Cleared(d) ==
  \A t \in Tasks :
    frame[<<t, "task">>].op = "del" /\ frame[<<t, "task">>].pc = "done"
      /\ frame[<<t, "task">>].data = d
    => ~InWord(d, stack[t])

\* A frame has data from LoadValue on only.
LateInv ==
  \A t \in Tasks, l \in Levels :
    frame[<<t, l>>].pc \notin {"restore", "done"} => frame[<<t, l>>].data = Zero

Places == LateInv /\ \A d \in Addresses : OnePlace(d) /\ Cleared(d)

\* An address that is in no place it was not in before is still in one only.
LEMMA Shrink ==
  ASSUME NEW d, OnePlace(d), UNCHANGED given,
         \A a \in Adders : Pending(d, a)' => Pending(d, a),
         \A s \in Stacks : InWord(d, s)' => InWord(d, s),
         \A t \in Tasks : Holds(d, t)' => Holds(d, t) /\ stack'[t] = stack[t],
         d \in deleted' => d \in deleted
  PROVE  OnePlace(d)'
<1>1. Known(d)' <=> Known(d)
  BY DEF Known
<1> HIDE DEF Pending, InWord, Holds, Known
<1> QED
  BY <1>1 DEF OnePlace

\* A step of a frame that has no data afterwards.
LEMMA QuietPlaces ==
  ASSUME IInv, Places, NEW t \in Tasks, NEW l \in Levels, NEW new,
         frame' = [frame EXCEPT ![<<t, l>>] = new], new.data = Zero,
         UNCHANGED <<stack, word, add, deleted, given>>
  PROVE  Places'
<1>1. \A u \in Tasks, k \in Levels :
        frame'[<<u, k>>] = IF u = t /\ k = l THEN new ELSE frame[<<u, k>>]
  BY DEF IInv, TypeOK
<1>2. LateInv'
  BY <1>1 DEF Places, LateInv
<1>3. ASSUME NEW d \in Addresses PROVE OnePlace(d)' /\ Cleared(d)'
  <2>1. d # Zero
    BY AddressNotZero
  <2>2. OnePlace(d) /\ Cleared(d)
    BY DEF Places
  <2>3. \A u \in Tasks : Holds(d, u)' => Holds(d, u) /\ stack'[u] = stack[u]
    BY <1>1, <2>1 DEF Holds
  <2>4. OnePlace(d)'
    BY <2>2, <2>3, Shrink DEF Pending, InWord
  <2>5. Cleared(d)'
    BY <1>1, <2>1, <2>2 DEF Cleared, InWord, Levels
  <2> QED
    BY <2>4, <2>5
<1> QED
  BY <1>2, <1>3 DEF Places

\* The steps of a frame before it has data, and those of which it keeps none.
LEMMA LoadPlaces ==
  ASSUME IInv, Places, NEW t \in Tasks, NEW l \in Levels,
         LoadCcb(t, l) \/ LoadCrc(t, l) \/ LoadEnabled(t, l) \/ LoadThr(t, l)
  PROVE  Places'
<1>1. PICK pc \in {"ccb", "again", "crc", "again_crc", "enabled", "again_enabled",
                   "thr"}, new \in FrameRecords :
        Step(t, l, pc, new) /\ new.data = frame[<<t, l>>].data
  <2>1. frame[<<t, l>>] \in FrameRecords
    BY FrameTyped DEF IInv
  <2>2. ASSUME NEW to \in PCs
        PROVE  At(t, l, to) \in FrameRecords
               /\ At(t, l, to).data = frame[<<t, l>>].data
    BY <2>1 DEF At, FrameRecords
  <2>3. ASSUME NEW to \in PCs, Runs(t, l)
        PROVE  LET r == [At(t, l, to) EXCEPT !.load = Word(t)] IN
               r \in FrameRecords /\ r.data = frame[<<t, l>>].data
    <3>1. Word(t) \in Words
      BY <2>3 DEF Runs, Word, IInv, TypeOK
    <3> QED
      BY <2>1, <3>1 DEF At, FrameRecords
  <2>4. CASE LoadCcb(t, l)
    <3>1. PICK pc \in {<<"ccb", "crc">>, <<"again", "again_crc">>} :
            Step(t, l, pc[1], [At(t, l, pc[2]) EXCEPT !.load = Word(t)])
      BY <2>4 DEF LoadCcb
    <3> DEFINE r == [At(t, l, pc[2]) EXCEPT !.load = Word(t)]
    <3>2. pc[2] \in PCs /\ Runs(t, l) /\ pc[1] \in {"ccb", "again"}
      BY <3>1 DEF Step, PCs
    <3>3. r \in FrameRecords /\ r.data = frame[<<t, l>>].data
      BY <2>3, <3>2
    <3>4. Step(t, l, pc[1], r)
      BY <3>1
    <3> HIDE DEF r
    <3> QED
      BY <3>2, <3>3, <3>4
  <2>5. ASSUME NEW pc \in PCs
        PROVE  Missed(t, l, pc) \in FrameRecords
               /\ Missed(t, l, pc).data = frame[<<t, l>>].data
    BY <2>2 DEF Missed, PCs
  <2>6. CASE LoadCrc(t, l)
    <3>1. PICK pc \in {<<"crc", "enabled">>, <<"again_crc", "again_enabled">>} :
            Step(t, l, pc[1], IF check_crc(frame[<<t, l>>].load, Word(t))
                              THEN At(t, l, pc[2]) ELSE Missed(t, l, pc[1]))
      BY <2>6 DEF LoadCrc
    <3>2. pc[1] \in PCs /\ pc[2] \in PCs
      BY DEF PCs
    <3> QED
      BY <2>2, <2>5, <3>1, <3>2
  <2>7. CASE LoadEnabled(t, l)
    BY <2>2, <2>5, <2>7 DEF LoadEnabled, PCs
  <2>8. CASE LoadThr(t, l)
    <3>1. Step(t, l, "thr", [At(t, l, "value") EXCEPT !.load = Word(t)])
      BY <2>8 DEF LoadThr
    <3>2. "value" \in PCs /\ Runs(t, l)
      BY <3>1 DEF Step, PCs
    <3> QED
      BY <2>3, <3>1, <3>2
  <2> QED
    BY <2>4, <2>6, <2>7, <2>8
<1>2. new.data = Zero
  BY <1>1 DEF Step, Places, LateInv
<1>3. UNCHANGED <<stack, word, add, deleted, given>>
  BY <1>1 DEF Step, LoadCcb, LoadCrc, LoadEnabled, LoadThr
<1>4. frame' = [frame EXCEPT ![<<t, l>>] = new]
  BY <1>1 DEF Step
<1> QED
  BY <1>2, <1>3, <1>4, QuietPlaces

LEMMA CallPlaces ==
  ASSUME IInv, Places, NEW t \in Tasks, NEW l \in Levels, NEW op, Call(t, l, op)
  PROVE  Places'
<1> DEFINE new == [Idle EXCEPT !.op = op,
                               !.pc = IF op = "data" THEN "again" ELSE "ccb"]
<1>1. new.data = Zero
  BY DEF Idle
<1>2. frame' = [frame EXCEPT ![<<t, l>>] = new]
      /\ UNCHANGED <<stack, word, add, deleted, given>>
  BY DEF Call
<1> HIDE DEF new
<1> QED
  BY <1>1, <1>2, QuietPlaces

\* A query or a PMI returns, or a deletion, which cleared the word before.
LEMMA ReturnPlaces ==
  ASSUME IInv, Places, NEW t \in Tasks, NEW l \in Levels, Return(t, l)
  PROVE  Places'
<1> DEFINE old == frame[<<t, l>>]
           new == IF old.op = "del" THEN [Idle EXCEPT !.op = "exited"] ELSE Idle
<1>1. /\ frame' = [frame EXCEPT ![<<t, l>>] = new]
      /\ deleted' = IF old.op = "del" THEN deleted \cup {old.data} ELSE deleted
      /\ UNCHANGED <<stack, word, add, given, past>>
      /\ Runs(t, l) /\ old.pc = "done"
  BY DEF Return
<1>2. new.data = Zero
  BY DEF Idle
<1>3. CASE old.op # "del"
  BY <1>1, <1>2, <1>3, QuietPlaces
<1>4. CASE old.op = "del"
  <2>1. l = "task" /\ frame[<<t, "nmi">>] = Idle
    BY <1>1, <1>4 DEF IInv, ShapeInv, Shape, Runs, Levels
  <2>2. \A u \in Tasks, k \in Levels :
          frame'[<<u, k>>] = IF u = t /\ k = l THEN new ELSE frame[<<u, k>>]
    BY <1>1 DEF IInv, TypeOK
  <2> HIDE DEF new
  <2>3. LateInv'
    BY <1>2, <2>2 DEF Places, LateInv
  <2>4. ASSUME NEW d \in Addresses PROVE OnePlace(d)' /\ Cleared(d)'
    <3>1. d # Zero /\ OnePlace(d) /\ Cleared(d)
      BY AddressNotZero DEF Places
    <3>2. \A u \in Tasks : Holds(d, u)' => Holds(d, u) /\ stack'[u] = stack[u]
      BY <1>1, <1>2, <2>2, <3>1 DEF Holds
    <3>3. \A s \in Stacks : InWord(d, s)' <=> InWord(d, s)
      BY <1>1 DEF InWord
    <3>4. \A a \in Adders : Pending(d, a)' <=> Pending(d, a)
      BY <1>1 DEF Pending
    <3>5. OnePlace(d)'
      <4>1. CASE old.data # d
        BY <1>1, <1>4, <3>1, <3>2, <3>3, <3>4, <4>1, Shrink
      <4>2. CASE old.data = d
        <5>1. Holds(d, t)
          BY <4>2 DEF Holds
        <5>2. ~Holds(d, t)'
          BY <1>2, <2>1, <2>2, <3>1 DEF Holds, Idle, Levels
        <5>3. \A u \in Tasks : ~Holds(d, u)'
          BY <3>1, <3>2, <5>1, <5>2 DEF OnePlace
        <5>4. \A s \in Stacks : ~InWord(d, s)'
          BY <1>1, <1>4, <2>1, <3>1, <3>3, <4>2, <5>1 DEF OnePlace, Cleared
        <5>5. \A a \in Adders : ~Pending(d, a)'
          BY <3>1, <3>4, <5>1 DEF OnePlace
        <5>6. Known(d)'
          BY <1>1, <3>1, <5>1 DEF OnePlace, Known
        <5> HIDE DEF Holds, InWord, Pending, Known
        <5> QED
          BY <5>3, <5>4, <5>5, <5>6 DEF OnePlace
      <4> QED
        BY <4>1, <4>2
    <3>6. Cleared(d)'
      BY <1>1, <1>2, <2>2, <3>1 DEF Cleared, InWord, Levels
    <3> QED
      BY <3>5, <3>6
  <2> QED
    BY <2>3, <2>4 DEF Places
<1> QED
  BY <1>3, <1>4

\* A frame gets the address that is in the word of its stack.
LEMMA LoadValuePlaces ==
  ASSUME IInv, Places, NEW t \in Tasks, NEW l \in Levels, LoadValue(t, l)
  PROVE  Places'
<1> DEFINE s == stack[t]
           ptr == build_ptr(frame[<<t, l>>].load, Word(t))
           to == IF frame[<<t, l>>].op = "del" THEN "restore" ELSE "done"
           new == [At(t, l, to) EXCEPT !.data = ptr]
<1>1. Step(t, l, "value", new) /\ UNCHANGED word
  BY DEF LoadValue
<1>2. Runs(t, l) /\ frame[<<t, l>>].pc = "value"
  BY <1>1 DEF Step
<1>3. s \in Stacks /\ frame[<<t, l>>] \in FrameRecords
  BY <1>2, AtWork
<1>4. new.pc = to /\ new.data = ptr /\ new.op = frame[<<t, l>>].op
  BY <1>3 DEF At, FrameRecords
<1>5. \A u \in Tasks, k \in Levels :
        frame'[<<u, k>>] = IF u = t /\ k = l THEN new ELSE frame[<<u, k>>]
  BY <1>1 DEF Step, IInv, TypeOK
<1>6. UNCHANGED <<stack, word, add, deleted, given>>
  BY <1>1 DEF Step
<1>7. \A d \in Addresses : ptr = d => InWord(d, s)
  <2>1. frame[<<t, l>>].load \in Tags(s) /\ word[s] \in Tags(s)
    BY <1>2, <1>3 DEF IInv, LoadInv, WordInv
  <2>2. PICK c \in GivenOn(s), e \in GivenOn(s) :
          frame[<<t, l>>].load = MagicEntry(c) /\ word[s] = MagicEntry(e)
    BY <2>1 DEF Tags
  <2>3. GivenOn(s) \subseteq Loadable
    BY <1>3 DEF IInv, TypeOK, GivenOn, Loadable
  <2> QED
    BY <2>2, <2>3, LastTag DEF Word, InWord
<1> HIDE DEF new, ptr
<1>8. LateInv'
  BY <1>4, <1>5 DEF Places, LateInv
<1>9. ASSUME NEW d \in Addresses PROVE OnePlace(d)' /\ Cleared(d)'
  <2>1. OnePlace(d) /\ Cleared(d)
    BY DEF Places
  <2>2. \A u \in Tasks : Holds(d, u)' => Holds(d, u) \/ (u = t /\ InWord(d, s))
    BY <1>4, <1>5, <1>7 DEF Holds
  <2>3. \A r \in Stacks : InWord(d, r)' <=> InWord(d, r)
    BY <1>6 DEF InWord
  <2>4. \A a \in Adders : Pending(d, a)' <=> Pending(d, a)
    BY <1>6 DEF Pending
  <2>5. Known(d)' <=> Known(d)
    BY <1>6 DEF Known
  <2>6. OnePlace(d)'
    <3>1. \A u \in Tasks : Holds(d, u) /\ InWord(d, s) => u = t
      BY <1>2, <1>3, <2>1 DEF OnePlace, IInv, StackInv, Runs
    <3>2. \A u, v \in Tasks : Holds(d, u)' /\ Holds(d, v)' => u = v
      BY <2>1, <2>2, <3>1 DEF OnePlace
    <3>3. \A u \in Tasks : Holds(d, u)' => d \notin deleted /\ Known(d)
      BY <1>3, <2>1, <2>2 DEF OnePlace
    <3>4. \A u \in Tasks, r \in Stacks : Holds(d, u)' /\ InWord(d, r) => r = stack[u]
      BY <1>3, <2>1, <2>2 DEF OnePlace
    <3>5. \A a \in Adders, u \in Tasks : Pending(d, a) => ~Holds(d, u)'
      BY <1>3, <2>1, <2>2 DEF OnePlace
    <3> HIDE DEF Holds, InWord, Pending, Known
    <3> QED
      BY <1>6, <2>1, <2>3, <2>4, <2>5, <3>2, <3>3, <3>4, <3>5 DEF OnePlace
  <2>7. Cleared(d)'
    BY <1>4, <1>5, <1>6, <2>1 DEF Cleared, InWord, Levels
  <2> QED
    BY <2>6, <2>7
<1> QED
  BY <1>8, <1>9 DEF Places

\* The word is cleared, and the task keeps what it read there.
LEMMA RestorePlaces ==
  ASSUME IInv, Places, NEW t \in Tasks, Restore(t)
  PROVE  Places'
<1> DEFINE new == At(t, "task", "done")
<1>1. /\ UNCHANGED <<stack, add, deleted, given>>
      /\ frame' = [frame EXCEPT ![<<t, "task">>] = new]
      /\ word' = [word EXCEPT ![stack[t]] = Zero]
      /\ Runs(t, "task") /\ frame[<<t, "task">>].pc = "restore"
  BY DEF Restore, Step
<1>2. stack[t] \in Stacks /\ frame[<<t, "task">>] \in FrameRecords
  BY <1>1, AtWork DEF Levels
<1>3. /\ new.pc = "done" /\ new.data = frame[<<t, "task">>].data
      /\ new.op = frame[<<t, "task">>].op
  BY <1>2 DEF At, FrameRecords
<1> HIDE DEF new
<1>4. \A u \in Tasks, k \in Levels :
        frame'[<<u, k>>] = IF u = t /\ k = "task" THEN new ELSE frame[<<u, k>>]
  BY <1>1 DEF IInv, TypeOK
<1>5. \A s \in Stacks : word'[s] = IF s = stack[t] THEN Zero ELSE word[s]
  BY <1>1 DEF IInv, TypeOK
<1>6. LateInv'
  BY <1>3, <1>4 DEF Places, LateInv
<1>7. ASSUME NEW d \in Addresses PROVE OnePlace(d)' /\ Cleared(d)'
  <2>1. OnePlace(d) /\ Cleared(d)
    BY DEF Places
  <2>2. \A s \in Stacks : InWord(d, s)' => InWord(d, s) /\ s # stack[t]
    BY <1>5, TagNotZero DEF InWord
  <2>3. \A u \in Tasks : Holds(d, u)' => Holds(d, u) /\ stack'[u] = stack[u]
    BY <1>1, <1>3, <1>4 DEF Holds, Levels
  <2>4. OnePlace(d)'
    BY <1>1, <2>1, <2>2, <2>3, Shrink DEF Pending
  <2>5. Cleared(d)'
    <3> SUFFICES ASSUME NEW u \in Tasks, frame'[<<u, "task">>].op = "del",
                        frame'[<<u, "task">>].pc = "done",
                        frame'[<<u, "task">>].data = d
        PROVE  ~InWord(d, stack[u])'
      BY <1>1 DEF Cleared, InWord
    <3>1. CASE u = t
      BY <1>1, <1>2, <2>2, <3>1 DEF InWord
    <3>2. CASE u # t
      <4>1. stack[u] \in Stacks
        <5>1. "task" \in Levels /\ frame[<<u, "task">>].pc = "done"
          BY <1>4, <3>2 DEF Levels
        <5>2. stack[u] # None
          BY <5>1 DEF IInv, ShapeInv
        <5> QED
          BY <5>2 DEF IInv, TypeOK
      <4>2. ~InWord(d, stack[u])
        BY <1>4, <2>1, <3>2 DEF Cleared, Levels
      <4> QED
        BY <1>1, <2>2, <4>1, <4>2 DEF InWord
    <3> QED
      BY <3>1, <3>2
  <2> QED
    BY <2>4, <2>5
<1> QED
  BY <1>6, <1>7 DEF Places

\* The steps of an adder or of a stack that leave the frames alone.
LEMMA FramesSame ==
  ASSUME UNCHANGED frame
  PROVE  LateInv' = LateInv /\ \A d, t : Holds(d, t)' = Holds(d, t)
BY DEF LateInv, Holds

\* A fork clears the word; the new task has no data.
LEMMA NewTaskPlaces ==
  ASSUME IInv, Places, NEW t \in Tasks, NEW s \in Stacks, NewTask(t, s)
  PROVE  Places'
<1>1. /\ stack[t] = None
      /\ stack' = [stack EXCEPT ![t] = s]
      /\ word' = [word EXCEPT ![s] = Zero]
      /\ UNCHANGED <<add, frame, deleted, given>>
  BY DEF NewTask
<1>2. \A l \in Levels : frame[<<t, l>>].data = Zero
  BY <1>1 DEF IInv, ShapeInv, Shape
<1>3. \A u \in Tasks \ {t} : stack'[u] = stack[u]
  BY <1>1 DEF IInv, TypeOK
<1>4. ASSUME NEW d \in Addresses PROVE OnePlace(d)' /\ Cleared(d)'
  <2>1. OnePlace(d) /\ Cleared(d) /\ d # Zero
    BY AddressNotZero DEF Places
  <2>2. ~Holds(d, t)
    BY <1>2, <2>1 DEF Holds
  <2>3. \A r \in Stacks : InWord(d, r)' => InWord(d, r)
    BY <1>1, TagNotZero DEF InWord, IInv, TypeOK
  <2>4. \A u \in Tasks : Holds(d, u)' => Holds(d, u) /\ stack'[u] = stack[u]
    BY <1>1, <1>3, <2>2, FramesSame
  <2>5. OnePlace(d)'
    BY <1>1, <2>1, <2>3, <2>4, Shrink DEF Pending
  <2>6. Cleared(d)'
    <3> SUFFICES ASSUME NEW u \in Tasks, frame[<<u, "task">>].op = "del",
                        frame[<<u, "task">>].pc = "done",
                        frame[<<u, "task">>].data = d
        PROVE  ~InWord(d, stack[u])'
      BY <1>1 DEF Cleared, InWord
    <3>1. "task" \in Levels
      BY DEF Levels
    <3>2. u # t
      BY <1>2, <2>1, <3>1
    <3>3. stack[u] # None
      BY <3>1 DEF IInv, ShapeInv
    <3>4. stack[u] \in Stacks
      BY <3>3 DEF IInv, TypeOK
    <3>5. ~InWord(d, stack[u])
      BY <2>1 DEF Cleared
    <3> QED
      BY <1>3, <2>3, <3>2, <3>4, <3>5 DEF InWord
  <2> QED
    BY <2>5, <2>6
<1> QED
  BY <1>1, <1>4, FramesSame DEF Places

\* The stack goes after the last frame has returned.
LEMMA FreeStackPlaces ==
  ASSUME IInv, Places, NEW t \in Tasks, FreeStack(t)
  PROVE  Places'
<1>1. /\ stack' = [stack EXCEPT ![t] = None]
      /\ UNCHANGED <<word, add, frame, deleted, given>>
      /\ frame[<<t, "task">>].op = "exited" /\ frame[<<t, "nmi">>] = Idle
  BY DEF FreeStack
<1>2. \A l \in Levels : frame[<<t, l>>].data = Zero
  BY <1>1 DEF IInv, ShapeInv, Shape, Levels, Idle
<1>3. \A u \in Tasks \ {t} : stack'[u] = stack[u]
  BY <1>1 DEF IInv, TypeOK
<1>4. ASSUME NEW d \in Addresses PROVE OnePlace(d)' /\ Cleared(d)'
  <2>1. OnePlace(d) /\ Cleared(d) /\ d # Zero
    BY AddressNotZero DEF Places
  <2>2. ~Holds(d, t)
    BY <1>2, <2>1 DEF Holds
  <2>3. \A u \in Tasks : Holds(d, u)' => Holds(d, u) /\ stack'[u] = stack[u]
    BY <1>1, <1>3, <2>2, FramesSame
  <2>4. OnePlace(d)'
    BY <1>1, <2>1, <2>3, Shrink DEF Pending, InWord
  <2>5. Cleared(d)'
    BY <1>1, <1>3, <2>1 DEF Cleared, InWord
  <2> QED
    BY <2>4, <2>5
<1> QED
  BY <1>1, <1>4, FramesSame DEF Places

\* An address that nobody was given is in no place yet.
LEMMA CallAddPlaces ==
  ASSUME IInv, Places, NEW a \in Adders, NEW t \in Tasks, NEW c \in Loadable,
         CallAdd(a, t, c)
  PROVE  Places'
<1>1. /\ add[a] = NotAdding
      /\ c # Zero => \A u \in Tasks : c \notin given[u]
      /\ add' = [add EXCEPT ![a] = [pc |-> "stack", task |-> t, stack |-> None,
                                    data |-> c]]
      /\ given' = [given EXCEPT ![t] = @ \cup {c}]
      /\ UNCHANGED <<stack, word, frame, deleted>>
  BY DEF CallAdd
<1>2. \A b \in Adders \ {a} : add'[b] = add[b]
  BY <1>1 DEF IInv, TypeOK
<1>3. add'[a].pc = "stack" /\ add'[a].data = c
  BY <1>1 DEF IInv, TypeOK
<1>4. \A u \in Tasks : given[u] \subseteq given'[u] /\ given'[u] \subseteq given[u] \cup {c}
  BY <1>1 DEF IInv, TypeOK
<1>5. c \in given'[t]
  BY <1>1 DEF IInv, TypeOK
<1>6. ASSUME NEW d \in Addresses PROVE OnePlace(d)' /\ Cleared(d)'
  <2>1. OnePlace(d) /\ Cleared(d) /\ d # Zero
    BY AddressNotZero DEF Places
  <2>2. Cleared(d)'
    BY <1>1, <2>1 DEF Cleared, InWord
  <2>3. /\ \A s : InWord(d, s)' <=> InWord(d, s)
        /\ \A u : Holds(d, u)' <=> Holds(d, u)
    BY <1>1, FramesSame DEF InWord
  <2>4. Known(d) => Known(d)'
    BY <1>4 DEF Known
  <2>5. \A b \in Adders : Pending(d, b)' => Pending(d, b) \/ (b = a /\ c = d)
    BY <1>2, <1>3 DEF Pending
  <2>6. OnePlace(d)'
    <3>1. CASE c # d
      <4>1. \A b \in Adders : Pending(d, b)' => Pending(d, b)
        BY <2>5, <3>1
      <4> HIDE DEF Holds, InWord, Pending, Known
      <4> QED
        BY <1>1, <2>1, <2>3, <2>4, <4>1 DEF OnePlace
    <3>2. CASE c = d
      <4>1. ~Known(d) /\ Known(d)'
        BY <1>1, <1>5, <2>1, <3>2 DEF Known
      <4> HIDE DEF Holds, InWord, Pending, Known
      <4> QED
        BY <1>1, <2>1, <2>3, <2>5, <4>1 DEF OnePlace
    <3> QED
      BY <3>1, <3>2
  <2> QED
    BY <2>2, <2>6
<1> QED
  BY <1>1, <1>6, FramesSame DEF Places

\* The adder looks for the stack, and gives up if there is none.
LEMMA LastEntryPlaces ==
  ASSUME IInv, Places, NEW a \in Adders, LastEntry(a)
  PROVE  Places'
<1>1. UNCHANGED <<stack, word, frame, deleted, given>> /\ add[a].pc = "stack"
  BY DEF LastEntry
<1>2. \A b \in Adders : \A d : Pending(d, b)' => Pending(d, b)
  <2>1. \A b \in Adders \ {a} : add'[b] = add[b]
    BY DEF LastEntry, IInv, TypeOK
  <2>2. \/ add'[a] = NotAdding
        \/ add'[a].data = add[a].data
    BY DEF LastEntry, IInv, TypeOK
  <2>3. NotAdding.pc = "idle"
    BY DEF NotAdding
  <2> QED
    BY <1>1, <2>1, <2>2, <2>3 DEF Pending
<1>3. ASSUME NEW d \in Addresses PROVE OnePlace(d)' /\ Cleared(d)'
  <2>1. OnePlace(d) /\ Cleared(d)
    BY DEF Places
  <2>2. OnePlace(d)'
    BY <1>1, <1>2, <2>1, FramesSame, Shrink DEF InWord
  <2>3. Cleared(d)'
    BY <1>1, <2>1 DEF Cleared, InWord
  <2> QED
    BY <2>2, <2>3
<1> QED
  BY <1>1, <1>3, FramesSame DEF Places

\* An address goes from the adder to the word.
LEMMA StoreEntryPlaces ==
  ASSUME IInv, Places, NEW a \in Adders, StoreEntry(a)
  PROVE  Places'
<1> DEFINE s == add[a].stack
           c == add[a].data
<1>1. /\ UNCHANGED <<stack, frame, deleted, given>> /\ add[a].pc = "store"
      /\ word' = [word EXCEPT ![s] = MagicEntry(c)]
      /\ add' = [add EXCEPT ![a] = NotAdding]
  BY DEF StoreEntry
<1>2. s \in Stacks /\ c \in Loadable
  BY <1>1 DEF IInv, AddInv, TypeOK, Loadable
<1>3. \A b \in Adders : \A d : Pending(d, b)' => Pending(d, b) /\ b # a
  BY <1>1 DEF Pending, NotAdding, IInv, TypeOK
<1>4. \A d \in Addresses, r \in Stacks :
        InWord(d, r)' => InWord(d, r) \/ (r = s /\ d = c)
  BY <1>1, <1>2, TagsDiffer DEF InWord, IInv, TypeOK
<1>5. \A d : d = c => Pending(d, a)
  BY <1>1 DEF Pending
<1>6. ASSUME NEW d \in Addresses PROVE OnePlace(d)' /\ Cleared(d)'
  <2>1. OnePlace(d) /\ Cleared(d)
    BY DEF Places
  <2>2. /\ \A u : Holds(d, u)' <=> Holds(d, u)
        /\ Known(d)' <=> Known(d)
    BY <1>1, FramesSame DEF Known
  <2>3. OnePlace(d)'
    <3>1. CASE d # c
      <4>1. \A r \in Stacks : InWord(d, r)' => InWord(d, r)
        BY <1>4, <3>1
      <4> HIDE DEF c, s
      <4> QED
        BY <1>1, <1>3, <2>1, <2>2, <4>1, Shrink
    <3>2. CASE d = c
      <4>1. Pending(d, a)
        BY <1>5, <3>2
      <4>2. \A r \in Stacks : InWord(d, r)' => r = s
        BY <1>4, <2>1, <4>1 DEF OnePlace
      <4> HIDE DEF Holds, InWord, Pending, Known, c, s
      <4> QED
        BY <1>1, <1>3, <2>1, <2>2, <4>1, <4>2 DEF OnePlace
    <3> QED
      BY <3>1, <3>2
  <2>4. Cleared(d)'
    <3> SUFFICES ASSUME NEW u \in Tasks, frame[<<u, "task">>].op = "del",
                        frame[<<u, "task">>].pc = "done",
                        frame[<<u, "task">>].data = d
        PROVE  ~InWord(d, stack[u])'
      BY <1>1 DEF Cleared, InWord
    <3>1. "task" \in Levels
      BY DEF Levels
    <3>2. Holds(d, u)
      BY <3>1 DEF Holds
    <3>3. d # c
      BY <1>5, <2>1, <3>2 DEF OnePlace
    <3>4. stack[u] # None
      BY <3>1 DEF IInv, ShapeInv
    <3>5. stack[u] \in Stacks
      BY <3>4 DEF IInv, TypeOK
    <3>6. ~InWord(d, stack[u])
      BY <2>1 DEF Cleared
    <3>7. InWord(d, stack[u])' => InWord(d, stack[u])
      BY <1>1, <1>4, <3>3, <3>5 DEF InWord
    <3> QED
      BY <3>6, <3>7
  <2> QED
    BY <2>3, <2>4
<1> QED
  BY <1>1, <1>6, FramesSame DEF Places

LEMMA InitPlaces == Init => Places
<1> SUFFICES ASSUME Init PROVE Places
  OBVIOUS
<1>1. LateInv
  BY DEF Init, LateInv, Idle
<1>2. ASSUME NEW d \in Addresses PROVE OnePlace(d) /\ Cleared(d)
  <2>1. d # Zero
    BY AddressNotZero
  <2>2. /\ \A a \in Adders : ~Pending(d, a)
        /\ \A s \in Stacks : ~InWord(d, s)
        /\ \A t \in Tasks : ~Holds(d, t)
        /\ d \notin deleted
    BY <2>1, TagNotZero DEF Init, Pending, InWord, Holds, NotAdding, Idle
  <2>3. Cleared(d)
    BY <2>1 DEF Init, Cleared, Idle, Levels
  <2> QED
    BY <2>2, <2>3 DEF OnePlace
<1> QED
  BY <1>1, <1>2 DEF Places

LEMMA NextPlaces == IInv /\ Places /\ [Next]_vars => Places'
<1> SUFFICES ASSUME IInv, Places, [Next]_vars PROVE Places'
  OBVIOUS
<1>1. CASE UNCHANGED vars
  <2>1. UNCHANGED <<stack, word, add, frame, deleted, given>>
    BY <1>1 DEF vars
  <2>2. LateInv'
    BY <2>1 DEF Places, LateInv
  <2>3. ASSUME NEW d \in Addresses PROVE OnePlace(d)' /\ Cleared(d)'
    <3>1. OnePlace(d) /\ Cleared(d)
      BY DEF Places
    <3>2. \A a \in Adders : Pending(d, a)' => Pending(d, a)
      BY <2>1 DEF Pending
    <3>3. \A s \in Stacks : InWord(d, s)' => InWord(d, s)
      BY <2>1 DEF InWord
    <3>4. \A t \in Tasks : Holds(d, t)' => Holds(d, t)
      BY <2>1 DEF Holds
    <3>5. OnePlace(d)'
      BY <2>1, <3>1, <3>2, <3>3, <3>4, Shrink
    <3>6. Cleared(d)'
      BY <2>1, <3>1 DEF Cleared, InWord
    <3> QED
      BY <3>5, <3>6
  <2> QED
    BY <2>2, <2>3 DEF Places
<1>2. ASSUME NEW t \in Tasks, NEW s \in Stacks, NewTask(t, s) PROVE Places'
  BY <1>2, NewTaskPlaces
<1>3. ASSUME NEW t \in Tasks, FreeStack(t) PROVE Places'
  BY <1>3, FreeStackPlaces
<1>4. ASSUME NEW t \in Tasks, CallQuery(t) \/ CallDel(t) \/ CallQueryData(t)
      PROVE  Places'
  BY <1>4, CallPlaces DEF CallQuery, CallDel, CallQueryData, Levels
<1>5. ASSUME NEW t \in Tasks, Restore(t) PROVE Places'
  BY <1>5, RestorePlaces
<1>6. ASSUME NEW t \in Tasks, NEW l \in Levels, FrameStep(t, l) PROVE Places'
  BY <1>6, LoadPlaces, LoadValuePlaces, ReturnPlaces DEF FrameStep
<1>7. ASSUME NEW a \in Adders, NEW t \in Tasks, NEW d \in Addresses \cup {Zero},
             CallAdd(a, t, d)
      PROVE  Places'
  BY <1>7, CallAddPlaces DEF Loadable
<1>8. ASSUME NEW a \in Adders, LastEntry(a) \/ StoreEntry(a) PROVE Places'
  BY <1>8, LastEntryPlaces, StoreEntryPlaces
<1> QED
  BY <1>1, <1>2, <1>3, <1>4, <1>5, <1>6, <1>7, <1>8 DEF Next

\* Data that the exit wrapper got from a deletion, and frees, is in no word any
\* more and in no query that is under way, whatever adders store meanwhile to
\* this stack or to others.
THEOREM DeletedDataIsGone == Spec => []DeletedIsGone
<1>1. Init => Places
  BY InitPlaces
<1>2. IInv /\ Places /\ [Next]_vars => Places'
  BY NextPlaces
<1>3. Places => DeletedIsGone
  BY DEF Places, OnePlace, InWord, Holds, DeletedIsGone
<1> QED
  BY <1>1, <1>2, <1>3, Inductive, PTL DEF Spec

-----------------------------------------------------------------------------
(***************************************************************************)
(* A deletion without an overlapping store returns what the word said when *)
(* it began: until it clears the word, every load of it gives that value.  *)
(***************************************************************************)

\* A deletion that no store overlapped, at its place in the code.
LatestAt(t) ==
  LET r == frame[<<t, "task">>] IN
  /\ r.pc # "done" => word[stack[t]] = latest[t]
  /\ r.pc \in {"crc", "again_crc", "value"} => r.load = latest[t]
  /\ r.pc \notin {"ccb", "crc", "restore", "done"} => latest[t] # Zero
  /\ r.pc \in {"restore", "done"} =>
       \/ latest[t] = Zero /\ r.data = Zero
       \/ latest[t] = MagicEntry(r.data)

Alone(t) == frame[<<t, "task">>].op = "del" /\ latest[t] # None

LatestInv ==
  /\ latest \in [Tasks -> Words \cup {None}]
  /\ \A t \in Tasks : Alone(t) => LatestAt(t)

\* A cleared word fails the test of the checksum.
LEMMA ZeroIsRefused == ~check_crc(Zero, Zero)
<1>1. 2 \in Xor(Zero \cap PTR_CCB_MASK, CRC_MAGIC)
  BY DEF Xor, Zero, CRC_MAGIC
<1>2. 2 \notin Right(Zero \cap PTR_CRC_MASK, 48)
  BY DEF Right, Zero
<1> QED
  BY <1>1, <1>2 DEF check_crc

\* The tag of NULL reads as NULL.
LEMMA ZeroTagIsZero == build_ptr(MagicEntry(Zero), MagicEntry(Zero)) = Zero
<1>1. Zero \subseteq Bits
  BY DEF Zero
<1>2. PTR_THR \notin MagicEntry(Zero)
  BY <1>1, TagBits DEF PTR_THR, Zero
<1>3. ASSUME NEW b \in PTR_USED_MASK PROVE b \notin MagicEntry(Zero)
  BY <1>1, <1>3, TagBits DEF PTR_USED_MASK, Zero
<1> QED
  BY <1>2, <1>3 DEF build_ptr, Zero

\* A word that is stable while it is read: it is accepted unless it is cleared,
\* and reads as the address whose tag it is.
LEMMA StableWord ==
  ASSUME NEW w \in Words
  PROVE  /\ check_crc(w, w) <=> w # Zero
         /\ w # Zero => ENABLED_BIT \in w /\ w = MagicEntry(build_ptr(w, w))
<1>1. CASE w = Zero
  BY <1>1, ZeroIsRefused
<1>2. CASE w # Zero
  <2>1. PICK d \in Loadable : w = MagicEntry(d)
    BY <1>2 DEF Words, Loadable
  <2>2. d \subseteq Bits
    BY LoadableBits
  <2>3. build_ptr(w, w) = d
    BY <2>1, ZeroTagIsZero, TagIsAddress, AddressAssumption DEF Loadable
  <2> QED
    BY <1>2, <2>1, <2>2, <2>3, TagIsAccepted
<1> QED
  BY <1>1, <1>2

\* A step that leaves the frame and the word of a deletion alone.
LEMMA SameDeletion ==
  ASSUME NEW u \in Tasks, LatestInv, Alone(u)',
         frame'[<<u, "task">>] = frame[<<u, "task">>],
         latest'[u] = latest[u], stack'[u] = stack[u],
         word'[stack[u]] = word[stack[u]]
  PROVE  LatestAt(u)'
BY DEF LatestInv, LatestAt, Alone

\* A deletion owns its stack.
LEMMA DeletionHasStack ==
  ASSUME IInv, NEW u \in Tasks, frame[<<u, "task">>].op = "del"
  PROVE  stack[u] \in Stacks /\ stack[u] # None
<1>1. "task" \in Levels
  BY DEF Levels
<1>2. Shape("task", frame[<<u, "task">>])
      /\ (stack[u] = None => frame[<<u, "task">>].pc = "idle")
  BY <1>1 DEF IInv, ShapeInv
<1>3. stack[u] # None
  BY <1>2 DEF Shape
<1> QED
  BY <1>3 DEF IInv, TypeOK

\* A step of a frame: only a deletion's own steps concern it.
LEMMA FrameLatest ==
  ASSUME IInv, LatestInv, NEW t \in Tasks, NEW l \in Levels, NEW pc, NEW new,
         Step(t, l, pc, new), UNCHANGED word,
         new.op = frame[<<t, l>>].op,
         l = "task" /\ Alone(t) =>
           /\ new.pc # "done" => word[stack[t]] = latest[t]
           /\ new.pc \in {"crc", "again_crc", "value"} => new.load = latest[t]
           /\ new.pc \notin {"ccb", "crc", "restore", "done"} => latest[t] # Zero
           /\ new.pc \in {"restore", "done"} =>
                \/ latest[t] = Zero /\ new.data = Zero
                \/ latest[t] = MagicEntry(new.data)
  PROVE  LatestInv'
<1>1. /\ UNCHANGED <<stack, latest, word>>
      /\ frame' = [frame EXCEPT ![<<t, l>>] = new]
  BY DEF Step
<1>2. \A u \in Tasks, k \in Levels :
        frame'[<<u, k>>] = IF u = t /\ k = l THEN new ELSE frame[<<u, k>>]
  BY <1>1 DEF IInv, TypeOK
<1>3. ASSUME NEW u \in Tasks, Alone(u)' PROVE LatestAt(u)'
  <2>1. "task" \in Levels
    BY DEF Levels
  <2>2. CASE u = t /\ l = "task"
    <3>1. frame'[<<u, "task">>] = new /\ Alone(t)
      BY <1>1, <1>2, <1>3, <2>1, <2>2 DEF Alone
    <3> QED
      BY <1>1, <2>2, <3>1 DEF LatestAt
  <2>3. CASE ~(u = t /\ l = "task")
    <3>1. frame'[<<u, "task">>] = frame[<<u, "task">>]
      BY <1>2, <2>1, <2>3
    <3> QED
      BY <1>1, <1>3, <3>1, SameDeletion
  <2> QED
    BY <2>2, <2>3
<1> QED
  BY <1>1, <1>3 DEF LatestInv

\* What a step may rely on: the places of its frame, and a word that is stable.
LEMMA AtDeletion ==
  ASSUME IInv, Places, LatestInv, NEW t \in Tasks, Alone(t)
  PROVE  /\ latest[t] \in Words /\ LatestAt(t)
         /\ frame[<<t, "task">>].pc \notin {"restore", "done"} =>
              frame[<<t, "task">>].data = Zero
<1>1. latest[t] \in Words /\ LatestAt(t)
  BY DEF LatestInv, Alone
<1> QED
  BY <1>1 DEF Places, LateInv, Levels

LEMMA LoadCcbLatest ==
  ASSUME IInv, Places, LatestInv, NEW t \in Tasks, NEW l \in Levels, LoadCcb(t, l)
  PROVE  LatestInv'
<1>1. PICK pc \in {<<"ccb", "crc">>, <<"again", "again_crc">>} :
        Step(t, l, pc[1], [At(t, l, pc[2]) EXCEPT !.load = Word(t)])
  BY DEF LoadCcb
<1> DEFINE new == [At(t, l, pc[2]) EXCEPT !.load = Word(t)]
<1>2. frame[<<t, l>>] \in FrameRecords /\ frame[<<t, l>>].pc = pc[1]
  BY <1>1, FrameTyped DEF Step, IInv
<1>3. /\ new.op = frame[<<t, l>>].op /\ new.pc = pc[2]
      /\ new.load = word[stack[t]]
  BY <1>2 DEF At, FrameRecords, Word
<1>4. Step(t, l, pc[1], new)
  BY <1>1
<1> HIDE DEF new
<1>5. ASSUME l = "task", Alone(t)
      PROVE  /\ word[stack[t]] = latest[t] /\ new.load = latest[t]
             /\ new.pc # "crc" => latest[t] # Zero
             /\ new.pc \in {"crc", "again_crc"}
  BY <1>2, <1>3, <1>5, AtDeletion DEF LatestAt
<1>6. UNCHANGED word
  BY DEF LoadCcb
<1> QED
  BY <1>3, <1>4, <1>5, <1>6, FrameLatest

LEMMA LoadCrcLatest ==
  ASSUME IInv, Places, LatestInv, NEW t \in Tasks, NEW l \in Levels, LoadCrc(t, l)
  PROVE  LatestInv'
<1>1. PICK pc \in {<<"crc", "enabled">>, <<"again_crc", "again_enabled">>} :
        Step(t, l, pc[1], IF check_crc(frame[<<t, l>>].load, Word(t))
                          THEN At(t, l, pc[2]) ELSE Missed(t, l, pc[1]))
  BY DEF LoadCrc
<1> DEFINE ok == check_crc(frame[<<t, l>>].load, Word(t))
           new == IF ok THEN At(t, l, pc[2]) ELSE Missed(t, l, pc[1])
<1>2. frame[<<t, l>>] \in FrameRecords /\ frame[<<t, l>>].pc = pc[1]
  BY <1>1, FrameTyped DEF Step, IInv
<1>3. /\ new.op = frame[<<t, l>>].op /\ new.data = frame[<<t, l>>].data
      /\ ok => new.pc = pc[2]
      /\ ~ok /\ pc[1] = "crc" => new.pc = "done"
  BY <1>2 DEF At, Missed, FrameRecords
<1>4. Step(t, l, pc[1], new)
  BY <1>1
<1>5. ASSUME l = "task", Alone(t)
      PROVE  /\ word[stack[t]] = latest[t]
             /\ ok => latest[t] # Zero /\ new.pc \in {"enabled", "again_enabled"}
             /\ ~ok => latest[t] = Zero /\ new.pc = "done" /\ new.data = Zero
  <2>1. /\ latest[t] \in Words /\ word[stack[t]] = latest[t]
        /\ frame[<<t, l>>].load = latest[t] /\ frame[<<t, l>>].data = Zero
        /\ pc[1] # "crc" => latest[t] # Zero
    BY <1>2, <1>5, AtDeletion DEF LatestAt
  <2>2. ok <=> latest[t] # Zero
    BY <2>1, StableWord DEF Word
  <2> HIDE DEF ok, new
  <2> QED
    BY <1>3, <2>1, <2>2
<1>6. UNCHANGED word
  BY DEF LoadCrc
<1> HIDE DEF ok, new
<1>7. l = "task" /\ Alone(t) =>
           /\ new.pc # "done" => word[stack[t]] = latest[t]
           /\ new.pc \in {"crc", "again_crc", "value"} => new.load = latest[t]
           /\ new.pc \notin {"ccb", "crc", "restore", "done"} => latest[t] # Zero
           /\ new.pc \in {"restore", "done"} =>
                \/ latest[t] = Zero /\ new.data = Zero
                \/ latest[t] = MagicEntry(new.data)
  BY <1>5
<1> QED
  BY <1>3, <1>4, <1>6, <1>7, FrameLatest

LEMMA LoadEnabledLatest ==
  ASSUME IInv, Places, LatestInv, NEW t \in Tasks, NEW l \in Levels,
         LoadEnabled(t, l)
  PROVE  LatestInv'
<1> DEFINE old == frame[<<t, l>>]
<1>1. PICK pc \in {"enabled", "again_enabled"}, to \in PCs :
        /\ Step(t, l, pc, At(t, l, to))
        /\ l = "task" /\ old.op = "del" /\ ENABLED_BIT \in Word(t) =>
             to \in {"again", "thr"}
  <2>1. CASE Step(t, l, "enabled",
                  IF ENABLED_BIT \in Word(t) /\ old.op = "del"
                  THEN At(t, l, "again") ELSE At(t, l, "done"))
    <3>1. CASE ENABLED_BIT \in Word(t) /\ old.op = "del"
      BY <2>1, <3>1 DEF PCs
    <3>2. CASE ~(ENABLED_BIT \in Word(t) /\ old.op = "del")
      BY <2>1, <3>2 DEF PCs
    <3> QED
      BY <3>1, <3>2
  <2>2. CASE Step(t, l, "again_enabled",
                  IF ENABLED_BIT \in Word(t) THEN At(t, l, "thr")
                  ELSE Missed(t, l, "again_enabled"))
    <3>1. CASE ENABLED_BIT \in Word(t)
      BY <2>2, <3>1 DEF PCs
    <3>2. CASE ENABLED_BIT \notin Word(t)
      BY <2>2, <3>2 DEF PCs, Missed
    <3> QED
      BY <3>1, <3>2
  <2> QED
    BY <2>1, <2>2 DEF LoadEnabled
<1> DEFINE new == At(t, l, to)
<1>2. old \in FrameRecords /\ old.pc = pc
  BY <1>1, FrameTyped DEF Step, IInv
<1>3. new.op = old.op /\ new.pc = to
  BY <1>2 DEF At, FrameRecords
<1>4. Step(t, l, pc, new)
  BY <1>1
<1>5. ASSUME l = "task", Alone(t)
      PROVE  /\ word[stack[t]] = latest[t] /\ latest[t] # Zero
             /\ new.pc \in {"again", "thr"}
  <2>1. /\ latest[t] \in Words /\ word[stack[t]] = latest[t]
        /\ latest[t] # Zero
    BY <1>2, <1>5, AtDeletion DEF LatestAt
  <2>2. ENABLED_BIT \in Word(t)
    BY <2>1, StableWord DEF Word
  <2> QED
    BY <1>1, <1>3, <1>5, <2>1, <2>2 DEF Alone
<1>6. UNCHANGED word
  BY DEF LoadEnabled
<1> HIDE DEF new
<1> QED
  BY <1>3, <1>4, <1>5, <1>6, FrameLatest

LEMMA LoadThrLatest ==
  ASSUME IInv, Places, LatestInv, NEW t \in Tasks, NEW l \in Levels, LoadThr(t, l)
  PROVE  LatestInv'
<1> DEFINE new == [At(t, l, "value") EXCEPT !.load = Word(t)]
<1>1. Step(t, l, "thr", new) /\ UNCHANGED word
  BY DEF LoadThr
<1>2. frame[<<t, l>>] \in FrameRecords /\ frame[<<t, l>>].pc = "thr"
  BY <1>1, FrameTyped DEF Step, IInv
<1>3. /\ new.op = frame[<<t, l>>].op /\ new.pc = "value"
      /\ new.load = word[stack[t]]
  BY <1>2 DEF At, FrameRecords, Word
<1> HIDE DEF new
<1>4. ASSUME l = "task", Alone(t)
      PROVE  word[stack[t]] = latest[t] /\ latest[t] # Zero
  BY <1>2, <1>4, AtDeletion DEF LatestAt
<1> QED
  BY <1>1, <1>3, <1>4, FrameLatest

LEMMA LoadValueLatest ==
  ASSUME IInv, Places, LatestInv, NEW t \in Tasks, NEW l \in Levels,
         LoadValue(t, l)
  PROVE  LatestInv'
<1> DEFINE old == frame[<<t, l>>]
           ptr == build_ptr(old.load, Word(t))
           new == [At(t, l, IF old.op = "del" THEN "restore" ELSE "done")
                     EXCEPT !.data = ptr]
<1>1. Step(t, l, "value", new) /\ UNCHANGED word
  BY DEF LoadValue
<1>2. old \in FrameRecords /\ old.pc = "value"
  BY <1>1, FrameTyped DEF Step, IInv
<1>3. /\ new.op = old.op /\ new.data = ptr
      /\ new.pc = IF old.op = "del" THEN "restore" ELSE "done"
  BY <1>2 DEF At, FrameRecords
<1>4. ASSUME l = "task", Alone(t)
      PROVE  word[stack[t]] = latest[t] /\ latest[t] = MagicEntry(new.data)
  <2>1. /\ latest[t] \in Words /\ word[stack[t]] = latest[t]
        /\ latest[t] # Zero /\ old.load = latest[t]
    BY <1>2, <1>4, AtDeletion DEF LatestAt
  <2>2. ptr = build_ptr(latest[t], latest[t])
    BY <2>1 DEF Word
  <2> HIDE DEF ptr, new
  <2> QED
    BY <1>3, <2>1, <2>2, StableWord
<1> HIDE DEF new
<1>5. new.pc \in {"restore", "done"}
  BY <1>3
<1> QED
  BY <1>1, <1>3, <1>4, <1>5, FrameLatest

\* The deletion clears its word; no other deletion reads that one.
LEMMA RestoreLatest ==
  ASSUME IInv, LatestInv, NEW t \in Tasks, Restore(t)
  PROVE  LatestInv'
<1> DEFINE new == At(t, "task", "done")
<1>1. /\ UNCHANGED <<stack, latest>>
      /\ frame' = [frame EXCEPT ![<<t, "task">>] = new]
      /\ word' = [word EXCEPT ![stack[t]] = Zero]
      /\ Runs(t, "task") /\ frame[<<t, "task">>].pc = "restore"
  BY DEF Restore, Step
<1>2. stack[t] \in Stacks /\ frame[<<t, "task">>] \in FrameRecords
  BY <1>1, AtWork DEF Levels
<1>3. /\ new.pc = "done" /\ new.data = frame[<<t, "task">>].data
      /\ new.op = frame[<<t, "task">>].op
  BY <1>2 DEF At, FrameRecords
<1> HIDE DEF new
<1>4. \A u \in Tasks :
        frame'[<<u, "task">>] = IF u = t THEN new ELSE frame[<<u, "task">>]
  BY <1>1 DEF IInv, TypeOK, Levels
<1>5. ASSUME NEW u \in Tasks, Alone(u)' PROVE LatestAt(u)'
  <2>1. CASE u = t
    <3>1. Alone(t)
      BY <1>1, <1>3, <1>4, <1>5, <2>1 DEF Alone
    <3>2. LatestAt(t)
      BY <3>1 DEF LatestInv
    <3> QED
      BY <1>1, <1>3, <1>4, <2>1, <3>2 DEF LatestAt
  <2>2. CASE u # t
    <3>1. frame'[<<u, "task">>] = frame[<<u, "task">>]
      BY <1>4, <2>2
    <3>2. frame[<<u, "task">>].op = "del"
      BY <1>5, <3>1 DEF Alone
    <3>3. stack[u] \in Stacks /\ stack[u] # None
      BY <3>2, DeletionHasStack
    <3>4. stack[u] # stack[t]
      BY <2>2, <3>3 DEF IInv, StackInv
    <3>5. word'[stack[u]] = word[stack[u]]
      BY <1>1, <3>3, <3>4 DEF IInv, TypeOK
    <3> QED
      BY <1>1, <1>5, <3>1, <3>5, SameDeletion
  <2> QED
    BY <2>1, <2>2
<1> QED
  BY <1>1, <1>5 DEF LatestInv

\* A deletion starts with the word of the moment.
LEMMA CallLatest ==
  ASSUME IInv, LatestInv, NEW t \in Tasks, NEW l \in Levels, NEW op,
         Call(t, l, op), op = "del" => l = "task"
  PROVE  LatestInv'
<1> DEFINE new == [Idle EXCEPT !.op = op,
                               !.pc = IF op = "data" THEN "again" ELSE "ccb"]
<1>1. /\ frame' = [frame EXCEPT ![<<t, l>>] = new] /\ Runs(t, l)
      /\ latest' = IF op = "del" THEN [latest EXCEPT ![t] = word[stack[t]]]
                   ELSE latest
      /\ UNCHANGED <<stack, word>>
  BY DEF Call
<1>2. new.op = op /\ new.pc = IF op = "data" THEN "again" ELSE "ccb"
  BY DEF Idle
<1> HIDE DEF new
<1>3. word[stack[t]] \in Words
  BY <1>1 DEF Runs, IInv, TypeOK
<1>4. latest' \in [Tasks -> Words \cup {None}]
  BY <1>1, <1>3 DEF LatestInv
<1>5. \A u \in Tasks, k \in Levels :
        frame'[<<u, k>>] = IF u = t /\ k = l THEN new ELSE frame[<<u, k>>]
  BY <1>1 DEF IInv, TypeOK
<1>6. ASSUME NEW u \in Tasks, Alone(u)' PROVE LatestAt(u)'
  <2>1. "task" \in Levels
    BY DEF Levels
  <2>2. CASE u = t /\ l = "task"
    <3>1. frame'[<<u, "task">>] = new
      BY <1>5, <2>1, <2>2
    <3>2. op = "del" /\ new.pc = "ccb"
      BY <1>2, <1>6, <3>1 DEF Alone
    <3>3. latest'[u] = word[stack[u]]
      BY <1>1, <2>2, <3>2 DEF LatestInv
    <3> QED
      BY <1>1, <3>1, <3>2, <3>3 DEF LatestAt
  <2>3. CASE ~(u = t /\ l = "task")
    <3>1. frame'[<<u, "task">>] = frame[<<u, "task">>]
      BY <1>5, <2>1, <2>3
    <3>2. latest'[u] = latest[u]
      BY <1>1, <2>3 DEF LatestInv
    <3> QED
      BY <1>1, <1>6, <3>1, <3>2, SameDeletion
  <2> QED
    BY <2>2, <2>3
<1> QED
  BY <1>4, <1>6 DEF LatestInv

LEMMA ReturnLatest ==
  ASSUME IInv, LatestInv, NEW t \in Tasks, NEW l \in Levels, Return(t, l)
  PROVE  LatestInv'
<1> DEFINE new == IF frame[<<t, l>>].op = "del" THEN [Idle EXCEPT !.op = "exited"]
                  ELSE Idle
<1>1. /\ frame' = [frame EXCEPT ![<<t, l>>] = new]
      /\ UNCHANGED <<stack, word, latest>>
  BY DEF Return
<1>2. new.op # "del"
  BY DEF Idle
<1> HIDE DEF new
<1>3. \A u \in Tasks, k \in Levels :
        frame'[<<u, k>>] = IF u = t /\ k = l THEN new ELSE frame[<<u, k>>]
  BY <1>1 DEF IInv, TypeOK
<1>4. ASSUME NEW u \in Tasks, Alone(u)' PROVE LatestAt(u)'
  <2>1. frame'[<<u, "task">>] = frame[<<u, "task">>]
    BY <1>2, <1>3, <1>4 DEF Levels, Alone
  <2> QED
    BY <1>1, <1>4, <2>1, SameDeletion
<1> QED
  BY <1>1, <1>4 DEF LatestInv

\* A stack that is given to a new task is no deletion's.
LEMMA NewTaskLatest ==
  ASSUME IInv, LatestInv, NEW t \in Tasks, NEW s \in Stacks, NewTask(t, s)
  PROVE  LatestInv'
<1>1. /\ stack[t] = None /\ ~Owned(s)
      /\ stack' = [stack EXCEPT ![t] = s]
      /\ word' = [word EXCEPT ![s] = Zero]
      /\ UNCHANGED <<frame, latest>>
  BY DEF NewTask
<1>2. ASSUME NEW u \in Tasks, Alone(u)' PROVE LatestAt(u)'
  <2>1. frame[<<u, "task">>].op = "del"
    BY <1>1, <1>2 DEF Alone
  <2>2. stack[u] \in Stacks /\ stack[u] # None
    BY <2>1, DeletionHasStack
  <2>3. u # t /\ stack[u] # s
    BY <1>1, <2>2 DEF Owned
  <2>4. stack'[u] = stack[u] /\ word'[stack[u]] = word[stack[u]]
    BY <1>1, <2>2, <2>3 DEF IInv, TypeOK
  <2> QED
    BY <1>1, <1>2, <2>4, SameDeletion
<1> QED
  BY <1>1, <1>2 DEF LatestInv

LEMMA FreeStackLatest ==
  ASSUME IInv, LatestInv, NEW t \in Tasks, FreeStack(t)
  PROVE  LatestInv'
<1>1. /\ frame[<<t, "task">>].op = "exited"
      /\ stack' = [stack EXCEPT ![t] = None]
      /\ UNCHANGED <<word, frame, latest>>
  BY DEF FreeStack
<1>2. ASSUME NEW u \in Tasks, Alone(u)' PROVE LatestAt(u)'
  <2>1. u # t
    BY <1>1, <1>2 DEF Alone
  <2>2. stack'[u] = stack[u]
    BY <1>1, <2>1 DEF IInv, TypeOK
  <2> QED
    BY <1>1, <1>2, <2>2, SameDeletion
<1> QED
  BY <1>1, <1>2 DEF LatestInv

\* A store ends the history of the deletion that it overlaps.
LEMMA StoreEntryLatest ==
  ASSUME IInv, LatestInv, NEW a \in Adders, StoreEntry(a)
  PROVE  LatestInv'
<1> DEFINE s == add[a].stack
<1>1. /\ UNCHANGED <<stack, frame>>
      /\ word' = [word EXCEPT ![s] = MagicEntry(add[a].data)]
      /\ latest' = [t \in Tasks |-> IF stack[t] = s THEN None ELSE latest[t]]
  BY DEF StoreEntry
<1> HIDE DEF s
<1>2. latest' \in [Tasks -> Words \cup {None}]
  BY <1>1 DEF LatestInv
<1>3. ASSUME NEW u \in Tasks, Alone(u)' PROVE LatestAt(u)'
  <2>1. stack[u] # s /\ latest'[u] = latest[u]
    BY <1>1, <1>3 DEF Alone
  <2>2. frame[<<u, "task">>].op = "del"
    BY <1>1, <1>3 DEF Alone
  <2>3. stack[u] \in Stacks
    BY <2>2, DeletionHasStack
  <2>4. word'[stack[u]] = word[stack[u]]
    BY <1>1, <2>1, <2>3 DEF IInv, TypeOK
  <2> QED
    BY <1>1, <1>3, <2>1, <2>4, SameDeletion
<1> QED
  BY <1>2, <1>3 DEF LatestInv

LEMMA QuietLatest ==
  ASSUME LatestInv, UNCHANGED <<stack, word, frame, latest>>
  PROVE  LatestInv'
<1>1. ASSUME NEW u \in Tasks, Alone(u)' PROVE LatestAt(u)'
  BY <1>1, SameDeletion
<1> QED
  BY <1>1 DEF LatestInv

LEMMA NextLatest == IInv /\ Places /\ LatestInv /\ [Next]_vars => LatestInv'
<1> SUFFICES ASSUME IInv, Places, LatestInv, [Next]_vars PROVE LatestInv'
  OBVIOUS
<1>1. CASE UNCHANGED vars
  BY <1>1, QuietLatest DEF vars
<1>2. ASSUME NEW t \in Tasks, NEW s \in Stacks, NewTask(t, s) PROVE LatestInv'
  BY <1>2, NewTaskLatest
<1>3. ASSUME NEW t \in Tasks, FreeStack(t) PROVE LatestInv'
  BY <1>3, FreeStackLatest
<1>4. ASSUME NEW t \in Tasks, CallQuery(t) \/ CallDel(t) \/ CallQueryData(t)
      PROVE  LatestInv'
  BY <1>4, CallLatest DEF CallQuery, CallDel, CallQueryData, Levels
<1>5. ASSUME NEW t \in Tasks, Restore(t) PROVE LatestInv'
  BY <1>5, RestoreLatest
<1>6. ASSUME NEW t \in Tasks, NEW l \in Levels, FrameStep(t, l) PROVE LatestInv'
  BY <1>6, LoadCcbLatest, LoadCrcLatest, LoadEnabledLatest, LoadThrLatest,
     LoadValueLatest, ReturnLatest DEF FrameStep
<1>7. ASSUME NEW a \in Adders, NEW t \in Tasks, NEW d \in Addresses \cup {Zero},
             CallAdd(a, t, d)
      PROVE  LatestInv'
  BY <1>7, QuietLatest DEF CallAdd
<1>8. ASSUME NEW a \in Adders, LastEntry(a) PROVE LatestInv'
  BY <1>8, QuietLatest DEF LastEntry
<1>9. ASSUME NEW a \in Adders, StoreEntry(a) PROVE LatestInv'
  BY <1>9, StoreEntryLatest
<1> QED
  BY <1>1, <1>2, <1>3, <1>4, <1>5, <1>6, <1>7, <1>8, <1>9 DEF Next

\* A deletion that no addition overlaps returns what the word said when it
\* began: its five loads of the word agree, whatever NMIs and adders of other
\* stacks do in between, and its two checks pass exactly the words of entries.
THEOREM DeletionIsLatest == Spec => []DeletesLatest
<1>1. Init => LatestInv
  <2> SUFFICES ASSUME Init PROVE LatestInv
    OBVIOUS
  <2>1. \A t \in Tasks : latest[t] = None
    BY DEF Init
  <2> QED
    BY <2>1 DEF Init, LatestInv, Alone
<1>2. IInv /\ Places /\ LatestInv /\ [Next]_vars => LatestInv'
  BY NextLatest
<1>3. LatestInv => DeletesLatest
  BY DEF LatestInv, Alone, LatestAt, DeletesLatest
<1>4. Init => Places
  BY InitPlaces
<1>5. IInv /\ Places /\ [Next]_vars => Places'
  BY NextPlaces
<1> QED
  BY <1>1, <1>2, <1>3, <1>4, <1>5, Inductive, PTL DEF Spec
=============================================================================
