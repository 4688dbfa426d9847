------------------------------ MODULE NbBlist ------------------------------
(***************************************************************************)
(* nbboundedlist.c: the circular sample list without a lock.  One integer  *)
(* packs <HEAD, TAIL>; a writer takes its entry with an atomic addition    *)
(* and moves HEAD, if it must, with an addition that is not atomic.  Both  *)
(* halves advance by stride, entries are found with TAIL % len, and a      *)
(* carry out of TAIL goes into HEAD.                                       *)
(*                                                                         *)
(* Writers are the PMI handlers of different CPUs.  Nothing in the         *)
(* repository calls read_clist yet; Readers are callers it may get.  The   *)
(* bytes of the samples are left out: what counts is who writes where.     *)
(***************************************************************************)
EXTENDS Integers, FiniteSets

CONSTANTS
  Writers, Readers,
  Sizes,            \* arguments of init_clist: entry_count and entry_size
  Half,             \* 2^32: the range of HEAD and of TAIL
  MaxTaken          \* bound of a run: how many entries writers take

ASSUME SizeAssumption ==
  /\ Half \in Nat \ {0} /\ MaxTaken \in Nat
  /\ Sizes \subseteq [len : 1 .. Half - 1, stride : 1 .. Half - 1]
ASSUME CallersAssumption == IsFiniteSet(Writers) /\ Writers \cap Readers = {}

VARIABLES
  len, stride,
  idx,        \* <HEAD, TAIL>
  pc, midx,   \* per writer and reader: where it is, and its local midx
  taken,      \* history: how many entries were taken, at most MaxTaken
  seq,        \* history, per writer: how many were taken before its own
  jump,       \* history, per writer: TAIL wrapped or went back since then
  regular     \* history: TAIL never wrapped and never went back

sizes == <<len, stride>>
vars == <<sizes, idx, pc, midx, taken, seq, jump, regular>>

TAIL(t) == t % Half
HEAD(h) == h \div Half
Plus(i, n) == (i + n) % (Half * Half)

Callers == Writers \cup Readers

\* The entries that TAIL % len visits, from one to the next visit of the same.
Period == CHOOSE p \in 1 .. len :
  /\ (p * stride) % len = 0
  /\ \A q \in 1 .. p - 1 : (q * stride) % len # 0

Goto(c, from, to) ==
  pc[c] = from /\ pc' = [pc EXCEPT ![c] = to] /\ UNCHANGED sizes

-----------------------------------------------------------------------------
(***************************************************************************)
(* write_clist.                                                            *)
(***************************************************************************)

\* One more entry was taken; wraps says that TAIL starts again.
Taken(w, wraps) ==
  /\ taken < MaxTaken
  /\ taken' = taken + 1
  /\ seq' = [seq EXCEPT ![w] = taken]
  /\ jump' = [v \in Writers |->
                IF v = w THEN wraps ELSE pc[v] = "copy" /\ (jump[v] \/ wraps)]
  /\ regular' = (regular /\ ~wraps)

\* Mutant: the entry is looked up without an addition.
XaddNothing(w) ==
  /\ Goto(w, "idle", "copy")
  /\ midx' = [midx EXCEPT ![w] = idx]
  /\ UNCHANGED idx /\ Taken(w, FALSE)

\* midx = xadd(&idx, stride): the entry is taken; memcpy to it begins.
Xadd(w) ==
  /\ Goto(w, "idle", "copy")
  /\ midx' = [midx EXCEPT ![w] = idx]
  /\ idx' = Plus(idx, stride)
  /\ Taken(w, TAIL(idx) + stride >= Half)

\* The number of the entry that w writes to.
Entry(w) == TAIL(midx[w]) % len

\* The local variables go with the frame.
Forget(w) ==
  /\ midx' = [midx EXCEPT ![w] = 0]
  /\ seq' = [seq EXCEPT ![w] = 0] /\ jump' = [jump EXCEPT ![w] = FALSE]

\* memcpy ends, and the list was full when the entry was taken, or not.
Copied(w) ==
  /\ IF HEAD(midx[w]) + len = TAIL(midx[w])
     THEN Goto(w, "copy", "load") /\ UNCHANGED <<midx, seq, jump>>
     ELSE Goto(w, "copy", "idle") /\ Forget(w)
  /\ UNCHANGED <<idx, taken, regular>>

\* idx += stride << 32, a load ...
LoadIdx(w) ==
  /\ Goto(w, "load", "store")
  /\ midx' = [midx EXCEPT ![w] = idx]
  /\ UNCHANGED <<idx, taken, seq, jump, regular>>

\* ... and a store, which undoes what happened to idx in between.
StoreIdx(w) ==
  /\ Goto(w, "store", "idle")
  /\ idx' = Plus(midx[w], stride * Half)
  /\ jump' = [v \in Writers |-> pc[v] = "copy" /\ (jump[v] \/ idx # midx[w])]
  /\ regular' = (regular /\ idx = midx[w])
  /\ midx' = [midx EXCEPT ![w] = 0]
  /\ seq' = [seq EXCEPT ![w] = 0]
  /\ UNCHANGED taken

-----------------------------------------------------------------------------
(***************************************************************************)
(* read_clist.                                                             *)
(***************************************************************************)

\* The inner loop loads idx again and again until TAIL is at most len past
\* HEAD; the loads before change nothing.
LoadUntilReadable(r) ==
  /\ HEAD(idx) + len >= TAIL(idx)
  /\ Goto(r, "idle", "read")
  /\ midx' = [midx EXCEPT ![r] = idx]
  /\ UNCHANGED <<idx, taken, seq, jump, regular>>

\* HEAD = TAIL: there is nothing to read.
ReadEmpty(r) ==
  /\ Goto(r, "read", "idle")
  /\ HEAD(midx[r]) = TAIL(midx[r])
  /\ midx' = [midx EXCEPT ![r] = 0]
  /\ UNCHANGED <<idx, taken, seq, jump, regular>>

\* Mutant: an empty list is read as well.
ReadEntryOfEmpty(r) ==
  /\ Goto(r, "read", "cmpxchg")
  /\ UNCHANGED <<idx, midx, taken, seq, jump, regular>>

ReadEntry(r) ==
  /\ Goto(r, "read", "cmpxchg")
  /\ HEAD(midx[r]) # TAIL(midx[r])
  /\ UNCHANGED <<idx, midx, taken, seq, jump, regular>>

\* HEAD moves unless idx changed, and then the loop starts again.
Cmpxchg(r) ==
  /\ Goto(r, "cmpxchg", "idle")
  /\ idx' = IF idx = midx[r] THEN Plus(idx, stride * Half) ELSE idx
  /\ midx' = [midx EXCEPT ![r] = 0]
  /\ UNCHANGED <<taken, seq, jump, regular>>

-----------------------------------------------------------------------------

\* init_clist.
Init ==
  /\ \E s \in Sizes : len = s.len /\ stride = s.stride
  /\ idx = 0
  /\ pc = [c \in Callers |-> "idle"] /\ midx = [c \in Callers |-> 0]
  /\ taken = 0 /\ seq = [w \in Writers |-> 0]
  /\ jump = [w \in Writers |-> FALSE]
  /\ regular = TRUE

Next ==
  \/ \E w \in Writers : Xadd(w) \/ Copied(w) \/ LoadIdx(w) \/ StoreIdx(w)
  \/ \E r \in Readers :
       LoadUntilReadable(r) \/ ReadEmpty(r) \/ ReadEntry(r) \/ Cmpxchg(r)

Spec == Init /\ [][Next]_vars

-----------------------------------------------------------------------------
(***************************************************************************)
(* Properties.                                                             *)
(***************************************************************************)

\* The values of the variables.
TypeOK ==
  /\ [len |-> len, stride |-> stride] \in Sizes
  /\ idx \in 0 .. Half * Half - 1
  /\ pc \in [Callers -> {"idle", "copy", "load", "store", "read", "cmpxchg"}]
  /\ midx \in [Callers -> 0 .. Half * Half - 1]
  /\ taken \in 0 .. MaxTaken /\ seq \in [Writers -> 0 .. MaxTaken]
  /\ jump \in [Writers -> BOOLEAN]
  /\ regular \in BOOLEAN

\* Two handlers write to one entry at a time only if a whole round of entries
\* was taken in between, or TAIL wrapped (its range is no multiple of the
\* round), or the store of StoreIdx took back an entry that was handed out.
SharedEntryIsLap ==
  \A v, w \in Writers :
    v # w /\ pc[v] = "copy" /\ pc[w] = "copy" /\ Entry(v) = Entry(w) =>
      \/ seq[v] - seq[w] >= Period \/ seq[w] - seq[v] >= Period
      \/ jump[v] \/ jump[w]

\* Readers and writers that move HEAD at the same time never move it past TAIL,
\* as long as TAIL has not wrapped nor gone back.
HeadBehindTail == regular => HEAD(idx) <= TAIL(idx)
=============================================================================
