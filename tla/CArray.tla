------------------------------- MODULE CArray -------------------------------
(***************************************************************************)
(* client/clist/carray.c: the circular array of samples behind a spinlock. *)
(*                                                                         *)
(* Its writers are PMI handlers, at most one on each CPU.  memcpy is a     *)
(* step per byte of the entry.  idx is a byte offset into buf, and the     *)
(* test that wraps it compares it with len, a number of entries.           *)
(***************************************************************************)
EXTENDS Integers

CONSTANTS
  Writers,   \* the CPUs
  Samples,   \* the contents of a bucket
  Len,       \* entry_count
  Stride,    \* entry_size
  Unwritten, \* a byte nobody has written
  NoWriter   \* the lock is free

ASSUME SizeAssumption == Len \in Nat \ {0} /\ Stride \in Nat \ {0}
ASSUME NoWriterAssumption == NoWriter \notin Writers /\ Unwritten \notin Samples

VARIABLES
  lock, idx, buf,   \* the fields of struct carray
  pc, bucket,       \* per writer: where it is, the sample it writes
  copied            \* per writer: how many bytes memcpy has written

carrayVars == <<lock, idx, buf, pc, bucket, copied>>

\* The bytes of the allocation that follow the header.
Bytes == 0 .. Len * Stride - 1

-----------------------------------------------------------------------------

\* init_clist.
CArrayInit ==
  /\ lock = NoWriter
  /\ idx = 0
  /\ buf = [b \in Bytes |-> Unwritten]
  /\ pc = [w \in Writers |-> "idle"]
  /\ bucket = [w \in Writers |-> Unwritten]
  /\ copied = [w \in Writers |-> 0]

\* A PMI handler calls write_clist.
Call(w) ==
  /\ pc[w] = "idle"
  /\ pc' = [pc EXCEPT ![w] = "lock"]
  /\ \E s \in Samples : bucket' = [bucket EXCEPT ![w] = s]
  /\ UNCHANGED <<lock, idx, buf, copied>>

\* spin_lock.
Lock(w) ==
  /\ pc[w] = "lock" /\ lock = NoWriter
  /\ lock' = w
  /\ pc' = [pc EXCEPT ![w] = "copy"]
  /\ UNCHANGED <<idx, buf, bucket, copied>>

\* memcpy(entry, bucket, stride), one byte.
Copy(w) ==
  /\ pc[w] = "copy"
  /\ buf' = [buf EXCEPT ![idx + copied[w]] = bucket[w]]
  /\ copied' = [copied EXCEPT ![w] = @ + 1]
  /\ pc' = [pc EXCEPT ![w] = IF copied'[w] = Stride THEN "advance" ELSE "copy"]
  /\ UNCHANGED <<lock, idx, bucket>>

\* Mutant: the test that wraps is missing its -1 and counts bytes.
AfterPastEnd(i) == IF i < Len * Stride THEN i + Stride ELSE 0

\* Mutant: idx counts entries and not bytes.
AfterByEntry(i) == IF i < Len - 1 THEN i + 1 ELSE 0

\* The offset of the next write.
After(i) == IF i < Len - 1 THEN i + Stride ELSE 0

\* The index moves on and the lock is released.
Advance(w) ==
  /\ pc[w] = "advance"
  /\ idx' = After(idx)
  /\ pc' = [pc EXCEPT ![w] = "unlock"]
  /\ UNCHANGED <<lock, buf, bucket, copied>>

\* Mutant: the count of the next memcpy does not start at zero.
UnlockStale(w) ==
  /\ pc[w] = "unlock"
  /\ lock' = NoWriter
  /\ pc' = [pc EXCEPT ![w] = "idle"]
  /\ UNCHANGED <<bucket, copied, idx, buf>>

\* spin_unlock, and write_clist returns.
Unlock(w) ==
  /\ pc[w] = "unlock"
  /\ lock' = NoWriter
  /\ pc' = [pc EXCEPT ![w] = "idle"]
  /\ bucket' = [bucket EXCEPT ![w] = Unwritten]
  /\ copied' = [copied EXCEPT ![w] = 0]
  /\ UNCHANGED <<idx, buf>>

CArrayNext ==
  \E w \in Writers :
    Call(w) \/ Lock(w) \/ Copy(w) \/ Advance(w) \/ Unlock(w)

CArraySpec == CArrayInit /\ [][CArrayNext]_carrayVars

-----------------------------------------------------------------------------
(***************************************************************************)
(* Properties.                                                             *)
(***************************************************************************)

Contents == Samples \cup {Unwritten}

\* The values of the list's fields and of each writer's locals.
CArrayTypeOK ==
  /\ lock \in Writers \cup {NoWriter}
  /\ idx \in Nat
  /\ buf \in [Bytes -> Contents]
  /\ pc \in [Writers -> {"idle", "lock", "copy", "advance", "unlock"}]
  /\ bucket \in [Writers -> Contents]
  /\ copied \in [Writers -> 0 .. Stride]

\* The entry at idx lies inside the allocation, although the wrap test
\* compares a byte offset with a number of entries.
WritesInBounds == idx + Stride <= Len * Stride

\* The writers between spin_lock and spin_unlock.
Inside(w) == pc[w] \in {"copy", "advance", "unlock"}

\* No two PMI handlers are in the critical section of one list.
OneWriter ==
  \A v, w \in Writers : Inside(v) /\ Inside(w) => v = w

\* The bytes of slot k, and the slot a writer is filling.
SlotBytes(k) == k * Stride .. k * Stride + Stride - 1
Filling(k) == \E w \in Writers : pc[w] = "copy" /\ idx = k * Stride

\* A slot nobody is filling holds the bytes of one sample: a sample is never
\* overlaid by half of another one, and never straddles two slots.
NoTornSample ==
  \A k \in 0 .. Len - 1 :
    ~Filling(k) => \A b, d \in SlotBytes(k) : buf[b] = buf[d]

-----------------------------------------------------------------------------
(***************************************************************************)
(* The array is a ring of samples, of fewer slots than it has entries.     *)
(***************************************************************************)

\* How many entries are ever written: 1 + ceiling((Len - 1) / Stride).
UsedSlots == 1 + (Len + Stride - 2) \div Stride

\* A write takes effect with the last byte of its memcpy: from then on the
\* slot has the new sample and the next one is due.
RingSlots == [k \in 0 .. UsedSlots - 1 |-> buf[k * Stride + Stride - 1]]
RingNext ==
  (IF \E w \in Writers : pc[w] = "advance" THEN After(idx) ELSE idx) \div Stride

Ring == INSTANCE SampleRing WITH
  Slots <- UsedSlots, Empty <- Unwritten, slots <- RingSlots, next <- RingNext

\* Every behaviour of the array is one of the ring: the samples of all CPUs
\* go to the slots in turn, each replacing the oldest.
ImplementsRing == Ring!Spec
=============================================================================
