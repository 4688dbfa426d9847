--------------------------- MODULE NbBlistProofs ---------------------------
(***************************************************************************)
(* Proofs about client/clist/nbboundedlist.c for any writers and readers,  *)
(* any sizes and any width of the halves.                                  *)
(***************************************************************************)
EXTENDS NbBlist, WellFoundedInduction, TLAPS

\* The packed words.
Packed == 0 .. Half * Half - 1

\* Both halves count whole entries.
Aligned(i) ==
  \E j, k \in Nat : HEAD(i) = j * stride /\ TAIL(i) = k * stride

\* w took its entry when the list was full, and still has to move HEAD.
Pending(w) ==
  \/ pc[w] \in {"load", "store"}
  \/ pc[w] = "copy" /\ HEAD(midx[w]) + len = TAIL(midx[w])

PCInv ==
  /\ \A w \in Writers : pc[w] \in {"idle", "copy", "load", "store"}
  /\ \A r \in Readers : pc[r] \in {"idle", "read", "cmpxchg"}

\* A reader loaded a list that was not over-full, and goes on if not empty.
ReaderInv ==
  \A r \in Readers :
    /\ pc[r] \in {"read", "cmpxchg"} => HEAD(midx[r]) + len >= TAIL(midx[r])
    /\ pc[r] = "cmpxchg" => HEAD(midx[r]) # TAIL(midx[r])

\* While a writer has to move HEAD there is room for that, readers keep off,
\* and no other writer meets a full list.
RegularInv ==
  regular =>
    /\ Aligned(idx) /\ HEAD(idx) <= TAIL(idx)
    /\ \A w \in Writers : Pending(w) => HEAD(idx) + len + stride <= TAIL(idx)
    /\ \A v, w \in Writers : Pending(v) /\ Pending(w) => v = w

IInv == TypeOK /\ PCInv /\ ReaderInv /\ RegularInv

-----------------------------------------------------------------------------
(***************************************************************************)
(* The arithmetic of the packed word.                                      *)
(***************************************************************************)

\* A packed word is its two halves.
LEMMA Halves ==
  ASSUME NEW i \in Packed
  PROVE  /\ HEAD(i) \in 0 .. Half - 1 /\ TAIL(i) \in 0 .. Half - 1
         /\ i = HEAD(i) * Half + TAIL(i)
<1> USE SizeAssumption
<1>1. i \in Nat /\ Half \in Nat /\ Half > 0
  BY DEF Packed
<1>2. TAIL(i) \in 0 .. Half - 1 /\ HEAD(i) \in Nat
  BY <1>1 DEF TAIL, HEAD
<1>3. i = HEAD(i) * Half + TAIL(i)
  BY <1>1 DEF TAIL, HEAD
<1>4. HEAD(i) < Half
  <2>1. SUFFICES ASSUME HEAD(i) >= Half PROVE FALSE
    BY <1>1, <1>2
  <2>2. HEAD(i) * Half >= Half * Half
    BY <2>1, <1>1, <1>2
  <2> QED
    BY <2>2, <1>1, <1>2, <1>3 DEF Packed
<1> QED
  BY <1>1, <1>2, <1>3, <1>4

\* A word is packed from its halves.
LEMMA Pack ==
  ASSUME NEW h \in 0 .. Half - 1, NEW t \in 0 .. Half - 1
  PROVE  /\ h * Half + t \in Packed
         /\ HEAD(h * Half + t) = h /\ TAIL(h * Half + t) = t
<1> USE SizeAssumption
<1>1. h \in Nat /\ t \in Nat /\ t < Half /\ Half \in Nat /\ h + 1 <= Half
  OBVIOUS
<1>2. h * Half \in Nat /\ h * Half + Half <= Half * Half
  <2>1. (h + 1) * Half <= Half * Half
    BY <1>1
  <2> QED
    BY <2>1, <1>1
<1>3. h * Half + t \in Packed
  BY <1>1, <1>2 DEF Packed
<1>4. HEAD(h * Half + t) = h /\ TAIL(h * Half + t) = t
  BY <1>1, <1>2 DEF HEAD, TAIL
<1> QED
  BY <1>3, <1>4

\* Plus stays in the word.
LEMMA PlusPacked ==
  ASSUME NEW i \in Packed, NEW n \in Nat
  PROVE  Plus(i, n) \in Packed
<1>1. Half * Half \in Nat /\ Half * Half > 0
  BY SizeAssumption
<1>2. i + n \in Nat
  BY DEF Packed
<1> QED
  BY <1>1, <1>2 DEF Plus, Packed

\* An addition to TAIL that does not wrap leaves HEAD alone.
LEMMA PlusTail ==
  ASSUME NEW i \in Packed, NEW n \in Nat, TAIL(i) + n < Half
  PROVE  HEAD(Plus(i, n)) = HEAD(i) /\ TAIL(Plus(i, n)) = TAIL(i) + n
<1> DEFINE h == HEAD(i)
           t == TAIL(i)
<1>1. h \in 0 .. Half - 1 /\ t + n \in 0 .. Half - 1 /\ i = h * Half + t
  BY Halves, SizeAssumption
<1>2. h * Half + (t + n) \in Packed
  BY <1>1, Pack
<1>3. i + n = h * Half + (t + n)
  <2>1. h * Half \in Nat /\ t \in Nat
    BY Halves, SizeAssumption
  <2> HIDE DEF h, t
  <2> QED
    BY <1>1, <2>1
<1>4. Plus(i, n) = h * Half + (t + n)
  BY <1>2, <1>3, SizeAssumption DEF Plus, Packed
<1> QED
  BY <1>1, <1>4, Pack

\* An addition to HEAD that does not wrap leaves TAIL alone.
LEMMA PlusHead ==
  ASSUME NEW i \in Packed, NEW n \in Nat, HEAD(i) + n < Half
  PROVE  HEAD(Plus(i, n * Half)) = HEAD(i) + n /\ TAIL(Plus(i, n * Half)) = TAIL(i)
<1> DEFINE h == HEAD(i)
           t == TAIL(i)
<1>1. h + n \in 0 .. Half - 1 /\ t \in 0 .. Half - 1 /\ i = h * Half + t
      /\ h \in Nat
  BY Halves, SizeAssumption
<1>2. (h + n) * Half + t \in Packed
  BY <1>1, Pack
<1>3. i + n * Half = (h + n) * Half + t
  <2>1. (h + n) * Half = h * Half + n * Half
        /\ h * Half \in Nat /\ n * Half \in Nat
    BY <1>1, SizeAssumption
  <2> HIDE DEF h, t
  <2> QED
    BY <1>1, <2>1
<1>4. Plus(i, n * Half) = (h + n) * Half + t
  BY <1>2, <1>3, SizeAssumption DEF Plus, Packed
<1> QED
  BY <1>1, <1>4, Pack

\* Multiples of stride that differ are stride apart.
LEMMA Apart ==
  ASSUME NEW s \in Nat, NEW j \in Nat, NEW k \in Nat, j * s < k * s
  PROVE  (j + 1) * s = j * s + s /\ j * s + s <= k * s
<1>1. j < k
  <2>1. SUFFICES ASSUME k <= j PROVE FALSE
    OBVIOUS
  <2>2. PICK a \in Nat : j = k + a
    <3>1. j - k \in Nat /\ j = k + (j - k)
      BY <2>1
    <3> QED
      BY <3>1
  <2>3. j * s = k * s + a * s /\ a * s \in Nat /\ k * s \in Nat
    BY <2>2
  <2> QED
    BY <2>3
<1>2. PICK b \in Nat : k = j + 1 + b
  <2>1. k - j - 1 \in Nat /\ k = j + 1 + (k - j - 1)
    BY <1>1
  <2> QED
    BY <2>1
<1>3. k * s = (j + 1) * s + b * s /\ b * s \in Nat
  BY <1>2
<1>4. (j + 1) * s = j * s + s /\ j * s \in Nat
  OBVIOUS
<1> QED
  BY <1>3, <1>4

\* Where the halves differ in the order HEAD < TAIL there is a whole entry.
LEMMA EntryBetween ==
  ASSUME NEW i \in Packed, stride \in 1 .. Half - 1, Aligned(i), HEAD(i) <
  TAIL(i)
  PROVE  HEAD(i) + stride <= TAIL(i)
<1>1. PICK j, k \in Nat : HEAD(i) = j * stride /\ TAIL(i) = k * stride
  BY DEF Aligned
<1>2. stride \in Nat
  BY SizeAssumption
<1> QED
  BY <1>1, <1>2, Apart

\* An entry more in TAIL.
LEMMA AlignTail ==
  ASSUME NEW i \in Packed, stride \in 1 .. Half - 1, Aligned(i),
         TAIL(i) + stride < Half
  PROVE  Aligned(Plus(i, stride))
<1>1. PICK j, k \in Nat : HEAD(i) = j * stride /\ TAIL(i) = k * stride
  BY DEF Aligned
<1>2. stride \in Nat
  BY SizeAssumption
<1>3. k + 1 \in Nat /\ k * stride + stride = (k + 1) * stride
  BY <1>2
<1>4. HEAD(Plus(i, stride)) = j * stride /\ TAIL(Plus(i, stride)) = (k + 1) * stride
  BY <1>1, <1>2, <1>3, PlusTail
<1> QED
  BY <1>3, <1>4 DEF Aligned

\* An entry more in HEAD.
LEMMA AlignHead ==
  ASSUME NEW i \in Packed, stride \in 1 .. Half - 1, Aligned(i),
         HEAD(i) + stride < Half
  PROVE  Aligned(Plus(i, stride * Half))
<1>1. PICK j, k \in Nat : HEAD(i) = j * stride /\ TAIL(i) = k * stride
  BY DEF Aligned
<1>2. stride \in Nat
  BY SizeAssumption
<1>3. j + 1 \in Nat /\ j * stride + stride = (j + 1) * stride
  BY <1>2
<1>4. HEAD(Plus(i, stride * Half)) = (j + 1) * stride
      /\ TAIL(Plus(i, stride * Half)) = k * stride
  BY <1>1, <1>2, <1>3, PlusHead
<1> QED
  BY <1>3, <1>4 DEF Aligned

-----------------------------------------------------------------------------
(***************************************************************************)
(* The invariant.                                                          *)
(***************************************************************************)

\* What TypeOK says of the numbers.
LEMMA Numbers ==
  ASSUME TypeOK
  PROVE  /\ len \in 1 .. Half - 1 /\ stride \in 1 .. Half - 1
         /\ len \in Nat /\ stride \in Nat /\ Half \in Nat /\ idx \in Packed
         /\ \A c \in Callers : midx[c] \in Packed
<1>1. [len |-> len, stride |-> stride] \in [len : 1 .. Half - 1, stride : 1 .. Half - 1]
  BY SizeAssumption DEF TypeOK
<1>2. len \in 1 .. Half - 1 /\ stride \in 1 .. Half - 1
  BY <1>1
<1> QED
  BY <1>2, SizeAssumption DEF TypeOK, Packed

\* HEAD may move by an entry when it is at least an entry behind TAIL.
LEMMA MoveHead ==
  ASSUME TypeOK, Aligned(idx), HEAD(idx) + stride <= TAIL(idx)
  PROVE  LET i == Plus(idx, stride * Half)
         IN  Aligned(i) /\ HEAD(i) = HEAD(idx) + stride /\ TAIL(i) = TAIL(idx)
<1>1. HEAD(idx) + stride < Half /\ idx \in Packed /\ stride \in 1 .. Half - 1
      /\ stride \in Nat
  BY Numbers, Halves
<1> QED
  BY <1>1, PlusHead, AlignHead

\* The first value of idx and of the locals.
LEMMA FirstWord == 0 \in Packed /\ HEAD(0) = 0 /\ TAIL(0) = 0
<1>1. Half \in Nat /\ Half > 0 /\ Half * Half > 0
  BY SizeAssumption
<1> QED
  BY <1>1 DEF Packed, HEAD, TAIL

LEMMA InitInv == ASSUME Init PROVE IInv
<1> USE DEF Init
<1>1. TypeOK
  <2>1. PICK s \in Sizes : len = s.len /\ stride = s.stride
    OBVIOUS
  <2>2. s = [len |-> s.len, stride |-> s.stride]
    BY SizeAssumption
  <2>3. [len |-> len, stride |-> stride] \in Sizes
    BY <2>1, <2>2
  <2> QED
    BY <2>3, FirstWord, SizeAssumption DEF TypeOK, Packed
<1>2. PCInv /\ ReaderInv
  BY DEF PCInv, ReaderInv, Callers
<1>3. \A w \in Writers : ~Pending(w)
  <2>1. len \in Nat /\ len # 0
    BY <1>1, Numbers
  <2> QED
    BY <2>1 DEF Pending, Callers
<1>4. Aligned(idx) /\ HEAD(idx) <= TAIL(idx)
  <2>1. stride \in Nat /\ 0 = 0 * stride
    BY <1>1, Numbers
  <2>2. idx = 0
    OBVIOUS
  <2> QED
    BY <2>1, <2>2, FirstWord DEF Aligned
<1> QED
  BY <1>1, <1>2, <1>3, <1>4 DEF IInv, RegularInv

\* A step of a caller keeps the sizes.
LEMMA GotoSame ==
  ASSUME NEW c, NEW from, NEW to, Goto(c, from, to)
  PROVE  len' = len /\ stride' = stride
BY DEF Goto, sizes

LEMMA TypeInv ==
  ASSUME TypeOK, PCInv, Next
  PROVE  TypeOK'
<1> USE DEF TypeOK, Callers, Goto, sizes
<1>1. idx \in Packed /\ stride \in Nat /\ stride * Half \in Nat /\ 0 \in Packed
      /\ \A c \in Callers : midx[c] \in Packed
  BY Numbers, FirstWord
<1>2. Plus(idx, stride) \in Packed /\ Plus(idx, stride * Half) \in Packed
      /\ \A w \in Writers : Plus(midx[w], stride * Half) \in Packed
  BY <1>1, PlusPacked
<1>3. ASSUME NEW w \in Writers, Xadd(w) PROVE TypeOK'
  <2>1. taken' \in 0 .. MaxTaken /\ seq' \in [Writers -> 0 .. MaxTaken]
    BY <1>3, SizeAssumption DEF Xadd, Taken
  <2>2. jump' \in [Writers -> BOOLEAN] /\ regular' \in BOOLEAN
    <3> DEFINE wraps == TAIL(idx) + stride >= Half
               J(v) == IF v = w THEN wraps ELSE pc[v] = "copy" /\ (jump[v] \/ wraps)
    <3>1. wraps \in BOOLEAN
      OBVIOUS
    <3>2. jump' = [v \in Writers |-> J(v)] /\ regular' = (regular /\ ~wraps)
      BY <1>3 DEF Xadd, Taken
    <3> HIDE DEF wraps
    <3>3. \A v \in Writers : J(v) \in BOOLEAN
      BY <3>1
    <3> QED
      BY <3>1, <3>2, <3>3
  <2>3. idx' \in Packed /\ midx' \in [Callers -> Packed]
    BY <1>3, <1>1, <1>2 DEF Xadd, Packed
  <2>4. pc' \in [Callers -> {"idle", "copy", "load", "store", "read",
  "cmpxchg"}]
        /\ len' = len /\ stride' = stride
    BY <1>3 DEF Xadd
  <2> QED
    BY <2>1, <2>2, <2>3, <2>4 DEF Packed
<1>4. ASSUME NEW w \in Writers, Copied(w) PROVE TypeOK'
  <2>1. midx' \in [Callers -> Packed] /\ idx' = idx /\ len' = len /\ stride' = stride
        /\ pc' \in [Callers -> {"idle", "copy", "load", "store", "read", "cmpxchg"}]
    BY <1>4, <1>1 DEF Copied, Forget, Packed
  <2>2. seq' \in [Writers -> 0 .. MaxTaken] /\ taken' = taken
    BY <1>4, SizeAssumption DEF Copied, Forget
  <2>3. jump' \in [Writers -> BOOLEAN] /\ regular' = regular
    BY <1>4 DEF Copied, Forget
  <2> QED
    BY <2>1, <2>2, <2>3 DEF Packed
<1>5. ASSUME NEW w \in Writers, LoadIdx(w) PROVE TypeOK'
  BY <1>5, <1>1 DEF LoadIdx, Packed
<1>6. ASSUME NEW w \in Writers, StoreIdx(w) PROVE TypeOK'
  <2>1. seq' \in [Writers -> 0 .. MaxTaken] /\ taken' = taken
    BY <1>6, SizeAssumption DEF StoreIdx
  <2>2. jump' \in [Writers -> BOOLEAN] /\ regular' \in BOOLEAN
    BY <1>6 DEF StoreIdx
  <2>3. idx' \in Packed /\ midx' \in [Callers -> Packed]
    BY <1>6, <1>1, <1>2 DEF StoreIdx, Packed
  <2>4. pc' \in [Callers -> {"idle", "copy", "load", "store", "read",
  "cmpxchg"}]
        /\ len' = len /\ stride' = stride
    BY <1>6 DEF StoreIdx
  <2> QED
    BY <2>1, <2>2, <2>3, <2>4 DEF Packed
<1>7. ASSUME NEW r \in Readers, LoadUntilReadable(r) PROVE TypeOK'
  BY <1>7, <1>1 DEF LoadUntilReadable, Packed
<1>8. ASSUME NEW r \in Readers, ReadEmpty(r) PROVE TypeOK'
  BY <1>8, <1>1 DEF ReadEmpty, Packed
<1>9. ASSUME NEW r \in Readers, ReadEntry(r) PROVE TypeOK'
  BY <1>9 DEF ReadEntry
<1>10. ASSUME NEW r \in Readers, Cmpxchg(r) PROVE TypeOK'
  BY <1>10, <1>1, <1>2 DEF Cmpxchg, Packed
<1> QED
  BY <1>3, <1>4, <1>5, <1>6, <1>7, <1>8, <1>9, <1>10 DEF Next

LEMMA CallersInv ==
  ASSUME TypeOK, PCInv, ReaderInv, Next
  PROVE  PCInv' /\ ReaderInv'
<1> USE CallersAssumption DEF TypeOK, Callers, Goto, sizes, PCInv, ReaderInv
<1>1. ASSUME NEW w \in Writers, Xadd(w) PROVE PCInv' /\ ReaderInv'
  BY <1>1 DEF Xadd
<1>2. ASSUME NEW w \in Writers, Copied(w) PROVE PCInv' /\ ReaderInv'
  BY <1>2 DEF Copied, Forget
<1>3. ASSUME NEW w \in Writers, LoadIdx(w) PROVE PCInv' /\ ReaderInv'
  BY <1>3 DEF LoadIdx
<1>4. ASSUME NEW w \in Writers, StoreIdx(w) PROVE PCInv' /\ ReaderInv'
  BY <1>4 DEF StoreIdx
<1>5. ASSUME NEW r \in Readers, LoadUntilReadable(r) PROVE PCInv' /\ ReaderInv'
  BY <1>5 DEF LoadUntilReadable
<1>6. ASSUME NEW r \in Readers, ReadEmpty(r) PROVE PCInv' /\ ReaderInv'
  BY <1>6 DEF ReadEmpty
<1>7. ASSUME NEW r \in Readers, ReadEntry(r) PROVE PCInv' /\ ReaderInv'
  BY <1>7 DEF ReadEntry
<1>8. ASSUME NEW r \in Readers, Cmpxchg(r) PROVE PCInv' /\ ReaderInv'
  BY <1>8 DEF Cmpxchg
<1> QED
  BY <1>1, <1>2, <1>3, <1>4, <1>5, <1>6, <1>7, <1>8 DEF Next

\* RegularInv stays when a step changes neither idx nor who is pending.
LEMMA RegularSame ==
  ASSUME RegularInv, idx' = idx, regular' = regular, len' = len, stride' =
  stride,
         \A w \in Writers : Pending(w)' => Pending(w)
  PROVE  RegularInv'
BY DEF RegularInv, Aligned, HEAD, TAIL

LEMMA XaddInv ==
  ASSUME IInv, NEW w \in Writers, Xadd(w)
  PROVE  RegularInv'
<1> SUFFICES ASSUME regular'
             PROVE  /\ Aligned(idx)' /\ HEAD(idx') <= TAIL(idx')
                    /\ \A v \in Writers :
                         Pending(v)' => HEAD(idx') + len' + stride' <= TAIL(idx')
                    /\ \A u, v \in Writers : Pending(u)' /\ Pending(v)' => u = v
  BY DEF RegularInv, HEAD, TAIL
<1> DEFINE h == HEAD(idx)
           t == TAIL(idx)
<1>1. len \in Nat /\ stride \in Nat /\ Half \in Nat /\ idx \in Packed
      /\ h \in Nat /\ t \in Nat /\ stride \in 1 .. Half - 1
  BY Numbers, Halves DEF IInv
<1>2. regular /\ t + stride < Half /\ idx' = Plus(idx, stride)
      /\ len' = len /\ stride' = stride
  <2>1. regular' = (regular /\ ~(t + stride >= Half)) /\ idx' = Plus(idx, stride)
    BY DEF Xadd, Taken
  <2>2. regular /\ ~(t + stride >= Half)
    BY <2>1
  <2>3. t + stride < Half
    <3> HIDE DEF t
    <3> QED
      BY <1>1, <2>2
  <2>4. len' = len /\ stride' = stride
    BY GotoSame DEF Xadd
  <2> QED
    BY <2>1, <2>2, <2>3, <2>4
<1>3. /\ Aligned(idx) /\ h <= t
      /\ \A v \in Writers : Pending(v) => h + len + stride <= t
      /\ \A u, v \in Writers : Pending(u) /\ Pending(v) => u = v
  BY <1>2 DEF IInv, RegularInv
<1>4. HEAD(idx') = h /\ TAIL(idx') = t + stride /\ Aligned(Plus(idx, stride))
  BY <1>1, <1>2, <1>3, PlusTail, AlignTail
<1>5. Aligned(idx)'
  BY <1>2, <1>4 DEF Aligned
<1>6. \A v \in Writers \ {w} : Pending(v)' => Pending(v)
  BY <1>2 DEF Xadd, Goto, Pending, IInv, TypeOK, Callers, HEAD, TAIL
<1>7. Pending(w)' => h + len = t
  <2>1. pc'[w] = "copy" /\ midx'[w] = idx
    BY DEF Xadd, Goto, IInv, TypeOK, Callers
  <2> QED
    BY <1>2, <2>1 DEF Pending, HEAD, TAIL
<1>8. Pending(w)' => \A v \in Writers : ~Pending(v)
  <2> HIDE DEF h, t
  <2> QED
    BY <1>1, <1>3, <1>7
<1>9. \A v \in Writers : Pending(v)' => h + len + stride <= t + stride
  <2> HIDE DEF h, t
  <2> QED
    BY <1>1, <1>3, <1>6, <1>7
<1>10. \A u, v \in Writers : Pending(u)' /\ Pending(v)' => u = v
  BY <1>3, <1>6, <1>8
<1>11. h <= t + stride
  <2> HIDE DEF h, t
  <2> QED
    BY <1>1, <1>3
<1> QED
  BY <1>2, <1>4, <1>5, <1>9, <1>10, <1>11

LEMMA CopiedInv ==
  ASSUME IInv, NEW w \in Writers, Copied(w)
  PROVE  RegularInv'
<1>1. idx' = idx /\ regular' = regular /\ len' = len /\ stride' = stride
  BY DEF Copied, Goto, sizes
<1>2. \A v \in Writers : Pending(v)' => Pending(v)
  <2>1. CASE HEAD(midx[w]) + len = TAIL(midx[w])
    BY <2>1 DEF Copied, Goto, sizes, Pending, IInv, TypeOK, Callers
  <2>2. CASE HEAD(midx[w]) + len # TAIL(midx[w])
    BY <2>2 DEF Copied, Goto, sizes, Forget, Pending, IInv, TypeOK, Callers,
       HEAD, TAIL
  <2> QED
    BY <2>1, <2>2
<1> QED
  BY <1>1, <1>2, RegularSame DEF IInv

LEMMA LoadIdxInv ==
  ASSUME IInv, NEW w \in Writers, LoadIdx(w)
  PROVE  RegularInv'
<1>1. idx' = idx /\ regular' = regular /\ len' = len /\ stride' = stride
  BY DEF LoadIdx, Goto, sizes
<1>2. \A v \in Writers : Pending(v)' => Pending(v)
  BY <1>1 DEF LoadIdx, Goto, Pending, IInv, TypeOK, Callers, HEAD, TAIL
<1> QED
  BY <1>1, <1>2, RegularSame DEF IInv

LEMMA StoreIdxInv ==
  ASSUME IInv, NEW w \in Writers, StoreIdx(w)
  PROVE  RegularInv'
<1> SUFFICES ASSUME regular'
             PROVE  /\ Aligned(idx)' /\ HEAD(idx') <= TAIL(idx')
                    /\ \A v \in Writers : ~Pending(v)'
  BY DEF RegularInv, HEAD, TAIL
<1> DEFINE h == HEAD(idx)
           t == TAIL(idx)
<1>1. len \in Nat /\ stride \in Nat /\ h \in Nat /\ t \in Nat
  BY Numbers, Halves DEF IInv
<1>2. regular /\ idx' = Plus(idx, stride * Half) /\ len' = len /\ stride' = stride
  BY GotoSame DEF StoreIdx
<1>3. Pending(w)
  BY DEF StoreIdx, Goto, Pending
<1>4. Aligned(idx) /\ h + len + stride <= t
      /\ \A v \in Writers : Pending(v) => v = w
  BY <1>2, <1>3 DEF IInv, RegularInv
<1>5. h + stride <= t
  <2> HIDE DEF h, t
  <2> QED
    BY <1>1, <1>4
<1>6. Aligned(Plus(idx, stride * Half)) /\ HEAD(idx') = h + stride /\ TAIL(idx') = t
  BY <1>2, <1>4, <1>5, MoveHead DEF IInv
<1>7. Aligned(idx)'
  BY <1>2, <1>6 DEF Aligned
<1>8. \A v \in Writers : ~Pending(v)'
  <2>1. ~Pending(w)'
    BY DEF StoreIdx, Goto, Pending, IInv, TypeOK, Callers
  <2>2. \A v \in Writers \ {w} : Pending(v)' => Pending(v)
    BY <1>2 DEF StoreIdx, Goto, Pending, IInv, TypeOK, Callers, HEAD, TAIL
  <2> QED
    BY <1>4, <2>1, <2>2
<1> QED
  BY <1>5, <1>6, <1>7, <1>8

\* A reader's steps do not concern the writers' locals.
LEMMA ReaderMoves ==
  ASSUME IInv, NEW r \in Readers, len' = len,
         LoadUntilReadable(r) \/ ReadEmpty(r) \/ ReadEntry(r) \/ Cmpxchg(r)
  PROVE  \A w \in Writers : Pending(w)' <=> Pending(w)
<1>1. \A w \in Writers : w # r /\ w \in Callers
  BY CallersAssumption DEF Callers
<1>2. \A w \in Writers : pc'[w] = pc[w] /\ midx'[w] = midx[w]
  BY <1>1 DEF LoadUntilReadable, ReadEmpty, ReadEntry, Cmpxchg, Goto, IInv,
     TypeOK
<1> QED
  BY <1>2 DEF Pending, HEAD, TAIL

LEMMA CmpxchgInv ==
  ASSUME IInv, NEW r \in Readers, Cmpxchg(r), idx = midx[r]
  PROVE  RegularInv'
<1> SUFFICES ASSUME regular'
             PROVE  /\ Aligned(idx)' /\ HEAD(idx') <= TAIL(idx')
                    /\ \A w \in Writers : ~Pending(w)'
  BY DEF RegularInv, HEAD, TAIL
<1> DEFINE h == HEAD(idx)
           t == TAIL(idx)
<1>1. len \in Nat /\ stride \in Nat /\ h \in Nat /\ t \in Nat /\ idx \in Packed
      /\ stride \in 1 .. Half - 1
  BY Numbers, Halves DEF IInv
<1>2. regular /\ idx' = Plus(idx, stride * Half) /\ len' = len /\ stride' = stride
  BY GotoSame DEF Cmpxchg
<1>3. h + len >= t /\ h # t
  BY DEF IInv, ReaderInv, Cmpxchg, Goto
<1>4. Aligned(idx) /\ h <= t
      /\ \A w \in Writers : Pending(w) => h + len + stride <= t
  BY <1>2 DEF IInv, RegularInv
<1>5. h < t /\ ~(h + len + stride <= t)
  <2> HIDE DEF h, t
  <2> QED
    BY <1>1, <1>3, <1>4
<1>6. h + stride <= t
  BY <1>1, <1>4, <1>5, EntryBetween
<1>7. Aligned(Plus(idx, stride * Half)) /\ HEAD(idx') = h + stride /\ TAIL(idx') = t
  BY <1>2, <1>4, <1>6, MoveHead DEF IInv
<1>8. Aligned(idx)'
  BY <1>2, <1>7 DEF Aligned
<1>9. \A w \in Writers : ~Pending(w)'
  BY <1>2, <1>4, <1>5, ReaderMoves
<1> QED
  BY <1>6, <1>7, <1>8, <1>9

LEMMA ReaderInvs ==
  ASSUME IInv, NEW r \in Readers,
         LoadUntilReadable(r) \/ ReadEmpty(r) \/ ReadEntry(r) \/ Cmpxchg(r)
  PROVE  RegularInv'
<1>1. regular' = regular /\ len' = len /\ stride' = stride
  BY GotoSame DEF LoadUntilReadable, ReadEmpty, ReadEntry, Cmpxchg
<1>2. CASE idx' = idx
  BY <1>1, <1>2, ReaderMoves, RegularSame DEF IInv
<1>3. CASE idx' # idx
  <2>1. Cmpxchg(r) /\ idx = midx[r]
    BY <1>3 DEF LoadUntilReadable, ReadEmpty, ReadEntry, Cmpxchg
  <2> QED
    BY <2>1, CmpxchgInv
<1> QED
  BY <1>2, <1>3

LEMMA NextInv == ASSUME IInv, [Next]_vars PROVE IInv'
<1>1. CASE Next
  <2>1. TypeOK' /\ PCInv' /\ ReaderInv'
    BY <1>1, TypeInv, CallersInv DEF IInv
  <2>2. RegularInv'
    BY <1>1, XaddInv, CopiedInv, LoadIdxInv, StoreIdxInv, ReaderInvs DEF Next
  <2> QED
    BY <2>1, <2>2 DEF IInv
<1>2. CASE UNCHANGED vars
  <2>1. TypeOK'
    BY <1>2 DEF IInv, TypeOK, vars, sizes
  <2>2. PCInv' /\ ReaderInv'
    BY <1>2 DEF IInv, PCInv, ReaderInv, vars, sizes, HEAD, TAIL
  <2>3. RegularInv'
    BY <1>2, RegularSame DEF IInv, Pending, vars, sizes, HEAD, TAIL
  <2> QED
    BY <2>1, <2>2, <2>3 DEF IInv
<1> QED
  BY <1>1, <1>2

LEMMA Inductive == Spec => []IInv
<1>1. Init => IInv
  BY InitInv
<1>2. IInv /\ [Next]_vars => IInv'
  BY NextInv
<1> QED
  BY <1>1, <1>2, PTL DEF Spec

-----------------------------------------------------------------------------

\* write_clist and read_clist keep the packed word and the tickets in range,
\* for every number of callers and all sizes.
THEOREM NbBlistTypeCorrect == Spec => []TypeOK
<1>1. IInv => TypeOK
  BY DEF IInv
<1> QED
  BY <1>1, Inductive, PTL

\* However many handlers write and readers read, none of them moves HEAD past
\* TAIL while TAIL has not wrapped nor gone back.
THEOREM HeadStaysBehind == Spec => []HeadBehindTail
<1>1. IInv => HeadBehindTail
  BY DEF IInv, RegularInv, HeadBehindTail
<1> QED
  BY <1>1, Inductive, PTL

-----------------------------------------------------------------------------
(***************************************************************************)
(* Tickets.  As long as TAIL neither wraps nor goes back it counts the     *)
(* entries that were taken, so that two writers of one entry are a whole   *)
(* number of rounds apart.                                                 *)
(***************************************************************************)

\* The entry of a writer lies as far behind TAIL as entries were taken since.
Follows(w) ==
  /\ seq[w] < taken
  /\ ~jump[w] => TAIL(idx) = TAIL(midx[w]) + (taken - seq[w]) * stride

TicketInv ==
  /\ \A w \in Writers : pc[w] = "copy" => Follows(w)
  /\ \A v, w \in Writers :
       v # w /\ pc[v] = "copy" /\ pc[w] = "copy" => seq[v] # seq[w]

\* A set of numbers that is not empty has a smallest one.
LEMMA SmallestNumber ==
  ASSUME NEW S, S \subseteq Nat, S # {}
  PROVE  \E n \in S : \A m \in S : n <= m
<1> DEFINE R == OpToRel(<, Nat)
<1>1. IsWellFoundedOn(R, Nat)
  BY NatLessThanWellFounded
<1>2. \A m, n \in Nat : m < n => <<m, n>> \in R
  BY DEF OpToRel
<1> HIDE DEF R
<1>3. PICK n \in S : \A m \in S : ~(<<m, n>> \in R)
  BY <1>1, WFMin
<1>4. \A m \in S : ~(m < n)
  BY <1>2, <1>3
<1> QED
  BY <1>4

\* Period is what its definition says: there is such a number.
LEMMA PeriodIsLeast ==
  ASSUME len \in Nat \ {0}, stride \in Nat
  PROVE  /\ Period \in 1 .. len
         /\ \A q \in Nat \ {0} : (q * stride) % len = 0 => Period <= q
<1> DEFINE S == {p \in Nat \ {0} : (p * stride) % len = 0}
<1>1. (len * stride) % len = 0
  <2>1. \A n \in Nat : (len * n) % len = 0
    OBVIOUS
  <2> QED
    BY <2>1
<1>2. len \in S
  BY <1>1
<1>3. PICK p \in S : \A q \in S : p <= q
  BY <1>2, SmallestNumber
<1>4. /\ p \in 1 .. len
      /\ (p * stride) % len = 0
      /\ \A q \in 1 .. p - 1 : (q * stride) % len # 0
  <2>1. p \in Nat \ {0} /\ (p * stride) % len = 0
    OBVIOUS
  <2>2. ASSUME NEW q \in 1 .. p - 1 PROVE (q * stride) % len # 0
    <3>1. q \in Nat \ {0} /\ ~(p <= q)
      BY <2>1
    <3>2. q \notin S
      BY <1>3, <3>1
    <3> QED
      BY <3>1, <3>2
  <2>3. p <= len
    BY <1>2, <1>3
  <2> HIDE DEF S
  <2> QED
    BY <2>1, <2>2, <2>3
<1>5. /\ Period \in 1 .. len
      /\ \A q \in 1 .. Period - 1 : (q * stride) % len # 0
  BY <1>4 DEF Period
<1>6. ASSUME NEW q \in Nat \ {0}, (q * stride) % len = 0
      PROVE  Period <= q
  <2>1. q \notin 1 .. Period - 1
    BY <1>5, <1>6
  <2>2. Period \in Nat
    BY <1>5
  <2> QED
    BY <2>1, <2>2
<1> QED
  BY <1>5, <1>6

\* The other half: what is added to HEAD does not reach TAIL, even if it wraps.
LEMMA HeadLeavesTail ==
  ASSUME NEW i \in Packed, NEW n \in 0 .. Half - 1
  PROVE  TAIL(Plus(i, n * Half)) = TAIL(i)
<1> DEFINE h == HEAD(i)
           t == TAIL(i)
<1>1. /\ h \in 0 .. Half - 1 /\ t \in 0 .. Half - 1 /\ i = h * Half + t
      /\ n \in Nat /\ Half \in Nat /\ Half > 0
  BY Halves, SizeAssumption
<1>2. CASE h + n < Half
  BY <1>1, <1>2, PlusHead
<1>3. CASE h + n >= Half
  <2> DEFINE k == h + n - Half
  <2>1. k \in 0 .. Half - 1 /\ h + n = k + Half
    BY <1>1, <1>3
  <2>2. k * Half + t \in Packed /\ TAIL(k * Half + t) = t
    BY <1>1, <2>1, Pack
  <2>3. i + n * Half = (k * Half + t) + Half * Half
    <3>1. /\ (h + n) * Half = h * Half + n * Half
          /\ (k + Half) * Half = k * Half + Half * Half
          /\ h * Half \in Nat /\ n * Half \in Nat /\ k * Half \in Nat
          /\ Half * Half \in Nat
      BY <1>1, <2>1
    <3>2. h * Half + n * Half = k * Half + Half * Half
      BY <2>1, <3>1
    <3> HIDE DEF h, t, k
    <3> QED
      BY <1>1, <3>1, <3>2
  <2>4. Plus(i, n * Half) = k * Half + t
    <3> DEFINE j == k * Half + t
               m == Half * Half
    <3>1. j \in 0 .. m - 1 /\ m \in Nat /\ m > 0
      BY <1>1, <2>2 DEF Packed
    <3>2. (j + m) % m = j
      <4> HIDE DEF j, m
      <4> QED
        BY <3>1
    <3> QED
      BY <2>3, <3>2 DEF Plus
  <2> QED
    BY <2>2, <2>4
<1> QED
  BY <1>1, <1>2, <1>3

\* A step that takes no entry and writes no other TAIL.
LEMMA TicketSame ==
  ASSUME IInv, TicketInv, TAIL(idx') = TAIL(idx),
         taken' = taken, stride' = stride,
         \A w \in Writers : pc'[w] = "copy" =>
           /\ pc[w] = "copy" /\ midx'[w] = midx[w] /\ seq'[w] = seq[w]
           /\ jump[w] => jump'[w]
  PROVE  TicketInv'
<1>1. ASSUME NEW w \in Writers, pc'[w] = "copy" PROVE Follows(w)'
  BY <1>1 DEF TicketInv, Follows, TAIL
<1> QED
  BY <1>1 DEF TicketInv

\* A writer whose store went back on TAIL makes all tickets jump.
LEMMA TicketJump ==
  ASSUME IInv, TicketInv, taken' = taken,
         \A w \in Writers : pc'[w] = "copy" =>
           pc[w] = "copy" /\ seq'[w] = seq[w] /\ jump'[w]
  PROVE  TicketInv'
BY DEF TicketInv, Follows

\* The ticket of one more entry.
LEMMA XaddTicket ==
  ASSUME IInv, TicketInv, NEW w \in Writers, Xadd(w)
  PROVE  TicketInv'
<1> DEFINE t == TAIL(idx)
           wraps == t + stride >= Half
<1>1. /\ idx' = Plus(idx, stride) /\ taken' = taken + 1 /\ stride' = stride
      /\ pc' = [pc EXCEPT ![w] = "copy"] /\ midx' = [midx EXCEPT ![w] = idx]
      /\ seq' = [seq EXCEPT ![w] = taken]
      /\ \A v \in Writers :
           jump'[v] = IF v = w THEN wraps ELSE pc[v] = "copy" /\ (jump[v] \/ wraps)
  BY DEF Xadd, Taken, Goto, sizes
<1>2. stride \in Nat /\ Half \in Nat /\ idx \in Packed /\ t \in Nat /\ taken \in Nat
      /\ \A v \in Writers : seq[v] \in Nat
  BY Numbers, Halves, SizeAssumption DEF IInv, TypeOK
<1>3. ~wraps => TAIL(idx') = t + stride
  <2>1. ~wraps => t + stride < Half
    <3> HIDE DEF t
    <3> QED
      BY <1>2
  <2> QED
    BY <1>1, <1>2, <2>1, PlusTail
<1>4. pc'[w] = "copy" /\ midx'[w] = idx /\ seq'[w] = taken /\ w \in Callers
  BY <1>1 DEF IInv, TypeOK, Callers
<1>5. \A v \in Writers \ {w} :
        pc'[v] = pc[v] /\ midx'[v] = midx[v] /\ seq'[v] = seq[v]
  BY <1>1 DEF IInv, TypeOK, Callers
<1> HIDE DEF wraps, t
<1>6. ASSUME NEW v \in Writers, pc'[v] = "copy" PROVE Follows(v)'
  <2>1. CASE v = w
    <3>1. (taken' - seq'[v]) * stride' = stride
      <4>1. taken' - seq'[v] = 1
        BY <1>1, <1>2, <1>4, <2>1
      <4> QED
        BY <1>1, <1>2, <4>1
    <3>2. seq'[v] < taken'
      BY <1>1, <1>2, <1>4, <2>1
    <3>3. ~jump'[v] => TAIL(idx') = TAIL(midx'[v]) + stride
      BY <1>1, <1>3, <1>4, <2>1 DEF t
    <3> QED
      BY <3>1, <3>2, <3>3 DEF Follows, TAIL
  <2>2. CASE v # w
    <3>1. pc[v] = "copy" /\ Follows(v) /\ v \in Callers
      BY <1>5, <1>6, <2>2 DEF TicketInv, Callers
    <3>2. seq'[v] < taken'
      BY <1>1, <1>2, <1>5, <2>2, <3>1 DEF Follows
    <3>3. ASSUME ~jump'[v]
          PROVE  TAIL(idx') = TAIL(midx'[v]) + (taken' - seq'[v]) * stride'
      <4>1. ~wraps /\ ~jump[v]
        BY <1>1, <2>2, <3>1, <3>3
      <4>2. t = TAIL(midx[v]) + (taken - seq[v]) * stride
        BY <3>1, <4>1 DEF Follows, t
      <4>3. PICK d \in Nat : d = taken - seq[v]
        BY <1>2, <3>1 DEF Follows
      <4>4. taken' - seq'[v] = d + 1
        BY <1>1, <1>2, <1>5, <2>2, <4>3
      <4>5. (d + 1) * stride = d * stride + stride /\ d * stride \in Nat
        BY <1>2
      <4>6. TAIL(midx[v]) \in Nat
        BY <3>1, Numbers, Halves DEF IInv
      <4>7. TAIL(idx') = t + stride
        BY <1>3, <4>1
      <4>8. t + stride = TAIL(midx[v]) + (d + 1) * stride
        BY <1>2, <4>2, <4>3, <4>5, <4>6
      <4> QED
        BY <1>1, <1>5, <2>2, <4>4, <4>7, <4>8
    <3> QED
      BY <3>2, <3>3 DEF Follows, TAIL
  <2> QED
    BY <2>1, <2>2
<1>7. ASSUME NEW u \in Writers, NEW v \in Writers, u # v,
             pc'[u] = "copy", pc'[v] = "copy"
      PROVE  seq'[u] # seq'[v]
  <2>1. \A x \in Writers : pc[x] = "copy" => seq[x] # taken
    BY <1>2 DEF TicketInv, Follows
  <2> QED
    BY <1>4, <1>5, <1>7, <2>1 DEF TicketInv
<1> QED
  BY <1>6, <1>7 DEF TicketInv

LEMMA CopiedTicket ==
  ASSUME IInv, TicketInv, NEW w \in Writers, Copied(w)
  PROVE  TicketInv'
<1>1. idx' = idx /\ taken' = taken /\ stride' = stride
  BY DEF Copied, Goto, sizes
<1>2. ASSUME NEW v \in Writers, pc'[v] = "copy"
      PROVE  /\ pc[v] = "copy" /\ midx'[v] = midx[v] /\ seq'[v] = seq[v]
             /\ jump[v] => jump'[v]
  BY <1>2 DEF Copied, Goto, Forget, IInv, TypeOK, Callers
<1> QED
  BY <1>1, <1>2, TicketSame DEF TAIL

LEMMA LoadIdxTicket ==
  ASSUME IInv, TicketInv, NEW w \in Writers, LoadIdx(w)
  PROVE  TicketInv'
<1>1. idx' = idx /\ taken' = taken /\ stride' = stride
  BY DEF LoadIdx, Goto, sizes
<1>2. ASSUME NEW v \in Writers, pc'[v] = "copy"
      PROVE  /\ pc[v] = "copy" /\ midx'[v] = midx[v] /\ seq'[v] = seq[v]
             /\ jump[v] => jump'[v]
  BY <1>2 DEF LoadIdx, Goto, IInv, TypeOK, Callers
<1> QED
  BY <1>1, <1>2, TicketSame DEF TAIL

\* The store keeps TAIL if nothing was taken since the load, and is noted in
\* jump otherwise.
LEMMA StoreIdxTicket ==
  ASSUME IInv, TicketInv, NEW w \in Writers, StoreIdx(w)
  PROVE  TicketInv'
<1>1. /\ idx' = Plus(midx[w], stride * Half) /\ taken' = taken
      /\ stride' = stride
      /\ \A v \in Writers : jump'[v] = (pc[v] = "copy" /\ (jump[v] \/ idx # midx[w]))
  BY DEF StoreIdx, Goto, sizes
<1>2. ASSUME NEW v \in Writers, pc'[v] = "copy"
      PROVE  pc[v] = "copy" /\ midx'[v] = midx[v] /\ seq'[v] = seq[v]
  BY <1>2 DEF StoreIdx, Goto, IInv, TypeOK, Callers
<1>3. CASE idx = midx[w]
  <2>1. TAIL(idx') = TAIL(idx)
    BY <1>1, <1>3, Numbers, HeadLeavesTail DEF IInv
  <2> QED
    BY <1>1, <1>2, <2>1, TicketSame
<1>4. CASE idx # midx[w]
  BY <1>1, <1>2, <1>4, TicketJump
<1> QED
  BY <1>3, <1>4

\* Readers move HEAD only, and only from a word that they loaded as it is.
LEMMA ReaderTicket ==
  ASSUME IInv, TicketInv, NEW r \in Readers,
         LoadUntilReadable(r) \/ ReadEmpty(r) \/ ReadEntry(r) \/ Cmpxchg(r)
  PROVE  TicketInv'
<1>1. taken' = taken /\ stride' = stride /\ UNCHANGED <<seq, jump>>
  BY DEF LoadUntilReadable, ReadEmpty, ReadEntry, Cmpxchg, Goto, sizes
<1>2. \A w \in Writers : w # r /\ w \in Callers
  BY CallersAssumption DEF Callers
<1>3. \A w \in Writers : pc'[w] = pc[w] /\ midx'[w] = midx[w]
  BY <1>2 DEF LoadUntilReadable, ReadEmpty, ReadEntry, Cmpxchg, Goto, IInv,
     TypeOK
<1>4. TAIL(idx') = TAIL(idx)
  <2>1. CASE idx' = idx
    BY <2>1
  <2>2. CASE idx' = Plus(idx, stride * Half)
    BY <2>2, Numbers, HeadLeavesTail DEF IInv
  <2> QED
    BY <2>1, <2>2 DEF LoadUntilReadable, ReadEmpty, ReadEntry, Cmpxchg
<1> QED
  BY <1>1, <1>3, <1>4, TicketSame

LEMMA NextTicket == IInv /\ TicketInv /\ [Next]_vars => TicketInv'
<1> SUFFICES ASSUME IInv, TicketInv, [Next]_vars PROVE TicketInv'
  OBVIOUS
<1>1. CASE UNCHANGED vars
  BY <1>1, TicketSame DEF vars, sizes
<1>2. CASE Next
  BY <1>2, XaddTicket, CopiedTicket, LoadIdxTicket, StoreIdxTicket,
     ReaderTicket
     DEF Next
<1> QED
  BY <1>1, <1>2

LEMMA Division ==
  ASSUME NEW n \in Nat, NEW d \in Nat \ {0}
  PROVE  /\ n = d * (n \div d) + (n % d)
         /\ n \div d \in Nat /\ n % d \in Nat
OBVIOUS

\* Of two tickets, both on the way: the same entry means a multiple of rounds.
LEMMA SameEntry ==
  ASSUME IInv, TicketInv, NEW v \in Writers, NEW w \in Writers,
         pc[v] = "copy", pc[w] = "copy", ~jump[v], ~jump[w],
         seq[v] < seq[w], Entry(v) = Entry(w)
  PROVE  seq[w] - seq[v] >= Period
<1> DEFINE x == TAIL(midx[v])
           y == TAIL(midx[w])
<1>1. /\ len \in Nat \ {0} /\ stride \in Nat /\ v \in Callers /\ w \in Callers
      /\ x \in Nat /\ y \in Nat /\ taken \in Nat /\ seq[v] \in Nat /\ seq[w] \in Nat
      /\ seq[w] < taken
  BY Numbers, Halves DEF IInv, TypeOK, Callers, TicketInv, Follows
<1>2. x + (taken - seq[v]) * stride = y + (taken - seq[w]) * stride
  BY DEF TicketInv, Follows
<1>3. x % len = y % len
  BY DEF Entry
<1> HIDE DEF x, y
<1>4. PICK q \in Nat \ {0} : q = seq[w] - seq[v]
  BY <1>1
<1>5. PICK d \in Nat : d = taken - seq[w]
  BY <1>1
<1>6. taken - seq[v] = q + d
  BY <1>1, <1>4, <1>5
<1>7. (q + d) * stride = q * stride + d * stride
      /\ q * stride \in Nat /\ d * stride \in Nat
  BY <1>1
<1>8. y = x + q * stride
  BY <1>1, <1>2, <1>5, <1>6, <1>7
<1>9. (q * stride) % len = 0
  <2>1. PICK n \in Nat : n = q * stride
    BY <1>7
  <2>2. /\ x = len * (x \div len) + (x % len)
        /\ x \div len \in Nat /\ x % len \in Nat
    BY <1>1, Division
  <2>3. /\ y = len * (y \div len) + (y % len)
        /\ y \div len \in Nat /\ y % len \in Nat
    BY <1>1, Division
  <2>4. n = len * (y \div len) - len * (x \div len)
    BY <1>1, <1>3, <1>8, <2>1, <2>2, <2>3
  <2>5. PICK m \in Int : m = (y \div len) - (x \div len)
    BY <2>2, <2>3
  <2>6. n = len * m
    BY <1>1, <2>2, <2>3, <2>4, <2>5
  <2>7. (len * m) % len = 0
    BY <1>1
  <2> QED
    BY <2>1, <2>6, <2>7
<1> QED
  BY <1>1, <1>4, <1>9, PeriodIsLeast

\* Two handlers that write to one entry at a time took it a whole round of
\* entries apart, for any number of handlers, any sizes and any width of the
\* halves, unless TAIL wrapped or went back in between.
THEOREM SharingIsLap == Spec => []SharedEntryIsLap
<1>1. Init => TicketInv
  BY DEF Init, TicketInv, Callers
<1>2. IInv /\ TicketInv /\ [Next]_vars => TicketInv'
  BY NextTicket
<1>3. IInv /\ TicketInv => SharedEntryIsLap
  <2> SUFFICES ASSUME IInv, TicketInv, NEW v \in Writers, NEW w \in Writers,
                      v # w, pc[v] = "copy", pc[w] = "copy",
                      Entry(v) = Entry(w), ~jump[v], ~jump[w]
      PROVE  seq[v] - seq[w] >= Period \/ seq[w] - seq[v] >= Period
    BY DEF SharedEntryIsLap
  <2>1. seq[v] < seq[w] \/ seq[w] < seq[v]
    BY SizeAssumption DEF TicketInv, IInv, TypeOK
  <2> QED
    BY <2>1, SameEntry
<1> QED
  BY <1>1, <1>2, <1>3, Inductive, PTL DEF Spec
=============================================================================
