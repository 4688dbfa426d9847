-------------------------- MODULE HashTrackerProofs --------------------------
(***************************************************************************)
(* Proofs about ptracker_hash.c for every number of CPUs, pids and nodes:  *)
(* its invariants, then that it implements Tracker.                        *)
(***************************************************************************)
EXTENDS HashTracker, TLAPS

\* TypeOK without the results, whose values are of several sorts.
CoreType ==
  /\ cur \in [CPUs -> Ids \cup {NoId}] /\ reaped \in [CPUs -> BOOLEAN]
  /\ lock \in Frames \cup {NoOne}
  /\ chain \in [Ids -> Seq(Nodes)]
  /\ ndata \in [Nodes -> Data \cup {NoData, Freed}]
  /\ op \in [Frames -> {"none", "add", "del", "query", "data"}]
  /\ pc \in [Frames -> {"idle", "alloc", "lock", "body", "unlock", "finish",
                        "done"}]
  /\ id \in [Frames -> Ids \cup {NoId}]
  /\ arg \in [Frames -> Data \cup {NoData}]
  /\ node \in [Frames -> Nodes \cup {NoNode}]

\* Which operation a frame can be in, where, and on which pid.  A deletion
\* and the query of an NMI are about the task their CPU runs.
OpInv ==
  \A f \in Frames :
    /\ pc[f] = "idle" <=> op[f] = "none"
    /\ pc[f] # "idle" => id[f] \in Ids
    /\ op[f] = "data" => f[2] = "nmi" /\ id[f] = cur[f[1]]
    /\ op[f] = "del" => f[2] = "task" /\ id[f] = cur[f[1]] /\ ~reaped[f[1]]
    /\ op[f] \in {"add", "query"} => f[2] = "task"
    /\ op[f] = "add" => pc[f] # "finish"
    /\ pc[f] = "alloc" => op[f] = "add"
    /\ op[f] = "add" /\ pc[f] \in {"lock", "body"} => node[f] \in Nodes

\* A task runs on one CPU at a time, and shares its pid with reaped ones only.
CurInv ==
  \A c, d \in CPUs :
    cur[c] = cur[d] /\ cur[c] # NoId => c = d \/ reaped[c] \/ reaped[d]

\* No node is linked in two places.
Unique ==
  \A i, j \in Ids : \A k \in 1 .. Len(chain[i]), l \in 1 .. Len(chain[j]) :
    chain[i][k] = chain[j][l] => i = j /\ k = l

\* A linked or owned node is allocated, and not both; an allocated one is
\* linked or owned.
NodeInv ==
  /\ \A n \in Nodes, i \in Ids : Linked(n, i) => ndata[n] # Freed
  /\ \A n \in Nodes, f \in Frames :
       Owns(f, n) => /\ ndata[n] # Freed
                     /\ \A i \in Ids : ~Linked(n, i)
                     /\ \A g \in Frames : Owns(g, n) => g = f
  /\ \A n \in Nodes :
       ndata[n] # Freed => \/ \E i \in Ids : Linked(n, i)
                           \/ \E f \in Frames : Owns(f, n)

\* What an NMI has found stays in the table until it has read it, unless the
\* task below it was reaped.
FoundInv ==
  \A f \in Frames :
    /\ op[f] = "data" /\ pc[f] \in {"unlock", "finish"} /\ node[f] # NoNode
    /\ ~reaped[f[1]]
    => Linked(node[f], id[f])

IInv == /\ CoreType /\ OpInv /\ CurInv /\ MutualExclusion
        /\ Unique /\ NodeInv /\ FoundInv

-----------------------------------------------------------------------------
(***************************************************************************)
(* The chains.                                                             *)
(***************************************************************************)

\* hash_add links one more node.
LEMMA PushChain ==
  ASSUME chain \in [Ids -> Seq(Nodes)], Unique, NEW i \in Ids, NEW n \in Nodes,
         \A j \in Ids : ~Linked(n, j),
         chain' = [chain EXCEPT ![i] = <<n>> \o @]
  PROVE  /\ chain' \in [Ids -> Seq(Nodes)]
         /\ Unique'
         /\ \A m \in Nodes, j \in Ids :
              Linked(m, j)' <=> Linked(m, j) \/ (j = i /\ m = n)
<1> DEFINE new == <<n>> \o chain[i]
<1>1. chain[i] \in Seq(Nodes)
  OBVIOUS
<1>2. /\ new \in Seq(Nodes) /\ Len(new) = Len(chain[i]) + 1
      /\ new[1] = n
      /\ \A k \in 2 .. Len(new) : new[k] = chain[i][k - 1]
  BY <1>1
<1>3. /\ chain'[i] = new
      /\ \A j \in Ids : j # i => chain'[j] = chain[j]
  OBVIOUS
<1>4. chain' \in [Ids -> Seq(Nodes)]
  BY <1>2
<1>5. \A j \in Ids : Len(chain[j]) \in Nat
  OBVIOUS
<1> HIDE DEF new
<1>6. ASSUME NEW j1 \in Ids, NEW j2 \in Ids,
             NEW k \in 1 .. Len(chain'[j1]), NEW l \in 1 .. Len(chain'[j2]),
             chain'[j1][k] = chain'[j2][l]
      PROVE  j1 = j2 /\ k = l
  <2>1. \A j \in Ids : \A x \in 1 .. Len(chain'[j]) :
          \/ j = i /\ x = 1 /\ chain'[j][x] = n
          \/ j = i /\ x - 1 \in 1 .. Len(chain[j]) /\ chain'[j][x] = chain[j][x - 1]
          \/ j # i /\ x \in 1 .. Len(chain[j]) /\ chain'[j][x] = chain[j][x]
    BY <1>2, <1>3, <1>5
  <2>2. \A j \in Ids : \A x \in 1 .. Len(chain[j]) : chain[j][x] # n
    BY DEF Linked
  <2>3. QED
    BY <2>1, <2>2, <1>5, <1>6 DEF Unique
<1>7. ASSUME NEW m \in Nodes, NEW j \in Ids
      PROVE  Linked(m, j)' <=> Linked(m, j) \/ (j = i /\ m = n)
  <2>1. CASE j # i
    BY <1>3, <2>1 DEF Linked
  <2>2. CASE j = i
    <3>1. ASSUME Linked(m, j)' PROVE Linked(m, j) \/ m = n
      <4>1. PICK k \in 1 .. Len(new) : new[k] = m
        BY <1>3, <2>2, <3>1 DEF Linked
      <4>2. CASE k = 1
        BY <1>2, <4>1, <4>2
      <4>3. CASE k # 1
        <5>1. k - 1 \in 1 .. Len(chain[i]) /\ chain[i][k - 1] = m
          BY <1>2, <1>5, <4>1, <4>3
        <5>2. QED
          BY <2>2, <5>1 DEF Linked
      <4>4. QED
        BY <4>2, <4>3
    <3>2. ASSUME m = n PROVE Linked(m, j)'
      <4>1. 1 \in 1 .. Len(new) /\ new[1] = m
        BY <1>2, <1>5, <3>2
      <4>2. QED
        BY <1>3, <2>2, <4>1 DEF Linked
    <3>3. ASSUME Linked(m, j) PROVE Linked(m, j)'
      <4>1. PICK k \in 1 .. Len(chain[i]) : chain[i][k] = m
        BY <2>2, <3>3 DEF Linked
      <4>2. k + 1 \in 1 .. Len(new) /\ new[k + 1] = m
        BY <1>2, <1>5, <4>1
      <4>3. QED
        BY <1>3, <2>2, <4>2 DEF Linked
    <3>4. QED
      BY <2>2, <3>1, <3>2, <3>3
  <2>3. QED
    BY <2>1, <2>2
<1>8. QED
  BY <1>4, <1>6, <1>7 DEF Unique

\* hash_del unlinks the first node of a chain, and no other.
LEMMA PopChain ==
  ASSUME chain \in [Ids -> Seq(Nodes)], Unique, NEW i \in Ids,
         chain[i] # <<>>,
         chain' = [chain EXCEPT ![i] = Tail(@)]
  PROVE  /\ chain' \in [Ids -> Seq(Nodes)]
         /\ Unique'
         /\ Head(chain[i]) \in Nodes /\ Linked(Head(chain[i]), i)
         /\ \A m \in Nodes, j \in Ids :
              Linked(m, j)' <=> Linked(m, j) /\ m # Head(chain[i])
<1> DEFINE old == chain[i]
           new == Tail(chain[i])
           top == Head(chain[i])
<1>1. old \in Seq(Nodes) /\ old # <<>>
  OBVIOUS
<1>2. /\ new \in Seq(Nodes) /\ Len(old) = Len(new) + 1 /\ Len(new) \in Nat
      /\ top = old[1] /\ top \in Nodes
      /\ \A k \in 1 .. Len(new) : new[k] = old[k + 1]
  BY <1>1
<1>3. /\ chain'[i] = new
      /\ \A j \in Ids : j # i => chain'[j] = chain[j]
  OBVIOUS
<1>4. chain' \in [Ids -> Seq(Nodes)]
  BY <1>2
<1>5. \A j \in Ids : Len(chain[j]) \in Nat
  OBVIOUS
<1>6. Linked(top, i)
  BY <1>2 DEF Linked
<1>7. \A j \in Ids : \A k \in 1 .. Len(chain[j]) :
        chain[j][k] = top => j = i /\ k = 1
  BY <1>2 DEF Unique
<1> HIDE DEF new, top
<1>8. \A j \in Ids : \A x \in 1 .. Len(chain'[j]) :
        \/ j = i /\ x + 1 \in 1 .. Len(chain[j]) /\ chain'[j][x] = chain[j][x + 1]
        \/ j # i /\ x \in 1 .. Len(chain[j]) /\ chain'[j][x] = chain[j][x]
  BY <1>2, <1>3, <1>5
<1>9. ASSUME NEW j1 \in Ids, NEW j2 \in Ids,
             NEW k \in 1 .. Len(chain'[j1]), NEW l \in 1 .. Len(chain'[j2]),
             chain'[j1][k] = chain'[j2][l]
      PROVE  j1 = j2 /\ k = l
  BY <1>8, <1>5, <1>9 DEF Unique
<1>10. ASSUME NEW m \in Nodes, NEW j \in Ids
       PROVE  Linked(m, j)' <=> Linked(m, j) /\ m # top
  <2>1. ASSUME Linked(m, j)' PROVE Linked(m, j) /\ m # top
    <3>1. PICK x \in 1 .. Len(chain'[j]) : chain'[j][x] = m
      BY <2>1 DEF Linked
    <3>2. QED
      BY <1>5, <1>7, <1>8, <3>1 DEF Linked
  <2>2. ASSUME Linked(m, j), m # top PROVE Linked(m, j)'
    <3>1. PICK x \in 1 .. Len(chain[j]) : chain[j][x] = m
      BY <2>2 DEF Linked
    <3>2. CASE j = i
      <4>1. x # 1
        BY <1>2, <2>2, <3>1, <3>2
      <4>2. x - 1 \in 1 .. Len(new) /\ new[x - 1] = m
        <5>1. x \in 1 .. Len(old) /\ old[x] = m
          BY <3>1, <3>2
        <5>2. x - 1 \in 1 .. Len(new) /\ (x - 1) + 1 = x
          BY <1>2, <4>1, <5>1
        <5>3. QED
          BY <1>2, <5>1, <5>2
      <4>3. QED
        BY <1>3, <3>2, <4>2 DEF Linked
    <3>3. CASE j # i
      BY <1>3, <3>1, <3>3 DEF Linked
    <3>4. QED
      BY <3>2, <3>3
  <2>3. QED
    BY <2>1, <2>2
<1>11. QED
  BY <1>2, <1>4, <1>6, <1>9, <1>10 DEF Unique, top

-----------------------------------------------------------------------------
(***************************************************************************)
(* The steps.                                                              *)
(***************************************************************************)

\* While an NMI runs, its CPU runs nothing else.
LEMMA NmiFreezesTask ==
  ASSUME NEW f \in Frames, NEW g \in Frames, Running(g),
         f[2] = "nmi", g[1] = f[1], pc[f] # "idle"
  PROVE  g[2] = "nmi"
BY DEF Running, Frames

LEMMA InitIInv == Init => IInv
<1> SUFFICES ASSUME Init PROVE IInv
  OBVIOUS
<1> USE NullAssumption
<1>1. \A i \in Ids : Len(chain[i]) = 0
  BY DEF Init
<1>2. CoreType
  BY DEF Init, CoreType
<1>3. OpInv /\ CurInv /\ MutualExclusion /\ FoundInv
  BY DEF Init, OpInv, CurInv, MutualExclusion, FoundInv
<1>4. Unique
  BY <1>1 DEF Unique
<1>5. NodeInv
  BY <1>1 DEF Init, NodeInv, Linked, Owns
<1>6. QED
  BY <1>2, <1>3, <1>4, <1>5 DEF IInv

\* The steps that leave the nodes and the chains alone.
LEMMA LinkedFrame ==
  ASSUME chain' = chain
  PROVE  /\ Unique => Unique'
         /\ \A n, i : Linked(n, i)' <=> Linked(n, i)
BY DEF Unique, Linked

LEMMA CallIInv ==
  ASSUME IInv, NEW c \in CPUs,
         CallAdd(c) \/ CallQuery(c) \/ CallDel(c) \/ CallData(c)
  PROVE  IInv'
<1> USE DEF IInv
<1>1. PICK f \in Frames, o \in {"add", "query", "del", "data"}, i \in Ids,
           d \in Data \cup {NoData}, first \in {"alloc", "lock"} :
        /\ Call(f, o, i, d, first)
        /\ o \in {"del", "data"} => i = cur[f[1]]
        /\ o = "del" => ~reaped[f[1]]
        /\ o = "data" <=> f[2] = "nmi"
        /\ o # "data" <=> f[2] = "task"
        /\ o = "add" <=> first = "alloc"
  BY DEF CallAdd, CallQuery, CallDel, CallData, CoreType, Frames
<1>2. /\ UNCHANGED <<cur, reaped, lock, chain, ndata, node>>
      /\ pc[f] = "idle" /\ pc' = [pc EXCEPT ![f] = first]
      /\ op' = [op EXCEPT ![f] = o] /\ id' = [id EXCEPT ![f] = i]
      /\ arg' = [arg EXCEPT ![f] = d]
  BY <1>1 DEF Call, Goto
<1>3. CoreType'
  BY <1>1, <1>2 DEF CoreType
<1>4. OpInv' /\ CurInv' /\ MutualExclusion'
  <2>1. OpInv'
    BY <1>1, <1>2 DEF CoreType, OpInv
  <2>2. CurInv' /\ MutualExclusion'
    BY <1>1, <1>2 DEF CoreType, CurInv, MutualExclusion
  <2>3. QED
    BY <2>1, <2>2
<1>5. \A n \in Nodes, g \in Frames : Owns(g, n)' <=> Owns(g, n)
  BY <1>1, <1>2 DEF CoreType, OpInv, Owns
<1>6. Unique' /\ NodeInv' /\ FoundInv'
  <2>1. Unique' /\ \A n, j : Linked(n, j)' <=> Linked(n, j)
    BY <1>2, LinkedFrame
  <2>2. NodeInv'
    BY <1>2, <1>5, <2>1 DEF NodeInv
  <2>3. FoundInv'
    BY <1>1, <1>2, <2>1 DEF CoreType, FoundInv
  <2>4. QED
    BY <2>1, <2>2, <2>3
<1>7. QED
  BY <1>3, <1>4, <1>6

LEMMA SwitchIInv ==
  ASSUME IInv, NEW c \in CPUs, Switch(c) \/ Reap(c)
  PROVE  IInv'
<1> USE DEF IInv
<1>1. PICK i \in Ids \cup {NoId}, r \in BOOLEAN :
        /\ cur' = [cur EXCEPT ![c] = i] /\ reaped' = [reaped EXCEPT ![c] = r]
        /\ i # NoId /\ ~r => \A k \in CPUs : cur[k] = i => reaped[k]
        /\ \/ \A f \in Frames : f[1] = c => pc[f] = "idle"
           \/ i = cur[c] /\ r /\ op[<<c, "task">>] # "del"
  <2>1. CASE Switch(c)
    <3>1. \A f \in Frames : f[1] = c => pc[f] = "idle"
      BY <2>1 DEF Switch, Frames
    <3>2. PICK i \in Ids \cup {NoId}, r \in BOOLEAN :
            /\ i \in Ids /\ ~r => \A k \in CPUs : cur[k] = i => reaped[k]
            /\ cur' = [cur EXCEPT ![c] = i] /\ reaped' = [reaped EXCEPT ![c] = r]
      BY <2>1 DEF Switch
    <3> QED
      BY <3>1, <3>2
  <2>2. CASE Reap(c)
    <3>1. cur' = [cur EXCEPT ![c] = cur[c]] /\ cur[c] \in Ids \cup {NoId}
      BY <2>2 DEF Reap, CoreType
    <3> QED
      BY <2>2, <3>1 DEF Reap
  <2> QED
    BY <2>1, <2>2
<1>2. UNCHANGED <<lock, chain, ndata, op, id, arg, pc, node>>
  BY DEF Switch, Reap, callVars
<1>3. CoreType' /\ CurInv' /\ MutualExclusion'
  <2>1. CoreType'
    BY <1>1, <1>2 DEF CoreType
  <2>2. CurInv'
    BY <1>1 DEF CoreType, CurInv
  <2>3. MutualExclusion'
    BY <1>2 DEF MutualExclusion
  <2>4. QED
    BY <2>1, <2>2, <2>3
<1>4. OpInv'
  <2>1. CASE \A f \in Frames : f[1] = c => pc[f] = "idle"
    BY <1>1, <1>2, <2>1 DEF CoreType, OpInv, Frames
  <2>2. CASE i = cur[c] /\ r /\ op[<<c, "task">>] # "del"
    <3>1. cur' = cur /\ \A k \in CPUs : k # c => reaped'[k] = reaped[k]
      BY <1>1, <2>2 DEF CoreType
    <3>2. \A f \in Frames : op[f] = "del" => f[1] # c
      BY <2>2 DEF OpInv, Frames
    <3> QED
      BY <1>2, <3>1, <3>2 DEF OpInv, Frames
  <2> QED
    BY <1>1, <2>1, <2>2
<1>5. \A n, f : Owns(f, n)' <=> Owns(f, n)
  BY <1>2 DEF Owns
<1>6. Unique' /\ NodeInv' /\ FoundInv'
  <2>1. Unique' /\ \A n, j : Linked(n, j)' <=> Linked(n, j)
    BY <1>2, LinkedFrame
  <2>2. \A f \in Frames : pc[f] # "idle" /\ ~reaped'[f[1]] => ~reaped[f[1]]
    BY <1>1 DEF CoreType, Frames
  <2>3. FoundInv'
    BY <1>2, <2>1, <2>2 DEF FoundInv
  <2> QED
    BY <1>2, <1>5, <2>1, <2>3 DEF NodeInv
<1>7. QED
  BY <1>3, <1>4, <1>6

LEMMA KmallocIInv ==
  ASSUME IInv, NEW f \in Frames, Kmalloc(f)
  PROVE  IInv'
<1> USE DEF IInv
<1>1. PICK n \in Nodes :
        /\ ndata[n] = Freed /\ ndata' = [ndata EXCEPT ![n] = arg[f]]
        /\ node' = [node EXCEPT ![f] = n]
  BY DEF Kmalloc
<1>2. /\ UNCHANGED <<cur, reaped, lock, chain, op, id, arg>>
      /\ pc[f] = "alloc" /\ pc' = [pc EXCEPT ![f] = "lock"]
  BY DEF Kmalloc, Goto, callVars
<1>3. op[f] = "add" /\ arg[f] \in Data \cup {NoData}
  BY <1>2 DEF CoreType, OpInv
<1>4. CoreType' /\ CurInv' /\ MutualExclusion'
  BY <1>1, <1>2, <1>3 DEF CoreType, CurInv, MutualExclusion
<1>5. OpInv'
  BY <1>1, <1>2, <1>3 DEF CoreType, OpInv
<1>6. \A m \in Nodes, g \in Frames :
        Owns(g, m)' <=> Owns(g, m) \/ (g = f /\ m = n)
  BY <1>1, <1>2, <1>3 DEF CoreType, Owns
<1>7. Unique' /\ \A m, i : Linked(m, i)' <=> Linked(m, i)
  BY <1>2, LinkedFrame
<1>8. NodeInv'
  <2>1. arg[f] # Freed
    BY <1>3, NullAssumption
  <2>2. \A m \in Nodes : ndata'[m] # Freed <=> ndata[m] # Freed \/ m = n
    BY <1>1, <2>1 DEF CoreType
  <2>3. /\ \A i \in Ids : ~Linked(n, i)
        /\ \A g \in Frames : ~Owns(g, n)
    BY <1>1 DEF NodeInv
  <2>4. QED
    BY <1>6, <1>7, <2>2, <2>3 DEF NodeInv
<1>9. FoundInv'
  BY <1>1, <1>2, <1>3, <1>7 DEF CoreType, FoundInv
<1>10. QED
  BY <1>4, <1>5, <1>7, <1>8, <1>9

\* The steps that move a frame, or take the lock, without touching a node.
LEMMA PlainIInv ==
  ASSUME IInv, NEW f \in Frames,
         KmallocFails(f) \/ Acquire(f) \/ TrylockFails(f) \/ FinishData(f)
  PROVE  IInv'
<1> USE DEF IInv
<1>1. UNCHANGED <<cur, reaped, chain, ndata, op, id, arg, node>>
  BY DEF KmallocFails, Acquire, TrylockFails, FinishData, callVars
<1>2. PICK to \in {"body", "done"} :
        /\ pc' = [pc EXCEPT ![f] = to]
        /\ \/ pc[f] = "alloc" /\ to = "done" /\ lock' = lock
           \/ pc[f] = "lock" /\ to = "body" /\ lock = NoOne /\ lock' = f
           \/ pc[f] = "lock" /\ to = "done" /\ lock' = lock /\ op[f] # "add"
           \/ pc[f] = "finish" /\ to = "done" /\ lock' = lock /\ op[f] = "data"
  BY DEF KmallocFails, Acquire, TrylockFails, FinishData, Goto
<1>3. CoreType' /\ OpInv' /\ CurInv'
  BY <1>1, <1>2 DEF CoreType, OpInv, CurInv
<1>4. MutualExclusion'
  BY <1>2, NullAssumption DEF CoreType, MutualExclusion
<1>5. \A m \in Nodes, g \in Frames : Owns(g, m)' <=> Owns(g, m)
  BY <1>1, <1>2 DEF CoreType, Owns
<1>6. Unique' /\ \A m, i : Linked(m, i)' <=> Linked(m, i)
  BY <1>1, LinkedFrame
<1>7. NodeInv'
  BY <1>1, <1>5, <1>6 DEF NodeInv
<1>8. FoundInv'
  BY <1>1, <1>2, <1>6 DEF CoreType, FoundInv
<1>9. QED
  BY <1>3, <1>4, <1>6, <1>7, <1>8

LEMMA HashAddIInv ==
  ASSUME IInv, NEW f \in Frames, HashAdd(f)
  PROVE  IInv'
<1> USE DEF IInv
<1> DEFINE n == node[f]
           i == id[f]
<1>1. /\ UNCHANGED <<cur, reaped, lock, ndata, op, id, arg, node>>
      /\ pc[f] = "body" /\ pc' = [pc EXCEPT ![f] = "unlock"]
      /\ op[f] = "add"
      /\ chain' = [chain EXCEPT ![i] = <<n>> \o @]
  BY DEF HashAdd, Goto, callVars
<1>2. n \in Nodes /\ i \in Ids /\ Owns(f, n)
  BY <1>1 DEF OpInv, Owns
<1>3. \A j \in Ids : ~Linked(n, j)
  BY <1>2 DEF NodeInv
<1> HIDE DEF n, i
<1>4. /\ chain' \in [Ids -> Seq(Nodes)]
      /\ Unique'
      /\ \A m \in Nodes, j \in Ids : Linked(m, j)' <=> Linked(m, j) \/ (j = i /\ m = n)
  BY <1>1, <1>2, <1>3, PushChain DEF CoreType
<1>5. CoreType' /\ CurInv' /\ MutualExclusion'
  BY <1>1, <1>4 DEF CoreType, CurInv, MutualExclusion
<1>6. OpInv'
  BY <1>1 DEF CoreType, OpInv
<1>7. \A m \in Nodes, g \in Frames : Owns(g, m)' <=> Owns(g, m) /\ g # f
  BY <1>1 DEF CoreType, Owns
<1>8. NodeInv'
  <2>1. \A m \in Nodes : Owns(f, m) => m = n
    BY DEF Owns, n
  <2>2. QED
    BY <1>1, <1>2, <1>3, <1>4, <1>7, <2>1 DEF NodeInv
<1>9. FoundInv'
  BY <1>1, <1>4, NullAssumption DEF CoreType, OpInv, FoundInv
<1>10. QED
  BY <1>4, <1>5, <1>6, <1>8, <1>9

LEMMA HashDelIInv ==
  ASSUME IInv, NEW f \in Frames, HashDel(f)
  PROVE  IInv'
<1> USE DEF IInv
<1> DEFINE i == id[f]
<1>1. /\ UNCHANGED <<cur, reaped, lock, ndata, op, id, arg>>
      /\ Running(f)
      /\ pc[f] = "body" /\ pc' = [pc EXCEPT ![f] = "unlock"]
      /\ op[f] = "del"
      /\ node' = [node EXCEPT ![f] = Lookup(i)]
  BY DEF HashDel, Goto, callVars
<1>2. i \in Ids /\ f[2] = "task" /\ i = cur[f[1]] /\ ~reaped[f[1]]
  BY <1>1 DEF OpInv
<1>3. CurInv' /\ MutualExclusion' /\ OpInv'
  BY <1>1 DEF CoreType, CurInv, MutualExclusion, OpInv
<1>4. \A m \in Nodes : ~Owns(f, m)
  BY <1>1 DEF Owns
<1>5. CASE chain[i] = <<>>
  <2>1. chain' = chain /\ node' = [node EXCEPT ![f] = NoNode]
    BY <1>1, <1>5 DEF HashDel, Lookup
  <2>2. CoreType'
    BY <1>1, <2>1 DEF CoreType
  <2>3. Unique' /\ \A m, j : Linked(m, j)' <=> Linked(m, j)
    BY <2>1, LinkedFrame
  <2>4. \A m \in Nodes, g \in Frames : Owns(g, m)' <=> Owns(g, m)
    BY <1>1, <1>4, <2>1, NullAssumption DEF CoreType, Owns
  <2>5. NodeInv'
    BY <1>1, <2>3, <2>4 DEF NodeInv
  <2>6. FoundInv'
    BY <1>1, <2>1, <2>3 DEF CoreType, FoundInv
  <2>7. QED
    BY <1>3, <2>2, <2>3, <2>5, <2>6
<1>6. CASE chain[i] # <<>>
  <2> DEFINE top == Head(chain[i])
  <2>1. /\ chain' = [chain EXCEPT ![i] = Tail(@)]
        /\ node' = [node EXCEPT ![f] = top]
    BY <1>1, <1>6 DEF HashDel, Lookup
  <2>2. /\ chain' \in [Ids -> Seq(Nodes)]
        /\ Unique'
        /\ top \in Nodes /\ Linked(top, i)
        /\ \A m \in Nodes, j \in Ids : Linked(m, j)' <=> Linked(m, j) /\ m # top
    BY <1>2, <1>6, <2>1, PopChain DEF CoreType
  <2> HIDE DEF top, i
  <2>3. CoreType'
    BY <1>1, <2>1, <2>2 DEF CoreType
  <2>4. \A m \in Nodes, g \in Frames :
          Owns(g, m)' <=> Owns(g, m) \/ (g = f /\ m = top)
    BY <1>1, <1>4, <2>1 DEF CoreType, Owns
  <2>5. NodeInv'
    <3>1. \A g \in Frames : ~Owns(g, top)
      BY <1>2, <2>2 DEF NodeInv
    <3>2. \A m \in Nodes, j \in Ids : Linked(m, j)' => ndata'[m] # Freed
      BY <1>1, <2>2 DEF NodeInv
    <3>3. ASSUME NEW m \in Nodes, NEW g \in Frames, Owns(g, m)'
          PROVE  /\ ndata'[m] # Freed
                 /\ \A j \in Ids : ~Linked(m, j)'
                 /\ \A h \in Frames : Owns(h, m)' => h = g
      BY <1>1, <1>2, <2>2, <2>4, <3>1, <3>3 DEF NodeInv
    <3>4. \A m \in Nodes : ndata'[m] # Freed =>
            \/ \E j \in Ids : Linked(m, j)'
            \/ \E g \in Frames : Owns(g, m)'
      BY <1>1, <2>2, <2>4 DEF NodeInv
    <3>5. QED
      BY <3>2, <3>3, <3>4 DEF NodeInv
  <2>6. FoundInv'
    <3> SUFFICES ASSUME NEW g \in Frames,
                        (/\ op[g] = "data" /\ pc[g] \in {"unlock", "finish"}
                         /\ node[g] # NoNode /\ ~reaped[g[1]])'
                 PROVE  Linked(node[g], id[g])'
      BY DEF FoundInv
    <3>1. g # f
      BY <1>1
    <3>2. /\ op[g] = "data" /\ pc[g] \in {"unlock", "finish"} /\ ~reaped[g[1]]
          /\ node'[g] = node[g] /\ node[g] # NoNode /\ id'[g] = id[g]
      BY <1>1, <2>1, <3>1 DEF CoreType
    <3>3. Linked(node[g], id[g]) /\ node[g] \in Nodes /\ id[g] \in Ids
      BY <3>2 DEF CoreType, OpInv, FoundInv
    <3>4. node[g] # top
      <4> SUFFICES ASSUME node[g] = top PROVE FALSE
        OBVIOUS
      <4>1. id[g] = i
        BY <1>2, <2>2, <3>3 DEF Unique, Linked
      <4>2. g[2] = "nmi" /\ id[g] = cur[g[1]]
        BY <3>2 DEF OpInv
      <4>3. g[1] = f[1]
        BY <1>2, <3>2, <3>3, <4>1, <4>2, NullAssumption DEF CurInv, Frames
      <4>4. f[2] = "nmi"
        BY <1>1, <3>2, <4>2, <4>3, NmiFreezesTask
      <4>5. QED
        BY <1>2, <4>4
    <3>5. Linked(node[g], id[g])'
      BY <2>2, <3>2, <3>3, <3>4
    <3>6. QED
      BY <3>5
  <2>7. QED
    BY <1>3, <2>2, <2>3, <2>5, <2>6
<1>7. QED
  BY <1>5, <1>6

LEMMA SearchIInv ==
  ASSUME IInv, NEW f \in Frames, Search(f)
  PROVE  IInv'
<1> USE DEF IInv
<1> DEFINE i == id[f]
<1>1. /\ UNCHANGED <<cur, reaped, lock, chain, ndata, op, id, arg>>
      /\ pc[f] = "body" /\ pc' = [pc EXCEPT ![f] = "unlock"]
      /\ op[f] \in {"query", "data"}
      /\ node' = [node EXCEPT ![f] = Lookup(i)]
  BY DEF Search, Goto, callVars
<1>2. i \in Ids /\ chain[i] \in Seq(Nodes)
  BY <1>1 DEF OpInv, CoreType
<1>3. \/ Lookup(i) = NoNode
      \/ Lookup(i) \in Nodes /\ Linked(Lookup(i), i)
  <2>1. CASE chain[i] = <<>>
    BY <2>1 DEF Lookup
  <2>2. CASE chain[i] # <<>>
    <3>1. /\ Lookup(i) = chain[i][1] /\ Lookup(i) \in Nodes
          /\ 1 \in 1 .. Len(chain[i])
      BY <1>2, <2>2 DEF Lookup
    <3>2. QED
      BY <3>1 DEF Linked
  <2>3. QED
    BY <2>1, <2>2
<1> HIDE DEF i
<1>4. CoreType' /\ OpInv' /\ CurInv' /\ MutualExclusion'
  BY <1>1, <1>3 DEF CoreType, OpInv, CurInv, MutualExclusion
<1>5. \A m \in Nodes, g \in Frames : Owns(g, m)' <=> Owns(g, m)
  BY <1>1 DEF CoreType, Owns
<1>6. Unique' /\ \A m, j : Linked(m, j)' <=> Linked(m, j)
  BY <1>1, LinkedFrame
<1>7. NodeInv'
  BY <1>1, <1>5, <1>6 DEF NodeInv
<1>8. FoundInv'
  <2> SUFFICES ASSUME NEW g \in Frames,
                      (/\ op[g] = "data" /\ pc[g] \in {"unlock", "finish"}
                       /\ node[g] # NoNode /\ ~reaped[g[1]])'
               PROVE  Linked(node[g], id[g])'
    BY DEF FoundInv
  <2>1. CASE g = f
    <3>1. node'[g] = Lookup(i) /\ id'[g] = i /\ Lookup(i) # NoNode
      BY <1>1, <2>1 DEF CoreType, i
    <3>2. Linked(Lookup(i), i)
      BY <1>3, <3>1
    <3>3. QED
      BY <1>1, <3>1, <3>2 DEF Linked
  <2>2. CASE g # f
    <3>1. node'[g] = node[g] /\ id'[g] = id[g] /\ Linked(node[g], id[g])
      BY <1>1, <2>2 DEF CoreType, FoundInv
    <3>2. QED
      BY <1>1, <3>1 DEF Linked
  <2>3. QED
    BY <2>1, <2>2
<1>9. QED
  BY <1>4, <1>6, <1>7, <1>8

LEMMA ReleaseIInv ==
  ASSUME IInv, NEW f \in Frames, Release(f)
  PROVE  IInv'
<1> USE DEF IInv
<1>1. /\ UNCHANGED <<cur, reaped, chain, ndata, op, id, arg, node>>
      /\ pc[f] = "unlock" /\ lock' = NoOne
  BY DEF Release, Goto, callVars
<1>2. PICK to \in {"finish", "done"} :
        /\ pc' = [pc EXCEPT ![f] = to]
        /\ op[f] \in {"del", "data"} <=> to = "finish"
  BY DEF Release, Goto
<1>3. CoreType' /\ OpInv' /\ CurInv'
  BY <1>1, <1>2 DEF CoreType, OpInv, CurInv
<1>4. MutualExclusion'
  BY <1>1, <1>2, NullAssumption DEF CoreType, MutualExclusion
<1>5. \A m \in Nodes, g \in Frames : Owns(g, m)' <=> Owns(g, m)
  BY <1>1, <1>2 DEF CoreType, Owns
<1>6. Unique' /\ \A m, i : Linked(m, i)' <=> Linked(m, i)
  BY <1>1, LinkedFrame
<1>7. NodeInv'
  BY <1>1, <1>5, <1>6 DEF NodeInv
<1>8. FoundInv'
  BY <1>1, <1>2, <1>6 DEF CoreType, FoundInv
<1>9. QED
  BY <1>3, <1>4, <1>6, <1>7, <1>8

LEMMA FinishDelIInv ==
  ASSUME IInv, NEW f \in Frames, FinishDel(f)
  PROVE  IInv'
<1> USE DEF IInv
<1>1. /\ UNCHANGED <<cur, reaped, lock, chain, op, id, arg, node>>
      /\ pc[f] = "finish" /\ pc' = [pc EXCEPT ![f] = "done"]
      /\ op[f] = "del"
  BY DEF FinishDel, Goto, callVars
<1>2. \/ node[f] = NoNode /\ ndata' = ndata
      \/ node[f] \in Nodes /\ ndata' = [ndata EXCEPT ![node[f]] = Freed]
  BY DEF FinishDel, CoreType
<1>3. CoreType' /\ OpInv' /\ CurInv' /\ MutualExclusion'
  <2>1. CoreType'
    BY <1>1, <1>2 DEF CoreType
  <2>2. OpInv' /\ CurInv' /\ MutualExclusion'
    BY <1>1 DEF CoreType, OpInv, CurInv, MutualExclusion
  <2>3. QED
    BY <2>1, <2>2
<1>4. \A m \in Nodes, g \in Frames : Owns(g, m)' <=> Owns(g, m) /\ g # f
  BY <1>1 DEF CoreType, Owns
<1>5. Unique' /\ \A m, i : Linked(m, i)' <=> Linked(m, i)
  BY <1>1, LinkedFrame
<1>6. \A m \in Nodes : Owns(f, m) <=> m = node[f]
  BY <1>1 DEF Owns
<1>7. \A m \in Nodes :
        ndata'[m] # Freed <=> ndata[m] # Freed /\ ~Owns(f, m)
  BY <1>2, <1>6, NullAssumption DEF CoreType
<1>8. NodeInv'
  BY <1>4, <1>5, <1>7 DEF NodeInv
<1>9. FoundInv'
  BY <1>1, <1>5 DEF CoreType, FoundInv
<1>10. QED
  BY <1>3, <1>5, <1>8, <1>9

LEMMA RespondIInv ==
  ASSUME IInv, NEW f \in Frames, Respond(f)
  PROVE  IInv'
<1> USE DEF IInv
<1>1. /\ UNCHANGED <<cur, reaped, lock, chain, ndata>>
      /\ pc[f] = "done" /\ pc' = [pc EXCEPT ![f] = "idle"]
      /\ op' = [op EXCEPT ![f] = "none"] /\ id' = [id EXCEPT ![f] = NoId]
      /\ arg' = [arg EXCEPT ![f] = NoData] /\ node' = [node EXCEPT ![f] = NoNode]
  BY DEF Respond, Goto
<1>2. CoreType' /\ OpInv' /\ CurInv' /\ MutualExclusion'
  BY <1>1 DEF CoreType, OpInv, CurInv, MutualExclusion
<1>3. \A m \in Nodes, g \in Frames : Owns(g, m)' <=> Owns(g, m)
  BY <1>1 DEF CoreType, Owns
<1>4. Unique' /\ \A m, i : Linked(m, i)' <=> Linked(m, i)
  BY <1>1, LinkedFrame
<1>5. NodeInv'
  BY <1>1, <1>3, <1>4 DEF NodeInv
<1>6. FoundInv'
  BY <1>1, <1>4 DEF CoreType, FoundInv
<1>7. QED
  BY <1>2, <1>4, <1>5, <1>6

LEMMA NextIInv == IInv /\ [Next]_vars => IInv'
<1> SUFFICES ASSUME IInv, [Next]_vars PROVE IInv'
  OBVIOUS
<1>1. CASE UNCHANGED vars
  BY <1>1 DEF IInv, CoreType, OpInv, CurInv, MutualExclusion, Unique, NodeInv,
    FoundInv, Linked, Owns, vars
<1>2. QED
  BY <1>1, CallIInv, SwitchIInv, KmallocIInv, PlainIInv, HashAddIInv,
    HashDelIInv, SearchIInv, ReleaseIInv, FinishDelIInv, RespondIInv
    DEF Next, Step

-----------------------------------------------------------------------------

\* The inductive invariant holds in every reachable state.
THEOREM HashTrackerInvariant == Spec => []IInv
BY InitIInv, NextIInv, PTL DEF Spec

\* The spinlock excludes tasks, other CPUs and NMIs, although the queries only
\* try it.
THEOREM TrackerExcludes == Spec => []MutualExclusion
<1>1. IInv => MutualExclusion
  BY DEF IInv
<1>2. QED
  BY <1>1, HashTrackerInvariant, PTL

\* No node is leaked, freed twice, or freed while the table links it.
THEOREM EveryNodeAccounted == Spec => []NodesAccounted
<1>1. IInv => NodesAccounted
  <2> SUFFICES ASSUME IInv, NEW n \in Nodes
               PROVE  IF ndata[n] = Freed
                      THEN /\ \A i \in Ids : ~Linked(n, i)
                           /\ \A f \in Frames : ~Owns(f, n)
                      ELSE \/ /\ \E f \in Frames : /\ Owns(f, n)
                                                   /\ \A g \in Frames : Owns(g, n) => g = f
                              /\ \A i \in Ids : ~Linked(n, i)
                           \/ /\ \A f \in Frames : ~Owns(f, n)
                              /\ \E i \in Ids : \E k \in 1 .. Len(chain[i]) :
                                   /\ chain[i][k] = n
                                   /\ \A j \in Ids : \A l \in 1 .. Len(chain[j]) :
                                        chain[j][l] = n => j = i /\ l = k
    BY DEF NodesAccounted
  <2>1. CASE ndata[n] = Freed
    BY <2>1 DEF IInv, NodeInv
  <2>2. CASE ndata[n] # Freed /\ \E f \in Frames : Owns(f, n)
    BY <2>2 DEF IInv, NodeInv
  <2>3. CASE ndata[n] # Freed /\ \A f \in Frames : ~Owns(f, n)
    <3>1. PICK i \in Ids : Linked(n, i)
      BY <2>3 DEF IInv, NodeInv
    <3>2. PICK k \in 1 .. Len(chain[i]) : chain[i][k] = n
      BY <3>1 DEF Linked
    <3>3. \A j \in Ids : \A l \in 1 .. Len(chain[j]) :
            chain[j][l] = n => j = i /\ l = k
      BY <3>2 DEF IInv, Unique
    <3>4. QED
      BY <2>3, <3>2, <3>3
  <2>4. QED
    BY <2>1, <2>2, <2>3
<1>2. QED
  BY <1>1, HashTrackerInvariant, PTL

\* query_data_tracker reads the node after it dropped the lock: for any number
\* of CPUs and pids nobody can have freed it, because the exit that would is on
\* the CPU the NMI interrupted, unless that CPU runs a task that was reaped,
\* whose pid, and whose exit, may be those of a task elsewhere.
THEOREM ReadsAreSafe == Spec => []NoReadAfterFree
<1>1. IInv => NoReadAfterFree
  <2> SUFFICES ASSUME IInv, NEW f \in Frames,
                      op[f] = "data", pc[f] = "finish", node[f] # NoNode,
                      ~reaped[f[1]]
               PROVE  ndata[node[f]] # Freed
    BY DEF NoReadAfterFree
  <2>1. Linked(node[f], id[f]) /\ node[f] \in Nodes /\ id[f] \in Ids
    BY DEF IInv, CoreType, OpInv, FoundInv
  <2>2. QED
    BY <2>1 DEF IInv, NodeInv
<1>2. QED
  BY <1>1, HashTrackerInvariant, PTL

-----------------------------------------------------------------------------
(***************************************************************************)
(* The results.                                                            *)
(***************************************************************************)

ResInv == tracked_count \in Int /\ res \in [Frames -> Results]

LEMMA BooleanResult == \A b \in BOOLEAN : b \in Results
BY DEF Results

LEMMA ReleaseResult ==
  ASSUME ResInv, NEW f \in Frames, Release(f)
  PROVE  ResInv'
<1>1. ASSUME op[f] = "query" PROVE ResInv'
  <2>1. (node[f] # NoNode) \in BOOLEAN
    OBVIOUS
  <2>2. PICK b \in BOOLEAN : b = (node[f] # NoNode)
    BY <2>1
  <2>3. res' = [res EXCEPT ![f] = b]
    BY <1>1, <2>2, Zenon DEF Release
  <2>4. b \in Results
    BY <2>2, BooleanResult
  <2>5. res' \in [Frames -> Results] /\ tracked_count' = tracked_count
    BY <2>3, <2>4, Zenon DEF ResInv, Release
  <2>6. QED
    BY <2>5 DEF ResInv
<1>2. ASSUME op[f] # "query" PROVE ResInv'
  <2>1. res' = res /\ tracked_count' = tracked_count
    BY <1>2 DEF Release, ResInv
  <2>2. QED
    BY <2>1 DEF ResInv
<1>3. QED
  BY <1>1, <1>2

LEMMA NextResult == IInv /\ ResInv /\ [Next]_vars => ResInv'
<1> SUFFICES ASSUME IInv, ResInv, [Next]_vars PROVE ResInv'
  OBVIOUS
<1> USE DEF IInv
<1>1. CASE UNCHANGED <<tracked_count, res>>
  BY <1>1 DEF ResInv
<1>2. ASSUME NEW f \in Frames, HashAdd(f) \/ HashDel(f) PROVE ResInv'
  <2>1. tracked_count' \in Int /\ res' = res
    BY <1>2 DEF HashAdd, HashDel, ResInv
  <2>2. QED
    BY <2>1 DEF ResInv
<1>3. ASSUME NEW f \in Frames,
             TrylockFails(f) \/ FinishDel(f) \/ FinishData(f) \/ Respond(f)
      PROVE  ResInv'
  <2>1. CASE TrylockFails(f)
    <3>1. PICK r \in {FALSE, NoData} : res' = [res EXCEPT ![f] = r]
      BY <2>1, Zenon DEF TrylockFails
    <3>2. r \in Results
      BY <3>1, BooleanResult DEF Results
    <3>3. QED
      BY <2>1, <3>1, <3>2 DEF TrylockFails, ResInv
  <2>2. CASE FinishDel(f) /\ node[f] # NoNode
    <3>1. node[f] \in Nodes /\ Owns(f, node[f])
      BY <2>2 DEF FinishDel, Goto, CoreType, Owns
    <3>2. ndata[node[f]] \in Data \cup {NoData}
      BY <3>1 DEF CoreType, NodeInv
    <3>3. QED
      BY <2>2, <3>2 DEF FinishDel, ResInv, Results
  <2>3. CASE FinishData(f) /\ node[f] # NoNode
    <3>1. ndata[node[f]] \in Data \cup {NoData, Freed}
      BY <2>3 DEF CoreType
    <3>2. QED
      BY <2>3, <3>1 DEF FinishData, ResInv, Results
  <2>4. CASE /\ (FinishDel(f) \/ FinishData(f)) /\ node[f] = NoNode
    BY <2>4 DEF FinishDel, FinishData, ResInv, Results
  <2>5. CASE Respond(f)
    BY <2>5 DEF Respond, ResInv, Results
  <2>6. QED
    BY <1>3, <2>1, <2>2, <2>3, <2>4, <2>5
<1>4. QED
  BY <1>1, <1>2, <1>3, ReleaseResult DEF Next, Step, CallAdd, CallQuery, CallDel,
    CallData, Call, Switch, Reap, Kmalloc, KmallocFails, Acquire, Search, vars

\* The content of a freed node is no result but on top of a reaped task.
FreedRes ==
  \A f \in Frames :
    res[f] = Freed => pc[f] = "done" /\ op[f] = "data" /\ reaped[f[1]]

\* A frame f has a result of its own from a step of its own only.
LEMMA NextFreedRes == IInv /\ ResInv /\ FreedRes /\ [Next]_vars => FreedRes'
<1> SUFFICES ASSUME IInv, ResInv, FreedRes, [Next]_vars,
                    NEW f \in Frames, res'[f] = Freed
             PROVE  (pc[f] = "done" /\ op[f] = "data" /\ reaped[f[1]])'
  BY DEF FreedRes
<1>1. /\ DOMAIN res = Frames /\ DOMAIN pc = Frames /\ DOMAIN op = Frames
      /\ \A g \in Frames : pc[g] = "idle" <=> op[g] = "none"
  BY DEF IInv, CoreType, OpInv, ResInv
<1>2. ASSUME res'[f] = res[f], UNCHANGED <<reaped>>,
             pc[f] = "done" => pc'[f] = "done" /\ op'[f] = op[f]
      PROVE  (pc[f] = "done" /\ op[f] = "data" /\ reaped[f[1]])'
  BY <1>2 DEF FreedRes
<1>3. CASE UNCHANGED vars
  BY <1>2, <1>3 DEF vars
<1>4. ASSUME NEW c \in CPUs, Switch(c) \/ Reap(c)
      PROVE  (pc[f] = "done" /\ op[f] = "data" /\ reaped[f[1]])'
  <2>1. pc[f] = "done" /\ op[f] = "data" /\ reaped[f[1]]
    BY <1>4 DEF Switch, Reap, callVars, FreedRes
  <2>2. pc' = pc /\ op' = op /\ f[1] \in CPUs
    BY <1>4 DEF Switch, Reap, callVars, Frames
  <2>3. \/ f[1] # c
        \/ Reap(c)
    BY <1>4, <2>1 DEF Switch, Frames
  <2>4. reaped'[f[1]]
    BY <1>4, <2>1, <2>2, <2>3 DEF Switch, Reap, IInv, CoreType
  <2> QED
    BY <2>1, <2>2, <2>4
<1>5. ASSUME NEW g \in Frames, NEW o, NEW i, NEW d, NEW first, Call(g, o, i, d, first)
      PROVE  (pc[f] = "done" /\ op[f] = "data" /\ reaped[f[1]])'
  BY <1>1, <1>2, <1>5 DEF Call, Goto
<1>6. ASSUME NEW g \in Frames, Step(g), g # f
      PROVE  (pc[f] = "done" /\ op[f] = "data" /\ reaped[f[1]])'
  <2>1. res'[f] = res[f]
    BY <1>1, <1>6, Zenon DEF Step, Kmalloc, KmallocFails, Acquire, TrylockFails,
      HashAdd, HashDel, Search, Release, FinishDel, FinishData, Respond
  <2>2. pc'[f] = pc[f] /\ op'[f] = op[f] /\ reaped' = reaped
    BY <1>1, <1>6 DEF Step, Kmalloc, KmallocFails, Acquire, TrylockFails,
      HashAdd, HashDel, Search, Release, FinishDel, FinishData, Respond, Goto,
      callVars
  <2>3. QED
    BY <1>2, <2>1, <2>2
<1>7. CASE \/ Kmalloc(f) \/ KmallocFails(f) \/ Acquire(f) \/ HashAdd(f)
           \/ HashDel(f) \/ Search(f)
  BY <1>2, <1>7 DEF Kmalloc, KmallocFails, Acquire, HashAdd, HashDel, Search, Goto
<1>8. CASE Release(f)
  <2>1. CASE op[f] = "query"
    <3>1. res'[f] = (node[f] # NoNode)
      BY <1>1, <1>8, <2>1, Zenon DEF Release
    <3>2. (node[f] # NoNode) \in BOOLEAN
      OBVIOUS
    <3> QED
      BY <3>1, <3>2, NullAssumption, Zenon
  <2>2. CASE op[f] # "query"
    <3>1. res' = res /\ pc[f] = "unlock" /\ reaped' = reaped
      BY <1>1, <1>8, <2>2 DEF Release, Goto, ResInv
    <3> QED
      BY <1>2, <3>1
  <2> QED
    BY <2>1, <2>2
<1>9. CASE TrylockFails(f)
  <2>1. PICK r \in {FALSE, NoData} : res' = [res EXCEPT ![f] = r]
    BY <1>9, Zenon DEF TrylockFails
  <2>2. FALSE \in BOOLEAN
    OBVIOUS
  <2> QED
    BY <1>1, <2>1, <2>2, NullAssumption
<1>10. CASE Respond(f)
  BY <1>1, <1>10, NullAssumption DEF Respond
<1>11. CASE FinishDel(f)
  <2>1. pc[f] = "finish" /\ op[f] = "del" /\ reaped' = reaped
    BY <1>11 DEF FinishDel, Goto
  <2>2. CASE node[f] = NoNode
    BY <1>2, <1>11, <2>1, <2>2 DEF FinishDel
  <2>3. CASE node[f] # NoNode
    <3>1. node[f] \in Nodes /\ Owns(f, node[f])
      BY <2>1, <2>3 DEF IInv, CoreType, Owns
    <3>2. ndata[node[f]] # Freed
      BY <3>1 DEF IInv, NodeInv
    <3> QED
      BY <1>1, <1>11, <2>3, <3>2 DEF FinishDel
  <2> QED
    BY <2>2, <2>3
<1>12. CASE FinishData(f)
  <2>1. /\ pc[f] = "finish" /\ op[f] = "data" /\ reaped' = reaped
        /\ pc'[f] = "done" /\ op' = op
    BY <1>1, <1>12 DEF FinishData, Goto, callVars
  <2>2. node[f] # NoNode /\ ndata[node[f]] = Freed
    BY <1>1, <1>12, NullAssumption DEF FinishData
  <2>3. Linked(node[f], id[f]) /\ node[f] \in Nodes => ndata[node[f]] # Freed
    BY <2>1 DEF IInv, NodeInv, OpInv
  <2>4. reaped[f[1]]
    BY <2>1, <2>2, <2>3 DEF IInv, CoreType, FoundInv
  <2> QED
    BY <2>1, <2>4
<1>13. QED
  BY <1>3, <1>4, <1>5, <1>6, <1>7, <1>8, <1>9, <1>10, <1>11, <1>12
    DEF Next, Step, CallAdd, CallQuery, CallDel, CallData, Frames

\* Type correctness; it needs the argument about the nodes: no deletion, and no
\* query for a task that has its pid, returns the content of a freed node.
THEOREM HashTrackerTypeCorrect == Spec => []TypeOK
<1>1. Init => ResInv /\ FreedRes
  BY NullAssumption DEF Init, ResInv, Results, FreedRes
<1>2. IInv /\ ResInv /\ FreedRes => TypeOK
  BY Zenon DEF IInv, CoreType, ResInv, TypeOK, FreedRes
<1>3. QED
  BY <1>1, <1>2, NextResult, NextFreedRes, HashTrackerInvariant, PTL DEF Spec

-----------------------------------------------------------------------------
(***************************************************************************)
(* ptracker_hash.c implements Tracker: each of its steps is one step of    *)
(* the abstract tracker, or none.                                          *)
(***************************************************************************)

\* A frame has no result before it has one, and an addition never has.
NoResultYet ==
  \A f \in Frames : pc[f] # "done" \/ op[f] = "add" => res[f] = NoData

\* A node that is about to be added carries the data to add.
Prepared ==
  \A f \in Frames :
    op[f] = "add" /\ pc[f] \in {"lock", "body"} => ndata[node[f]] = arg[f]

RefInv == IInv /\ ResInv /\ NoResultYet /\ Prepared

Operations == {"none", "add", "del", "query", "data"}
Places == {"idle", "alloc", "lock", "body", "unlock", "finish", "done"}

\* The frames whose result is the data of the node they found.
Holds(f) == pc[f] \in {"unlock", "finish"} /\ op[f] \in {"del", "data"}

-----------------------------------------------------------------------------
(***************************************************************************)
(* The abstract variables.                                                 *)
(***************************************************************************)

\* What a frame that holds no node in hand returns is its own result.
LEMMA AbsResults ==
  /\ DOMAIN absRes = Frames
  /\ \A f \in Frames :
       /\ Holds(f) => absRes[f] = Found(f)
       /\ pc[f] = "unlock" /\ op[f] = "query" =>
            absRes[f] = (node[f] # NoNode)
       /\ ~Holds(f) /\ ~(pc[f] = "unlock" /\ op[f] = "query") =>
            absRes[f] = res[f]
BY Zenon DEF absRes, Holds

LEMMA AbsResultsNext ==
  /\ DOMAIN absRes' = Frames
  /\ \A f \in Frames :
       /\ Holds(f)' => absRes'[f] = Found(f)'
       /\ pc'[f] = "unlock" /\ op'[f] = "query" =>
            absRes'[f] = (node'[f] # NoNode)
       /\ ~Holds(f)' /\ ~(pc'[f] = "unlock" /\ op'[f] = "query") =>
            absRes'[f] = res'[f]
BY Zenon DEF absRes, Holds

\* A step of one frame changes the abstract state of that frame alone.
LEMMA AbsStates ==
  ASSUME NEW f \in Frames, pc \in [Frames -> Places], NEW to,
         pc' = [pc EXCEPT ![f] = to]
  PROVE  absSt' = [absSt EXCEPT ![f] =
                     IF to = "idle" THEN "idle"
                     ELSE IF to \in {"unlock", "finish", "done"} THEN "done"
                     ELSE "pending"]
BY DEF absSt, EffectDone

\* The tasks that were reaped stay in most steps.
LEMMA OverStays == reaped' = reaped => absOver' = absOver
BY DEF absOver

\* The entries stay when the chains do and no linked node is written.
LEMMA AbsEntriesStay ==
  ASSUME IInv, chain' = chain,
         \A n \in Nodes : (\E i \in Ids : Linked(n, i)) => ndata'[n] = ndata[n]
  PROVE  absEntries' = absEntries
<1>1. ASSUME NEW i \in Ids, NEW k \in 1 .. Len(chain[i])
      PROVE  ndata'[chain[i][k]] = ndata[chain[i][k]]
  <2>1. chain[i] \in Seq(Nodes)
    BY DEF IInv, CoreType
  <2>2. chain[i][k] \in Nodes /\ Linked(chain[i][k], i)
    BY <2>1 DEF Linked
  <2>3. QED
    BY <2>2
<1>2. QED
  BY <1>1 DEF absEntries

\* A step of f leaves the results of the others alone, if it frees no node one
\* of them has in hand.
LEMMA OtherResults ==
  ASSUME NEW f \in Frames,
         \A g \in Frames : g # f =>
           /\ pc'[g] = pc[g] /\ op'[g] = op[g]
           /\ node'[g] = node[g] /\ res'[g] = res[g]
           /\ Holds(g) /\ node[g] # NoNode => ndata'[node[g]] = ndata[node[g]]
  PROVE  \A g \in Frames : g # f => absRes'[g] = absRes[g]
<1> SUFFICES ASSUME NEW g \in Frames, g # f PROVE absRes'[g] = absRes[g]
  OBVIOUS
<1>1. Holds(g)' <=> Holds(g)
  BY DEF Holds
<1>2. CASE Holds(g)
  <2>1. Found(g)' = Found(g)
    BY <1>2 DEF Found
  <2>2. absRes'[g] = Found(g)' /\ absRes[g] = Found(g)
    BY <1>1, <1>2, AbsResults, AbsResultsNext
  <2>3. QED
    BY <2>1, <2>2
<1>3. CASE pc[g] = "unlock" /\ op[g] = "query"
  <2>1. absRes[g] = (node[g] # NoNode)
    BY <1>3, AbsResults, Zenon
  <2>2. absRes'[g] = (node'[g] # NoNode)
    <3>1. pc'[g] = "unlock" /\ op'[g] = "query"
      BY <1>3
    <3>2. QED
      BY <3>1, AbsResultsNext, Zenon
  <2>3. node'[g] = node[g]
    OBVIOUS
  <2>4. QED
    BY <2>1, <2>2, <2>3, Zenon
<1>4. CASE ~Holds(g) /\ ~(pc[g] = "unlock" /\ op[g] = "query")
  <2>1. ~Holds(g)' /\ ~(pc'[g] = "unlock" /\ op'[g] = "query")
    BY <1>1, <1>4
  <2>2. absRes[g] = res[g]
    BY <1>4, AbsResults, Zenon
  <2>3. absRes'[g] = res'[g]
    BY <2>1, AbsResultsNext, Zenon
  <2>4. QED
    BY <2>2, <2>3
<1>5. QED
  BY <1>2, <1>3, <1>4

LEMMA ResultOfStep ==
  ASSUME NEW f \in Frames, NEW r, absRes'[f] = r,
         \A g \in Frames : g # f => absRes'[g] = absRes[g]
  PROVE  absRes' = [absRes EXCEPT ![f] = r]
<1>1. absRes = [g \in Frames |-> absRes[g]] /\ absRes' = [g \in Frames |-> absRes'[g]]
  BY Zenon DEF absRes
<1>2. QED
  BY <1>1

\* Nor does a step of f change anything of the abstract state if its own result
\* stays as well.
LEMMA ResultsStay ==
  ASSUME \A g \in Frames : absRes'[g] = absRes[g]
  PROVE  absRes' = absRes
<1>1. absRes = [g \in Frames |-> absRes[g]] /\ absRes' = [g \in Frames |-> absRes'[g]]
  BY Zenon DEF absRes
<1>2. QED
  BY <1>1, Zenon

\* The newest entry of a pid is the data of the first node of its chain.
LEMMA TopOfChain ==
  ASSUME IInv, NEW i \in Ids
  PROVE  /\ (Lookup(i) # NoNode) <=> Abs!Tracked(i)
         /\ Abs!Top(i) = IF Lookup(i) = NoNode THEN NoData ELSE ndata[Lookup(i)]
         /\ chain[i] = <<>> <=> Lookup(i) = NoNode
<1>1. chain[i] \in Seq(Nodes)
  BY DEF IInv, CoreType
<1>2. absEntries[i] = [k \in 1 .. Len(chain[i]) |-> ndata[chain[i][k]]]
  BY DEF absEntries
<1>3. CASE chain[i] = <<>>
  <2>1. absEntries[i] = <<>>
    BY <1>2, <1>3
  <2>2. QED
    BY <2>1, <1>3 DEF Lookup, Abs!Tracked, Abs!Top
<1>4. CASE chain[i] # <<>>
  <2>1. Len(chain[i]) \in Nat /\ Len(chain[i]) > 0
    BY <1>1, <1>4
  <2>2. Lookup(i) = chain[i][1] /\ chain[i][1] \in Nodes
    BY <1>1, <1>4 DEF Lookup
  <2>3. absEntries[i] # <<>> /\ Head(absEntries[i]) = ndata[chain[i][1]]
    <3>1. absEntries[i] \in Seq({ndata[n] : n \in Nodes})
      <4>1. \A k \in 1 .. Len(chain[i]) : chain[i][k] \in Nodes
        BY <1>1
      <4>2. QED
        BY <1>2, <2>1, <4>1
    <3>2. Len(absEntries[i]) = Len(chain[i])
      BY <1>2, <2>1
    <3>3. QED
      BY <1>2, <2>1, <3>1, <3>2
  <2>4. QED
    BY <1>4, <2>2, <2>3, NullAssumption DEF Abs!Tracked, Abs!Top
<1>5. QED
  BY <1>3, <1>4

-----------------------------------------------------------------------------
(***************************************************************************)
(* The steps of the task that calls, and of the scheduler.                 *)
(***************************************************************************)

\* Results that the step does not concern stay, and so do the nodes in hand.
LEMMA QuietStep ==
  ASSUME RefInv, NEW f \in Frames, NEW to,
         UNCHANGED <<chain, ndata, node, res>>, pc' = [pc EXCEPT ![f] = to],
         \A g \in Frames : g # f => op'[g] = op[g]
  PROVE  /\ absEntries' = absEntries
         /\ absSt' = [absSt EXCEPT ![f] =
                        IF to = "idle" THEN "idle"
                        ELSE IF to \in {"unlock", "finish", "done"} THEN "done"
                        ELSE "pending"]
         /\ \A g \in Frames : g # f => absRes'[g] = absRes[g]
<1>1. pc \in [Frames -> Places]
  BY DEF RefInv, IInv, CoreType, Places, Operations
<1>2. absEntries' = absEntries
  BY AbsEntriesStay DEF RefInv
<1>3. \A g \in Frames : g # f => absRes'[g] = absRes[g]
  BY <1>1, OtherResults
<1>4. QED
  BY <1>1, <1>2, <1>3, AbsStates

LEMMA CallIsInvoke ==
  ASSUME RefInv, NEW f \in Frames, NEW o, NEW i \in Ids, NEW d,
         NEW first \in {"alloc", "lock"}, Call(f, o, i, d, first)
  PROVE  Abs!Invoke(f, o, i, d)
<1>1. /\ pc[f] = "idle" /\ pc' = [pc EXCEPT ![f] = first]
      /\ op' = [op EXCEPT ![f] = o] /\ id' = [id EXCEPT ![f] = i]
      /\ arg' = [arg EXCEPT ![f] = d]
      /\ UNCHANGED <<reaped, chain, ndata, node, res>>
  BY DEF Call, Goto
<1>2. pc \in [Frames -> Places] /\ op \in [Frames -> Operations]
  BY DEF RefInv, IInv, CoreType, Places, Operations
<1>3. /\ absEntries' = absEntries
      /\ absSt' = [absSt EXCEPT ![f] = "pending"]
      /\ \A g \in Frames : g # f => absRes'[g] = absRes[g]
  BY <1>1, <1>2, QuietStep
<1>4. absRes'[f] = absRes[f]
  <2>1. ~Holds(f) /\ ~(pc[f] = "unlock" /\ op[f] = "query")
    BY <1>1 DEF Holds
  <2>2. ~Holds(f)' /\ ~(pc'[f] = "unlock" /\ op'[f] = "query")
    BY <1>1, <1>2 DEF Holds
  <2>3. absRes[f] = res[f]
    BY <2>1, AbsResults, Zenon
  <2>4. absRes'[f] = res'[f]
    BY <2>2, AbsResultsNext, Zenon
  <2>5. QED
    BY <1>1, <2>3, <2>4
<1>5. absRes' = absRes
  BY <1>3, <1>4, ResultsStay, Zenon
<1>6. absSt[f] = "idle"
  BY <1>1 DEF absSt
<1>7. QED
  BY <1>1, <1>3, <1>5, <1>6, OverStays DEF Abs!Invoke

LEMMA CallIsCall ==
  ASSUME RefInv, NEW c \in CPUs,
         CallAdd(c) \/ CallQuery(c) \/ CallDel(c) \/ CallData(c)
  PROVE  Abs!Next
<1> DEFINE t == <<c, "task">>
           n == <<c, "nmi">>
<1>1. t \in Frames /\ n \in Frames
  BY DEF Frames
<1>2. cur[c] # NoId => cur[c] \in Ids
  BY DEF RefInv, IInv, CoreType, Places, Operations
<1> HIDE DEF t, n
<1>3. CASE CallAdd(c)
  <2>1. PICK i \in Ids, d \in Data \cup {NoData} : Call(t, "add", i, d, "alloc")
    BY <1>3 DEF CallAdd, t
  <2>2. Abs!Invoke(t, "add", i, d)
    BY <1>1, <2>1, CallIsInvoke
  <2>3. QED
    BY <1>1, <2>2 DEF Abs!Next, Abs!Call
<1>4. CASE CallQuery(c) \/ CallDel(c) \/ CallData(c)
  <2>1. PICK f \in Frames, o \in {"del", "query", "data"}, i \in Ids :
          Call(f, o, i, NoData, "lock")
    BY <1>1, <1>2, <1>4 DEF CallQuery, CallDel, CallData, t, n
  <2>2. Abs!Invoke(f, o, i, NoData)
    BY <2>1, CallIsInvoke
  <2>3. QED
    BY <2>2 DEF Abs!Next, Abs!Call
<1>5. QED
  BY <1>3, <1>4

\* The operation returns.
LEMMA RespondIsRespond ==
  ASSUME RefInv, NEW f \in Frames, Respond(f)
  PROVE  Abs!Respond(f)
<1>1. /\ pc[f] = "done" /\ pc' = [pc EXCEPT ![f] = "idle"]
      /\ op' = [op EXCEPT ![f] = "none"] /\ id' = [id EXCEPT ![f] = NoId]
      /\ arg' = [arg EXCEPT ![f] = NoData]
      /\ node' = [node EXCEPT ![f] = NoNode]
      /\ res' = [res EXCEPT ![f] = NoData]
      /\ UNCHANGED <<reaped, chain, ndata>>
  BY DEF Respond, Goto
<1>2. /\ pc \in [Frames -> Places] /\ op \in [Frames -> Operations]
      /\ DOMAIN node = Frames /\ DOMAIN res = Frames
  BY DEF RefInv, IInv, CoreType, ResInv, Places, Operations
<1>3. absEntries' = absEntries
  BY <1>1, AbsEntriesStay DEF RefInv
<1>4. absSt' = [absSt EXCEPT ![f] = "idle"] /\ absSt[f] = "done"
  BY <1>1, <1>2, AbsStates DEF absSt, EffectDone
<1>5. absRes' = [absRes EXCEPT ![f] = NoData]
  <2>1. ~Holds(f)' /\ ~(pc'[f] = "unlock" /\ op'[f] = "query")
    BY <1>1, <1>2 DEF Holds
  <2>2. absRes'[f] = res'[f]
    BY <2>1, AbsResultsNext, Zenon
  <2>3. absRes'[f] = NoData
    BY <1>1, <1>2, <2>2
  <2>4. \A g \in Frames : g # f => res'[g] = res[g]
    BY <1>1, <1>2
  <2>5. \A g \in Frames : g # f => absRes'[g] = absRes[g]
    BY <1>1, <1>2, <2>4, OtherResults
  <2>6. QED
    BY <2>3, <2>5, ResultOfStep, Zenon
<1>6. QED
  BY <1>1, <1>3, <1>4, <1>5, OverStays DEF Abs!Respond

-----------------------------------------------------------------------------
(***************************************************************************)
(* The steps that the caller cannot see.                                   *)
(***************************************************************************)

\* A node in hand is allocated, unless a PMI on a reaped task has found it.
LEMMA InHand ==
  ASSUME RefInv, NEW g \in Frames, Holds(g), node[g] # NoNode
  PROVE  /\ node[g] \in Nodes
         /\ (op[g] = "data" /\ reaped[g[1]]) \/ ndata[node[g]] # Freed
<1>1. node[g] \in Nodes
  BY DEF RefInv, IInv, CoreType
<1>2. CASE op[g] = "del"
  <2>1. Owns(g, node[g])
    BY <1>2 DEF Holds, Owns
  <2>2. QED
    BY <1>1, <2>1 DEF RefInv, IInv, CoreType, NodeInv
<1>3. CASE op[g] = "data" /\ ~reaped[g[1]]
  <2>1. Linked(node[g], id[g]) /\ id[g] \in Ids
    BY <1>3 DEF Holds, RefInv, IInv, OpInv, FoundInv
  <2>2. QED
    BY <1>1, <2>1 DEF RefInv, IInv, CoreType, NodeInv
<1>4. QED
  BY <1>1, <1>2, <1>3 DEF Holds

\* The results are of the abstract tracker's sort.
LEMMA AbsResultType ==
  ASSUME RefInv, NEW g \in Frames
  PROVE  absRes[g] \in Results
<1>1. CASE Holds(g)
  <2>1. Found(g) \in Data \cup {NoData, Freed}
    BY DEF Found, RefInv, IInv, CoreType
  <2>2. absRes[g] = Found(g)
    BY <1>1, AbsResults, Zenon
  <2> QED
    BY <2>1, <2>2 DEF Results
<1>2. CASE pc[g] = "unlock" /\ op[g] = "query"
  <2>1. absRes[g] = (node[g] # NoNode)
    BY <1>2, AbsResults, Zenon
  <2>2. (node[g] # NoNode) \in BOOLEAN
    OBVIOUS
  <2>3. absRes[g] \in BOOLEAN
    BY <2>1, <2>2, Zenon
  <2> QED
    BY <2>3, BooleanResult
<1>3. CASE ~Holds(g) /\ ~(pc[g] = "unlock" /\ op[g] = "query")
  <2>1. absRes[g] = res[g]
    BY <1>3, AbsResults, Zenon
  <2> QED
    BY <2>1 DEF RefInv, ResInv
<1> QED
  BY <1>1, <1>2, <1>3

\* A step of f that changes no result but the data of nodes that PMIs on reaped
\* tasks have in hand.
LEMMA OutdateStep ==
  ASSUME RefInv, NEW f \in Frames,
         UNCHANGED <<op, id, arg, reaped>>,
         absEntries' = absEntries, absSt' = absSt, absRes'[f] = absRes[f],
         ndata' \in [Nodes -> Data \cup {NoData, Freed}],
         \A g \in Frames : g # f =>
           /\ pc'[g] = pc[g] /\ node'[g] = node[g] /\ res'[g] = res[g]
           /\ Holds(g) /\ node[g] # NoNode =>
                \/ ndata'[node[g]] = ndata[node[g]]
                \/ (op[g] = "data" /\ reaped[g[1]])
  PROVE  Abs!Outdate
<1>1. ASSUME NEW g \in Frames, absRes'[g] # absRes[g]
      PROVE  /\ Holds(g) /\ op[g] = "data" /\ reaped[g[1]]
             /\ absRes'[g] \in Data \cup {NoData, Freed}
  <2>1. g # f
    BY <1>1
  <2>2. Holds(g)' <=> Holds(g)
    BY <2>1 DEF Holds
  <2>3. CASE ~Holds(g)
    <3>1. CASE pc[g] = "unlock" /\ op[g] = "query"
      <4>1. absRes[g] = (node[g] # NoNode)
        BY <3>1, AbsResults, Zenon
      <4>2. pc'[g] = "unlock" /\ op'[g] = "query"
        BY <2>1, <3>1
      <4>3. absRes'[g] = (node'[g] # NoNode)
        BY <4>2, AbsResultsNext, Zenon
      <4>4. node'[g] = node[g]
        BY <2>1
      <4> QED
        BY <1>1, <4>1, <4>3, <4>4, Zenon
    <3>2. CASE ~(pc[g] = "unlock" /\ op[g] = "query")
      <4>1. absRes[g] = res[g]
        BY <2>3, <3>2, AbsResults, Zenon
      <4>2. ~(pc'[g] = "unlock" /\ op'[g] = "query")
        BY <2>1, <3>2
      <4>3. absRes'[g] = res'[g]
        BY <2>2, <2>3, <4>2, AbsResultsNext, Zenon
      <4> QED
        BY <1>1, <2>1, <4>1, <4>3
    <3> QED
      BY <3>1, <3>2
  <2>4. CASE Holds(g)
    <3>1. absRes[g] = Found(g)
      BY <2>4, AbsResults, Zenon
    <3>2. absRes'[g] = Found(g)'
      BY <2>2, <2>4, AbsResultsNext, Zenon
    <3>3. Found(g)' # Found(g)
      BY <1>1, <3>1, <3>2
    <3>4. node[g] # NoNode /\ ndata'[node[g]] # ndata[node[g]]
      BY <2>1, <3>3 DEF Found
    <3>5. node[g] \in Nodes
      BY <2>4, <3>4, InHand
    <3>6. Found(g)' = ndata'[node[g]]
      BY <2>1, <3>4 DEF Found
    <3> QED
      BY <2>1, <2>4, <3>2, <3>4, <3>5, <3>6
  <2> QED
    BY <2>3, <2>4
<1>2. \A g \in Frames : absRes'[g] \in Data \cup {NoData, Freed} \cup BOOLEAN
  BY <1>1, AbsResultType DEF Results
<1>3. absRes' \in [Frames -> Data \cup {NoData, Freed} \cup BOOLEAN]
  <2>1. DOMAIN absRes' = Frames
    BY AbsResultsNext, Zenon
  <2>2. absRes' = [g \in Frames |-> absRes'[g]]
    BY Zenon DEF absRes
  <2> QED
    BY <1>2, <2>1, <2>2
<1>4. ASSUME NEW g \in Frames, absRes'[g] # absRes[g]
      PROVE  g \in absOver /\ absSt[g] = "done" /\ op[g] = "data"
  <2>1. Holds(g) /\ op[g] = "data" /\ reaped[g[1]]
    BY <1>1, <1>4
  <2> QED
    BY <2>1 DEF absOver, absSt, EffectDone, Holds
<1> QED
  BY <1>3, <1>4, OverStays DEF Abs!Outdate

\* A frame that stays on its side of the effect.
LEMMA StateStays ==
  ASSUME NEW f \in Frames, pc \in [Frames -> Places], NEW to \in Places,
         pc' = [pc EXCEPT ![f] = to],
         \/ pc[f] \in {"alloc", "lock", "body"} /\ to \in {"alloc", "lock", "body"}
         \/ pc[f] \in {"unlock", "finish"} /\ to \in {"unlock", "finish", "done"}
  PROVE  absSt' = absSt
BY DEF absSt, EffectDone, Places

LEMMA SwitchIsReap ==
  ASSUME NEW c \in CPUs, Switch(c) \/ Reap(c)
  PROVE  Abs!Reap
<1>1. UNCHANGED <<chain, ndata, op, id, arg, pc, node, res>>
  BY DEF Switch, Reap, callVars
<1>2. absEntries' = absEntries /\ absSt' = absSt
  BY <1>1 DEF absEntries, absSt, EffectDone
<1>3. absRes' = absRes
  BY <1>1, Zenon DEF absRes, Found
<1>4. absOver' \in SUBSET Frames
  BY DEF absOver
<1>5. QED
  BY <1>1, <1>2, <1>3, <1>4 DEF Abs!Reap

\* The node may be one that a PMI on a reaped task is about to read.
LEMMA KmallocIsOutdate ==
  ASSUME RefInv, NEW f \in Frames, Kmalloc(f)
  PROVE  Abs!Outdate
<1>1. PICK n \in Nodes :
        /\ ndata[n] = Freed /\ ndata' = [ndata EXCEPT ![n] = arg[f]]
        /\ node' = [node EXCEPT ![f] = n]
  BY DEF Kmalloc
<1>2. /\ pc[f] = "alloc" /\ pc' = [pc EXCEPT ![f] = "lock"]
      /\ UNCHANGED <<reaped, chain, op, id, arg, res>>
  BY DEF Kmalloc, Goto, callVars
<1>3. /\ pc \in [Frames -> Places] /\ DOMAIN node = Frames
      /\ ndata \in [Nodes -> Data \cup {NoData, Freed}]
      /\ arg[f] \in Data \cup {NoData}
  BY DEF RefInv, IInv, CoreType, Places
<1>4. absEntries' = absEntries
  <2>1. \A m \in Nodes : (\E i \in Ids : Linked(m, i)) => ndata[m] # Freed
    BY DEF RefInv, IInv, NodeInv
  <2>2. \A m \in Nodes : (\E i \in Ids : Linked(m, i)) => ndata'[m] = ndata[m]
    BY <1>1, <1>3, <2>1
  <2>3. QED
    BY <1>2, <2>2, AbsEntriesStay DEF RefInv
<1>5. absSt' = absSt
  BY <1>2, <1>3, StateStays DEF Places
<1>6. \A g \in Frames : Holds(g) /\ node[g] # NoNode =>
        ndata'[node[g]] = ndata[node[g]] \/ (op[g] = "data" /\ reaped[g[1]])
  BY <1>1, <1>3, InHand
<1>7. absRes'[f] = absRes[f]
  <2>1. ~Holds(f) /\ ~(pc[f] = "unlock" /\ op[f] = "query")
    BY <1>2 DEF Holds
  <2>2. ~Holds(f)' /\ ~(pc'[f] = "unlock" /\ op'[f] = "query")
    BY <1>2, <1>3 DEF Holds
  <2>3. absRes[f] = res[f]
    BY <2>1, AbsResults, Zenon
  <2>4. absRes'[f] = res'[f]
    BY <2>2, AbsResultsNext, Zenon
  <2>5. QED
    BY <1>2, <2>3, <2>4
<1>8. ndata' \in [Nodes -> Data \cup {NoData, Freed}]
  BY <1>1, <1>3
<1>9. QED
  BY <1>1, <1>2, <1>3, <1>4, <1>5, <1>6, <1>7, <1>8, OutdateStep

LEMMA AcquireIsNothing ==
  ASSUME RefInv, NEW f \in Frames, Acquire(f)
  PROVE  UNCHANGED Abs!vars
<1>1. /\ pc[f] = "lock" /\ pc' = [pc EXCEPT ![f] = "body"]
      /\ UNCHANGED <<reaped, chain, ndata, op, id, arg, node, res>>
  BY DEF Acquire, Goto, callVars
<1>2. pc \in [Frames -> Places]
  BY DEF RefInv, IInv, CoreType, Places
<1>3. absEntries' = absEntries /\ absSt' = absSt
  BY <1>1, <1>2, QuietStep, StateStays DEF Places
<1>4. \A g \in Frames : g # f => absRes'[g] = absRes[g]
  BY <1>1, QuietStep
<1>5. absRes'[f] = absRes[f]
  <2>1. ~Holds(f) /\ ~(pc[f] = "unlock" /\ op[f] = "query")
    BY <1>1 DEF Holds
  <2>2. ~Holds(f)' /\ ~(pc'[f] = "unlock" /\ op'[f] = "query")
    BY <1>1, <1>2 DEF Holds
  <2>3. absRes[f] = res[f]
    BY <2>1, AbsResults, Zenon
  <2>4. absRes'[f] = res'[f]
    BY <2>2, AbsResultsNext, Zenon
  <2>5. QED
    BY <1>1, <2>3, <2>4
<1>6. absRes' = absRes
  BY <1>4, <1>5, ResultsStay, Zenon
<1>7. QED
  BY <1>1, <1>3, <1>6, OverStays DEF Abs!vars

\* The result of a query is stored when the lock is dropped.
LEMMA ReleaseIsNothing ==
  ASSUME RefInv, NEW f \in Frames, Release(f)
  PROVE  UNCHANGED Abs!vars
<1>1. /\ pc[f] = "unlock"
      /\ UNCHANGED <<reaped, chain, ndata, op, id, arg, node>>
  BY DEF Release, Goto, callVars
<1>2. PICK to \in {"finish", "done"} :
        /\ pc' = [pc EXCEPT ![f] = to]
        /\ op[f] \in {"del", "data"} <=> to = "finish"
  BY DEF Release, Goto
<1>3. /\ pc \in [Frames -> Places] /\ DOMAIN res = Frames
  BY DEF RefInv, IInv, CoreType, ResInv, Places
<1>4. absEntries' = absEntries
  BY <1>1, AbsEntriesStay DEF RefInv
<1>5. absSt' = absSt
  BY <1>1, <1>2, <1>3, StateStays DEF Places
<1>6. \A g \in Frames : g # f => absRes'[g] = absRes[g]
  <2>1. \A g \in Frames : g # f => res'[g] = res[g]
    BY <1>3, Zenon DEF Release
  <2>2. QED
    BY <1>1, <1>2, <1>3, <2>1, OtherResults
<1>7. absRes'[f] = absRes[f]
  <2>1. CASE op[f] \in {"del", "data"}
    <3>1. Holds(f) /\ Holds(f)' /\ Found(f)' = Found(f)
      BY <1>1, <1>2, <1>3, <2>1 DEF Holds, Found
    <3>2. absRes[f] = Found(f) /\ absRes'[f] = Found(f)'
      BY <3>1, AbsResults, AbsResultsNext, Zenon
    <3>3. QED
      BY <3>1, <3>2
  <2>2. CASE op[f] = "query"
    <3>1. absRes[f] = (node[f] # NoNode)
      BY <1>1, <2>2, AbsResults, Zenon
    <3>2. ~Holds(f)' /\ ~(pc'[f] = "unlock" /\ op'[f] = "query")
      BY <1>1, <1>2, <1>3, <2>2 DEF Holds
    <3>3. absRes'[f] = res'[f]
      BY <3>2, AbsResultsNext, Zenon
    <3>4. res'[f] = (node[f] # NoNode)
      BY <1>3, <2>2, Zenon DEF Release
    <3>5. QED
      BY <3>1, <3>3, <3>4, Zenon
  <2>3. CASE op[f] \notin {"del", "data", "query"}
    <3>1. /\ ~Holds(f) /\ ~(pc[f] = "unlock" /\ op[f] = "query")
          /\ ~Holds(f)' /\ ~(pc'[f] = "unlock" /\ op'[f] = "query")
      BY <1>1, <2>3 DEF Holds
    <3>2. absRes[f] = res[f] /\ absRes'[f] = res'[f]
      BY <3>1, AbsResults, AbsResultsNext, Zenon
    <3>3. res'[f] = res[f]
      BY <1>3, <2>3 DEF Release
    <3>4. QED
      BY <3>2, <3>3, Zenon
  <2>4. QED
    BY <2>1, <2>2, <2>3
<1>8. absRes' = absRes
  BY <1>6, <1>7, ResultsStay, Zenon
<1>9. QED
  BY <1>1, <1>4, <1>5, <1>8, OverStays DEF Abs!vars

\* The data of the node in hand becomes the result; tracker_del frees the node,
\* which a PMI on a reaped task may have found.
LEMMA FinishIsOutdate ==
  ASSUME RefInv, NEW f \in Frames, FinishDel(f) \/ FinishData(f)
  PROVE  Abs!Outdate
<1>1. /\ pc[f] = "finish" /\ pc' = [pc EXCEPT ![f] = "done"]
      /\ op[f] \in {"del", "data"}
      /\ UNCHANGED <<reaped, chain, op, id, arg, node>>
  BY DEF FinishDel, FinishData, Goto, callVars
<1>2. /\ pc \in [Frames -> Places] /\ DOMAIN res = Frames
      /\ ndata \in [Nodes -> Data \cup {NoData, Freed}]
      /\ node \in [Frames -> Nodes \cup {NoNode}]
  BY DEF RefInv, IInv, CoreType, ResInv, Places
<1>3. /\ res[f] = NoData
      /\ Holds(f)
  BY <1>1 DEF RefInv, NoResultYet, Holds
<1>4. res' = [res EXCEPT ![f] = Found(f)]
  <2>1. CASE node[f] = NoNode
    BY <1>2, <1>3, <2>1 DEF FinishDel, FinishData, Found, ResInv, RefInv
  <2>2. CASE node[f] # NoNode
    BY <2>2 DEF FinishDel, FinishData, Found
  <2>3. QED
    BY <2>1, <2>2
<1>5. \A m \in Nodes : ndata'[m] = ndata[m] \/ (op[f] = "del" /\ m = node[f])
  BY <1>2 DEF FinishDel, FinishData
<1>6. op[f] = "del" /\ node[f] \in Nodes => Owns(f, node[f])
  BY <1>1 DEF Owns
<1>7. absEntries' = absEntries
  <2>1. \A m \in Nodes : (\E i \in Ids : Linked(m, i)) => ndata'[m] = ndata[m]
    BY <1>5, <1>6 DEF RefInv, IInv, NodeInv
  <2>2. QED
    BY <1>1, <2>1, AbsEntriesStay DEF RefInv
<1>8. absSt' = absSt
  BY <1>1, <1>2, StateStays DEF Places
<1>9. ASSUME NEW g \in Frames, g # f, Holds(g), node[g] # NoNode
      PROVE  ndata'[node[g]] = ndata[node[g]] \/ (op[g] = "data" /\ reaped[g[1]])
  <2>1. node[g] \in Nodes
    BY <1>9, InHand
  <2>2. CASE op[g] = "del"
    <3>1. Owns(g, node[g])
      BY <1>9, <2>2 DEF Holds, Owns
    <3>2. QED
      BY <1>5, <1>6, <1>9, <2>1, <3>1 DEF RefInv, IInv, NodeInv
  <2>3. CASE op[g] = "data" /\ ~reaped[g[1]]
    <3>1. Linked(node[g], id[g]) /\ id[g] \in Ids
      BY <1>9, <2>3 DEF Holds, RefInv, IInv, OpInv, FoundInv
    <3>2. QED
      BY <1>5, <1>6, <2>1, <3>1 DEF RefInv, IInv, NodeInv
  <2>4. QED
    BY <1>9, <2>2, <2>3 DEF Holds
<1>10. absRes'[f] = absRes[f]
  <2>1. ~Holds(f)' /\ ~(pc'[f] = "unlock" /\ op'[f] = "query")
    BY <1>1, <1>2 DEF Holds
  <2>2. absRes[f] = Found(f) /\ absRes'[f] = res'[f]
    BY <1>3, <2>1, AbsResults, AbsResultsNext, Zenon
  <2>3. QED
    BY <1>2, <1>4, <2>2
<1>11. ndata' \in [Nodes -> Data \cup {NoData, Freed}]
  BY <1>2 DEF FinishDel, FinishData
<1>12. \A g \in Frames : g # f => pc'[g] = pc[g] /\ res'[g] = res[g]
  BY <1>1, <1>2, <1>4
<1>13. QED
  BY <1>1, <1>7, <1>8, <1>9, <1>10, <1>11, <1>12, OutdateStep

-----------------------------------------------------------------------------
(***************************************************************************)
(* The steps at which the operations take effect.                          *)
(***************************************************************************)

\* From before its effect to after it, with the result r.
LEMMA TakesEffect ==
  ASSUME RefInv, NEW f \in Frames, NEW r, absRes'[f] = r,
         pc[f] \in {"alloc", "lock", "body"}, pc'[f] \in {"unlock", "done"},
         pc' = [pc EXCEPT ![f] = pc'[f]],
         \A g \in Frames : g # f => node'[g] = node[g] /\ res'[g] = res[g],
         ndata' = ndata, op' = op, id' = id, arg' = arg, reaped' = reaped
  PROVE  Abs!Effect(f, r) /\ absSt[f] = "pending"
<1>1. pc \in [Frames -> Places]
  BY DEF RefInv, IInv, CoreType, Places
<1>2. absSt' = [absSt EXCEPT ![f] = "done"] /\ absSt[f] = "pending"
  BY <1>1, AbsStates DEF absSt, EffectDone
<1>3. \A g \in Frames : g # f => absRes'[g] = absRes[g]
  BY <1>1, OtherResults
<1>4. absRes' = [absRes EXCEPT ![f] = r]
  BY <1>3, ResultOfStep, Zenon
<1>5. QED
  BY <1>2, <1>4, OverStays DEF Abs!Effect

\* The result of a frame that neither holds a node nor searched for a query.
LEMMA PlainResult ==
  ASSUME NEW f \in Frames,
         ~(pc'[f] \in {"unlock", "finish"} /\ op'[f] \in {"del", "data"}),
         ~(pc'[f] = "unlock" /\ op'[f] = "query")
  PROVE  absRes'[f] = res'[f]
<1>1. ~Holds(f)'
  BY DEF Holds
<1>2. QED
  BY <1>1, AbsResultsNext, Zenon

LEMMA KmallocFailsIsAddFails ==
  ASSUME RefInv, NEW f \in Frames, KmallocFails(f)
  PROVE  Abs!AddFails(f)
<1>1. /\ pc[f] = "alloc" /\ pc' = [pc EXCEPT ![f] = "done"]
      /\ UNCHANGED <<reaped, chain, ndata, op, id, arg, node, res>>
  BY DEF KmallocFails, Goto, callVars
<1>2. pc'[f] = "done" /\ op[f] = "add" /\ res[f] = NoData
  BY <1>1 DEF RefInv, IInv, CoreType, OpInv, NoResultYet
<1>3. absRes'[f] = NoData
  BY <1>1, <1>2, PlainResult
<1>4. Abs!Effect(f, NoData) /\ absSt[f] = "pending"
  <2>1. \A g \in Frames : g # f => node'[g] = node[g] /\ res'[g] = res[g]
    BY <1>1
  <2>2. /\ pc[f] \in {"alloc", "lock", "body"} /\ pc'[f] \in {"unlock", "done"}
        /\ pc' = [pc EXCEPT ![f] = pc'[f]]
    BY <1>1 DEF RefInv, IInv, CoreType
  <2>3. QED
    BY <1>1, <1>3, <2>1, <2>2, TakesEffect
<1>5. absEntries' = absEntries
  BY <1>1, AbsEntriesStay DEF RefInv
<1>6. QED
  BY <1>2, <1>4, <1>5 DEF Abs!AddFails, Abs!Pending

\* A query that cannot take the lock misses.
LEMMA TrylockFailsIsMiss ==
  ASSUME RefInv, NEW f \in Frames, TrylockFails(f)
  PROVE  Abs!Query(f) \/ Abs!QueryData(f)
<1> DEFINE r == IF op[f] = "query" THEN FALSE ELSE NoData
<1>1. /\ pc[f] = "lock" /\ pc' = [pc EXCEPT ![f] = "done"]
      /\ op[f] \in {"query", "data"}
      /\ UNCHANGED <<reaped, chain, ndata, op, id, arg, node>>
  BY DEF TrylockFails, Goto, callVars
<1>2. DOMAIN res = Frames /\ pc'[f] = "done"
  BY <1>1 DEF RefInv, IInv, CoreType, ResInv
<1>3. res' = [res EXCEPT ![f] = r]
  BY Zenon DEF TrylockFails
<1> HIDE DEF r
<1>4. res'[f] = r /\ \A g \in Frames : g # f => res'[g] = res[g]
  BY <1>2, <1>3
<1>5. absRes'[f] = r
  <2>1. absRes'[f] = res'[f]
    BY <1>2, PlainResult
  <2>2. QED
    BY <1>4, <2>1
<1>6. Abs!Effect(f, r) /\ absSt[f] = "pending"
  <2>1. \A g \in Frames : g # f => node'[g] = node[g] /\ res'[g] = res[g]
    BY <1>1, <1>4
  <2>2. /\ pc[f] \in {"alloc", "lock", "body"} /\ pc'[f] \in {"unlock", "done"}
        /\ pc' = [pc EXCEPT ![f] = pc'[f]]
    BY <1>1 DEF RefInv, IInv, CoreType
  <2>3. QED
    BY <1>1, <1>5, <2>1, <2>2, TakesEffect
<1>7. absEntries' = absEntries
  BY <1>1, AbsEntriesStay DEF RefInv
<1>8. CASE op[f] = "query"
  <2>1. r = FALSE
    BY <1>8, Zenon DEF r
  <2>2. Abs!Effect(f, FALSE)
    BY <1>6, <2>1, Zenon
  <2>3. \E q \in {FALSE, Abs!Tracked(id[f])} : Abs!Effect(f, q)
    BY <2>2, Zenon
  <2>4. QED
    BY <1>6, <1>7, <1>8, <2>3, Zenon DEF Abs!Query, Abs!Pending
<1>9. CASE op[f] = "data"
  <2>1. r = NoData
    BY <1>9 DEF r
  <2>2. Abs!Effect(f, NoData)
    BY <1>6, <2>1, Zenon
  <2>3. \E q \in {NoData, Abs!Top(id[f])} : Abs!Effect(f, q)
    BY <2>2, Zenon
  <2>4. QED
    BY <1>6, <1>7, <1>9, <2>3, Zenon DEF Abs!QueryData, Abs!Pending
<1>10. QED
  BY <1>1, <1>8, <1>9

\* The node is pushed, and its data with it.
LEMMA HashAddIsAdd ==
  ASSUME RefInv, NEW f \in Frames, HashAdd(f)
  PROVE  Abs!Add(f)
<1> DEFINE i == id[f]
           n == node[f]
<1>1. /\ pc[f] = "body" /\ pc' = [pc EXCEPT ![f] = "unlock"] /\ op[f] = "add"
      /\ chain' = [chain EXCEPT ![i] = <<n>> \o @]
      /\ UNCHANGED <<reaped, ndata, op, id, arg, node, res>>
  BY DEF HashAdd, Goto, callVars
<1>2. /\ i \in Ids /\ n \in Nodes /\ ndata[n] = arg[f] /\ res[f] = NoData
      /\ chain \in [Ids -> Seq(Nodes)]
  BY <1>1 DEF RefInv, IInv, OpInv, CoreType, Prepared, NoResultYet
<1>3. absRes'[f] = NoData
  BY <1>1, <1>2, PlainResult
<1>4. Abs!Effect(f, NoData) /\ absSt[f] = "pending"
  <2>1. \A g \in Frames : g # f => node'[g] = node[g] /\ res'[g] = res[g]
    BY <1>1
  <2>2. /\ pc[f] \in {"alloc", "lock", "body"} /\ pc'[f] \in {"unlock", "done"}
        /\ pc' = [pc EXCEPT ![f] = pc'[f]]
    BY <1>1 DEF RefInv, IInv, CoreType
  <2>3. QED
    BY <1>1, <1>3, <2>1, <2>2, TakesEffect
<1> HIDE DEF i, n
<1>5. absEntries' = [absEntries EXCEPT ![i] = <<arg[f]>> \o @]
  <2> DEFINE old == absEntries[i]
  <2>1. /\ old = [k \in 1 .. Len(chain[i]) |-> ndata[chain[i][k]]]
        /\ Len(chain[i]) \in Nat
    BY <1>2 DEF absEntries
  <2>2. \A k \in 1 .. Len(chain[i]) : chain[i][k] \in Nodes
    BY <1>2
  <2>3. old \in Seq({ndata[m] : m \in Nodes}) /\ Len(old) = Len(chain[i])
    BY <2>1, <2>2
  <2> HIDE DEF old
  <2>4. /\ DOMAIN (<<arg[f]>> \o old) = 1 .. Len(chain[i]) + 1
        /\ <<arg[f]>> \o old = [k \in 1 .. Len(chain[i]) + 1 |->
             IF k = 1 THEN arg[f] ELSE old[k - 1]]
    BY <2>1, <2>3
  <2>5. chain'[i] = <<n>> \o chain[i]
    BY <1>1, <1>2
  <2>6. /\ Len(chain'[i]) = Len(chain[i]) + 1 /\ chain'[i][1] = n
        /\ \A k \in 2 .. Len(chain[i]) + 1 : chain'[i][k] = chain[i][k - 1]
    BY <1>2, <2>5
  <2>7. absEntries'[i] = [k \in 1 .. Len(chain[i]) + 1 |-> ndata[chain'[i][k]]]
    BY <1>1, <1>2, <2>6 DEF absEntries
  <2>8. \A k \in 1 .. Len(chain[i]) + 1 :
          ndata[chain'[i][k]] = IF k = 1 THEN arg[f] ELSE old[k - 1]
    <3> SUFFICES ASSUME NEW k \in 1 .. Len(chain[i]) + 1
                 PROVE  ndata[chain'[i][k]] = IF k = 1 THEN arg[f] ELSE old[k - 1]
      OBVIOUS
    <3>1. CASE k = 1
      BY <1>2, <2>6, <3>1
    <3>2. CASE k # 1
      <4>1. k \in 2 .. Len(chain[i]) + 1 /\ k - 1 \in 1 .. Len(chain[i])
        BY <2>1, <3>2
      <4>2. old[k - 1] = ndata[chain[i][k - 1]]
        BY <2>1, <4>1 DEF old
      <4>3. QED
        BY <2>6, <3>2, <4>1, <4>2
    <3>3. QED
      BY <3>1, <3>2
  <2>9. absEntries'[i] = <<arg[f]>> \o absEntries[i]
    BY <2>4, <2>7, <2>8 DEF old
  <2>10. \A j \in Ids : j # i => absEntries'[j] = absEntries[j]
    BY <1>1, <1>2 DEF absEntries
  <2>11. /\ absEntries = [j \in Ids |-> absEntries[j]]
         /\ absEntries' = [j \in Ids |-> absEntries'[j]]
    BY DEF absEntries
  <2>12. QED
    BY <1>2, <2>9, <2>10, <2>11
<1>6. QED
  BY <1>1, <1>4, <1>5 DEF Abs!Add, Abs!Pending, i

\* The first node of the chain is taken off, and its data will be returned.
LEMMA HashDelIsDel ==
  ASSUME RefInv, NEW f \in Frames, HashDel(f)
  PROVE  Abs!Del(f)
<1> DEFINE i == id[f]
           r == IF Lookup(i) = NoNode THEN NoData ELSE ndata[Lookup(i)]
<1>1. /\ pc[f] = "body" /\ pc' = [pc EXCEPT ![f] = "unlock"] /\ op[f] = "del"
      /\ node' = [node EXCEPT ![f] = Lookup(i)]
      /\ UNCHANGED <<reaped, ndata, op, id, arg, res>>
  BY DEF HashDel, Goto, callVars
<1>2. /\ i \in Ids /\ chain \in [Ids -> Seq(Nodes)]
      /\ DOMAIN node = Frames /\ DOMAIN pc = Frames
  BY <1>1 DEF RefInv, IInv, OpInv, CoreType
<1>3. absRes'[f] = r
  <2>1. Holds(f)' /\ Found(f)' = r
    BY <1>1, <1>2 DEF Holds, Found
  <2>2. QED
    BY <2>1, AbsResultsNext, Zenon
<1>4. r = Abs!Top(i) /\ (chain[i] = <<>> <=> absEntries[i] = <<>>)
  BY <1>2, TopOfChain DEF RefInv, Abs!Tracked
<1> HIDE DEF r
<1>5. Abs!Effect(f, r) /\ absSt[f] = "pending"
  <2>1. \A g \in Frames : g # f => node'[g] = node[g] /\ res'[g] = res[g]
    BY <1>1
  <2>2. /\ pc[f] \in {"alloc", "lock", "body"} /\ pc'[f] \in {"unlock", "done"}
        /\ pc' = [pc EXCEPT ![f] = pc'[f]]
    BY <1>1, <1>2
  <2>3. QED
    BY <1>1, <1>3, <2>1, <2>2, TakesEffect
<1> HIDE DEF i
<1>6. absEntries' = [absEntries EXCEPT ![i] = IF @ = <<>> THEN @ ELSE Tail(@)]
  <2>1. CASE chain[i] = <<>>
    <3>1. chain' = chain
      BY <2>1 DEF HashDel, i
    <3>2. absEntries' = absEntries
      BY <1>1, <3>1, AbsEntriesStay DEF RefInv
    <3>3. absEntries[i] = <<>> /\ absEntries = [j \in Ids |-> absEntries[j]]
      BY <1>2, <1>4, <2>1 DEF absEntries
    <3>4. QED
      BY <1>2, <3>2, <3>3
  <2>2. CASE chain[i] # <<>>
    <3> DEFINE old == absEntries[i]
               len == Len(chain[i])
    <3>1. chain' = [chain EXCEPT ![i] = Tail(@)]
      BY <2>2 DEF HashDel, i
    <3>2. /\ chain'[i] = Tail(chain[i]) /\ len \in Nat /\ len > 0
          /\ Len(chain'[i]) = len - 1
          /\ \A k \in 1 .. len - 1 : chain'[i][k] = chain[i][k + 1]
      BY <1>2, <2>2, <3>1
    <3>3. old = [k \in 1 .. len |-> ndata[chain[i][k]]]
      BY <1>2 DEF absEntries
    <3>4. \A k \in 1 .. len : chain[i][k] \in Nodes
      BY <1>2
    <3>5. old \in Seq({ndata[m] : m \in Nodes}) /\ Len(old) = len /\ old # <<>>
      BY <3>2, <3>3, <3>4
    <3>6. absEntries'[i] = [k \in 1 .. len - 1 |-> ndata[chain'[i][k]]]
      BY <1>1, <1>2, <3>2 DEF absEntries
    <3> HIDE DEF old, len
    <3>7. Tail(old) = [k \in 1 .. len - 1 |-> old[k + 1]]
      <4>1. PICK D : old \in Seq(D)
        BY <3>5
      <4>2. /\ Tail(old) \in Seq(D) /\ Len(Tail(old)) = len - 1
            /\ \A k \in 1 .. len - 1 : Tail(old)[k] = old[k + 1]
        BY <3>2, <3>5, <4>1
      <4> DEFINE rest == Tail(old)
      <4> HIDE DEF rest
      <4>3. rest \in Seq(D) => rest = [k \in 1 .. Len(rest) |-> rest[k]]
        OBVIOUS
      <4>4. QED
        BY <4>2, <4>3 DEF rest
    <3>8. \A k \in 1 .. len - 1 : ndata[chain'[i][k]] = old[k + 1]
      BY <3>2, <3>3
    <3>9. absEntries'[i] = Tail(absEntries[i])
      BY <3>6, <3>7, <3>8 DEF old
    <3>10. \A j \in Ids : j # i => absEntries'[j] = absEntries[j]
      BY <1>1, <1>2, <3>1 DEF absEntries
    <3>11. /\ absEntries = [j \in Ids |-> absEntries[j]]
           /\ absEntries' = [j \in Ids |-> absEntries'[j]]
      BY DEF absEntries
    <3>12. absEntries[i] # <<>>
      BY <3>5 DEF old
    <3>13. QED
      BY <1>2, <3>9, <3>10, <3>11, <3>12
  <2>3. QED
    BY <2>1, <2>2
<1>7. QED
  BY <1>1, <1>4, <1>5, <1>6 DEF Abs!Del, Abs!Pending, i

\* The search of a query decides its result.
LEMMA SearchIsQuery ==
  ASSUME RefInv, NEW f \in Frames, Search(f)
  PROVE  Abs!Query(f) \/ Abs!QueryData(f)
<1> DEFINE i == id[f]
<1>1. /\ pc[f] = "body" /\ pc' = [pc EXCEPT ![f] = "unlock"]
      /\ op[f] \in {"query", "data"}
      /\ node' = [node EXCEPT ![f] = Lookup(i)]
      /\ UNCHANGED <<reaped, chain, ndata, op, id, arg, res>>
  BY DEF Search, Goto, callVars
<1>2. i \in Ids /\ DOMAIN node = Frames /\ DOMAIN pc = Frames
  BY <1>1 DEF RefInv, IInv, OpInv, CoreType
<1>3. /\ (Lookup(i) # NoNode) <=> Abs!Tracked(i)
      /\ Abs!Top(i) = IF Lookup(i) = NoNode THEN NoData ELSE ndata[Lookup(i)]
  BY <1>2, TopOfChain DEF RefInv
<1>4. pc'[f] = "unlock" /\ node'[f] = Lookup(i)
  BY <1>1, <1>2
<1>5. absEntries' = absEntries
  BY <1>1, AbsEntriesStay DEF RefInv
<1>6. /\ \A g \in Frames : g # f => node'[g] = node[g] /\ res'[g] = res[g]
      /\ pc[f] \in {"alloc", "lock", "body"} /\ pc'[f] \in {"unlock", "done"}
      /\ pc' = [pc EXCEPT ![f] = pc'[f]]
  BY <1>1, <1>2, <1>4
<1>7. ASSUME NEW r, absRes'[f] = r
      PROVE  Abs!Effect(f, r) /\ absSt[f] = "pending"
  BY <1>1, <1>6, <1>7, TakesEffect
<1>8. CASE op[f] = "query"
  <2>1. absRes'[f] = (node'[f] # NoNode)
    BY <1>1, <1>4, <1>8, AbsResultsNext, Zenon
  <2>2. absRes'[f] = (Lookup(i) # NoNode)
    BY <1>4, <2>1, Zenon
  <2>3. absRes'[f] = FALSE \/ absRes'[f] = Abs!Tracked(i)
    BY <1>3, <2>2, Zenon
  <2>4. Abs!Effect(f, absRes'[f]) /\ absSt[f] = "pending"
    BY <1>7
  <2>5. \E q \in {FALSE, Abs!Tracked(i)} : Abs!Effect(f, q)
    BY <2>3, <2>4, Zenon
  <2>6. QED
    BY <1>5, <1>8, <2>4, <2>5, Zenon DEF Abs!Query, Abs!Pending
<1>9. CASE op[f] = "data"
  <2>1. Holds(f)' /\ Found(f)' = Abs!Top(i)
    BY <1>1, <1>3, <1>4, <1>9 DEF Holds, Found
  <2>2. absRes'[f] = Abs!Top(i)
    BY <2>1, AbsResultsNext, Zenon
  <2>3. Abs!Effect(f, Abs!Top(i)) /\ absSt[f] = "pending"
    BY <1>7, <2>2
  <2>4. \E q \in {NoData, Abs!Top(i)} : Abs!Effect(f, q)
    BY <2>3, Zenon
  <2>5. QED
    BY <1>5, <1>9, <2>3, <2>4, Zenon DEF Abs!QueryData, Abs!Pending
<1>10. QED
  BY <1>1, <1>8, <1>9

-----------------------------------------------------------------------------
(***************************************************************************)
(* The invariants that the mapping needs.                                  *)
(***************************************************************************)

\* The steps of f that store a result end the operation, or start from none.
LEMMA NextNoResultYet ==
  ASSUME IInv, ResInv, NoResultYet, [Next]_vars
  PROVE  NoResultYet'
<1> SUFFICES ASSUME NEW f \in Frames, pc'[f] # "done" \/ op'[f] = "add"
             PROVE  res'[f] = NoData
  BY DEF NoResultYet
<1>1. /\ pc \in [Frames -> Places] /\ op \in [Frames -> Operations]
      /\ DOMAIN res = Frames
      /\ \A g \in Frames : pc[g] = "idle" <=> op[g] = "none"
  BY DEF IInv, CoreType, OpInv, ResInv, Places, Operations
<1>2. ASSUME pc[f] # "done" \/ op[f] = "add", res'[f] = res[f]
      PROVE  res'[f] = NoData
  BY <1>2 DEF NoResultYet
<1>3. CASE UNCHANGED vars
  BY <1>2, <1>3 DEF vars
<1>4. CASE \E c \in CPUs : Switch(c) \/ Reap(c)
  BY <1>2, <1>4 DEF Switch, Reap, callVars
<1>5. ASSUME NEW g \in Frames, NEW o, NEW i, NEW d, NEW first, Call(g, o, i, d, first)
      PROVE  res'[f] = NoData
  <2>1. pc[g] = "idle" /\ op' = [op EXCEPT ![g] = o] /\ res' = res
        /\ pc' = [pc EXCEPT ![g] = first]
    BY <1>5 DEF Call, Goto
  <2>2. pc[f] # "done" \/ op[f] = "add"
    BY <1>1, <2>1
  <2>3. QED
    BY <1>2, <2>1, <2>2
<1>6. ASSUME NEW g \in Frames, Step(g), g # f
      PROVE  res'[f] = NoData
  <2>1. res'[f] = res[f]
    BY <1>1, <1>6, Zenon DEF Step, Kmalloc, KmallocFails, Acquire, TrylockFails,
      HashAdd, HashDel, Search, Release, FinishDel, FinishData, Respond
  <2>2. pc'[f] = pc[f] /\ op'[f] = op[f]
    BY <1>1, <1>6 DEF Step, Kmalloc, KmallocFails, Acquire, TrylockFails,
      HashAdd, HashDel, Search, Release, FinishDel, FinishData, Respond, Goto,
      callVars
  <2>3. QED
    BY <1>2, <2>1, <2>2
<1>7. CASE Respond(f)
  BY <1>1, <1>7 DEF Respond
<1>8. CASE \/ Kmalloc(f) \/ KmallocFails(f) \/ Acquire(f) \/ HashAdd(f)
           \/ HashDel(f) \/ Search(f)
  <2>1. res' = res /\ pc[f] \in {"alloc", "lock", "body"}
    BY <1>8 DEF Kmalloc, KmallocFails, Acquire, HashAdd, HashDel, Search, Goto
  <2>2. QED
    BY <1>2, <2>1
<1>9. CASE Release(f)
  <2>1. op[f] # "query"
    BY <1>1, <1>9 DEF Release, Goto, callVars
  <2>2. res'[f] = res[f] /\ pc[f] = "unlock"
    BY <1>1, <1>9, <2>1 DEF Release, Goto
  <2>3. QED
    BY <1>2, <2>2
<1>10. CASE TrylockFails(f) \/ FinishDel(f) \/ FinishData(f)
  BY <1>1, <1>10 DEF TrylockFails, FinishDel, FinishData, Goto, callVars
<1>11. QED
  BY <1>3, <1>4, <1>5, <1>6, <1>7, <1>8, <1>9, <1>10
    DEF Next, Step, CallAdd, CallQuery, CallDel, CallData, Frames

\* Nobody else writes to the node that is about to be added.
LEMMA NextPrepared ==
  ASSUME IInv, Prepared, [Next]_vars
  PROVE  Prepared'
<1> SUFFICES ASSUME NEW f \in Frames, op'[f] = "add", pc'[f] \in {"lock", "body"}
             PROVE  ndata'[node'[f]] = arg'[f]
  BY DEF Prepared
<1>1. /\ pc \in [Frames -> Places] /\ op \in [Frames -> Operations]
      /\ DOMAIN node = Frames /\ DOMAIN arg = Frames
      /\ ndata \in [Nodes -> Data \cup {NoData, Freed}]
      /\ \A g \in Frames : pc[g] = "idle" <=> op[g] = "none"
  BY DEF IInv, CoreType, OpInv, Places, Operations
<1>2. ASSUME op[f] = "add", pc[f] \in {"lock", "body"}
      PROVE  node[f] \in Nodes /\ Owns(f, node[f]) /\ ndata[node[f]] = arg[f]
  BY <1>2 DEF IInv, OpInv, Owns, Prepared
<1>3. CASE UNCHANGED vars
  BY <1>2, <1>3 DEF vars
<1>4. CASE \E c \in CPUs : Switch(c) \/ Reap(c)
  BY <1>2, <1>4 DEF Switch, Reap, callVars
<1>5. ASSUME NEW g \in Frames, NEW o, NEW i, NEW d, NEW first, Call(g, o, i, d, first),
             o = "add" => first = "alloc"
      PROVE  ndata'[node'[f]] = arg'[f]
  <2>1. /\ op' = [op EXCEPT ![g] = o] /\ pc' = [pc EXCEPT ![g] = first]
        /\ arg' = [arg EXCEPT ![g] = d] /\ UNCHANGED <<ndata, node>>
    BY <1>5 DEF Call, Goto
  <2>2. g # f
    BY <1>1, <1>5, <2>1
  <2>3. QED
    BY <1>1, <1>2, <2>1, <2>2
<1>6. ASSUME NEW g \in Frames, Kmalloc(g)
      PROVE  ndata'[node'[f]] = arg'[f]
  <2>1. PICK n \in Nodes :
          /\ ndata[n] = Freed /\ ndata' = [ndata EXCEPT ![n] = arg[g]]
          /\ node' = [node EXCEPT ![g] = n]
    BY <1>6 DEF Kmalloc
  <2>2. op' = op /\ arg' = arg /\ pc' = [pc EXCEPT ![g] = "lock"]
    BY <1>6 DEF Kmalloc, Goto, callVars
  <2>3. CASE g = f
    BY <1>1, <2>1, <2>2, <2>3
  <2>4. CASE g # f
    <3>1. op[f] = "add" /\ pc[f] \in {"lock", "body"} /\ node'[f] = node[f]
      BY <1>1, <2>1, <2>2, <2>4
    <3>2. ndata[node[f]] # Freed
      BY <1>2, <3>1 DEF IInv, NodeInv
    <3>3. QED
      BY <1>1, <1>2, <2>1, <2>2, <3>1, <3>2
  <2>5. QED
    BY <2>3, <2>4
<1>7. ASSUME NEW g \in Frames, FinishDel(g)
      PROVE  ndata'[node'[f]] = arg'[f]
  <2>1. /\ op[g] = "del" /\ pc[g] = "finish" /\ pc' = [pc EXCEPT ![g] = "done"]
        /\ UNCHANGED <<op, arg, node>>
        /\ ndata' = ndata \/ ndata' = [ndata EXCEPT ![node[g]] = Freed]
    BY <1>7 DEF FinishDel, Goto, callVars
  <2>2. g # f /\ op[f] = "add" /\ pc[f] \in {"lock", "body"}
    BY <1>1, <2>1
  <2>3. node[g] # node[f]
    <3> SUFFICES ASSUME node[g] = node[f] PROVE FALSE
      OBVIOUS
    <3>1. Owns(g, node[f])
      BY <2>1 DEF Owns
    <3>2. QED
      BY <1>2, <2>2, <3>1 DEF IInv, NodeInv
  <2>4. QED
    BY <1>1, <1>2, <2>1, <2>2, <2>3
<1>8. ASSUME NEW g \in Frames, Respond(g)
      PROVE  ndata'[node'[f]] = arg'[f]
  <2>1. /\ op' = [op EXCEPT ![g] = "none"] /\ pc' = [pc EXCEPT ![g] = "idle"]
        /\ arg' = [arg EXCEPT ![g] = NoData] /\ node' = [node EXCEPT ![g] = NoNode]
        /\ ndata' = ndata
    BY <1>8 DEF Respond, Goto
  <2>2. g # f
    BY <1>1, <2>1
  <2>3. QED
    BY <1>1, <1>2, <2>1, <2>2
<1>9. ASSUME NEW g \in Frames,
             \/ KmallocFails(g) \/ Acquire(g) \/ TrylockFails(g) \/ HashAdd(g)
             \/ HashDel(g) \/ Search(g) \/ Release(g) \/ FinishData(g)
      PROVE  ndata'[node'[f]] = arg'[f]
  <2>1. /\ UNCHANGED <<op, arg, ndata>>
        /\ \A h \in Frames : h # g => pc'[h] = pc[h] /\ node'[h] = node[h]
    BY <1>1, <1>9 DEF KmallocFails, Acquire, TrylockFails, HashAdd, HashDel,
      Search, Release, FinishData, Goto, callVars
  <2>2. CASE g # f
    BY <1>2, <2>1, <2>2
  <2>3. CASE g = f
    <3>1. Acquire(f)
      BY <1>1, <1>9, <2>1, <2>3 DEF KmallocFails, TrylockFails, HashAdd, HashDel,
        Search, Release, FinishData, Goto
    <3>2. pc[f] = "lock" /\ node' = node
      BY <3>1 DEF Acquire, Goto
    <3>3. QED
      BY <1>2, <2>1, <3>2
  <2>4. QED
    BY <2>2, <2>3
<1>10. ASSUME NEW c \in CPUs,
              CallAdd(c) \/ CallQuery(c) \/ CallDel(c) \/ CallData(c)
       PROVE  ndata'[node'[f]] = arg'[f]
  <2>1. <<c, "task">> \in Frames /\ <<c, "nmi">> \in Frames
    BY DEF Frames
  <2>2. CASE CallAdd(c)
    BY <1>5, <2>1, <2>2 DEF CallAdd
  <2>3. CASE CallQuery(c) \/ CallDel(c) \/ CallData(c)
    <3>1. PICK g \in Frames, o \in {"query", "del", "data"} :
            \E i : Call(g, o, i, NoData, "lock")
      BY <2>1, <2>3 DEF CallQuery, CallDel, CallData
    <3>2. PICK i : Call(g, o, i, NoData, "lock")
      BY <3>1
    <3>3. QED
      BY <1>5, <3>2
  <2>4. QED
    BY <1>10, <2>2, <2>3
<1>11. QED
  BY <1>3, <1>4, <1>6, <1>7, <1>8, <1>9, <1>10 DEF Next, Step

-----------------------------------------------------------------------------

LEMMA InitIsTrackerInit == Init => Abs!Init /\ NoResultYet /\ Prepared
<1> SUFFICES ASSUME Init PROVE Abs!Init /\ NoResultYet /\ Prepared
  OBVIOUS
<1>1. NoResultYet /\ Prepared
  BY DEF Init, NoResultYet, Prepared
<1>2. absSt = [f \in Frames |-> "idle"]
  BY DEF Init, absSt
<1>3. absEntries = [i \in Ids |-> <<>>]
  <2>1. \A i \in Ids : chain[i] = <<>>
    BY DEF Init
  <2>2. \A i \in Ids : [k \in 1 .. Len(chain[i]) |-> ndata[chain[i][k]]] = <<>>
    BY <2>1
  <2>3. QED
    BY <2>2 DEF absEntries
<1>4. absRes = [f \in Frames |-> NoData]
  <2>1. \A f \in Frames : pc[f] = "idle" /\ res[f] = NoData
    BY DEF Init
  <2>2. \A f \in Frames : absRes[f] = NoData
    <3> SUFFICES ASSUME NEW f \in Frames PROVE absRes[f] = NoData
      OBVIOUS
    <3>1. ~Holds(f) /\ ~(pc[f] = "unlock" /\ op[f] = "query")
      BY <2>1 DEF Holds
    <3>2. absRes[f] = res[f]
      BY <3>1, AbsResults, Zenon
    <3>3. QED
      BY <2>1, <3>2
  <2>3. absRes = [f \in Frames |-> absRes[f]]
    BY Zenon DEF absRes
  <2>4. QED
    BY <2>2, <2>3
<1>5. absOver = {}
  BY DEF Init, absOver, Frames
<1>6. QED
  BY <1>1, <1>2, <1>3, <1>4, <1>5 DEF Init, Abs!Init

LEMMA StepIsTrackerStep ==
  RefInv /\ [Next]_vars => [Abs!Next]_(Abs!vars)
<1> SUFFICES ASSUME RefInv, [Next]_vars PROVE Abs!Next \/ UNCHANGED Abs!vars
  OBVIOUS
<1>1. CASE UNCHANGED vars
  <2>1. UNCHANGED <<reaped, chain, ndata, op, id, arg, pc, node, res>>
    BY <1>1 DEF vars
  <2>2. absEntries' = absEntries /\ absSt' = absSt
    BY <2>1 DEF absEntries, absSt, EffectDone
  <2>3. absRes' = absRes
    BY <2>1, Zenon DEF absRes, Found
  <2>4. QED
    BY <2>1, <2>2, <2>3, OverStays DEF Abs!vars
<1>2. ASSUME NEW c \in CPUs,
             \/ CallAdd(c) \/ CallQuery(c) \/ CallDel(c) \/ CallData(c)
             \/ Reap(c) \/ Switch(c)
      PROVE  Abs!Next \/ UNCHANGED Abs!vars
  <2>1. Abs!Next \/ Abs!Reap
    BY <1>2, CallIsCall, SwitchIsReap
  <2>2. QED
    BY <2>1, Zenon DEF Abs!Next
<1>3. ASSUME NEW f \in Frames, Step(f)
      PROVE  Abs!Next \/ UNCHANGED Abs!vars
  <2>1. CASE Kmalloc(f) \/ Acquire(f) \/ Release(f) \/ FinishDel(f) \/ FinishData(f)
    <3>1. Abs!Outdate \/ UNCHANGED Abs!vars
      BY <2>1, KmallocIsOutdate, AcquireIsNothing, ReleaseIsNothing, FinishIsOutdate
    <3>2. QED
      BY <3>1, Zenon DEF Abs!Next
  <2>2. CASE \/ KmallocFails(f) \/ TrylockFails(f) \/ HashAdd(f) \/ HashDel(f)
             \/ Search(f) \/ Respond(f)
    <3>1. \/ Abs!AddFails(f) \/ Abs!Query(f) \/ Abs!QueryData(f) \/ Abs!Add(f)
          \/ Abs!Del(f) \/ Abs!Respond(f)
      BY <2>2, KmallocFailsIsAddFails, TrylockFailsIsMiss, HashAddIsAdd,
        HashDelIsDel, SearchIsQuery, RespondIsRespond
    <3>2. QED
      BY <3>1, Zenon DEF Abs!Next
  <2>3. QED
    BY <1>3, <2>1, <2>2 DEF Step
<1>4. QED
  BY <1>1, <1>2, <1>3 DEF Next

\* For any CPUs, pids, nodes and data, the four operations of the hash tracker
\* are atomic: a registration pushes, a deletion takes off the newest, a query
\* misses or answers for one instant between its call and its return.  The data
\* that a PMI on a reaped task gets is left open, as the node it found may be
\* freed, and used again, before the read.
THEOREM HashImplementsTracker == Spec => ImplementsTracker
<1>1. Init => ResInv
  BY DEF Init, ResInv, Results
<1>2. Init => Abs!Init /\ NoResultYet /\ Prepared
  BY InitIsTrackerInit
<1>3. IInv /\ ResInv /\ [Next]_vars => ResInv'
  BY NextResult
<1>4. IInv /\ ResInv /\ NoResultYet /\ [Next]_vars => NoResultYet'
  BY NextNoResultYet
<1>5. IInv /\ Prepared /\ [Next]_vars => Prepared'
  BY NextPrepared
<1>6. IInv /\ ResInv /\ NoResultYet /\ Prepared /\ [Next]_vars
        => [Abs!Next]_(Abs!vars)
  BY StepIsTrackerStep DEF RefInv
<1>7. QED
  BY <1>1, <1>2, <1>3, <1>4, <1>5, <1>6, HashTrackerInvariant, PTL
    DEF Spec, ImplementsTracker, Abs!Spec
=============================================================================
