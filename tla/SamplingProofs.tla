--------------------------- MODULE SamplingProofs ---------------------------
(***************************************************************************)
(* Proofs about who owns a proc_data, for any tasks, pids and data.        *)
(***************************************************************************)
EXTENDS Sampling, TLAPS

Keys == Tasks \cup Pids
Forking == {"fork_query", "fork_attach", "fork_add", "fork_wake"}

\* A pid is in use until release_task.  In a clean history it has no new task
\* as long as the old one executes.
HasPid(t) ==
  \/ life[t] \in {"new", "live", "zombie"}
  \/ clean /\ life[t] = "reaped"

\* Where a task can be in each part of its life.
LifeInv ==
  \A t \in Tasks :
    /\ life[t] \in {"none", "new"} => fr[t] = "run"
    /\ life[t] \in {"reaped", "zombie", "dead"} => fr[t] = "tail"
    /\ pmi[t] # Null => life[t] \in {"live", "reaped"}

\* A child sleeps until its parent wakes it up, and has one parent.
KidInv ==
  \A t \in Tasks : fr[t] \in Forking =>
    /\ life[kid[t]] = "new"
    /\ \A u \in Tasks : fr[u] \in Forking /\ kid[u] = kid[t] => u = t

\* Pids identify the tasks that have them.
PidInv ==
  \A t, u \in Tasks :
    HasPid(t) /\ HasPid(u) /\ pid[t] = pid[u] => t = u

\* A tracker uses keys of one sort only.
KeyInv ==
  /\ tracker = "HASH" => \A t \in Tasks : table[t] = <<>>
  /\ tracker # "HASH" => \A p \in Pids : table[p] = <<>>

\* No entry is in a chain twice.
Distinct(s) ==
  \A x, y \in DOMAIN s : s[x] = s[y] /\ s[x] # Null => x = y

\* SoleOwner, in terms of the data that is in a chain.
OwnInv ==
  /\ \A k \in Keys : Distinct(table[k])
  /\ \A d \in Data, j, k \in Keys :
       InEntries(d, j) /\ InEntries(d, k) => j = k
  /\ \A d \in Data, k \in Keys : InEntries(d, k) =>
       /\ mem[d] = "allocated" /\ clist[d] # "freed" /\ writer.data # d
       /\ \A t \in Tasks : hand[t] # d
  /\ \A t \in Tasks : hand[t] # Null =>
       /\ mem[hand[t]] = "allocated" /\ writer.data # hand[t]
       /\ \A u \in Tasks : hand[u] = hand[t] => u = t
  /\ writer.data # Null => mem[writer.data] = "allocated"

\* What is about to be added is intact and meant for the task it is added for.
AddInv ==
  /\ \A t \in Tasks : hand[t] # Null /\ fr[t] = "fork_add" =>
       forTask[hand[t]] = kid[t] /\ clist[hand[t]] # "freed"
  /\ writer # NoJob =>
       /\ forTask[writer.data] = writer.task /\ clist[writer.data] # "freed"
       /\ life[writer.task] # "none"

\* A late store has put d on the stack of another task: its own task has left
\* its CPU for good.
Strayed(d) ==
  /\ ~clean /\ tracker = "STACK"
  /\ forTask[d] \in Tasks /\ OffCpu(forTask[d])

\* Only the first entry of a chain can be data.
OnlyFirst(s) == \A x \in DOMAIN s : x # 1 => s[x] = Null

\* An entry is found by the task it is for: with the hash tracker in a clean
\* history, with the stack tracker unless it strayed, with the perf-event
\* tracker always.  In a clean history a key has no other data.
EntryInv ==
  /\ tracker # "HASH" =>
       \A d \in Data, k \in Tasks :
         InEntries(d, k) => forTask[d] = k \/ Strayed(d)
  /\ clean => \A k \in Keys : OnlyFirst(table[k])
  /\ clean =>
       \A d \in Data, k \in Keys : InEntries(d, k) =>
         \E t \in Tasks : /\ forTask[d] = t /\ Key(t) = k
                          /\ life[t] # "none" /\ ~PastExit(t)

\* Nobody will free d.
Unowned(d) ==
  /\ \A k \in Keys : ~InEntries(d, k)
  /\ \A t \in Tasks : hand[t] # d
  /\ writer.data # d

\* What a PMI found stays an entry, or is overwritten and forgotten, while the
\* task waits for the PMI.
PmiInv ==
  \A t \in Tasks : pmi[t] # Null =>
    /\ mem[pmi[t]] # "unused"
    /\ \/ /\ mem[pmi[t]] = "allocated" /\ clist[pmi[t]] # "freed"
          /\ InEntries(pmi[t], Key(t)) \/ Unowned(pmi[t])
       \/ tracker = "HASH" /\ PidTaken(t)

\* What a PMI found is for the task, or strayed to it, or is stale.
SampleInv ==
  \A t \in Tasks : pmi[t] # Null =>
    \/ forTask[pmi[t]] = t
    \/ ~clean /\ tracker = "HASH"
    \/ Strayed(pmi[t])

IInv ==
  /\ TypeOK /\ LifeInv /\ KidInv /\ PidInv /\ KeyInv /\ OwnInv /\ AddInv
  /\ EntryInv /\ PmiInv /\ SampleInv /\ NothingLost

-----------------------------------------------------------------------------
(***************************************************************************)
(* The chains of the tracker.                                              *)
(***************************************************************************)

\* A task's key is one of the table's.
LEMMA KeyOfTask == ASSUME TypeOK, NEW t \in Tasks PROVE Key(t) \in Keys
  BY DEF TypeOK, Key, Keys

\* The newest entry of a task is one of its entries.
LEMMA DataIsEntry ==
  ASSUME TypeOK, NEW t \in Tasks
  PROVE  /\ DataOf(t) \in Data \cup {Null}
         /\ DataOf(t) # Null => InEntries(DataOf(t), Key(t))
<1>1. table[Key(t)] \in Seq(Data \cup {Null})
  BY KeyOfTask DEF TypeOK, Keys
<1>2. CASE table[Key(t)] = <<>>
  BY <1>2 DEF DataOf, Tracked
<1>3. CASE table[Key(t)] # <<>>
  <2>1. DataOf(t) = table[Key(t)][1] /\ 1 \in DOMAIN table[Key(t)]
    BY <1>1, <1>3 DEF DataOf, Tracked
  <2> QED
    BY <1>1, <2>1 DEF InEntries
<1> QED
  BY <1>2, <1>3

\* The data of a task is its first entry, if no other can be data.
LEMMA OnlyEntry ==
  ASSUME TypeOK, NEW t \in Tasks, NEW d \in Data, InEntries(d, Key(t)),
         OnlyFirst(table[Key(t)])
  PROVE  d = DataOf(t)
<1>1. table[Key(t)] \in Seq(Data \cup {Null})
  BY KeyOfTask DEF TypeOK, Keys
<1>2. PICK x \in DOMAIN table[Key(t)] : table[Key(t)][x] = d
  BY DEF InEntries
<1>3. x = 1 /\ table[Key(t)] # <<>>
  BY <1>1, <1>2, NullAssumption DEF OnlyFirst
<1> QED
  BY <1>1, <1>2, <1>3 DEF DataOf, Tracked

\* An addition brings one entry at most, to one key, and loses others at most.
LEMMA AddedChain ==
  ASSUME TypeOK, NEW t \in Tasks, NEW d \in Data \cup {Null},
         Distinct(table[Key(t)]), d # Null => ~InEntries(d, Key(t)),
         NEW new \in Added(t, d)
  PROVE  /\ new \in Seq(Data \cup {Null})
         /\ Distinct(new)
         /\ \A x \in DOMAIN new : new[x] = d \/ InEntries(new[x], Key(t))
         /\ ~Tracked(t) /\ ~OffCpu(t) => new = <<d>>
<1> DEFINE old == table[Key(t)]
<1>1. old \in Seq(Data \cup {Null})
  BY KeyOfTask DEF TypeOK, Keys
<1>2. CASE new = old
  <2>1. ~Tracked(t) /\ ~OffCpu(t) => new = <<d>>
    <3>1. SUFFICES ASSUME ~Tracked(t), ~OffCpu(t) PROVE new = <<d>>
      OBVIOUS
    <3>2. old = <<>>
      BY <3>1 DEF Tracked
    <3>3. tracker \in {"HASH", "STACK", "PERF"}
      BY TrackersAssumption DEF TypeOK
    <3>4. <<d>> \o <<>> = <<d>>
      OBVIOUS
    <3> QED
      BY <3>1, <3>2, <3>3, <3>4 DEF Added
  <2> QED
    BY <1>1, <1>2, <2>1 DEF InEntries
<1>3. CASE new = <<d>>
  BY <1>3 DEF Distinct
<1>4. CASE new = <<d>> \o old
  <2>1. /\ new \in Seq(Data \cup {Null}) /\ Len(new) = Len(old) + 1
        /\ new[1] = d
        /\ \A x \in 2 .. Len(new) :
             x - 1 \in 1 .. Len(old) /\ new[x] = old[x - 1]
    BY <1>1, <1>4
  <2>2. /\ DOMAIN new = 1 .. Len(new) /\ DOMAIN old = 1 .. Len(old)
        /\ Len(old) \in Nat
    BY <1>1, <2>1
  <2>3. \A x \in DOMAIN new : x = 1 \/ (x \in 2 .. Len(new))
    BY <2>1, <2>2
  <2>4. \A x \in DOMAIN new : new[x] = d \/ InEntries(new[x], Key(t))
    BY <2>1, <2>2, <2>3 DEF InEntries
  <2>5. Distinct(new)
    <3>1. SUFFICES ASSUME NEW x \in DOMAIN new, NEW y \in DOMAIN new,
                          new[x] = new[y], new[x] # Null
                   PROVE  x = y
      BY DEF Distinct
    <3>2. CASE x = 1 \/ y = 1
      BY <2>1, <2>2, <2>3, <3>1, <3>2 DEF InEntries
    <3>3. CASE x # 1 /\ y # 1
      <4>1. /\ x \in Nat /\ y \in Nat
            /\ x - 1 \in DOMAIN old /\ y - 1 \in DOMAIN old
            /\ old[x - 1] = old[y - 1] /\ old[x - 1] # Null
        <5>1. x \in 2 .. Len(new) /\ y \in 2 .. Len(new)
          BY <2>3, <3>1, <3>3
        <5>2. /\ x - 1 \in 1 .. Len(old) /\ new[x] = old[x - 1]
              /\ y - 1 \in 1 .. Len(old) /\ new[y] = old[y - 1]
          BY <2>1, <5>1
        <5>3. x \in Nat /\ y \in Nat
          BY <2>1, <2>2, <5>1
        <5>4. old[x - 1] = old[y - 1] /\ old[x - 1] # Null
          BY <3>1, <5>2
        <5> QED
          BY <2>2, <5>2, <5>3, <5>4
      <4>2. x - 1 = y - 1
        BY <4>1 DEF Distinct
      <4> QED
        BY <4>1, <4>2
    <3> QED
      BY <3>2, <3>3
  <2>6. old = <<>> => new = <<d>>
    BY <1>4
  <2> QED
    BY <2>1, <2>4, <2>5, <2>6 DEF Tracked
<1>5. CASE new = Append(old, d) /\ old # <<>>
  <2>1. /\ new \in Seq(Data \cup {Null}) /\ Len(new) = Len(old) + 1
        /\ Len(old) \in Nat /\ DOMAIN old = 1 .. Len(old)
        /\ DOMAIN new = 1 .. Len(old) + 1
        /\ new[Len(old) + 1] = d
        /\ \A x \in 1 .. Len(old) : new[x] = old[x]
    BY <1>1, <1>5
  <2>2. \A x \in DOMAIN new :
          \/ x = Len(old) + 1 /\ new[x] = d
          \/ x \in DOMAIN old /\ new[x] = old[x]
    BY <2>1
  <2>3. \A x \in DOMAIN new : new[x] = d \/ InEntries(new[x], Key(t))
    BY <2>2 DEF InEntries
  <2>4. Distinct(new)
    BY <2>2 DEF Distinct, InEntries
  <2> QED
    BY <1>5, <2>1, <2>3, <2>4 DEF Tracked
<1>6. \/ new = old \/ new = <<d>> \/ new = <<d>> \o old
      \/ new = Append(old, d) /\ old # <<>>
  BY TrackersAssumption DEF Added, TypeOK
<1> QED
  BY <1>2, <1>3, <1>4, <1>5, <1>6

\* What tracker_add makes of the table.
LEMMA AddTable ==
  ASSUME TypeOK, OwnInv, NEW t \in Tasks, NEW d \in Data \cup {Null},
         d # Null => \A k \in Keys : ~InEntries(d, k), NEW new \in Added(t, d),
         table' = [table EXCEPT ![Key(t)] = new]
  PROVE  /\ table' \in [Keys -> Seq(Data \cup {Null})]
         /\ \A k \in Keys : Distinct(table'[k])
         /\ \A k \in Keys : k # Key(t) => table'[k] = table[k]
         /\ \A e \in Data, k \in Keys :
              InEntries(e, k)' => InEntries(e, k) \/ (e = d /\ k = Key(t))
         /\ ~Tracked(t) /\ ~OffCpu(t) => table'[Key(t)] = <<d>>
<1>1. Key(t) \in Keys
  BY KeyOfTask
<1>2. /\ new \in Seq(Data \cup {Null}) /\ Distinct(new)
      /\ \A x \in DOMAIN new : new[x] = d \/ InEntries(new[x], Key(t))
      /\ ~Tracked(t) /\ ~OffCpu(t) => new = <<d>>
  BY <1>1, AddedChain DEF OwnInv
<1>3. table \in [Keys -> Seq(Data \cup {Null})]
  BY DEF TypeOK, Keys
<1>4. \A k \in Keys : table'[k] = IF k = Key(t) THEN new ELSE table[k]
  BY <1>3
<1>5. \A k \in Keys : Distinct(table'[k])
  BY <1>2, <1>4 DEF OwnInv
<1>6. ASSUME NEW e \in Data, NEW k \in Keys, InEntries(e, k)'
      PROVE  InEntries(e, k) \/ (e = d /\ k = Key(t))
  <2>1. PICK x \in DOMAIN table'[k] : table'[k][x] = e
    BY <1>6 DEF InEntries
  <2> QED
    BY <1>2, <1>4, <2>1 DEF InEntries
<1>7. table' \in [Keys -> Seq(Data \cup {Null})]
  BY <1>1, <1>2, <1>3
<1> QED
  BY <1>1, <1>2, <1>4, <1>5, <1>6, <1>7

\* What a store to the stack of another task makes of the table.
LEMMA StoreTable ==
  ASSUME TypeOK, OwnInv, NEW u \in Tasks, NEW d \in Data \cup {Null},
         table' = [table EXCEPT ![u] = <<d>>]
  PROVE  /\ table' \in [Keys -> Seq(Data \cup {Null})]
         /\ \A k \in Keys : Distinct(table'[k])
         /\ \A k \in Keys : k # u => table'[k] = table[k]
         /\ \A e \in Data, k \in Keys :
              InEntries(e, k)' => InEntries(e, k) \/ (e = d /\ k = u)
<1>1. table \in [Keys -> Seq(Data \cup {Null})] /\ u \in Keys
  BY DEF TypeOK, Keys
<1>2. \A k \in Keys : table'[k] = IF k = u THEN <<d>> ELSE table[k]
  BY <1>1
<1>3. Distinct(<<d>>)
  BY DEF Distinct
<1>4. \A k \in Keys : Distinct(table'[k])
  BY <1>2, <1>3 DEF OwnInv
<1>5. table' \in [Keys -> Seq(Data \cup {Null})]
  BY <1>1
<1> QED
  BY <1>2, <1>4, <1>5 DEF InEntries

\* What an event of the task's own makes of the table.
LEMMA OpenTable ==
  ASSUME TypeOK, OwnInv, NEW t \in Tasks,
         table' = [table EXCEPT ![t] = Append(@, Null)]
  PROVE  /\ table' \in [Keys -> Seq(Data \cup {Null})]
         /\ \A k \in Keys : Distinct(table'[k])
         /\ \A k \in Keys : k # t => table'[k] = table[k]
         /\ \A k \in Keys : OnlyFirst(table[k]) => OnlyFirst(table'[k])
         /\ \A e \in Data, k \in Keys : InEntries(e, k)' <=> InEntries(e, k)
<1> DEFINE old == table[t]
           new == table'[t]
<1>1. /\ table \in [Keys -> Seq(Data \cup {Null})] /\ t \in Keys
      /\ old \in Seq(Data \cup {Null}) /\ Distinct(old)
  BY DEF TypeOK, Keys, OwnInv
<1>2. /\ \A k \in Keys : k # t => table'[k] = table[k]
      /\ new = Append(old, Null)
      /\ table' \in [Keys -> Seq(Data \cup {Null})]
  BY <1>1
<1>3. /\ Len(old) \in Nat /\ DOMAIN old = 1 .. Len(old)
      /\ DOMAIN new = 1 .. Len(old) + 1 /\ new[Len(old) + 1] = Null
      /\ \A x \in 1 .. Len(old) : new[x] = old[x]
  BY <1>1, <1>2
<1>4. /\ \A x \in DOMAIN new :
           new[x] = Null \/ (x \in DOMAIN old /\ new[x] = old[x])
      /\ \A x \in DOMAIN old : x \in DOMAIN new /\ new[x] = old[x]
  BY <1>3
<1> HIDE DEF old, new
<1>5. Distinct(new) /\ (OnlyFirst(old) => OnlyFirst(new))
  BY <1>1, <1>4 DEF Distinct, OnlyFirst
<1>6. ASSUME NEW e \in Data, NEW k \in Keys
      PROVE  InEntries(e, k)' <=> InEntries(e, k)
  <2>1. e # Null
    BY NullAssumption
  <2>2. CASE k = t
    BY <1>4, <2>1, <2>2 DEF InEntries, old, new
  <2>3. CASE k # t
    BY <1>2, <2>3 DEF InEntries
  <2> QED
    BY <2>2, <2>3
<1> QED
  BY <1>2, <1>5, <1>6 DEF OwnInv, old, new

\* What tracker_del makes of the table.
LEMMA DelTable ==
  ASSUME TypeOK, OwnInv, NEW t \in Tasks, TrackerDel(t)
  PROVE  /\ table' \in [Keys -> Seq(Data \cup {Null})]
         /\ \A k \in Keys : Distinct(table'[k])
         /\ \A k \in Keys : k # Key(t) => table'[k] = table[k]
         /\ \A k \in Keys : OnlyFirst(table[k]) => OnlyFirst(table'[k])
         /\ \A e \in Data, k \in Keys :
              InEntries(e, k)' => InEntries(e, k) /\ e # DataOf(t)
         /\ \A e \in Data, k \in Keys :
              InEntries(e, k)' /\ OnlyFirst(table[k]) => k # Key(t)
<1> DEFINE old == table[Key(t)]
           new == table'[Key(t)]
<1>1. Key(t) \in Keys
  BY KeyOfTask
<1>2. table \in [Keys -> Seq(Data \cup {Null})]
  BY DEF TypeOK, Keys
<1>3. old \in Seq(Data \cup {Null}) /\ Distinct(old)
  BY <1>1, <1>2 DEF OwnInv
<1>4. /\ \A k \in Keys : k # Key(t) => table'[k] = table[k]
      /\ new = IF old # <<>> THEN Tail(old) ELSE old
      /\ table' \in [Keys -> Seq(Data \cup {Null})]
  BY <1>1, <1>2 DEF TrackerDel, Tracked
<1>5. CASE old = <<>>
  <2>1. table' = table
    BY <1>1, <1>2, <1>5 DEF TrackerDel, Tracked
  <2>2. DataOf(t) = Null
    BY <1>5 DEF DataOf, Tracked
  <2>3. \A e \in Data, k \in Keys :
          InEntries(e, k)' => InEntries(e, k) /\ k # Key(t)
    BY <1>5, <2>1 DEF InEntries
  <2> QED
    BY <1>2, <1>5, <2>1, <2>2, <2>3, NullAssumption DEF OwnInv
<1>6. CASE old # <<>>
  <2>1. /\ new \in Seq(Data \cup {Null}) /\ Len(new) = Len(old) - 1
        /\ \A x \in 1 .. Len(new) :
             x + 1 \in 1 .. Len(old) /\ new[x] = old[x + 1]
    BY <1>3, <1>4, <1>6
  <2>2. /\ DOMAIN new = 1 .. Len(new) /\ DOMAIN old = 1 .. Len(old)
        /\ Len(old) \in Nat \ {0} /\ Len(new) \in Nat
    BY <1>3, <1>6, <2>1
  <2>3. DataOf(t) = old[1]
    BY <1>3, <1>6 DEF DataOf, Tracked
  <2> HIDE DEF new, old
  <2>4. Distinct(new)
    <3>1. SUFFICES ASSUME NEW x \in DOMAIN new, NEW y \in DOMAIN new,
                          new[x] = new[y], new[x] # Null
                   PROVE  x = y
      BY DEF Distinct
    <3>2. /\ x \in Nat /\ y \in Nat
          /\ x + 1 \in DOMAIN old /\ y + 1 \in DOMAIN old
      BY <2>1, <2>2
    <3>3. old[x + 1] = old[y + 1] /\ old[x + 1] # Null
      BY <2>1, <2>2, <3>1
    <3>4. x + 1 = y + 1
      BY <1>3, <3>2, <3>3 DEF Distinct
    <3> QED
      BY <3>2, <3>4
  <2>5. ASSUME NEW x \in DOMAIN new, new[x] # Null
        PROVE  new[x] # old[1] /\ \E y \in DOMAIN old : old[y] = new[x]
    <3>1. x \in Nat \ {0} /\ x + 1 \in DOMAIN old /\ 1 \in DOMAIN old
      BY <2>1, <2>2
    <3>2. new[x] = old[x + 1]
      BY <2>1, <2>2
    <3>3. old[x + 1] = old[1] => x + 1 = 1
      BY <1>3, <2>5, <3>1, <3>2 DEF Distinct
    <3> QED
      BY <3>1, <3>2, <3>3
  <2>6. ASSUME OnlyFirst(old), NEW x \in DOMAIN new PROVE new[x] = Null
    <3>1. x \in 1 .. Len(new) /\ x \in Nat
      BY <2>2, <2>6
    <3>2. x + 1 \in DOMAIN old /\ new[x] = old[x + 1] /\ x + 1 # 1
      BY <2>1, <2>2, <3>1
    <3> QED
      BY <2>6, <3>2 DEF OnlyFirst
  <2>7. \A k \in Keys : Distinct(table'[k])
    BY <1>4, <2>4 DEF OwnInv, new
  <2>8. ASSUME NEW e \in Data, NEW k \in Keys, InEntries(e, k)'
        PROVE  InEntries(e, k) /\ e # DataOf(t)
    <3>1. PICK x \in DOMAIN table'[k] : table'[k][x] = e
      BY <2>8 DEF InEntries
    <3>2. e # Null
      BY NullAssumption
    <3>3. CASE k = Key(t)
      BY <2>3, <2>5, <3>1, <3>2, <3>3 DEF InEntries, new, old
    <3>4. CASE k # Key(t)
      <4>1. InEntries(e, k)
        BY <1>4, <3>1, <3>4 DEF InEntries
      <4>2. DataOf(t) # e
        BY <1>1, <3>2, <3>4, <4>1, DataIsEntry DEF OwnInv
      <4> QED
        BY <4>1, <4>2
    <3> QED
      BY <3>3, <3>4
  <2>9. \A k \in Keys : OnlyFirst(table[k]) => OnlyFirst(table'[k])
    <3>1. OnlyFirst(old) => OnlyFirst(new)
      BY <2>6 DEF OnlyFirst
    <3> QED
      BY <1>4, <3>1 DEF new, old
  <2>10. ASSUME NEW e \in Data, NEW k \in Keys,
                InEntries(e, k)', OnlyFirst(table[k])
         PROVE  k # Key(t)
    BY <2>6, <2>10, NullAssumption DEF InEntries, new, old
  <2> QED
    BY <1>4, <2>7, <2>8, <2>9, <2>10
<1> QED
  BY <1>5, <1>6

-----------------------------------------------------------------------------
(***************************************************************************)
(* The steps, one conjunct of the invariant after the other.               *)
(***************************************************************************)

\* A step that leaves the table alone leaves the entries alone.
LEMMA SameEntries ==
  UNCHANGED table => \A d, k : InEntries(d, k)' <=> InEntries(d, k)
  BY DEF InEntries

\* Tasks are no keys of the hash tracker, and pids of no other.
LEMMA KeySort ==
  ASSUME TypeOK, NEW t \in Tasks
  PROVE  /\ tracker = "HASH" => \A k \in Tasks : k # Key(t)
         /\ tracker # "HASH" => \A k \in Pids : k # Key(t)
  BY KeyAssumption DEF TypeOK, Key

\* Keys that lose all their entries.
LEMMA ClearTable ==
  ASSUME OwnInv, \A k \in Keys : table'[k] = table[k] \/ table'[k] = <<>>
  PROVE  /\ \A k \in Keys : Distinct(table'[k])
         /\ \A d \in Data, k \in Keys : InEntries(d, k)' => InEntries(d, k)
<1>1. \A k \in Keys : Distinct(table[k])
  BY DEF OwnInv
<1>2. Distinct(<<>>)
  BY DEF Distinct
<1>3. \A d \in Data, k \in Keys : InEntries(d, k)' => InEntries(d, k)
  BY DEF InEntries
<1> QED
  BY <1>1, <1>2, <1>3

\* A task with an entry is tracked.
LEMMA EntryTracked == \A d, t : InEntries(d, Key(t)) => Tracked(t)
  BY DEF InEntries, Tracked

\* What tracker_add of d for t does, whether it works or not.  In a clean
\* history it works, unless there is nothing to add, and meets a task that has
\* no entry.
AddEffect(t, d, key) ==
  /\ table' \in [Keys -> Seq(Data \cup {Null})] /\ clean' \in BOOLEAN
  /\ \A k \in Keys : Distinct(table'[k])
  /\ \A k \in Keys : k # key => table'[k] = table[k]
  /\ \A e \in Data, k \in Keys :
       InEntries(e, k)' => InEntries(e, k) \/ (e = d /\ k = key)
  /\ key # Key(t) =>
       tracker = "STACK" /\ key \in Tasks /\ OffCpu(t) /\ ~clean'
  /\ clean' => clean /\ \/ table' = table /\ d = Null
                        \/ /\ ~Tracked(t) /\ ~PastExit(t)
                           /\ table'[key] = <<d>>

\* tracker_add, in one of its three ways.
Adds(t, d) == TrackerAdd(t, d) \/ TrackerAddFails(d) \/ LateStore(t, d)

LEMMA AddOrNot ==
  ASSUME TypeOK, OwnInv, NEW t \in Tasks, NEW d \in Data \cup {Null},
         d # Null => \A k \in Keys : ~InEntries(d, k), Adds(t, d)
  PROVE  \E key \in Keys : AddEffect(t, d, key)
<1>1. CASE TrackerAdd(t, d)
  <2>1. PICK new \in Added(t, d) : table' = [table EXCEPT ![Key(t)] = new]
    BY <1>1 DEF TrackerAdd
  <2>2. clean' = (clean /\ ~Tracked(t) /\ ~PastExit(t))
    BY <1>1 DEF TrackerAdd
  <2>3. ~PastExit(t) => ~OffCpu(t)
    BY DEF PastExit
  <2>4. AddEffect(t, d, Key(t))
    BY <2>1, <2>2, <2>3, AddTable DEF AddEffect
  <2> QED
    BY <2>4, KeyOfTask
<1>2. CASE TrackerAddFails(d)
  <2>1. table' = table /\ clean' = (clean /\ d = Null)
    BY <1>2 DEF TrackerAddFails
  <2>2. AddEffect(t, d, Key(t))
    BY <2>1, SameEntries DEF AddEffect, OwnInv, TypeOK, Keys
  <2> QED
    BY <2>2, KeyOfTask
<1>3. CASE LateStore(t, d)
  <2>1. PICK u \in Tasks : table' = [table EXCEPT ![u] = <<d>>]
    BY <1>3 DEF LateStore
  <2>2. tracker = "STACK" /\ OffCpu(t) /\ clean' = FALSE
    BY <1>3 DEF LateStore
  <2>3. AddEffect(t, d, u)
    BY <2>1, <2>2, StoreTable DEF AddEffect
  <2> QED
    BY <2>3 DEF Keys
<1> QED
  BY <1>1, <1>2, <1>3 DEF Adds

\* The two additions: of what a forking parent holds, and of the writer's.
LEMMA ForkAddIsAdd ==
  ASSUME IInv, NEW t \in Tasks, ForkAdd(t)
  PROVE  /\ Adds(kid[t], hand[t])
         /\ kid[t] \in Tasks /\ hand[t] \in Data \cup {Null}
         /\ hand[t] # Null => \A k \in Keys : ~InEntries(hand[t], k)
         /\ \E key \in Keys : AddEffect(kid[t], hand[t], key)
<1>1. /\ Adds(kid[t], hand[t])
      /\ kid[t] \in Tasks /\ hand[t] \in Data \cup {Null}
      /\ hand[t] # Null => \A k \in Keys : ~InEntries(hand[t], k)
  BY DEF ForkAdd, Adds, IInv, TypeOK, OwnInv
<1> QED
  BY <1>1, AddOrNot DEF IInv

LEMMA RegisterAddIsAdd ==
  ASSUME IInv, RegisterAdd
  PROVE  /\ Adds(writer.task, writer.data)
         /\ writer.task \in Tasks /\ writer.data \in Data
         /\ \A k \in Keys : ~InEntries(writer.data, k)
         /\ \E key \in Keys : AddEffect(writer.task, writer.data, key)
<1>1. /\ Adds(writer.task, writer.data)
      /\ writer.task \in Tasks /\ writer.data \in Data
      /\ \A k \in Keys : ~InEntries(writer.data, k)
  BY DEF RegisterAdd, Adds, IInv, TypeOK, OwnInv
<1> QED
  BY <1>1, AddOrNot DEF IInv

\* What has happened cannot be undone.
LEMMA GoneForGood ==
  ASSUME IInv, Next
  PROVE  /\ tracker' = tracker /\ (clean' => clean)
         /\ \A t \in Tasks : OffCpu(t) => OffCpu(t)'
         /\ \A d \in Data : mem[d] # "unused" => forTask'[d] = forTask[d]
<1> DEFINE Goal == /\ tracker' = tracker /\ (clean' => clean)
                   /\ \A t \in Tasks : OffCpu(t) => OffCpu(t)'
                   /\ \A d \in Data : mem[d] # "unused" =>
                        forTask'[d] = forTask[d]
<1> USE DEF taskVars, dataVars, IInv, TypeOK, LifeInv, KidInv, Lives, Frames,
    OffCpu, Forking
<1>1. ASSUME NEW t \in Tasks, NEW c \in Tasks, NEW p \in Pids,
             Fork(t, c, p) PROVE Goal
  BY <1>1 DEF Fork
<1>2. ASSUME NEW t \in Tasks,
             \/ ForkQuery(t) \/ ForkAttachFails(t) \/ ForkWake(t)
             \/ ForkAttach(t)
      PROVE  Goal
  BY <1>2 DEF ForkQuery, ForkAttachFails, ForkWake, ForkAttach, Goto
<1>3. ASSUME NEW t \in Tasks, ForkAdd(t) PROVE Goal
  BY <1>3 DEF ForkAdd, TrackerAdd, TrackerAddFails
<1>4. ASSUME NEW t \in Tasks,
             Exit(t) \/ ExitDel(t) \/ ExitDelMisses(t) \/ ExitDetach(t)
      PROVE  Goal
  BY <1>4 DEF Exit, ExitDel, ExitDelMisses, ExitDetach
<1>5. ASSUME NEW t \in Tasks, ExitDetachNothing(t) \/ ExitFree(t) PROVE Goal
  BY <1>5 DEF ExitDetachNothing, ExitFree
<1>6. ASSUME NEW t \in Tasks, LastSwitch(t) \/ Reap(t) PROVE Goal
  BY <1>6 DEF LastSwitch, Reap
<1>7. ASSUME NEW t \in Tasks,
             OpenEvent(t) \/ Pmi(t) \/ PmiReturns(t) \/ Register(t)
      PROVE  Goal
  BY <1>7 DEF OpenEvent, Pmi, PmiReturns, Register
<1>8. ASSUME RegisterFind PROVE Goal
  BY <1>8 DEF RegisterFind
<1>9. ASSUME RegisterAdd PROVE Goal
  BY <1>9 DEF RegisterAdd, TrackerAdd, TrackerAddFails, LateStore
<1>10. ASSUME ClientLoad \/ ClientUnload PROVE Goal
  BY <1>10 DEF ClientLoad, ClientUnload
<1> HIDE DEF Goal
<1>11. Goal
  BY <1>1, <1>2, <1>3, <1>4, <1>5, <1>6, <1>7, <1>8, <1>9, <1>10
     DEF Next, TaskStep
<1> QED
  BY <1>11 DEF Goal

\* A proc_data that has strayed has strayed for good.
LEMMA StraysOn ==
  ASSUME IInv, Next
  PROVE  \A d \in Data : mem[d] # "unused" /\ Strayed(d) => Strayed(d)'
  BY GoneForGood DEF Strayed

\* Every step keeps the types, and hands only full between callback and add.
LEMMA TypeNext == ASSUME IInv, Next PROVE TypeOK'
<1> USE NullAssumption DEF taskVars, dataVars, IInv, TypeOK, Lives, Frames,
    NoJob
<1>1. ASSUME NEW t \in Tasks, NEW c \in Tasks, NEW p \in Pids,
             Fork(t, c, p) PROVE TypeOK'
  BY <1>1 DEF Fork, Goto, Runs
<1>2. ASSUME NEW t \in Tasks, ForkQuery(t) \/ ForkAttachFails(t) \/ ForkWake(t)
      PROVE  TypeOK'
  <2>1. CASE ForkQuery(t)
    <3>1. /\ \/ fr' = [fr EXCEPT ![t] = "fork_attach"]
             \/ fr' = [fr EXCEPT ![t] = "fork_wake"]
          /\ fr[t] = "fork_query"
      BY <2>1 DEF ForkQuery, Goto
    <3>2. /\ UNCHANGED <<tracker, client, life, pid, kid, hand, pmi, writer>>
          /\ UNCHANGED <<table, mem, clist, forTask, clean>>
      BY <2>1 DEF ForkQuery
    <3>3. /\ fr' \in [Tasks -> Frames]
          /\ fr'[t] \in {"fork_attach", "fork_wake"}
          /\ \A u \in Tasks : u # t => fr'[u] = fr[u]
      <4>1. fr \in [Tasks -> Frames]
        OBVIOUS
      <4> HIDE DEF IInv, TypeOK
      <4> QED
        BY <3>1, <4>1
    <3>4. \A u \in Tasks :
            /\ hand'[u] # Null =>
                 fr'[u] \in {"fork_add", "exit_detach", "exit_free"}
            /\ fr'[u] = "exit_free" => hand'[u] # Null
      BY <3>1, <3>2, <3>3
    <3> QED
      BY <3>2, <3>3, <3>4
  <2>2. CASE ForkAttachFails(t)
    BY <2>2 DEF ForkAttachFails, Goto
  <2>3. CASE ForkWake(t)
    BY <2>3 DEF ForkWake, Goto
  <2> QED
    BY <1>2, <2>1, <2>2, <2>3
<1>3. ASSUME NEW t \in Tasks, ForkAttach(t) PROVE TypeOK'
  BY <1>3 DEF ForkAttach, Goto, Runs
<1>4. ASSUME NEW t \in Tasks, ForkAdd(t) PROVE TypeOK'
  <2>1. table' \in [Keys -> Seq(Data \cup {Null})] /\ clean' \in BOOLEAN
    BY <1>4, ForkAddIsAdd DEF AddEffect
  <2> QED
    BY <1>4, <2>1 DEF ForkAdd, Goto, Keys
<1>5. ASSUME NEW t \in Tasks, Exit(t) PROVE TypeOK'
  BY <1>5 DEF Exit, Goto, Runs
<1>6. ASSUME NEW t \in Tasks, ExitDel(t) PROVE TypeOK'
  <2>1. table' \in [Keys -> Seq(Data \cup {Null})]
    BY <1>6, DelTable DEF ExitDel
  <2>2. DataOf(t) \in Data \cup {Null}
    BY DataIsEntry
  <2> QED
    BY <1>6, <2>1, <2>2 DEF ExitDel, Goto, Keys
<1>7. ASSUME NEW t \in Tasks, ExitDetach(t) PROVE TypeOK'
  BY <1>7 DEF ExitDetach, Goto, Runs
<1>8. ASSUME NEW t \in Tasks, ExitDetachNothing(t) PROVE TypeOK'
  BY <1>8 DEF ExitDetachNothing, Goto, Runs
<1>9. ASSUME NEW t \in Tasks, ExitFree(t) PROVE TypeOK'
  BY <1>9 DEF ExitFree, Goto, Runs
<1>10. ASSUME NEW t \in Tasks, LastSwitch(t) PROVE TypeOK'
  BY <1>10 DEF LastSwitch, Runs
<1>11. ASSUME NEW t \in Tasks, Reap(t) PROVE TypeOK'
  BY <1>11 DEF Reap
<1>12. ASSUME NEW t \in Tasks, Pmi(t) PROVE TypeOK'
  BY <1>12, DataIsEntry DEF Pmi, Runs
<1>13. ASSUME NEW t \in Tasks, PmiReturns(t) PROVE TypeOK'
  BY <1>13 DEF PmiReturns
<1>14. ASSUME NEW t \in Tasks, Register(t) PROVE TypeOK'
  BY <1>14 DEF Register
<1>15. ASSUME RegisterAdd PROVE TypeOK'
  <2>1. table' \in [Keys -> Seq(Data \cup {Null})] /\ clean' \in BOOLEAN
    BY <1>15, RegisterAddIsAdd DEF AddEffect
  <2> QED
    BY <1>15, <2>1 DEF RegisterAdd, Keys
<1>16. ASSUME ClientLoad \/ ClientUnload PROVE TypeOK'
  <2>1. client' \in BOOLEAN
    BY <1>16 DEF ClientLoad, ClientUnload
  <2>2. UNCHANGED <<tracker, taskVars, pmi, writer, table, dataVars, clean>>
    BY <1>16 DEF ClientLoad, ClientUnload
  <2> QED
    BY <2>1, <2>2
<1>17. ASSUME NEW t \in Tasks, ExitDelMisses(t) PROVE TypeOK'
  BY <1>17 DEF ExitDelMisses, Goto, Runs
<1>18. ASSUME NEW t \in Tasks, OpenEvent(t) PROVE TypeOK'
  <2>1. table' \in [Keys -> Seq(Data \cup {Null})]
    BY <1>18, OpenTable DEF OpenEvent
  <2> QED
    BY <1>18, <2>1 DEF OpenEvent, Keys
<1>19. ASSUME RegisterFind PROVE TypeOK'
  <2>1. /\ UNCHANGED <<tracker, client, taskVars, pmi, table, dataVars>>
        /\ clean' = FALSE \/ clean' = clean
        /\ writer' = NoJob \/ writer' = [writer EXCEPT !.entry = TRUE]
        /\ writer # NoJob
    BY <1>19 DEF RegisterFind
  <2>2. writer' \in [task : Tasks, data : Data, entry : BOOLEAN] \cup {NoJob}
    <3>1. writer \in [task : Tasks, data : Data, entry : BOOLEAN]
      BY <2>1
    <3> HIDE DEF IInv, TypeOK, NoJob
    <3> QED
      BY <2>1, <3>1
  <2>3. clean' \in BOOLEAN
    BY <2>1
  <2> QED
    BY <2>1, <2>2, <2>3
<1> QED
  BY <1>1, <1>2, <1>3, <1>4, <1>5, <1>6, <1>7, <1>8, <1>9, <1>10, <1>11, <1>12,
      <1>13, <1>14, <1>15, <1>16, <1>17, <1>18, <1>19 DEF Next, TaskStep

\* Every step keeps the frames in line with the lives.
LEMMA LifeNext == ASSUME IInv, Next PROVE LifeInv'
<1> USE NullAssumption DEF taskVars, dataVars, IInv, TypeOK, LifeInv, KidInv,
    Lives, Frames, Forking
<1>1. ASSUME NEW t \in Tasks, NEW c \in Tasks, NEW p \in Pids,
             Fork(t, c, p) PROVE LifeInv'
  BY <1>1 DEF Fork, Goto, Runs
<1>2. ASSUME NEW t \in Tasks, ForkQuery(t) \/ ForkAttachFails(t) \/ ForkWake(t)
      PROVE  LifeInv'
  BY <1>2 DEF ForkQuery, ForkAttachFails, ForkWake, Goto, Runs
<1>3. ASSUME NEW t \in Tasks, ForkAttach(t) PROVE LifeInv'
  BY <1>3 DEF ForkAttach, Goto, Runs
<1>4. ASSUME NEW t \in Tasks, ForkAdd(t) PROVE LifeInv'
  BY <1>4 DEF ForkAdd, Goto, Runs, TrackerAdd, TrackerAddFails
<1>5. ASSUME NEW t \in Tasks, Exit(t) PROVE LifeInv'
  BY <1>5 DEF Exit, Goto, Runs
<1>6. ASSUME NEW t \in Tasks, ExitDel(t) PROVE LifeInv'
  BY <1>6 DEF ExitDel, Goto, Runs, TrackerDel
<1>7. ASSUME NEW t \in Tasks, ExitDetach(t) PROVE LifeInv'
  BY <1>7 DEF ExitDetach, Goto, Runs
<1>8. ASSUME NEW t \in Tasks, ExitDetachNothing(t) PROVE LifeInv'
  BY <1>8 DEF ExitDetachNothing, Goto, Runs
<1>9. ASSUME NEW t \in Tasks, ExitFree(t) PROVE LifeInv'
  BY <1>9 DEF ExitFree, Goto, Runs
<1>10. ASSUME NEW t \in Tasks, LastSwitch(t) PROVE LifeInv'
  BY <1>10 DEF LastSwitch, Runs
<1>11. ASSUME NEW t \in Tasks, Reap(t) PROVE LifeInv'
  BY <1>11 DEF Reap
<1>12. ASSUME NEW t \in Tasks, Pmi(t) PROVE LifeInv'
  BY <1>12 DEF Pmi, Runs
<1>13. ASSUME NEW t \in Tasks, PmiReturns(t) PROVE LifeInv'
  BY <1>13 DEF PmiReturns
<1>14. ASSUME NEW t \in Tasks, Register(t) PROVE LifeInv'
  BY <1>14 DEF Register
<1>15. ASSUME RegisterAdd PROVE LifeInv'
  BY <1>15 DEF RegisterAdd, TrackerAdd, TrackerAddFails, LateStore
<1>16. ASSUME ClientLoad \/ ClientUnload PROVE LifeInv'
  BY <1>16 DEF ClientLoad, ClientUnload
<1>17. ASSUME NEW t \in Tasks, ExitDelMisses(t) PROVE LifeInv'
  BY <1>17 DEF ExitDelMisses, Goto, Runs
<1>18. ASSUME NEW t \in Tasks, OpenEvent(t) PROVE LifeInv'
  BY <1>18 DEF OpenEvent, Runs
<1>19. ASSUME RegisterFind PROVE LifeInv'
  BY <1>19 DEF RegisterFind
<1> QED
  BY <1>1, <1>2, <1>3, <1>4, <1>5, <1>6, <1>7, <1>8, <1>9, <1>10, <1>11, <1>12,
      <1>13, <1>14, <1>15, <1>16, <1>17, <1>18, <1>19 DEF Next, TaskStep

\* A child is new until its only parent wakes it up.
LEMMA KidNext == ASSUME IInv, Next PROVE KidInv'
<1> USE DEF taskVars, dataVars, IInv, TypeOK, LifeInv, KidInv, Forking
<1>1. ASSUME NEW t \in Tasks, NEW c \in Tasks, NEW p \in Pids,
             Fork(t, c, p) PROVE KidInv'
  BY <1>1 DEF Fork, Goto, Runs
<1>2. ASSUME NEW t \in Tasks, ForkQuery(t) \/ ForkAttachFails(t) \/ ForkWake(t)
      PROVE  KidInv'
  BY <1>2 DEF ForkQuery, ForkAttachFails, ForkWake, Goto, Runs
<1>3. ASSUME NEW t \in Tasks, ForkAttach(t) PROVE KidInv'
  BY <1>3 DEF ForkAttach, Goto, Runs
<1>4. ASSUME NEW t \in Tasks, ForkAdd(t) PROVE KidInv'
  BY <1>4 DEF ForkAdd, Goto, Runs, TrackerAdd, TrackerAddFails
<1>5. ASSUME NEW t \in Tasks, Exit(t) PROVE KidInv'
  BY <1>5 DEF Exit, Goto, Runs
<1>6. ASSUME NEW t \in Tasks, ExitDel(t) PROVE KidInv'
  BY <1>6 DEF ExitDel, Goto, Runs, TrackerDel
<1>7. ASSUME NEW t \in Tasks, ExitDetach(t) PROVE KidInv'
  BY <1>7 DEF ExitDetach, Goto, Runs
<1>8. ASSUME NEW t \in Tasks, ExitDetachNothing(t) PROVE KidInv'
  BY <1>8 DEF ExitDetachNothing, Goto, Runs
<1>9. ASSUME NEW t \in Tasks, ExitFree(t) PROVE KidInv'
  BY <1>9 DEF ExitFree, Goto, Runs
<1>10. ASSUME NEW t \in Tasks, LastSwitch(t) PROVE KidInv'
  BY <1>10 DEF LastSwitch, Runs
<1>11. ASSUME NEW t \in Tasks, Reap(t) PROVE KidInv'
  BY <1>11 DEF Reap
<1>12. ASSUME NEW t \in Tasks, Pmi(t) PROVE KidInv'
  BY <1>12 DEF Pmi, Runs
<1>13. ASSUME NEW t \in Tasks, PmiReturns(t) PROVE KidInv'
  BY <1>13 DEF PmiReturns
<1>14. ASSUME NEW t \in Tasks, Register(t) PROVE KidInv'
  BY <1>14 DEF Register
<1>15. ASSUME RegisterAdd PROVE KidInv'
  BY <1>15 DEF RegisterAdd, TrackerAdd, TrackerAddFails, LateStore
<1>16. ASSUME ClientLoad \/ ClientUnload PROVE KidInv'
  BY <1>16 DEF ClientLoad, ClientUnload
<1>17. ASSUME NEW t \in Tasks, ExitDelMisses(t) PROVE KidInv'
  BY <1>17 DEF ExitDelMisses, Goto, Runs
<1>18. ASSUME NEW t \in Tasks, OpenEvent(t) PROVE KidInv'
  BY <1>18 DEF OpenEvent, Runs
<1>19. ASSUME RegisterFind PROVE KidInv'
  BY <1>19 DEF RegisterFind
<1> QED
  BY <1>1, <1>2, <1>3, <1>4, <1>5, <1>6, <1>7, <1>8, <1>9, <1>10, <1>11, <1>12,
      <1>13, <1>14, <1>15, <1>16, <1>17, <1>18, <1>19 DEF Next, TaskStep

\* A fork takes a pid that nobody has; in a clean history nobody runs under
\* it either.
LEMMA PidNext == ASSUME IInv, Next PROVE PidInv'
<1> USE DEF taskVars, dataVars, IInv, TypeOK, LifeInv, PidInv, KidInv, HasPid,
    Forking
<1>1. ASSUME NEW t \in Tasks, NEW c \in Tasks, NEW p \in Pids,
             Fork(t, c, p) PROVE PidInv'
  <2>1. /\ c # t /\ life' = [life EXCEPT ![c] = "new"]
        /\ pid' = [pid EXCEPT ![c] = p]
    BY <1>1 DEF Fork, Goto, Runs
  <2>2. clean' => clean /\ \A u \in Tasks : life[u] = "reaped" => pid[u] # p
    BY <1>1 DEF Fork
  <2>3. ASSUME NEW u \in Tasks, u # c, HasPid(u)'
        PROVE  HasPid(u) /\ pid'[u] = pid[u] /\ pid[u] # p
    BY <1>1, <2>1, <2>2, <2>3 DEF Fork, InUse
  <2>4. pid'[c] = p
    BY <2>1
  <2>5. \A t1, t2 \in Tasks :
          HasPid(t1) /\ HasPid(t2) /\ pid[t1] = pid[t2] => t1 = t2
    OBVIOUS
  <2> HIDE DEF HasPid, IInv, TypeOK, LifeInv, KidInv
  <2> QED
    BY <2>3, <2>4, <2>5
<1>2. ASSUME NEW t \in Tasks, ForkQuery(t) \/ ForkAttachFails(t) \/ ForkWake(t)
      PROVE  PidInv'
  BY <1>2 DEF ForkQuery, ForkAttachFails, ForkWake, Goto, Runs
<1>3. ASSUME NEW t \in Tasks, ForkAttach(t) PROVE PidInv'
  BY <1>3 DEF ForkAttach, Goto, Runs
<1>4. ASSUME NEW t \in Tasks, ForkAdd(t) PROVE PidInv'
  BY <1>4 DEF ForkAdd, Goto, Runs, TrackerAdd, TrackerAddFails
<1>5. ASSUME NEW t \in Tasks, Exit(t) PROVE PidInv'
  BY <1>5 DEF Exit, Goto, Runs
<1>6. ASSUME NEW t \in Tasks, ExitDel(t) PROVE PidInv'
  BY <1>6 DEF ExitDel, Goto, Runs, TrackerDel
<1>7. ASSUME NEW t \in Tasks, ExitDetach(t) PROVE PidInv'
  BY <1>7 DEF ExitDetach, Goto, Runs
<1>8. ASSUME NEW t \in Tasks, ExitDetachNothing(t) PROVE PidInv'
  BY <1>8 DEF ExitDetachNothing, Goto, Runs
<1>9. ASSUME NEW t \in Tasks, ExitFree(t) PROVE PidInv'
  BY <1>9 DEF ExitFree, Goto, Runs
<1>10. ASSUME NEW t \in Tasks, LastSwitch(t) PROVE PidInv'
  BY <1>10 DEF LastSwitch, Runs
<1>11. ASSUME NEW t \in Tasks, Reap(t) PROVE PidInv'
  <2>1. \A u \in Tasks : HasPid(u)' => HasPid(u)
    BY <1>11 DEF Reap
  <2>2. pid' = pid
    BY <1>11 DEF Reap
  <2> HIDE DEF HasPid
  <2> QED
    BY <2>1, <2>2
<1>12. ASSUME NEW t \in Tasks, Pmi(t) PROVE PidInv'
  BY <1>12 DEF Pmi, Runs
<1>13. ASSUME NEW t \in Tasks, PmiReturns(t) PROVE PidInv'
  BY <1>13 DEF PmiReturns
<1>14. ASSUME NEW t \in Tasks, Register(t) PROVE PidInv'
  BY <1>14 DEF Register
<1>15. ASSUME RegisterAdd PROVE PidInv'
  BY <1>15 DEF RegisterAdd, TrackerAdd, TrackerAddFails, LateStore
<1>16. ASSUME ClientLoad \/ ClientUnload PROVE PidInv'
  BY <1>16 DEF ClientLoad, ClientUnload
<1>17. ASSUME NEW t \in Tasks, ExitDelMisses(t) PROVE PidInv'
  BY <1>17 DEF ExitDelMisses, Goto, Runs
<1>18. ASSUME NEW t \in Tasks, OpenEvent(t) PROVE PidInv'
  BY <1>18 DEF OpenEvent, Runs
<1>19. ASSUME RegisterFind PROVE PidInv'
  BY <1>19 DEF RegisterFind
<1> QED
  BY <1>1, <1>2, <1>3, <1>4, <1>5, <1>6, <1>7, <1>8, <1>9, <1>10, <1>11, <1>12,
      <1>13, <1>14, <1>15, <1>16, <1>17, <1>18, <1>19 DEF Next, TaskStep

\* Additions and deletions stay with the keys of the tracker's sort.
LEMMA KeyNext == ASSUME IInv, Next PROVE KeyInv'
<1> USE KeyAssumption DEF taskVars, dataVars, IInv, TypeOK, KeyInv
<1>1. ASSUME NEW t \in Tasks, NEW c \in Tasks, NEW p \in Pids,
             Fork(t, c, p) PROVE KeyInv'
  BY <1>1 DEF Fork, Goto, Runs
<1>2. ASSUME NEW t \in Tasks, ForkQuery(t) \/ ForkAttachFails(t) \/ ForkWake(t)
      PROVE  KeyInv'
  BY <1>2 DEF ForkQuery, ForkAttachFails, ForkWake, Goto, Runs
<1>3. ASSUME NEW t \in Tasks, ForkAttach(t) PROVE KeyInv'
  BY <1>3 DEF ForkAttach, Goto, Runs
<1>4. ASSUME NEW t \in Tasks, ForkAdd(t) PROVE KeyInv'
  <2>1. PICK key \in Keys : AddEffect(kid[t], hand[t], key)
    BY <1>4, ForkAddIsAdd
  <2>2. tracker' = tracker /\ KeyInv
    BY <1>4 DEF ForkAdd
  <2>3. kid[t] \in Tasks
    OBVIOUS
  <2> HIDE DEF IInv, TypeOK
  <2> QED
    BY <2>1, <2>2, <2>3, KeySort DEF IInv, Keys, AddEffect
<1>5. ASSUME NEW t \in Tasks, Exit(t) PROVE KeyInv'
  BY <1>5 DEF Exit, Goto, Runs
<1>6. ASSUME NEW t \in Tasks, ExitDel(t) PROVE KeyInv'
  <2>1. \A k \in Keys : k # Key(t) => table'[k] = table[k]
    BY <1>6, DelTable DEF ExitDel
  <2>2. tracker' = tracker /\ KeyInv
    BY <1>6 DEF ExitDel
  <2> HIDE DEF IInv, TypeOK
  <2> QED
    BY <2>1, <2>2, KeySort DEF IInv, Keys
<1>7. ASSUME NEW t \in Tasks, ExitDetach(t) PROVE KeyInv'
  BY <1>7 DEF ExitDetach, Goto, Runs
<1>8. ASSUME NEW t \in Tasks, ExitDetachNothing(t) PROVE KeyInv'
  BY <1>8 DEF ExitDetachNothing, Goto, Runs
<1>9. ASSUME NEW t \in Tasks, ExitFree(t) PROVE KeyInv'
  BY <1>9 DEF ExitFree, Goto, Runs
<1>10. ASSUME NEW t \in Tasks, LastSwitch(t) PROVE KeyInv'
  <2>1. \/ table' = table
        \/ tracker # "HASH" /\ table' = [table EXCEPT ![t] = <<>>]
    BY <1>10 DEF LastSwitch
  <2> QED
    BY <1>10, <2>1 DEF LastSwitch
<1>11. ASSUME NEW t \in Tasks, Reap(t) PROVE KeyInv'
  BY <1>11 DEF Reap
<1>12. ASSUME NEW t \in Tasks, Pmi(t) PROVE KeyInv'
  BY <1>12 DEF Pmi, Runs
<1>13. ASSUME NEW t \in Tasks, PmiReturns(t) PROVE KeyInv'
  BY <1>13 DEF PmiReturns
<1>14. ASSUME NEW t \in Tasks, Register(t) PROVE KeyInv'
  BY <1>14 DEF Register
<1>15. ASSUME RegisterAdd PROVE KeyInv'
  <2>1. PICK key \in Keys : AddEffect(writer.task, writer.data, key)
    BY <1>15, RegisterAddIsAdd
  <2>2. tracker' = tracker /\ KeyInv
    BY <1>15 DEF RegisterAdd
  <2> HIDE DEF IInv, TypeOK
  <2> QED
    BY <1>15, <2>1, <2>2, RegisterAddIsAdd, KeySort
       DEF IInv, Keys, AddEffect
<1>16. ASSUME ClientLoad \/ ClientUnload PROVE KeyInv'
  BY <1>16 DEF ClientLoad, ClientUnload
<1>17. ASSUME NEW t \in Tasks, ExitDelMisses(t) PROVE KeyInv'
  BY <1>17 DEF ExitDelMisses, Goto, Runs
<1>18. ASSUME NEW t \in Tasks, OpenEvent(t) PROVE KeyInv'
  BY <1>18 DEF OpenEvent, Runs
<1>19. ASSUME RegisterFind PROVE KeyInv'
  BY <1>19 DEF RegisterFind
<1> QED
  BY <1>1, <1>2, <1>3, <1>4, <1>5, <1>6, <1>7, <1>8, <1>9, <1>10, <1>11, <1>12,
      <1>13, <1>14, <1>15, <1>16, <1>17, <1>18, <1>19 DEF Next, TaskStep

\* An addition hands the data over to the tracker.
LEMMA AddOwn ==
  ASSUME OwnInv, NEW d \in Data \cup {Null}, NEW key \in Keys,
         d # Null => mem[d] = "allocated" /\ clist[d] # "freed",
         \A k \in Keys : Distinct(table'[k]),
         \A e \in Data, k \in Keys :
           InEntries(e, k)' => InEntries(e, k) \/ (e = d /\ k = key),
         UNCHANGED <<mem, clist>>,
         d # Null => \A k \in Keys : ~InEntries(d, k),
         \A t \in Tasks : hand'[t] # Null => hand'[t] = hand[t] /\ hand[t] # d,
         writer'.data # Null => writer' = writer /\ writer.data # d
  PROVE  OwnInv'
  BY NullAssumption DEF OwnInv

\* What a step takes from one owner it gives to one owner.
LEMMA OwnNext == ASSUME IInv, Next PROVE OwnInv'
<1> USE NullAssumption, SameEntries DEF taskVars, dataVars, IInv, TypeOK,
    LifeInv, OwnInv, NoJob
<1>1. ASSUME NEW t \in Tasks, NEW c \in Tasks, NEW p \in Pids,
             Fork(t, c, p) PROVE OwnInv'
  BY <1>1 DEF Fork, Goto, Runs
<1>2. ASSUME NEW t \in Tasks, ForkQuery(t) \/ ForkAttachFails(t) \/ ForkWake(t)
      PROVE  OwnInv'
  BY <1>2 DEF ForkQuery, ForkAttachFails, ForkWake, Goto, Runs
<1>3. ASSUME NEW t \in Tasks, ForkAttach(t) PROVE OwnInv'
  BY <1>3 DEF ForkAttach, Goto, Runs
<1>4. ASSUME NEW t \in Tasks, ForkAdd(t) PROVE OwnInv'
  <2>0. PICK key \in Keys : AddEffect(kid[t], hand[t], key)
    BY <1>4, ForkAddIsAdd
  <2>1. /\ \A k \in Keys : Distinct(table'[k])
        /\ \A e \in Data, k \in Keys : InEntries(e, k)' =>
             InEntries(e, k) \/ (e = hand[t] /\ k = key)
    BY <2>0 DEF AddEffect
  <2>2. /\ UNCHANGED <<mem, clist, writer>>
        /\ hand' = [hand EXCEPT ![t] = Null]
        /\ hand \in [Tasks -> Data \cup {Null}]
        /\ hand[t] # Null => /\ mem[hand[t]] = "allocated"
                             /\ clist[hand[t]] # "freed"
                             /\ writer.data # hand[t]
                             /\ \A u \in Tasks : hand[u] = hand[t] => u = t
    BY <1>4 DEF ForkAdd, Goto, AddInv
  <2> HIDE DEF IInv, TypeOK, LifeInv, OwnInv
  <2> QED
    BY <1>4, <2>1, <2>2, ForkAddIsAdd, AddOwn DEF IInv
<1>5. ASSUME NEW t \in Tasks, Exit(t) PROVE OwnInv'
  BY <1>5 DEF Exit, Goto, Runs
<1>6. ASSUME NEW t \in Tasks, ExitDel(t) PROVE OwnInv'
  <2>1. /\ \A k \in Keys : Distinct(table'[k])
        /\ \A e \in Data, k \in Keys :
             InEntries(e, k)' => InEntries(e, k) /\ e # DataOf(t)
    BY <1>6, DelTable DEF ExitDel
  <2>2. /\ DataOf(t) \in Data \cup {Null} /\ Key(t) \in Keys
        /\ DataOf(t) # Null => InEntries(DataOf(t), Key(t))
    BY DataIsEntry, KeyOfTask
  <2> QED
    BY <1>6, <2>1, <2>2 DEF ExitDel, Goto
<1>7. ASSUME NEW t \in Tasks, ExitDetach(t) PROVE OwnInv'
  BY <1>7 DEF ExitDetach, Goto, Runs
<1>8. ASSUME NEW t \in Tasks, ExitDetachNothing(t) PROVE OwnInv'
  BY <1>8 DEF ExitDetachNothing, Goto, Runs
<1>9. ASSUME NEW t \in Tasks, ExitFree(t) PROVE OwnInv'
  BY <1>9 DEF ExitFree, Goto, Runs
<1>10. ASSUME NEW t \in Tasks, LastSwitch(t) PROVE OwnInv'
  <2>1. \A k \in Keys : table'[k] = table[k] \/ table'[k] = <<>>
    BY <1>10 DEF LastSwitch, Keys
  <2>2. /\ \A k \in Keys : Distinct(table'[k])
        /\ \A d \in Data, k \in Keys : InEntries(d, k)' => InEntries(d, k)
    BY <2>1, ClearTable
  <2> QED
    BY <1>10, <2>2 DEF LastSwitch
<1>11. ASSUME NEW t \in Tasks, Reap(t) PROVE OwnInv'
  BY <1>11 DEF Reap
<1>12. ASSUME NEW t \in Tasks, Pmi(t) PROVE OwnInv'
  BY <1>12 DEF Pmi, Runs
<1>13. ASSUME NEW t \in Tasks, PmiReturns(t) PROVE OwnInv'
  BY <1>13 DEF PmiReturns
<1>14. ASSUME NEW t \in Tasks, Register(t) PROVE OwnInv'
  BY <1>14 DEF Register
<1>15. ASSUME RegisterAdd PROVE OwnInv'
  <2>0. PICK key \in Keys : AddEffect(writer.task, writer.data, key)
    BY <1>15, RegisterAddIsAdd
  <2>1. /\ \A k \in Keys : Distinct(table'[k])
        /\ \A e \in Data, k \in Keys : InEntries(e, k)' =>
             InEntries(e, k) \/ (e = writer.data /\ k = key)
    BY <2>0 DEF AddEffect
  <2>2. /\ UNCHANGED <<mem, clist, hand>> /\ writer'.data = Null
        /\ mem[writer.data] = "allocated" /\ clist[writer.data] # "freed"
        /\ \A u \in Tasks : hand[u] # Null => hand[u] # writer.data
    BY <1>15 DEF RegisterAdd, AddInv
  <2> HIDE DEF IInv, TypeOK, LifeInv, OwnInv
  <2> QED
    BY <1>15, <2>1, <2>2, RegisterAddIsAdd, AddOwn DEF IInv
<1>16. ASSUME ClientLoad \/ ClientUnload PROVE OwnInv'
  BY <1>16 DEF ClientLoad, ClientUnload
<1>17. ASSUME NEW t \in Tasks, ExitDelMisses(t) PROVE OwnInv'
  BY <1>17 DEF ExitDelMisses, Goto, Runs
<1>18. ASSUME NEW t \in Tasks, OpenEvent(t) PROVE OwnInv'
  <2>1. /\ \A k \in Keys : Distinct(table'[k])
        /\ \A e \in Data, k \in Keys : InEntries(e, k)' <=> InEntries(e, k)
    BY <1>18, OpenTable DEF OpenEvent
  <2>2. UNCHANGED <<mem, clist, writer, hand>>
    BY <1>18 DEF OpenEvent
  <2> QED
    BY <2>1, <2>2
<1>19. ASSUME RegisterFind PROVE OwnInv'
  BY <1>19 DEF RegisterFind
<1> QED
  BY <1>1, <1>2, <1>3, <1>4, <1>5, <1>6, <1>7, <1>8, <1>9, <1>10, <1>11, <1>12,
      <1>13, <1>14, <1>15, <1>16, <1>17, <1>18, <1>19 DEF Next, TaskStep

\* What waits to be added was allocated for the task it is added for.
LEMMA AddNext == ASSUME IInv, Next PROVE AddInv'
<1> USE NullAssumption DEF taskVars, dataVars, IInv, TypeOK, LifeInv, KidInv,
    OwnInv, AddInv, NoJob, Forking
<1>1. ASSUME NEW t \in Tasks, NEW c \in Tasks, NEW p \in Pids,
             Fork(t, c, p) PROVE AddInv'
  BY <1>1 DEF Fork, Goto, Runs
<1>2. ASSUME NEW t \in Tasks, ForkQuery(t) \/ ForkAttachFails(t) \/ ForkWake(t)
      PROVE  AddInv'
  <2>1. CASE ForkAttachFails(t)
    <3>1. hand[t] = Null
      BY <2>1 DEF ForkAttachFails, Goto
    <3> QED
      BY <2>1, <3>1 DEF ForkAttachFails, Goto
  <2>2. CASE ForkQuery(t) \/ ForkWake(t)
    BY <2>2 DEF ForkQuery, ForkWake, Goto, Runs
  <2> QED
    BY <1>2, <2>1, <2>2
<1>3. ASSUME NEW t \in Tasks, ForkAttach(t) PROVE AddInv'
  BY <1>3 DEF ForkAttach, Goto, Runs
<1>4. ASSUME NEW t \in Tasks, ForkAdd(t) PROVE AddInv'
  BY <1>4 DEF ForkAdd, Goto, Runs, TrackerAdd, TrackerAddFails
<1>5. ASSUME NEW t \in Tasks, Exit(t) PROVE AddInv'
  BY <1>5 DEF Exit, Goto, Runs
<1>6. ASSUME NEW t \in Tasks, ExitDel(t) PROVE AddInv'
  BY <1>6 DEF ExitDel, Goto, Runs, TrackerDel
<1>7. ASSUME NEW t \in Tasks, ExitDetach(t) PROVE AddInv'
  BY <1>7 DEF ExitDetach, Goto, Runs
<1>8. ASSUME NEW t \in Tasks, ExitDetachNothing(t) PROVE AddInv'
  BY <1>8 DEF ExitDetachNothing, Goto, Runs
<1>9. ASSUME NEW t \in Tasks, ExitFree(t) PROVE AddInv'
  BY <1>9 DEF ExitFree, Goto, Runs
<1>10. ASSUME NEW t \in Tasks, LastSwitch(t) PROVE AddInv'
  BY <1>10 DEF LastSwitch, Runs
<1>11. ASSUME NEW t \in Tasks, Reap(t) PROVE AddInv'
  BY <1>11 DEF Reap
<1>12. ASSUME NEW t \in Tasks, Pmi(t) PROVE AddInv'
  BY <1>12 DEF Pmi, Runs
<1>13. ASSUME NEW t \in Tasks, PmiReturns(t) PROVE AddInv'
  BY <1>13 DEF PmiReturns
<1>14. ASSUME NEW t \in Tasks, Register(t) PROVE AddInv'
  BY <1>14 DEF Register
<1>15. ASSUME RegisterAdd PROVE AddInv'
  BY <1>15 DEF RegisterAdd, TrackerAdd, TrackerAddFails, LateStore
<1>16. ASSUME ClientLoad \/ ClientUnload PROVE AddInv'
  BY <1>16 DEF ClientLoad, ClientUnload
<1>17. ASSUME NEW t \in Tasks, ExitDelMisses(t) PROVE AddInv'
  BY <1>17 DEF ExitDelMisses, Goto, Runs
<1>18. ASSUME NEW t \in Tasks, OpenEvent(t) PROVE AddInv'
  BY <1>18 DEF OpenEvent, Runs
<1>19. ASSUME RegisterFind PROVE AddInv'
  BY <1>19 DEF RegisterFind
<1> QED
  BY <1>1, <1>2, <1>3, <1>4, <1>5, <1>6, <1>7, <1>8, <1>9, <1>10, <1>11, <1>12,
      <1>13, <1>14, <1>15, <1>16, <1>17, <1>18, <1>19 DEF Next, TaskStep

\* An addition for u of data meant for u.
LEMMA AddEntry ==
  ASSUME IInv, NEW u \in Tasks, NEW d \in Data \cup {Null}, Adds(u, d),
         d # Null => \A k \in Keys : ~InEntries(d, k),
         d # Null => forTask[d] = u /\ life[u] # "none",
         UNCHANGED <<tracker, pid, life, forTask>>,
         \A w \in Tasks : PastExit(w)' => PastExit(w)
  PROVE  EntryInv'
<1>1. PICK key \in Keys : AddEffect(u, d, key)
  BY AddOrNot DEF IInv
<1>2. /\ \A k \in Keys : k # key => table'[k] = table[k]
      /\ \A e \in Data, k \in Keys :
           InEntries(e, k)' => InEntries(e, k) \/ (e = d /\ k = key)
      /\ key # Key(u) => tracker = "STACK" /\ OffCpu(u) /\ ~clean'
      /\ clean' => clean /\ \/ table' = table /\ d = Null
                            \/ /\ ~Tracked(u) /\ ~PastExit(u)
                               /\ table'[key] = <<d>>
  BY <1>1 DEF AddEffect
<1>3. (\A w \in Tasks : Key(w)' = Key(w)) /\ clean \in BOOLEAN
  BY DEF Key, IInv, TypeOK
<1>4. EntryInv
  BY DEF IInv
<1>5. ASSUME NEW e \in Data, NEW k \in Tasks,
             tracker # "HASH", InEntries(e, k)'
      PROVE  forTask[e] = k \/ Strayed(e)'
  <2>1. k \in Keys /\ Key(u) = u
    BY <1>5 DEF Key, Keys
  <2>2. CASE InEntries(e, k)
    <3>1. forTask[e] = k \/ Strayed(e)
      BY <1>4, <1>5, <2>2 DEF EntryInv
    <3>2. Strayed(e) => Strayed(e)'
      BY <1>2 DEF Strayed, OffCpu
    <3> QED
      BY <3>1, <3>2
  <2>3. CASE ~InEntries(e, k)
    <3>1. e = d /\ k = key /\ forTask[e] = u
      BY <1>2, <1>5, <2>1, <2>3, NullAssumption
    <3>2. CASE key = Key(u)
      BY <2>1, <3>1, <3>2
    <3>3. CASE key # Key(u)
      BY <1>2, <3>1, <3>3 DEF Strayed, OffCpu
    <3> QED
      BY <3>2, <3>3
  <2> QED
    BY <2>2, <2>3
<1>6. ASSUME clean', NEW k \in Keys PROVE OnlyFirst(table'[k])
  <2>1. CASE k = key /\ table'[key] = <<d>>
    BY <2>1 DEF OnlyFirst
  <2>2. CASE table'[k] = table[k]
    BY <1>2, <1>4, <1>6, <2>2 DEF EntryInv
  <2> QED
    BY <1>2, <1>6, <2>1, <2>2
<1>7. ASSUME clean', NEW e \in Data, NEW k \in Keys, InEntries(e, k)'
      PROVE  \E w \in Tasks : /\ forTask[e] = w /\ Key(w) = k
                              /\ life[w] # "none" /\ ~PastExit(w)
  <2>1. CASE InEntries(e, k)
    BY <1>2, <1>4, <1>7, <2>1 DEF EntryInv
  <2>2. CASE ~InEntries(e, k)
    <3>1. e = d /\ k = key /\ d # Null
      BY <1>2, <1>7, <2>2, NullAssumption
    <3>2. table' # table
      BY <1>7, <2>2 DEF InEntries
    <3> QED
      BY <1>2, <1>7, <3>1, <3>2
  <2> QED
    BY <2>1, <2>2
<1> QED
  BY <1>3, <1>5, <1>6, <1>7 DEF EntryInv

\* Entries stay with their tasks: a fork with a fresh pid, a waking child and
\* an exit that a loaded client sees leave none behind.
LEMMA EntryNext == ASSUME IInv, Next PROVE EntryInv'
<1> USE NullAssumption, SameEntries DEF taskVars, dataVars, IInv, TypeOK,
    LifeInv, EntryInv, OwnInv, AddInv, Key, PastExit, OffCpu, NoJob, Keys
<1>0. /\ clean' => clean
      /\ \A d \in Data : mem[d] # "unused" /\ Strayed(d) => Strayed(d)'
  BY GoneForGood, StraysOn
<1>1. ASSUME NEW t \in Tasks, NEW c \in Tasks, NEW p \in Pids,
             Fork(t, c, p) PROVE EntryInv'
  BY <1>0, <1>1 DEF Fork, Goto, Runs
<1>2. ASSUME NEW t \in Tasks, ForkQuery(t) \/ ForkAttachFails(t) \/ ForkWake(t)
      PROVE  EntryInv'
  BY <1>0, <1>2 DEF ForkQuery, ForkAttachFails, ForkWake, Goto, Runs
<1>3. ASSUME NEW t \in Tasks, ForkAttach(t) PROVE EntryInv'
  BY <1>0, <1>3 DEF ForkAttach, Goto, Runs
<1>4. ASSUME NEW t \in Tasks, ForkAdd(t) PROVE EntryInv'
  <2>1. /\ UNCHANGED <<tracker, pid, life, forTask>>
        /\ hand[t] # Null => forTask[hand[t]] = kid[t] /\ life[kid[t]] # "none"
        /\ \A w \in Tasks : PastExit(w)' => PastExit(w)
    BY <1>4 DEF ForkAdd, Goto, KidInv, Forking
  <2> HIDE DEF IInv, TypeOK, EntryInv
  <2> QED
    BY <1>4, <2>1, ForkAddIsAdd, AddEntry
<1>5. ASSUME NEW t \in Tasks, Exit(t) PROVE EntryInv'
  <2>1. /\ UNCHANGED <<tracker, pid, life, forTask, table>>
        /\ clean' => clean /\ (client \/ ~Tracked(t))
        /\ \A u \in Tasks : PastExit(u)' => PastExit(u) \/ (u = t /\ ~client)
    BY <1>0, <1>5 DEF Exit, Goto, Runs
  <2>2. \A e \in Data : clean' /\ InEntries(e, Key(t)) => client
    BY <2>1, EntryTracked
  <2>3. \A u \in Tasks : Key(u)' = Key(u)
    BY <2>1
  <2>4. \A d \in Data, k \in Keys : InEntries(d, k) => mem[d] # "unused"
    OBVIOUS
  <2> HIDE DEF IInv, TypeOK, LifeInv, OwnInv, AddInv, Key, PastExit
  <2> QED
    BY <1>0, <2>1, <2>2, <2>3, <2>4 DEF IInv
<1>6. ASSUME NEW t \in Tasks, ExitDel(t) PROVE EntryInv'
  <2>1. /\ \A k \in Keys : k # Key(t) => table'[k] = table[k]
        /\ \A k \in Keys : OnlyFirst(table[k]) => OnlyFirst(table'[k])
        /\ \A e \in Data, k \in Keys : InEntries(e, k)' => InEntries(e, k)
        /\ \A e \in Data, k \in Keys :
             InEntries(e, k)' /\ OnlyFirst(table[k]) => k # Key(t)
    BY <1>6, DelTable DEF ExitDel
  <2>2. /\ UNCHANGED <<tracker, pid, life, forTask, clean>>
        /\ \A u \in Tasks : PastExit(u)' => PastExit(u) \/ u = t
    BY <1>0, <1>6 DEF ExitDel, Goto, Runs, TrackerDel
  <2>3. \A d \in Data, k \in Keys : InEntries(d, k) => mem[d] # "unused"
    OBVIOUS
  <2>4. \A u \in Tasks : Key(u)' = Key(u)
    BY <2>2
  <2> HIDE DEF IInv, TypeOK, LifeInv, OwnInv, AddInv, Key, PastExit, Keys
  <2>6. \A e \in Data, k \in Keys : clean /\ InEntries(e, k)' => k # Key(t)
    BY <2>1 DEF IInv
  <2> QED
    BY <1>0, <2>1, <2>2, <2>3, <2>4, <2>6 DEF IInv, Keys
<1>7. ASSUME NEW t \in Tasks, ExitDetach(t) PROVE EntryInv'
  BY <1>0, <1>7 DEF ExitDetach, Goto, Runs
<1>8. ASSUME NEW t \in Tasks, ExitDetachNothing(t) PROVE EntryInv'
  BY <1>0, <1>8 DEF ExitDetachNothing, Goto, Runs
<1>9. ASSUME NEW t \in Tasks, ExitFree(t) PROVE EntryInv'
  BY <1>0, <1>9 DEF ExitFree, Goto, Runs
<1>10. ASSUME NEW t \in Tasks, LastSwitch(t) PROVE EntryInv'
  <2>1. \A k \in Keys : table'[k] = table[k] \/ table'[k] = <<>>
    BY <1>0, <1>10 DEF LastSwitch
  <2>2. \A e \in Data, k \in Keys : InEntries(e, k)' => InEntries(e, k)
    BY <2>1, ClearTable
  <2>3. /\ UNCHANGED <<tracker, pid, forTask, clean>> /\ PastExit(t)
        /\ \A u \in Tasks : PastExit(u)' => PastExit(u)
        /\ \A u \in Tasks : life[u] # "none" => life'[u] # "none"
    BY <1>0, <1>10 DEF LastSwitch, Runs
  <2>4. \A u \in Tasks : Key(u)' = Key(u)
    BY <2>3
  <2>5. \A d \in Data, k \in Keys : InEntries(d, k) => mem[d] # "unused"
    OBVIOUS
  <2>6. \A k \in Keys : OnlyFirst(table[k]) => OnlyFirst(table'[k])
    <3>1. OnlyFirst(<<>>)
      BY DEF OnlyFirst
    <3> HIDE DEF IInv, TypeOK, LifeInv, OwnInv, AddInv, EntryInv, Keys
    <3> QED
      BY <2>1, <3>1
  <2> HIDE DEF IInv, TypeOK, LifeInv, OwnInv, AddInv, Key, PastExit, Keys
  <2> QED
    BY <1>0, <2>2, <2>3, <2>4, <2>5, <2>6 DEF IInv, Keys
<1>11. ASSUME NEW t \in Tasks, Reap(t) PROVE EntryInv'
  BY <1>0, <1>11 DEF Reap
<1>12. ASSUME NEW t \in Tasks, Pmi(t) PROVE EntryInv'
  BY <1>0, <1>12 DEF Pmi, Runs
<1>13. ASSUME NEW t \in Tasks, PmiReturns(t) PROVE EntryInv'
  BY <1>0, <1>13 DEF PmiReturns
<1>14. ASSUME NEW t \in Tasks, Register(t) PROVE EntryInv'
  BY <1>0, <1>14 DEF Register
<1>15. ASSUME RegisterAdd PROVE EntryInv'
  <2>1. /\ UNCHANGED <<tracker, pid, life, forTask>>
        /\ forTask[writer.data] = writer.task /\ life[writer.task] # "none"
        /\ \A w \in Tasks : PastExit(w)' => PastExit(w)
    BY <1>15 DEF RegisterAdd
  <2> HIDE DEF IInv, TypeOK, EntryInv
  <2> QED
    BY <1>15, <2>1, RegisterAddIsAdd, AddEntry
<1>16. ASSUME ClientLoad \/ ClientUnload PROVE EntryInv'
  BY <1>0, <1>16 DEF ClientLoad, ClientUnload
<1>17. ASSUME NEW t \in Tasks, ExitDelMisses(t) PROVE EntryInv'
  <2>1. /\ UNCHANGED <<tracker, pid, life, forTask, table>>
        /\ clean' => clean /\ DataOf(t) = Null
        /\ \A u \in Tasks : PastExit(u)' => PastExit(u) \/ u = t
    <3>1. /\ UNCHANGED <<tracker, pid, life, forTask, table>>
          /\ clean' = (clean /\ DataOf(t) = Null)
          /\ fr' = [fr EXCEPT ![t] = "exit_detach"]
      BY <1>17 DEF ExitDelMisses, Goto
    <3>2. \A u \in Tasks : u # t => fr'[u] = fr[u]
      BY <3>1
    <3> QED
      BY <3>1, <3>2
  <2>2. \A d \in Data, k \in Keys : InEntries(d, k) => mem[d] # "unused"
    OBVIOUS
  <2>3. \A u \in Tasks : Key(u)' = Key(u)
    BY <2>1
  <2>4. Key(t) \in Keys
    BY KeyOfTask
  <2> HIDE DEF IInv, TypeOK, LifeInv, OwnInv, AddInv, Key, PastExit, Keys
  <2>5. \A e \in Data : clean' => ~InEntries(e, Key(t))
    BY <2>1, <2>4, OnlyEntry, NullAssumption DEF IInv
  <2> QED
    BY <1>0, <2>1, <2>2, <2>3, <2>5 DEF IInv, Keys
<1>18. ASSUME NEW t \in Tasks, OpenEvent(t) PROVE EntryInv'
  <2>1. /\ \A k \in Keys : OnlyFirst(table[k]) => OnlyFirst(table'[k])
        /\ \A e \in Data, k \in Keys : InEntries(e, k)' <=> InEntries(e, k)
    BY <1>18, OpenTable DEF OpenEvent
  <2>2. UNCHANGED <<tracker, pid, life, forTask, clean, fr>>
    BY <1>18 DEF OpenEvent
  <2>3. \A d \in Data, k \in Keys : InEntries(d, k) => mem[d] # "unused"
    OBVIOUS
  <2>4. \A u \in Tasks : Key(u)' = Key(u) /\ (PastExit(u)' <=> PastExit(u))
    BY <2>2
  <2> HIDE DEF IInv, TypeOK, LifeInv, OwnInv, AddInv, Key, PastExit, Keys
  <2> QED
    BY <1>0, <2>1, <2>2, <2>3, <2>4 DEF IInv, Keys
<1>19. ASSUME RegisterFind PROVE EntryInv'
  BY <1>0, <1>19 DEF RegisterFind
<1> QED
  BY <1>1, <1>2, <1>3, <1>4, <1>5, <1>6, <1>7, <1>8, <1>9, <1>10, <1>11, <1>12,
      <1>13, <1>14, <1>15, <1>16, <1>17, <1>18, <1>19 DEF Next, TaskStep

\* What a PMI found, by the condition of PmiInv.
Seen(u) ==
  /\ mem[pmi[u]] # "unused"
  /\ \/ /\ mem[pmi[u]] = "allocated" /\ clist[pmi[u]] # "freed"
        /\ InEntries(pmi[u], Key(u)) \/ Unowned(pmi[u])
     \/ tracker = "HASH" /\ PidTaken(u)

\* The pid of a running task stays taken by whoever took it.
LEMMA PidStaysTaken ==
  ASSUME NEW u \in Tasks, PidTaken(u), life'[u] = life[u], pid'[u] = pid[u],
         \A w \in Tasks :
           life[w] # "none" => life'[w] # "none" /\ pid'[w] = pid[w]
  PROVE  PidTaken(u)'
  BY DEF PidTaken

\* What a PMI uses is in no wrapper's hand, but for a pid that was reused.
LEMMA NotInHand ==
  ASSUME IInv, NEW u \in Tasks, NEW t \in Tasks, pmi[u] # Null,
         hand[t] = pmi[u]
  PROVE  tracker = "HASH" /\ PidTaken(u)
<1>1. pmi[u] \in Data /\ Key(u) \in Keys
  BY KeyOfTask DEF IInv, TypeOK
<1>2. ~InEntries(pmi[u], Key(u))
  BY <1>1 DEF IInv, OwnInv
<1>3. ~Unowned(pmi[u])
  BY DEF Unowned
<1> QED
  BY <1>2, <1>3 DEF IInv, PmiInv

\* A step that frees nothing and takes what the PMI found at most from another
\* task, whose pid the interrupted task shares.
LEMMA PmiWaits ==
  ASSUME IInv, NEW u \in Tasks, pmi[u] # Null, pmi'[u] = pmi[u],
         UNCHANGED <<tracker, mem, clist>>, pid'[u] = pid[u],
         PidTaken(u) => PidTaken(u)',
         tracker # "HASH" \/ ~PidTaken(u)' =>
           /\ \A k \in Keys : InEntries(pmi[u], k)' => InEntries(pmi[u], k)
           /\ \A t \in Tasks : hand'[t] = pmi[u] => hand[t] = pmi[u]
           /\ writer'.data = pmi[u] => writer.data = pmi[u]
  PROVE  Seen(u)'
<1> DEFINE d == pmi[u]
<1>1. Seen(u) /\ d \in Data
  BY DEF IInv, PmiInv, Seen, TypeOK
<1>2. Key(u) \in Keys /\ Key(u)' = Key(u)
  BY KeyOfTask DEF IInv, Key
<1>3. CASE tracker = "HASH" /\ PidTaken(u)'
  BY <1>1, <1>3 DEF Seen
<1>4. CASE ~(tracker = "HASH" /\ PidTaken(u)')
  <2>1. /\ mem[d] = "allocated" /\ clist[d] # "freed"
        /\ InEntries(d, Key(u)) \/ Unowned(d)
    BY <1>1, <1>4 DEF Seen
  <2>2. CASE InEntries(d, Key(u))'
    BY <1>2, <2>1, <2>2 DEF Seen
  <2>3. CASE ~InEntries(d, Key(u))'
    <3>1. \A k \in Keys : ~InEntries(d, k)'
      <4>1. CASE Unowned(d)
        BY <1>4, <4>1 DEF Unowned
      <4>2. CASE InEntries(d, Key(u))
        BY <1>1, <1>2, <1>4, <2>3, <4>2 DEF IInv, OwnInv
      <4> QED
        BY <2>1, <4>1, <4>2
    <3>2. (\A t \in Tasks : hand[t] # d) /\ writer.data # d
      BY <1>1, <1>2, <2>1 DEF IInv, OwnInv, Unowned
    <3>3. (\A t \in Tasks : hand'[t] # d) /\ writer'.data # d
      BY <1>4, <3>2
    <3>4. Unowned(d)'
      BY <3>1, <3>3 DEF Unowned
    <3> HIDE DEF d
    <3> QED
      BY <2>1, <3>4 DEF Seen, d
  <2> QED
    BY <2>2, <2>3
<1> QED
  BY <1>3, <1>4

\* The exit that frees what a PMI uses is the exit of a task that shares the
\* interrupted task's pid: the interrupted task does not run.
LEMMA PmiNext == ASSUME IInv, Next PROVE PmiInv'
<1> USE NullAssumption DEF taskVars, dataVars, IInv, TypeOK, LifeInv, KidInv,
    NoJob, Forking
<1>1. ASSUME NEW t \in Tasks, NEW c \in Tasks, NEW p \in Pids,
             Fork(t, c, p) PROVE PmiInv'
  <2>1. ASSUME NEW u \in Tasks, pmi'[u] # Null PROVE Seen(u)'
    <3>1. /\ UNCHANGED <<pmi, tracker, mem, clist, hand, writer, table>>
          /\ life[c] = "none" /\ life' = [life EXCEPT ![c] = "new"]
          /\ pid' = [pid EXCEPT ![c] = p]
      BY <1>1 DEF Fork
    <3>2. life[u] \in {"live", "reaped"}
      BY <2>1, <3>1
    <3>3. /\ pid'[u] = pid[u] /\ life'[u] = life[u]
          /\ \A w \in Tasks :
               life[w] # "none" => life'[w] # "none" /\ pid'[w] = pid[w]
      BY <3>1, <3>2
    <3>4. PidTaken(u) => PidTaken(u)'
      BY <3>3, PidStaysTaken
    <3> HIDE DEF IInv, TypeOK, LifeInv, KidInv
    <3> QED
      BY <2>1, <3>1, <3>3, <3>4, SameEntries, PmiWaits
  <2> QED
    BY <2>1 DEF PmiInv, Seen
<1>2. ASSUME NEW t \in Tasks, ForkQuery(t) \/ ForkAttachFails(t) \/ ForkWake(t)
      PROVE  PmiInv'
  <2>1. ASSUME NEW u \in Tasks, pmi'[u] # Null PROVE Seen(u)'
    <3>1. /\ pmi'[u] = pmi[u] /\ UNCHANGED <<tracker, mem, clist>>
          /\ pid'[u] = pid[u] /\ life'[u] = life[u]
          /\ \A w \in Tasks :
               life[w] # "none" => life'[w] # "none" /\ pid'[w] = pid[w]
      BY <1>2, <2>1 DEF ForkQuery, ForkAttachFails, ForkWake, Goto, Runs
    <3>2. PidTaken(u) => PidTaken(u)'
      BY <3>1, PidStaysTaken
    <3>3. /\ \A k \in Keys : InEntries(pmi[u], k)' => InEntries(pmi[u], k)
          /\ \A w \in Tasks : hand'[w] = pmi[u] => hand[w] = pmi[u]
          /\ writer'.data = pmi[u] => writer.data = pmi[u]
      BY <1>2, <2>1, SameEntries DEF ForkQuery, ForkAttachFails, ForkWake,
        Goto, Runs
    <3> HIDE DEF IInv, TypeOK, LifeInv, KidInv
    <3> QED
      BY <2>1, <3>1, <3>2, <3>3, PmiWaits
  <2> QED
    BY <2>1 DEF PmiInv, Seen
<1>3. ASSUME NEW t \in Tasks, ForkAttach(t) PROVE PmiInv'
  BY <1>3, SameEntries DEF ForkAttach, Goto, Runs, PmiInv, OwnInv, Key,
    Unowned, PidTaken
<1>4. ASSUME NEW t \in Tasks, ForkAdd(t) PROVE PmiInv'
  <2>1. ASSUME NEW u \in Tasks, pmi'[u] # Null PROVE Seen(u)'
    <3>1. /\ pmi'[u] = pmi[u] /\ UNCHANGED <<tracker, mem, clist>>
          /\ pid'[u] = pid[u] /\ life'[u] = life[u]
          /\ \A w \in Tasks :
               life[w] # "none" => life'[w] # "none" /\ pid'[w] = pid[w]
      BY <1>4, <2>1 DEF ForkAdd, Goto, Runs, TrackerAdd, TrackerAddFails
    <3>2. PidTaken(u) => PidTaken(u)'
      BY <3>1, PidStaysTaken
    <3>3. \A e \in Data, k \in Keys : InEntries(e, k)' =>
            InEntries(e, k) \/ e = hand[t]
      BY <1>4, ForkAddIsAdd DEF AddEffect
    <3>4. pmi[u] = hand[t] => tracker = "HASH" /\ PidTaken(u)
      BY <2>1, <3>1, NotInHand
    <3>5. tracker # "HASH" \/ ~PidTaken(u)' =>
          /\ \A k \in Keys : InEntries(pmi[u], k)' => InEntries(pmi[u], k)
          /\ \A w \in Tasks : hand'[w] = pmi[u] => hand[w] = pmi[u]
          /\ writer'.data = pmi[u] => writer.data = pmi[u]
      BY <1>4, <2>1, <3>1, <3>2, <3>3, <3>4 DEF ForkAdd, Goto, Runs,
        TrackerAdd, TrackerAddFails
    <3> HIDE DEF IInv, TypeOK, LifeInv, KidInv
    <3> QED
      BY <2>1, <3>1, <3>2, <3>5, PmiWaits
  <2> QED
    BY <2>1 DEF PmiInv, Seen
<1>5. ASSUME NEW t \in Tasks, Exit(t) PROVE PmiInv'
  <2>1. ASSUME NEW u \in Tasks, pmi'[u] # Null PROVE Seen(u)'
    <3>1. /\ pmi'[u] = pmi[u] /\ UNCHANGED <<tracker, mem, clist>>
          /\ pid'[u] = pid[u] /\ life'[u] = life[u]
          /\ \A w \in Tasks :
               life[w] # "none" => life'[w] # "none" /\ pid'[w] = pid[w]
      BY <1>5, <2>1 DEF Exit, Goto, Runs
    <3>2. PidTaken(u) => PidTaken(u)'
      BY <3>1, PidStaysTaken
    <3>3. /\ \A k \in Keys : InEntries(pmi[u], k)' => InEntries(pmi[u], k)
          /\ \A w \in Tasks : hand'[w] = pmi[u] => hand[w] = pmi[u]
          /\ writer'.data = pmi[u] => writer.data = pmi[u]
      BY <1>5, <2>1, SameEntries DEF Exit, Goto, Runs
    <3> HIDE DEF IInv, TypeOK, LifeInv, KidInv
    <3> QED
      BY <2>1, <3>1, <3>2, <3>3, PmiWaits
  <2> QED
    BY <2>1 DEF PmiInv, Seen
<1>6. ASSUME NEW t \in Tasks, ExitDel(t) PROVE PmiInv'
  <2>1. ASSUME NEW u \in Tasks, pmi'[u] # Null PROVE Seen(u)'
    <3>1. /\ pmi'[u] = pmi[u] /\ UNCHANGED <<tracker, mem, clist>>
          /\ pid'[u] = pid[u] /\ life'[u] = life[u]
          /\ \A w \in Tasks :
               life[w] # "none" => life'[w] # "none" /\ pid'[w] = pid[w]
      BY <1>6, <2>1 DEF ExitDel, Goto, Runs, TrackerDel
    <3>2. PidTaken(u) => PidTaken(u)'
      BY <3>1, PidStaysTaken
    <3>3. \A e \in Data, k \in Keys : InEntries(e, k)' => InEntries(e, k)
      BY <1>6, DelTable DEF ExitDel
    <3>4. u # t /\ life[t] = "live" /\ life[u] \in {"live", "reaped"}
      BY <1>6, <2>1, <3>1 DEF ExitDel, Goto, Runs
    <3>5. DataOf(t) # Null => InEntries(DataOf(t), Key(t))
      BY DataIsEntry
    <3>6. InEntries(pmi[u], Key(t)) =>
            \/ tracker = "HASH" /\ PidTaken(u)
            \/ Key(u) = Key(t)
      BY <2>1, <3>1, KeyOfTask DEF PmiInv, OwnInv, Unowned
    <3>7. Key(u) = Key(t) => tracker = "HASH" /\ PidTaken(u)
      BY <3>4 DEF Key, PidTaken, PidInv, HasPid
    <3>8. tracker # "HASH" \/ ~PidTaken(u)' =>
          /\ \A k \in Keys : InEntries(pmi[u], k)' => InEntries(pmi[u], k)
          /\ \A w \in Tasks : hand'[w] = pmi[u] => hand[w] = pmi[u]
          /\ writer'.data = pmi[u] => writer.data = pmi[u]
      BY <1>6, <2>1, <3>1, <3>2, <3>3, <3>5, <3>6, <3>7 DEF ExitDel
    <3> HIDE DEF IInv, TypeOK, LifeInv, KidInv
    <3> QED
      BY <2>1, <3>1, <3>2, <3>8, PmiWaits
  <2> QED
    BY <2>1 DEF PmiInv, Seen
<1>7. ASSUME NEW t \in Tasks, ExitDetach(t) PROVE PmiInv'
  <2>1. ASSUME NEW u \in Tasks, pmi'[u] # Null PROVE Seen(u)'
    <3>1. /\ pmi'[u] = pmi[u]
          /\ UNCHANGED <<tracker, writer, table, pid, life>>
          /\ mem' = mem /\ clist' = [clist EXCEPT ![hand[t]] = "freed"]
          /\ hand[t] # Null /\ fr[t] \in {"exit_detach", "exit_free"}
          /\ hand' = hand \/ hand' = [hand EXCEPT ![t] = Null]
      BY <1>7, <2>1 DEF ExitDetach, Goto, Runs
    <3>2. PidTaken(u)' <=> PidTaken(u)
      BY <3>1 DEF PidTaken
    <3>3. pmi[u] = hand[t] => tracker = "HASH" /\ PidTaken(u)
      BY <2>1, <3>1, NotInHand
    <3>4. Key(u)' = Key(u)
      BY <3>1 DEF Key
    <3>5. Unowned(pmi[u]) => Unowned(pmi[u])'
      BY <2>1, <3>1, SameEntries DEF Unowned
    <3>6. Seen(u) /\ pmi[u] \in Data
      BY <2>1, <3>1 DEF PmiInv, Seen
    <3> HIDE DEF IInv, TypeOK, LifeInv, KidInv
    <3>7. CASE pmi[u] = hand[t]
      BY <3>1, <3>2, <3>3, <3>6, <3>7 DEF Seen, IInv, TypeOK
    <3>8. CASE pmi[u] # hand[t]
      BY <3>1, <3>2, <3>4, <3>5, <3>6, <3>8, SameEntries DEF Seen, IInv, TypeOK
    <3> QED
      BY <3>7, <3>8
  <2> QED
    BY <2>1 DEF PmiInv, Seen
<1>8. ASSUME NEW t \in Tasks, ExitDetachNothing(t) PROVE PmiInv'
  <2>1. ASSUME NEW u \in Tasks, pmi'[u] # Null PROVE Seen(u)'
    <3>1. /\ pmi'[u] = pmi[u] /\ UNCHANGED <<tracker, mem, clist>>
          /\ pid'[u] = pid[u] /\ life'[u] = life[u]
          /\ \A w \in Tasks :
               life[w] # "none" => life'[w] # "none" /\ pid'[w] = pid[w]
      BY <1>8, <2>1 DEF ExitDetachNothing, Goto, Runs
    <3>2. PidTaken(u) => PidTaken(u)'
      BY <3>1, PidStaysTaken
    <3>3. /\ \A k \in Keys : InEntries(pmi[u], k)' => InEntries(pmi[u], k)
          /\ \A w \in Tasks : hand'[w] = pmi[u] => hand[w] = pmi[u]
          /\ writer'.data = pmi[u] => writer.data = pmi[u]
      BY <1>8, <2>1, SameEntries DEF ExitDetachNothing, Goto, Runs
    <3> HIDE DEF IInv, TypeOK, LifeInv, KidInv
    <3> QED
      BY <2>1, <3>1, <3>2, <3>3, PmiWaits
  <2> QED
    BY <2>1 DEF PmiInv, Seen
<1>9. ASSUME NEW t \in Tasks, ExitFree(t) PROVE PmiInv'
  <2>1. ASSUME NEW u \in Tasks, pmi'[u] # Null PROVE Seen(u)'
    <3>1. /\ pmi'[u] = pmi[u]
          /\ UNCHANGED <<tracker, writer, table, pid, life>>
          /\ clist' = clist /\ mem' = [mem EXCEPT ![hand[t]] = "freed"]
          /\ hand[t] # Null /\ fr[t] \in {"exit_detach", "exit_free"}
          /\ hand' = hand \/ hand' = [hand EXCEPT ![t] = Null]
      BY <1>9, <2>1 DEF ExitFree, Goto, Runs
    <3>2. PidTaken(u)' <=> PidTaken(u)
      BY <3>1 DEF PidTaken
    <3>3. pmi[u] = hand[t] => tracker = "HASH" /\ PidTaken(u)
      BY <2>1, <3>1, NotInHand
    <3>4. Key(u)' = Key(u)
      BY <3>1 DEF Key
    <3>5. Unowned(pmi[u]) => Unowned(pmi[u])'
      BY <2>1, <3>1, SameEntries DEF Unowned
    <3>6. Seen(u) /\ pmi[u] \in Data
      BY <2>1, <3>1 DEF PmiInv, Seen
    <3> HIDE DEF IInv, TypeOK, LifeInv, KidInv
    <3>7. CASE pmi[u] = hand[t]
      BY <3>1, <3>2, <3>3, <3>6, <3>7 DEF Seen, IInv, TypeOK
    <3>8. CASE pmi[u] # hand[t]
      BY <3>1, <3>2, <3>4, <3>5, <3>6, <3>8, SameEntries DEF Seen, IInv, TypeOK
    <3> QED
      BY <3>7, <3>8
  <2> QED
    BY <2>1 DEF PmiInv, Seen
<1>10. ASSUME NEW t \in Tasks, LastSwitch(t) PROVE PmiInv'
  <2>1. ASSUME NEW u \in Tasks, pmi'[u] # Null PROVE Seen(u)'
    <3>1. /\ pmi'[u] = pmi[u]
          /\ UNCHANGED <<tracker, mem, clist, hand, writer>>
          /\ u # t /\ pid'[u] = pid[u] /\ life'[u] = life[u]
          /\ \A w \in Tasks :
               life[w] # "none" => life'[w] # "none" /\ pid'[w] = pid[w]
      BY <1>10, <2>1 DEF LastSwitch, Runs
    <3>2. PidTaken(u) => PidTaken(u)'
      BY <3>1, PidStaysTaken
    <3>3. \A k \in Keys : table'[k] = table[k] \/ table'[k] = <<>>
      BY <1>10 DEF LastSwitch, Keys
    <3>4. \A d \in Data, k \in Keys : InEntries(d, k)' => InEntries(d, k)
      BY <3>3, ClearTable
    <3> HIDE DEF IInv, TypeOK, LifeInv, KidInv
    <3> QED
      BY <2>1, <3>1, <3>2, <3>4, PmiWaits DEF IInv, TypeOK
  <2> QED
    BY <2>1 DEF PmiInv, Seen
<1>11. ASSUME NEW t \in Tasks, Reap(t) PROVE PmiInv'
  BY <1>11, SameEntries DEF Reap, PmiInv, OwnInv, Key, Unowned, PidTaken
<1>12. ASSUME NEW t \in Tasks, Pmi(t) PROVE PmiInv'
  <2>1. InEntries(DataOf(t), Key(t)) /\ DataOf(t) \in Data /\ Key(t) \in Keys
    BY <1>12, DataIsEntry, KeyOfTask DEF Pmi
  <2>2. /\ pmi' = [pmi EXCEPT ![t] = DataOf(t)]
        /\ UNCHANGED <<tracker, mem, clist, hand, writer, table, pid, life>>
    BY <1>12 DEF Pmi
  <2>3. ASSUME NEW u \in Tasks, pmi'[u] # Null PROVE Seen(u)'
    <3>1. CASE u = t
      <4>1. mem[DataOf(t)] = "allocated" /\ clist[DataOf(t)] # "freed"
        BY <2>1 DEF OwnInv
      <4> QED
        BY <2>1, <2>2, <3>1, <4>1, SameEntries DEF Seen, Key
    <3>2. CASE u # t
      <4>1. pmi'[u] = pmi[u]
        BY <2>2, <3>2
      <4> HIDE DEF IInv, TypeOK, LifeInv, KidInv
      <4> QED
        BY <2>2, <2>3, <4>1, SameEntries, PmiWaits DEF PidTaken
    <3> QED
      BY <3>1, <3>2
  <2> QED
    BY <2>3 DEF PmiInv, Seen
<1>13. ASSUME NEW t \in Tasks, PmiReturns(t) PROVE PmiInv'
  BY <1>13, SameEntries DEF PmiReturns, PmiInv, OwnInv, Key, Unowned, PidTaken
<1>14. ASSUME NEW t \in Tasks, Register(t) PROVE PmiInv'
  BY <1>14, SameEntries DEF Register, PmiInv, OwnInv, Key, Unowned, PidTaken
<1>15. ASSUME RegisterAdd PROVE PmiInv'
  <2>1. ASSUME NEW u \in Tasks, pmi'[u] # Null PROVE Seen(u)'
    <3>1. /\ pmi'[u] = pmi[u] /\ UNCHANGED <<tracker, mem, clist>>
          /\ pid'[u] = pid[u] /\ life'[u] = life[u]
          /\ \A w \in Tasks :
               life[w] # "none" => life'[w] # "none" /\ pid'[w] = pid[w]
      BY <1>15, <2>1 DEF RegisterAdd, TrackerAdd, TrackerAddFails,
        LateStore
    <3>2. PidTaken(u) => PidTaken(u)'
      BY <3>1, PidStaysTaken
    <3>3. \A e \in Data, k \in Keys : InEntries(e, k)' =>
            InEntries(e, k) \/ e = writer.data
      BY <1>15, RegisterAddIsAdd DEF AddEffect
    <3>4. pmi[u] = writer.data => tracker = "HASH" /\ PidTaken(u)
      BY <1>15, <2>1, <3>1, KeyOfTask, RegisterAddIsAdd DEF RegisterAdd,
        PmiInv, OwnInv, Unowned
    <3>5. tracker # "HASH" \/ ~PidTaken(u)' =>
          /\ \A k \in Keys : InEntries(pmi[u], k)' => InEntries(pmi[u], k)
          /\ \A w \in Tasks : hand'[w] = pmi[u] => hand[w] = pmi[u]
          /\ writer'.data = pmi[u] => writer.data = pmi[u]
      BY <1>15, <2>1, <3>1, <3>2, <3>3, <3>4 DEF RegisterAdd
    <3> HIDE DEF IInv, TypeOK, LifeInv, KidInv
    <3> QED
      BY <2>1, <3>1, <3>2, <3>5, PmiWaits
  <2> QED
    BY <2>1 DEF PmiInv, Seen
<1>16. ASSUME ClientLoad \/ ClientUnload PROVE PmiInv'
  <2>1. ASSUME NEW u \in Tasks, pmi'[u] # Null PROVE Seen(u)'
    <3>1. /\ pmi'[u] = pmi[u] /\ UNCHANGED <<tracker, mem, clist>>
          /\ pid'[u] = pid[u] /\ life'[u] = life[u]
          /\ \A w \in Tasks :
               life[w] # "none" => life'[w] # "none" /\ pid'[w] = pid[w]
      BY <1>16, <2>1 DEF ClientLoad, ClientUnload
    <3>2. PidTaken(u) => PidTaken(u)'
      BY <3>1, PidStaysTaken
    <3>3. /\ \A k \in Keys : InEntries(pmi[u], k)' => InEntries(pmi[u], k)
          /\ \A w \in Tasks : hand'[w] = pmi[u] => hand[w] = pmi[u]
          /\ writer'.data = pmi[u] => writer.data = pmi[u]
      BY <1>16, <2>1, SameEntries DEF ClientLoad, ClientUnload
    <3> HIDE DEF IInv, TypeOK, LifeInv, KidInv
    <3> QED
      BY <2>1, <3>1, <3>2, <3>3, PmiWaits
  <2> QED
    BY <2>1 DEF PmiInv, Seen
<1>17. ASSUME NEW t \in Tasks, ExitDelMisses(t) PROVE PmiInv'
  <2>1. ASSUME NEW u \in Tasks, pmi'[u] # Null PROVE Seen(u)'
    <3>1. /\ pmi'[u] = pmi[u] /\ UNCHANGED <<tracker, mem, clist>>
          /\ pid'[u] = pid[u] /\ life'[u] = life[u]
          /\ \A w \in Tasks :
               life[w] # "none" => life'[w] # "none" /\ pid'[w] = pid[w]
      BY <1>17, <2>1 DEF ExitDelMisses, Goto, Runs
    <3>2. PidTaken(u) => PidTaken(u)'
      BY <3>1, PidStaysTaken
    <3>3. /\ \A k \in Keys : InEntries(pmi[u], k)' => InEntries(pmi[u], k)
          /\ \A w \in Tasks : hand'[w] = pmi[u] => hand[w] = pmi[u]
          /\ writer'.data = pmi[u] => writer.data = pmi[u]
      BY <1>17, <2>1, <3>1, SameEntries DEF ExitDelMisses, Goto, Runs
    <3> HIDE DEF IInv, TypeOK, LifeInv, KidInv
    <3> QED
      BY <2>1, <3>1, <3>2, <3>3, PmiWaits
  <2> QED
    BY <2>1 DEF PmiInv, Seen
<1>18. ASSUME NEW t \in Tasks, OpenEvent(t) PROVE PmiInv'
  <2>1. ASSUME NEW u \in Tasks, pmi'[u] # Null PROVE Seen(u)'
    <3>1. /\ pmi'[u] = pmi[u] /\ UNCHANGED <<tracker, mem, clist>>
          /\ pid'[u] = pid[u] /\ life'[u] = life[u]
          /\ \A w \in Tasks :
               life[w] # "none" => life'[w] # "none" /\ pid'[w] = pid[w]
      BY <1>18, <2>1 DEF OpenEvent
    <3>2. PidTaken(u) => PidTaken(u)'
      BY <3>1, PidStaysTaken
    <3>3. /\ \A k \in Keys : InEntries(pmi[u], k)' => InEntries(pmi[u], k)
          /\ \A w \in Tasks : hand'[w] = pmi[u] => hand[w] = pmi[u]
          /\ writer'.data = pmi[u] => writer.data = pmi[u]
      <4>1. \A e \in Data, k \in Keys : InEntries(e, k)' <=> InEntries(e, k)
        BY <1>18, OpenTable DEF OpenEvent
      <4>2. pmi[u] \in Data /\ hand' = hand /\ writer' = writer
        BY <1>18, <2>1, <3>1 DEF OpenEvent
      <4> HIDE DEF IInv, TypeOK, LifeInv, KidInv
      <4>3. PICK d \in Data : d = pmi[u] /\ d = pmi'[u]
        BY <3>1, <4>2
      <4>4. \A k \in Keys : InEntries(d, k)' => InEntries(d, k)
        BY <4>1
      <4> QED
        BY <4>2, <4>3, <4>4 DEF InEntries
    <3> HIDE DEF IInv, TypeOK, LifeInv, KidInv
    <3> QED
      BY <2>1, <3>1, <3>2, <3>3, PmiWaits
  <2> QED
    BY <2>1 DEF PmiInv, Seen
<1>19. ASSUME RegisterFind PROVE PmiInv'
  <2>1. ASSUME NEW u \in Tasks, pmi'[u] # Null PROVE Seen(u)'
    <3>1. /\ pmi'[u] = pmi[u] /\ UNCHANGED <<tracker, mem, clist>>
          /\ pid'[u] = pid[u] /\ life'[u] = life[u]
          /\ \A w \in Tasks :
               life[w] # "none" => life'[w] # "none" /\ pid'[w] = pid[w]
      BY <1>19, <2>1 DEF RegisterFind
    <3>2. PidTaken(u) => PidTaken(u)'
      BY <3>1, PidStaysTaken
    <3>3. /\ \A k \in Keys : InEntries(pmi[u], k)' => InEntries(pmi[u], k)
          /\ \A w \in Tasks : hand'[w] = pmi[u] => hand[w] = pmi[u]
          /\ writer'.data = pmi[u] => writer.data = pmi[u]
      BY <1>19, <2>1, <3>1, SameEntries DEF RegisterFind
    <3> HIDE DEF IInv, TypeOK, LifeInv, KidInv
    <3> QED
      BY <2>1, <3>1, <3>2, <3>3, PmiWaits
  <2> QED
    BY <2>1 DEF PmiInv, Seen
<1> QED
  BY <1>1, <1>2, <1>3, <1>4, <1>5, <1>6, <1>7, <1>8, <1>9, <1>10, <1>11, <1>12,
      <1>13, <1>14, <1>15, <1>16, <1>17, <1>18, <1>19 DEF Next, TaskStep

\* A PMI finds the entry of its own task, and keeps it.
LEMMA SamplesNext == ASSUME IInv, Next PROVE SampleInv'
<1> USE NullAssumption, SameEntries DEF taskVars, dataVars, IInv, TypeOK,
    LifeInv, PmiInv, SampleInv, NoJob
<1>0. /\ clean' => clean
      /\ \A d \in Data : mem[d] # "unused" /\ Strayed(d) => Strayed(d)'
  BY GoneForGood, StraysOn
<1>1. ASSUME NEW t \in Tasks, NEW c \in Tasks, NEW p \in Pids,
             Fork(t, c, p) PROVE SampleInv'
  BY <1>0, <1>1 DEF Fork, Goto, Runs
<1>2. ASSUME NEW t \in Tasks, ForkQuery(t) \/ ForkAttachFails(t) \/ ForkWake(t)
      PROVE  SampleInv'
  BY <1>0, <1>2 DEF ForkQuery, ForkAttachFails, ForkWake, Goto, Runs
<1>3. ASSUME NEW t \in Tasks, ForkAttach(t) PROVE SampleInv'
  BY <1>0, <1>3 DEF ForkAttach, Goto, Runs
<1>4. ASSUME NEW t \in Tasks, ForkAdd(t) PROVE SampleInv'
  BY <1>0, <1>4 DEF ForkAdd, Goto, Runs, TrackerAdd, TrackerAddFails
<1>5. ASSUME NEW t \in Tasks, Exit(t) PROVE SampleInv'
  BY <1>0, <1>5 DEF Exit, Goto, Runs
<1>6. ASSUME NEW t \in Tasks, ExitDel(t) PROVE SampleInv'
  BY <1>0, <1>6 DEF ExitDel, Goto, Runs, TrackerDel
<1>7. ASSUME NEW t \in Tasks, ExitDetach(t) PROVE SampleInv'
  BY <1>0, <1>7 DEF ExitDetach, Goto, Runs
<1>8. ASSUME NEW t \in Tasks, ExitDetachNothing(t) PROVE SampleInv'
  BY <1>0, <1>8 DEF ExitDetachNothing, Goto, Runs
<1>9. ASSUME NEW t \in Tasks, ExitFree(t) PROVE SampleInv'
  BY <1>0, <1>9 DEF ExitFree, Goto, Runs
<1>10. ASSUME NEW t \in Tasks, LastSwitch(t) PROVE SampleInv'
  BY <1>0, <1>10 DEF LastSwitch, Runs
<1>11. ASSUME NEW t \in Tasks, Reap(t) PROVE SampleInv'
  BY <1>0, <1>11 DEF Reap
<1>12. ASSUME NEW t \in Tasks, Pmi(t) PROVE SampleInv'
  <2>1. InEntries(DataOf(t), Key(t)) /\ DataOf(t) \in Data /\ Key(t) \in Keys
    BY <1>12, DataIsEntry, KeyOfTask DEF Pmi
  <2>2. CASE tracker = "HASH" /\ ~clean
    BY <1>0, <1>12, <2>2 DEF Pmi
  <2>3. CASE tracker # "HASH"
    <3>1. \/ forTask[DataOf(t)] = t \/ Strayed(DataOf(t))
      BY <2>1, <2>3 DEF EntryInv, Key
    <3>2. mem[DataOf(t)] # "unused"
      BY <2>1 DEF OwnInv
    <3> QED
      BY <1>0, <1>12, <2>1, <3>1, <3>2 DEF Pmi
  <2>4. CASE tracker = "HASH" /\ clean
    <3>1. PICK u \in Tasks : /\ forTask[DataOf(t)] = u /\ Key(u) = Key(t)
                             /\ life[u] # "none" /\ ~PastExit(u)
      BY <2>1, <2>4 DEF EntryInv
    <3>2. HasPid(u) /\ HasPid(t)
      BY <1>12, <2>4, <3>1 DEF HasPid, PastExit, OffCpu, Lives, Pmi, Runs
    <3>3. pid[u] = pid[t]
      BY <2>4, <3>1 DEF Key
    <3>4. forTask[DataOf(t)] = t
      BY <3>1, <3>2, <3>3 DEF PidInv
    <3> QED
      BY <1>0, <1>12, <3>4 DEF Pmi
  <2> QED
    BY <2>2, <2>3, <2>4
<1>13. ASSUME NEW t \in Tasks, PmiReturns(t) PROVE SampleInv'
  BY <1>0, <1>13 DEF PmiReturns
<1>14. ASSUME NEW t \in Tasks, Register(t) PROVE SampleInv'
  BY <1>0, <1>14 DEF Register
<1>15. ASSUME RegisterAdd PROVE SampleInv'
  BY <1>0, <1>15 DEF RegisterAdd, TrackerAdd, TrackerAddFails,
    LateStore
<1>16. ASSUME ClientLoad \/ ClientUnload PROVE SampleInv'
  BY <1>0, <1>16 DEF ClientLoad, ClientUnload
<1>17. ASSUME NEW t \in Tasks, ExitDelMisses(t) PROVE SampleInv'
  BY <1>0, <1>17 DEF ExitDelMisses, Goto, Runs
<1>18. ASSUME NEW t \in Tasks, OpenEvent(t) PROVE SampleInv'
  BY <1>0, <1>18 DEF OpenEvent, Runs
<1>19. ASSUME RegisterFind PROVE SampleInv'
  BY <1>0, <1>19 DEF RegisterFind
<1> QED
  BY <1>1, <1>2, <1>3, <1>4, <1>5, <1>6, <1>7, <1>8, <1>9, <1>10, <1>11, <1>12,
      <1>13, <1>14, <1>15, <1>16, <1>17, <1>18, <1>19 DEF Next, TaskStep

\* u is to exit yet, and its exit will find d.
Found(d, u) ==
  forTask[d] = u /\ life[u] # "none" /\ ~PastExit(u) /\ InEntries(d, Key(u))

\* The condition of NothingLost.
Cared(d) ==
  \/ writer.data = d
  \/ \E t \in Tasks : hand[t] = d
  \/ \E t \in Tasks : Found(d, t)

\* NothingLost, data by data.
LEMMA LostIsCared ==
  NothingLost <=> (clean => \A d \in Data : mem[d] = "allocated" => Cared(d))
  BY DEF NothingLost, Cared, Found

\* A step that hands on what it takes.
LEMMA StillCared ==
  ASSUME NEW d \in Data, Cared(d),
         writer.data = d => Cared(d)',
         \A t \in Tasks : hand[t] = d => Cared(d)',
         \A t \in Tasks : Found(d, t) => Cared(d)'
  PROVE  Cared(d)'
  BY DEF Cared

\* An addition makes d an entry of the task it is for.
LEMMA AddCared ==
  ASSUME IInv, NEW u \in Tasks, NEW d \in Data \cup {Null},
         Adds(u, d), clean',
         d # Null => \A k \in Keys : ~InEntries(d, k),
         d # Null => forTask[d] = u /\ life[u] # "none",
         UNCHANGED <<tracker, pid, life, forTask>>,
         \A w \in Tasks : PastExit(w)' => PastExit(w)
  PROVE  /\ d # Null => Cared(d)'
         /\ \A e \in Data, w \in Tasks : Found(e, w) => Found(e, w)'
<1>1. /\ \A k \in Keys : k # Key(u) => table'[k] = table[k]
      /\ \/ table' = table /\ d = Null
         \/ ~Tracked(u) /\ ~PastExit(u) /\ table'[Key(u)] = <<d>>
  <2>1. PICK key \in Keys : AddEffect(u, d, key)
    BY AddOrNot DEF IInv
  <2>2. key = Key(u)
    BY <2>1 DEF AddEffect
  <2> QED
    BY <2>1, <2>2 DEF AddEffect
<1>2. \A w \in Tasks : Key(w)' = Key(w) /\ Key(w) \in Keys
  BY KeyOfTask DEF Key, IInv
<1>3. ASSUME d # Null PROVE Found(d, u)'
  <2>1. table'[Key(u)] = <<d>> /\ ~PastExit(u)
    BY <1>1, <1>3
  <2>2. InEntries(d, Key(u))'
    BY <1>2, <2>1 DEF InEntries
  <2> QED
    BY <1>2, <1>3, <2>1, <2>2 DEF Found
<1>4. ASSUME NEW e \in Data, NEW w \in Tasks, Found(e, w) PROVE Found(e, w)'
  <2>1. InEntries(e, Key(w)) => table'[Key(w)] = table[Key(w)]
    BY <1>1, <1>2, EntryTracked DEF Tracked
  <2>2. InEntries(e, Key(w))'
    BY <1>2, <1>4, <2>1 DEF InEntries, Found
  <2> QED
    BY <1>4, <2>2 DEF Found
<1> QED
  BY <1>3, <1>4 DEF Cared

\* A step that takes data from one place puts it into the next one.
LEMMA LostNext == ASSUME IInv, Next PROVE NothingLost'
<1> USE NullAssumption, SameEntries DEF taskVars, dataVars, IInv, TypeOK,
    LifeInv, KidInv, NoJob, Forking
<1>1. ASSUME NEW t \in Tasks, NEW c \in Tasks, NEW p \in Pids,
             Fork(t, c, p) PROVE NothingLost'
  <2>1. ASSUME clean', NEW d \in Data, mem'[d] = "allocated" PROVE Cared(d)'
    <3>1. clean /\ mem[d] = "allocated" /\ Cared(d)
      BY <1>1, <2>1, LostIsCared DEF Fork, Goto, Runs
    <3>2. \A u \in Tasks : Found(d, u) => Found(d, u)'
      BY <1>1, <2>1 DEF Fork, Goto, Runs, Found, Key, PastExit, OffCpu
    <3>3. /\ writer'.data = writer.data
          /\ \A u \in Tasks : hand[u] = d => hand'[u] = d
      BY <1>1, <2>1 DEF Fork, Goto, Runs
    <3> QED
      BY <3>1, <3>2, <3>3, StillCared DEF Cared
  <2> QED
    BY <2>1 DEF NothingLost, Cared, Found
<1>2. ASSUME NEW t \in Tasks, ForkQuery(t) \/ ForkAttachFails(t) \/ ForkWake(t)
      PROVE  NothingLost'
  <2>1. ASSUME clean', NEW d \in Data, mem'[d] = "allocated" PROVE Cared(d)'
    <3>1. clean /\ mem[d] = "allocated" /\ Cared(d)
      BY <1>2, <2>1, LostIsCared DEF ForkQuery, ForkAttachFails, ForkWake,
        Goto, Runs
    <3>2. /\ UNCHANGED <<tracker, pid, table, forTask, writer, hand>>
          /\ fr[t] \in Forking
          /\ fr'[t] \in {"fork_attach", "fork_add", "fork_wake", "run"}
          /\ \A u \in Tasks : u # t => fr'[u] = fr[u]
      BY <1>2 DEF ForkQuery, ForkAttachFails, ForkWake, Goto, Runs
    <3>3. \A u \in Tasks : life'[u] = life[u] \/ life'[u] = "live"
      BY <1>2 DEF ForkQuery, ForkAttachFails, ForkWake, Goto, Runs
    <3>4. \A u \in Tasks : PastExit(u)' => PastExit(u)
      BY <3>2, <3>3 DEF PastExit, OffCpu
    <3>5. \A u \in Tasks : Found(d, u) => Found(d, u)'
      BY <3>2, <3>3, <3>4 DEF Found, Key
    <3> QED
      BY <3>1, <3>2, <3>5, StillCared DEF Cared
  <2> QED
    BY <2>1 DEF NothingLost, Cared, Found
<1>3. ASSUME NEW t \in Tasks, ForkAttach(t) PROVE NothingLost'
  <2>1. ASSUME clean', NEW d \in Data, mem'[d] = "allocated" PROVE Cared(d)'
    <3>1. hand[t] = Null
      BY <1>3 DEF ForkAttach, Goto
    <3>2. CASE mem[d] = "unused"
      BY <1>3, <2>1, <3>2 DEF ForkAttach, Cared
    <3>3. CASE mem[d] # "unused"
      <4>1. clean /\ Cared(d)
        BY <1>3, <2>1, <3>3, LostIsCared DEF ForkAttach
      <4>2. \A u \in Tasks : Found(d, u) => Found(d, u)'
        BY <1>3, <2>1, <3>3 DEF ForkAttach, Goto, Found, Key, PastExit, OffCpu
      <4>3. writer' = writer /\ \A u \in Tasks : hand[u] = d => hand'[u] = d
        BY <1>3, <3>1 DEF ForkAttach
      <4> QED
        BY <4>1, <4>2, <4>3, StillCared DEF Cared
    <3> QED
      BY <3>2, <3>3
  <2> QED
    BY <2>1 DEF NothingLost, Cared, Found
<1>4. ASSUME NEW t \in Tasks, ForkAdd(t) PROVE NothingLost'
  <2>1. ASSUME clean', NEW d \in Data, mem'[d] = "allocated" PROVE Cared(d)'
    <3>1. clean /\ mem[d] = "allocated" /\ Cared(d)
      BY <1>4, <2>1, LostIsCared DEF ForkAdd, Goto, Runs, TrackerAdd,
        TrackerAddFails
    <3>2. /\ UNCHANGED <<tracker, pid, life, forTask>>
          /\ hand[t] # Null =>
               forTask[hand[t]] = kid[t] /\ life[kid[t]] # "none"
      BY <1>4 DEF ForkAdd, Goto, AddInv
    <3>3. \A w \in Tasks : PastExit(w)' => PastExit(w)
      BY <1>4 DEF ForkAdd, Goto, PastExit, OffCpu
    <3>4. /\ writer' = writer
          /\ \A w \in Tasks : hand[w] # hand[t] => hand'[w] = hand[w]
      BY <1>4 DEF ForkAdd, Goto
    <3>5. d \in Data /\ clean'
      BY <2>1
    <3> HIDE DEF IInv, TypeOK, LifeInv, KidInv
    <3>6. /\ Adds(kid[t], hand[t])
          /\ kid[t] \in Tasks /\ hand[t] \in Data \cup {Null}
          /\ hand[t] # Null => \A k \in Keys : ~InEntries(hand[t], k)
      BY <1>4, ForkAddIsAdd
    <3>7. PICK v \in Tasks, h \in Data \cup {Null} : v = kid[t] /\ h = hand[t]
      BY <3>6
    <3>8. /\ h # Null => Cared(h)'
          /\ \A e \in Data, w \in Tasks : Found(e, w) => Found(e, w)'
      BY <3>2, <3>3, <3>5, <3>6, <3>7, AddCared
    <3>9. hand[t] = d => Cared(d)'
      BY <3>5, <3>7, <3>8, NullAssumption
    <3> QED
      BY <3>1, <3>4, <3>5, <3>8, <3>9, StillCared DEF Cared
  <2> QED
    BY <2>1 DEF NothingLost, Cared, Found
<1>5. ASSUME NEW t \in Tasks, Exit(t) PROVE NothingLost'
  <2>1. ASSUME clean', NEW d \in Data, mem'[d] = "allocated" PROVE Cared(d)'
    <3>1. clean /\ mem[d] = "allocated" /\ Cared(d)
      BY <1>5, <2>1, LostIsCared DEF Exit, Goto, Runs
    <3>2. ASSUME NEW u \in Tasks, Found(d, u) PROVE Found(d, u)'
      <4>1. UNCHANGED <<tracker, pid, table, forTask, life>>
        BY <1>5 DEF Exit
      <4>2. u = t => Tracked(t)
        BY <3>2, EntryTracked DEF Found
      <4>3. u = t => fr'[u] = "exit_del"
        BY <1>5, <2>1, <4>2 DEF Exit, Goto
      <4>4. u # t => fr'[u] = fr[u]
        BY <1>5 DEF Exit, Goto
      <4> QED
        BY <3>2, <4>1, <4>3, <4>4 DEF Found, Key, PastExit, OffCpu
    <3>3. writer' = writer /\ hand' = hand
      BY <1>5 DEF Exit
    <3> QED
      BY <3>1, <3>2, <3>3, StillCared DEF Cared
  <2> QED
    BY <2>1 DEF NothingLost, Cared, Found
<1>6. ASSUME NEW t \in Tasks, ExitDel(t) PROVE NothingLost'
  <2>1. ASSUME clean', NEW d \in Data, mem'[d] = "allocated" PROVE Cared(d)'
    <3>1. clean /\ mem[d] = "allocated" /\ Cared(d)
      BY <1>6, <2>1, LostIsCared DEF ExitDel, Goto, Runs, TrackerDel
    <3>2. /\ hand'[t] = DataOf(t)
          /\ UNCHANGED <<writer, tracker, pid, life, forTask>>
          /\ \A u \in Tasks : u # t => fr'[u] = fr[u] /\ hand'[u] = hand[u]
      <4>1. hand' = [hand EXCEPT ![t] = DataOf(t)]
        BY <1>6 DEF ExitDel
      <4>2. /\ hand'[t] = DataOf(t)
            /\ \A u \in Tasks : u # t => hand'[u] = hand[u]
        BY <4>1
      <4>3. fr' = [fr EXCEPT ![t] = "exit_detach"]
        BY <1>6 DEF ExitDel, Goto
      <4>4. \A u \in Tasks : u # t => fr'[u] = fr[u]
        BY <4>3
      <4>5. UNCHANGED <<writer, tracker, pid, life, forTask>>
        BY <1>6 DEF ExitDel
      <4> QED
        BY <4>2, <4>4, <4>5
    <3>3. \A k \in Keys : k # Key(t) => table'[k] = table[k]
      BY <1>6, DelTable DEF ExitDel
    <3>4. ASSUME NEW u \in Tasks, Found(d, u) PROVE Cared(d)'
      <4>1. CASE Key(u) = Key(t)
        <5>1. d = DataOf(t)
          BY <3>1, <3>4, <4>1, KeyOfTask, OnlyEntry DEF EntryInv, Found
        <5> QED
          BY <3>2, <5>1 DEF Cared
      <4>2. CASE Key(u) # Key(t)
        <5>1. Key(u)' = Key(u) /\ table'[Key(u)] = table[Key(u)]
          BY <3>2, <3>3, <4>2, KeyOfTask DEF Key
        <5> QED
          BY <3>2, <3>4, <4>2, <5>1 DEF Cared, Found, InEntries, PastExit,
            OffCpu
      <4> QED
        BY <4>1, <4>2
    <3>5. hand[t] = Null
      BY <1>6 DEF ExitDel, Goto
    <3>6. \A u \in Tasks : hand[u] = d => hand'[u] = d
      BY <3>2, <3>5
    <3> QED
      BY <3>1, <3>2, <3>4, <3>6, StillCared DEF Cared
  <2> QED
    BY <2>1 DEF NothingLost, Cared, Found
<1>7. ASSUME NEW t \in Tasks, ExitDetach(t) PROVE NothingLost'
  <2>1. ASSUME clean', NEW d \in Data, mem'[d] = "allocated" PROVE Cared(d)'
    <3>1. clean /\ mem[d] = "allocated" /\ Cared(d)
      BY <1>7, <2>1, LostIsCared DEF ExitDetach, Goto, Runs
    <3>2. \A u \in Tasks : Found(d, u) => Found(d, u)'
      BY <1>7, <2>1 DEF ExitDetach, Goto, Runs, Found, Key, PastExit, OffCpu
    <3>3. /\ writer'.data = writer.data
          /\ \A u \in Tasks : hand[u] = d => hand'[u] = d
      BY <1>7, <2>1 DEF ExitDetach, Goto, Runs
    <3> QED
      BY <3>1, <3>2, <3>3, StillCared DEF Cared
  <2> QED
    BY <2>1 DEF NothingLost, Cared, Found
<1>8. ASSUME NEW t \in Tasks, ExitDetachNothing(t) PROVE NothingLost'
  <2>1. ASSUME clean', NEW d \in Data, mem'[d] = "allocated" PROVE Cared(d)'
    <3>1. clean /\ mem[d] = "allocated" /\ Cared(d)
      BY <1>8, <2>1, LostIsCared DEF ExitDetachNothing, Goto, Runs
    <3>2. \A u \in Tasks : Found(d, u) => Found(d, u)'
      BY <1>8, <2>1 DEF ExitDetachNothing, Goto, Runs, Found, Key, PastExit,
        OffCpu
    <3>3. /\ writer'.data = writer.data
          /\ \A u \in Tasks : hand[u] = d => hand'[u] = d
      BY <1>8, <2>1 DEF ExitDetachNothing, Goto, Runs
    <3> QED
      BY <3>1, <3>2, <3>3, StillCared DEF Cared
  <2> QED
    BY <2>1 DEF NothingLost, Cared, Found
<1>9. ASSUME NEW t \in Tasks, ExitFree(t) PROVE NothingLost'
  <2>1. ASSUME clean', NEW d \in Data, mem'[d] = "allocated" PROVE Cared(d)'
    <3>1. clean /\ mem[d] = "allocated" /\ Cared(d)
      BY <1>9, <2>1, LostIsCared DEF ExitFree, Goto, Runs
    <3>2. \A u \in Tasks : Found(d, u) => Found(d, u)'
      BY <1>9, <2>1 DEF ExitFree, Goto, Runs, Found, Key, PastExit, OffCpu
    <3>3. /\ writer'.data = writer.data
          /\ \A u \in Tasks : hand[u] = d => hand'[u] = d
      BY <1>9, <2>1 DEF ExitFree, Goto, Runs
    <3> QED
      BY <3>1, <3>2, <3>3, StillCared DEF Cared
  <2> QED
    BY <2>1 DEF NothingLost, Cared, Found
<1>10. ASSUME NEW t \in Tasks, LastSwitch(t) PROVE NothingLost'
  <2>1. ASSUME clean', NEW d \in Data, mem'[d] = "allocated" PROVE Cared(d)'
    <3>1. clean /\ mem[d] = "allocated" /\ Cared(d)
      BY <1>10, <2>1, LostIsCared DEF LastSwitch, Runs
    <3>2. ASSUME NEW u \in Tasks, Found(d, u) PROVE Found(d, u)'
      <4>1. u # t
        BY <1>10, <3>2 DEF LastSwitch, Found, PastExit
      <4>2. Key(u)' = Key(u) /\ table'[Key(u)] = table[Key(u)]
        BY <1>10, <4>1 DEF LastSwitch, Key
      <4> QED
        BY <1>10, <3>2, <4>1, <4>2 DEF LastSwitch, Found, InEntries,
          PastExit, OffCpu
    <3>3. writer' = writer /\ hand' = hand
      BY <1>10 DEF LastSwitch
    <3> QED
      BY <3>1, <3>2, <3>3, StillCared DEF Cared
  <2> QED
    BY <2>1 DEF NothingLost, Cared, Found
<1>11. ASSUME NEW t \in Tasks, Reap(t) PROVE NothingLost'
  <2>1. ASSUME clean', NEW d \in Data, mem'[d] = "allocated" PROVE Cared(d)'
    <3>1. clean /\ mem[d] = "allocated" /\ Cared(d)
      BY <1>11, <2>1, LostIsCared DEF Reap
    <3>2. \A u \in Tasks : Found(d, u) => Found(d, u)'
      BY <1>11 DEF Reap, Found, Key, PastExit, OffCpu
    <3>3. writer' = writer /\ hand' = hand
      BY <1>11 DEF Reap
    <3> QED
      BY <3>1, <3>2, <3>3, StillCared DEF Cared
  <2> QED
    BY <2>1 DEF NothingLost, Cared, Found
<1>12. ASSUME NEW t \in Tasks, Pmi(t) PROVE NothingLost'
  <2>1. ASSUME clean', NEW d \in Data, mem'[d] = "allocated" PROVE Cared(d)'
    <3>1. clean /\ mem[d] = "allocated" /\ Cared(d)
      BY <1>12, <2>1, LostIsCared DEF Pmi, Runs
    <3>2. \A u \in Tasks : Found(d, u) => Found(d, u)'
      BY <1>12, <2>1 DEF Pmi, Runs, Found, Key, PastExit, OffCpu
    <3>3. /\ writer'.data = writer.data
          /\ \A u \in Tasks : hand[u] = d => hand'[u] = d
      BY <1>12, <2>1 DEF Pmi, Runs
    <3> QED
      BY <3>1, <3>2, <3>3, StillCared DEF Cared
  <2> QED
    BY <2>1 DEF NothingLost, Cared, Found
<1>13. ASSUME NEW t \in Tasks, PmiReturns(t) PROVE NothingLost'
  <2>1. ASSUME clean', NEW d \in Data, mem'[d] = "allocated" PROVE Cared(d)'
    <3>1. clean /\ mem[d] = "allocated" /\ Cared(d)
      BY <1>13, <2>1, LostIsCared DEF PmiReturns
    <3>2. \A u \in Tasks : Found(d, u) => Found(d, u)'
      BY <1>13, <2>1 DEF PmiReturns, Found, Key, PastExit, OffCpu
    <3>3. /\ writer'.data = writer.data
          /\ \A u \in Tasks : hand[u] = d => hand'[u] = d
      BY <1>13, <2>1 DEF PmiReturns
    <3> QED
      BY <3>1, <3>2, <3>3, StillCared DEF Cared
  <2> QED
    BY <2>1 DEF NothingLost, Cared, Found
<1>14. ASSUME NEW t \in Tasks, Register(t) PROVE NothingLost'
  <2>1. ASSUME clean', NEW d \in Data, mem'[d] = "allocated" PROVE Cared(d)'
    <3>1. CASE mem[d] = "unused"
      BY <1>14, <2>1, <3>1 DEF Register, Cared
    <3>2. CASE mem[d] # "unused"
      <4>1. clean /\ Cared(d)
        BY <1>14, <2>1, <3>2, LostIsCared DEF Register
      <4>2. \A u \in Tasks : Found(d, u) => Found(d, u)'
        BY <1>14, <2>1, <3>2 DEF Register, Found, Key, PastExit, OffCpu
      <4>3. hand' = hand /\ writer.data # d
        BY <1>14 DEF Register
      <4> QED
        BY <4>1, <4>2, <4>3, StillCared DEF Cared
    <3> QED
      BY <3>1, <3>2
  <2> QED
    BY <2>1 DEF NothingLost, Cared, Found
<1>15. ASSUME RegisterAdd PROVE NothingLost'
  <2>1. ASSUME clean', NEW d \in Data, mem'[d] = "allocated" PROVE Cared(d)'
    <3>1. clean /\ mem[d] = "allocated" /\ Cared(d)
      BY <1>15, <2>1, LostIsCared DEF RegisterAdd, TrackerAdd,
        TrackerAddFails, LateStore
    <3>2. /\ UNCHANGED <<tracker, pid, life, forTask>>
          /\ writer.data # Null =>
               /\ forTask[writer.data] = writer.task
               /\ life[writer.task] # "none"
      BY <1>15 DEF RegisterAdd, AddInv
    <3>3. \A w \in Tasks : PastExit(w)' => PastExit(w)
      BY <1>15 DEF RegisterAdd, PastExit, OffCpu
    <3>4. hand' = hand
      BY <1>15 DEF RegisterAdd
    <3>5. d \in Data /\ clean'
      BY <2>1
    <3> HIDE DEF IInv, TypeOK, LifeInv, KidInv
    <3>6. /\ Adds(writer.task, writer.data)
          /\ writer.task \in Tasks /\ writer.data \in Data \cup {Null}
          /\ writer.data # Null => \A k \in Keys : ~InEntries(writer.data, k)
      BY <1>15, RegisterAddIsAdd
    <3>7. PICK v \in Tasks, h \in Data \cup {Null} :
            v = writer.task /\ h = writer.data
      BY <3>6
    <3>8. /\ h # Null => Cared(h)'
          /\ \A e \in Data, w \in Tasks : Found(e, w) => Found(e, w)'
      BY <3>2, <3>3, <3>5, <3>6, <3>7, AddCared
    <3>9. writer.data = d => Cared(d)'
      BY <3>5, <3>7, <3>8, NullAssumption
    <3> QED
      BY <3>1, <3>4, <3>5, <3>8, <3>9, StillCared DEF Cared
  <2> QED
    BY <2>1 DEF NothingLost, Cared, Found
<1>16. ASSUME ClientLoad \/ ClientUnload PROVE NothingLost'
  <2>1. ASSUME clean', NEW d \in Data, mem'[d] = "allocated" PROVE Cared(d)'
    <3>1. clean /\ mem[d] = "allocated" /\ Cared(d)
      BY <1>16, <2>1, LostIsCared DEF ClientLoad, ClientUnload
    <3>2. \A u \in Tasks : Found(d, u) => Found(d, u)'
      BY <1>16, <2>1 DEF ClientLoad, ClientUnload, Found, Key, PastExit, OffCpu
    <3>3. /\ writer'.data = writer.data
          /\ \A u \in Tasks : hand[u] = d => hand'[u] = d
      BY <1>16, <2>1 DEF ClientLoad, ClientUnload
    <3> QED
      BY <3>1, <3>2, <3>3, StillCared DEF Cared
  <2> QED
    BY <2>1 DEF NothingLost, Cared, Found
<1>17. ASSUME NEW t \in Tasks, ExitDelMisses(t) PROVE NothingLost'
  <2>1. ASSUME clean', NEW d \in Data, mem'[d] = "allocated" PROVE Cared(d)'
    <3>1. clean /\ mem[d] = "allocated" /\ Cared(d)
      BY <1>17, <2>1, LostIsCared DEF ExitDelMisses
    <3>2. ASSUME NEW u \in Tasks, Found(d, u) PROVE Found(d, u)'
      <4>1. UNCHANGED <<tracker, pid, table, forTask, life>>
        BY <1>17 DEF ExitDelMisses
      <4>2. DataOf(t) = Null
        BY <1>17, <2>1 DEF ExitDelMisses
      <4>3. u # t
        BY <3>1, <3>2, <4>2, KeyOfTask, OnlyEntry DEF EntryInv, Found
      <4>4. fr'[u] = fr[u]
        BY <1>17, <4>3 DEF ExitDelMisses, Goto
      <4> QED
        BY <3>2, <4>1, <4>4 DEF Found, InEntries, Key, PastExit, OffCpu
    <3>3. writer' = writer /\ hand' = hand
      BY <1>17 DEF ExitDelMisses
    <3> QED
      BY <3>1, <3>2, <3>3, StillCared DEF Cared
  <2> QED
    BY <2>1 DEF NothingLost, Cared, Found
<1>18. ASSUME NEW t \in Tasks, OpenEvent(t) PROVE NothingLost'
  <2>1. ASSUME clean', NEW d \in Data, mem'[d] = "allocated" PROVE Cared(d)'
    <3>1. clean /\ mem[d] = "allocated" /\ Cared(d)
      BY <1>18, <2>1, LostIsCared DEF OpenEvent
    <3>2. ASSUME NEW u \in Tasks, Found(d, u) PROVE Found(d, u)'
      <4>1. UNCHANGED <<tracker, pid, forTask, life, fr>>
        BY <1>18 DEF OpenEvent
      <4>2. \A e \in Data, k \in Keys : InEntries(e, k)' <=> InEntries(e, k)
        BY <1>18, OpenTable DEF OpenEvent
      <4>3. Key(u) \in Keys /\ Key(u)' = Key(u)
        BY <4>1, KeyOfTask DEF Key
      <4> QED
        BY <3>2, <4>1, <4>2, <4>3 DEF Found, PastExit, OffCpu
    <3>3. writer' = writer /\ hand' = hand
      BY <1>18 DEF OpenEvent
    <3> QED
      BY <3>1, <3>2, <3>3, StillCared DEF Cared
  <2> QED
    BY <2>1 DEF NothingLost, Cared, Found
<1>19. ASSUME RegisterFind PROVE NothingLost'
  <2>1. ASSUME clean', NEW d \in Data, mem'[d] = "allocated" PROVE Cared(d)'
    <3>1. clean /\ mem[d] = "allocated" /\ Cared(d)
      BY <1>19, <2>1, LostIsCared DEF RegisterFind
    <3>2. \A u \in Tasks : Found(d, u) => Found(d, u)'
      BY <1>19, <2>1 DEF RegisterFind, Found, Key, PastExit, OffCpu
    <3>3. writer'.data = writer.data /\ hand' = hand
      <4>1. writer' = [writer EXCEPT !.entry = TRUE] /\ hand' = hand
        BY <1>19, <2>1 DEF RegisterFind
      <4>2. writer \in [task : Tasks, data : Data, entry : BOOLEAN]
        BY <1>19 DEF RegisterFind
      <4> QED
        BY <4>1, <4>2
    <3> QED
      BY <3>1, <3>2, <3>3, StillCared DEF Cared
  <2> QED
    BY <2>1 DEF NothingLost, Cared, Found
<1> QED
  BY <1>1, <1>2, <1>3, <1>4, <1>5, <1>6, <1>7, <1>8, <1>9, <1>10, <1>11, <1>12,
      <1>13, <1>14, <1>15, <1>16, <1>17, <1>18, <1>19 DEF Next, TaskStep

-----------------------------------------------------------------------------
(***************************************************************************)
(* The invariant, and what it says.                                        *)
(***************************************************************************)

\* There is one task, no data and no entry.
LEMMA InitInv == Init => IInv
<1> SUFFICES ASSUME Init PROVE IInv
  OBVIOUS
<1> USE NullAssumption DEF Init
<1>1. \A k \in Keys : table[k] = <<>>
  BY DEF Keys
<1>2. \A d, k : k \in Keys => ~InEntries(d, k)
  BY <1>1 DEF InEntries
<1>3. \A t \in Tasks : Key(t) \in Keys
  BY DEF Key, Keys
<1>4. TypeOK
  BY DEF TypeOK, Lives, Frames, NoJob
<1>5. LifeInv /\ KidInv /\ KeyInv
  BY DEF LifeInv, KidInv, KeyInv, Forking
<1>6. PidInv
  BY DEF PidInv, HasPid
<1>7. OwnInv /\ AddInv
  BY <1>1, <1>2 DEF OwnInv, AddInv, Distinct, NoJob
<1>8. EntryInv
  BY <1>1, <1>2 DEF EntryInv, OnlyFirst, Keys
<1>9. PmiInv /\ SampleInv /\ NothingLost
  BY DEF PmiInv, SampleInv, NothingLost
<1> QED
  BY <1>4, <1>5, <1>6, <1>7, <1>8, <1>9 DEF IInv

\* A step that changes nothing keeps the invariant.
LEMMA StutterInv == IInv /\ UNCHANGED vars => IInv'
<1> SUFFICES ASSUME IInv, UNCHANGED vars PROVE IInv'
  OBVIOUS
<1> USE DEF vars, taskVars, dataVars, IInv
<1>1. TypeOK' /\ LifeInv' /\ KidInv' /\ PidInv' /\ KeyInv'
  BY DEF TypeOK, LifeInv, KidInv, PidInv, HasPid, KeyInv
<1>2. OwnInv' /\ AddInv'
  BY DEF OwnInv, AddInv, InEntries
<1>3. EntryInv'
  BY DEF EntryInv, Strayed, InEntries, Key, PastExit, OffCpu
<1>4. PmiInv'
  BY DEF PmiInv, InEntries, Key, Unowned, PidTaken
<1>5. SampleInv' /\ NothingLost'
  BY DEF SampleInv, Strayed, NothingLost, InEntries, Key, PastExit, OffCpu
<1> QED
  BY <1>1, <1>2, <1>3, <1>4, <1>5

\* The invariant is inductive.
LEMMA NextInv == IInv /\ [Next]_vars => IInv'
<1>1. IInv /\ Next => IInv'
  BY TypeNext, LifeNext, KidNext, PidNext, KeyNext, OwnNext, AddNext,
     EntryNext, PmiNext, SamplesNext, LostNext DEF IInv
<1> QED
  BY <1>1, StutterInv

\* The invariant holds in every state.
THEOREM Inductive == Spec => []IInv
  BY InitInv, NextInv, PTL DEF Spec

\* Every variable has its type, and a wrapper of ptracker.c holds a proc_data
\* between the callback and the tracker only.
THEOREM SamplingTypeCorrect == Spec => []TypeOK
<1>1. IInv => TypeOK
  BY DEF IInv
<1> QED
  BY <1>1, Inductive, PTL

\* A proc_data has one owner at a time: an entry of the tracker, a wrapper, or
\* the writer of the proc file.  No exit detaches what another has detached.
THEOREM EveryDataHasOneOwner == Spec => []SoleOwner
<1>1. ASSUME IInv PROVE SoleOwner
  <2>1. table \in [Keys -> Seq(Data \cup {Null})] /\ DOMAIN table = Keys
    BY <1>1 DEF IInv, TypeOK, Keys
  <2>2. OwnInv
    BY <1>1 DEF IInv
  <2>3. ASSUME NEW k \in Keys, NEW x \in DOMAIN table[k], table[k][x] # Null
        PROVE  table[k][x] \in Data /\ InEntries(table[k][x], k)
    BY <2>1, <2>3 DEF InEntries
  <2>4. ASSUME NEW j \in Keys, NEW k \in Keys,
               NEW x \in DOMAIN table[j], NEW y \in DOMAIN table[k],
               table[j][x] = table[k][y], table[j][x] # Null
        PROVE  j = k /\ x = y
    <3>1. j = k
      BY <2>2, <2>3, <2>4 DEF OwnInv
    <3> QED
      BY <2>2, <2>4, <3>1 DEF OwnInv, Distinct
  <2>5. ASSUME NEW t \in Tasks, hand[t] # Null
        PROVE  /\ mem[hand[t]] = "allocated" /\ writer.data # hand[t]
               /\ \A u \in Tasks \ {t} : hand[u] # hand[t]
               /\ \A k \in Keys : ~InEntries(hand[t], k)
    <3>1. hand[t] \in Data
      BY <1>1, <2>5 DEF IInv, TypeOK
    <3> QED
      BY <2>2, <2>5, <3>1 DEF OwnInv
  <2>6. ASSUME NEW k \in Keys, NEW x \in DOMAIN table[k], table[k][x] # Null
        PROVE  /\ mem[table[k][x]] = "allocated"
               /\ clist[table[k][x]] # "freed"
               /\ writer.data # table[k][x]
    BY <2>2, <2>3, <2>6 DEF OwnInv
  <2> QED
    BY <2>1, <2>2, <2>4, <2>5, <2>6 DEF SoleOwner, OwnInv
<1> QED
  BY <1>1, Inductive, PTL

\* What a PMI found stays allocated, and its list too, as long as the handler
\* uses it; the one exception is the hash tracker's, for a pid that was used
\* again while its old task still runs.
THEOREM PmiUsesNoFreedData == Spec => []NoUseAfterFree
<1>1. IInv => NoUseAfterFree
  BY DEF IInv, PmiInv, NoUseAfterFree
<1> QED
  BY <1>1, Inductive, PTL

\* A PMI charges its sample to the task it interrupts: with the hash tracker in
\* a clean history, with the perf-event tracker always, and with the stack
\* tracker unless the data is that of a task that has left its CPU for good.
THEOREM SamplesAreOwn == Spec => []OwnSamples
<1>1. IInv => OwnSamples
  BY DEF IInv, SampleInv, Strayed, OwnSamples
<1> QED
  BY <1>1, Inductive, PTL

\* In a clean history, in which no addition failed, met an event or came after
\* the exit, and no deletion missed, every allocated proc_data is on its way
\* into the tracker, on its way out, or where the exit of its task will find it.
THEOREM NoDataIsLost == Spec => []NothingLost
<1>1. IInv => NothingLost
  BY DEF IInv
<1> QED
  BY <1>1, Inductive, PTL
=============================================================================
