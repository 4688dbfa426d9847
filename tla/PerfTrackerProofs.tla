-------------------------- MODULE PerfTrackerProofs --------------------------
(***************************************************************************)
(* Proofs about PerfTracker, for any tasks, CPUs, adders, events and data. *)
(* The invariant has two halves: where removals run and what the flags of  *)
(* the CPUs say, and what is in the lists while events come and go.        *)
(***************************************************************************)
EXTENDS PerfTracker, TLAPS

\* Where a deletion runs: on one CPU for itself, unless it is asleep, and from
\* SetFlag on where it began, unless it strayed.
CpuInv ==
  \A t \in Tasks :
    /\ pc[t] \in {"run", "exited"} <=> from[t] = Null
    /\ pc[t] \in {"run", "exited"} => cpu[t] = Null
    /\ cpu[t] = Null => pc[t] \in {"run", "exited", "release", "lock"}
    /\ pc[t] \in {"get", "flag", "clear"} => cpu[t] = from[t]
    /\ cpu[t] # Null /\ cpu[t] # from[t] => {cpu[t], from[t]} \subseteq strays
    /\ \A u \in Tasks : cpu[t] # Null /\ cpu[t] = cpu[u] => t = u

\* A CPU that nobody strayed from or to is the place of one removal at a time.
FlagInv ==
  \A t, u \in Tasks :
    /\ from[t] = from[u] /\ from[t] \notin strays \cup {Null}
    /\ pc[t] = "flag" \/ Removing(t)
    /\ pc[u] = "flag" \/ Removing(u)
    => t = u

\* An event is linked once, in one list, and not before its adder does it.
ListInv ==
  /\ \A t, u \in Tasks : \A i \in DOMAIN list[t], j \in DOMAIN list[u] :
       list[t][i] = list[u][j] => t = u /\ i = j
  /\ \A t \in Tasks : \A i \in DOMAIN list[t] : mem[list[t][i]] # "unused"

AddInv ==
  /\ \A a \in Adders : add[a].pc \in {"lock", "link"} =>
       /\ mem[add[a].event] = "live" /\ add[a].event \in own
       /\ \A t \in Tasks : \A i \in DOMAIN list[t] : list[t][i] # add[a].event
  /\ \A a, b \in Adders :
       add[a].pc \in {"lock", "link"} /\ add[b].pc \in {"lock", "link"}
         /\ add[a].event = add[b].event => a = b

\* What a removal found stays the first event of the list.
EventInv ==
  \A t \in Tasks : pc[t] \in {"clear", "release", "lock", "unlink"} =>
    list[t] # <<>> /\ event[t] = Head(list[t])

\* A PMI holds an event of the list, which a removal under way that did not
\* stray had hidden.
PmiInv ==
  \A t \in Tasks : pmi[t] # Null =>
    /\ \E i \in DOMAIN list[t] : list[t][i] = pmi[t]
    /\ Removing(t) => cpu[t] \in strays

\* Until the removal is over, an event of the tracker's is in front of the
\* foreign ones.
BehindInv ==
  /\ behind \cap own = {}
  /\ \A e \in own : mem[e] # "unused"
  /\ \A t \in Tasks :
       pc[t] \notin {"unflag", "exited"} /\ (\E i \in DOMAIN list[t] : list[t][i] \in behind)
         => First(t) \in own

IInv ==
  /\ TypeOK
  /\ CpuInv /\ FlagIsRemoval /\ FlagInv
  /\ ListInv /\ AddInv /\ ListedAreAllocated /\ EventInv /\ PmiInv
  /\ BehindInv /\ ForeignEventsKept

-----------------------------------------------------------------------------
(***************************************************************************)
(* The list.                                                               *)
(***************************************************************************)

LEMMA Lists ==
  ASSUME TypeOK, NEW t \in Tasks
  PROVE  /\ list[t] \in Seq(Events) /\ DOMAIN list[t] = 1 .. Len(list[t])
         /\ First(t) \in Events \cup {Null}
         /\ First(t) = Null <=> list[t] = <<>>
         /\ list[t] # <<>> =>
              /\ First(t) = list[t][1] /\ Head(list[t]) = list[t][1]
              /\ 1 \in DOMAIN list[t]
<1>1. list[t] \in Seq(Events) /\ Null \notin Events
  BY NullAssumption DEF TypeOK
<1> QED
  BY <1>1 DEF First

\* list_add_tail.
LEMMA Appended ==
  ASSUME NEW s \in Seq(Events), NEW e \in Events
  PROVE  /\ Append(s, e) \in Seq(Events)
         /\ DOMAIN s = 1 .. Len(s)
         /\ DOMAIN Append(s, e) = 1 .. Len(s) + 1
         /\ \A i \in 1 .. Len(s) : Append(s, e)[i] = s[i]
         /\ Append(s, e)[Len(s) + 1] = e
         /\ Append(s, e) # <<>>
         /\ s # <<>> => Head(Append(s, e)) = Head(s)
<1>1. Len(s) \in Nat /\ DOMAIN s = 1 .. Len(s) /\ (s # <<>> => Len(s) > 0)
  OBVIOUS
<1>2. /\ Append(s, e) \in Seq(Events) /\ Len(Append(s, e)) = Len(s) + 1
      /\ \A i \in 1 .. Len(s) : Append(s, e)[i] = s[i]
      /\ Append(s, e)[Len(s) + 1] = e
  OBVIOUS
<1>3. DOMAIN Append(s, e) = 1 .. Len(s) + 1 /\ Append(s, e) # <<>>
  BY <1>1, <1>2
<1>4. Head(Append(s, e)) = Append(s, e)[1] /\ (s # <<>> => Head(s) = s[1])
  BY <1>2, <1>3
<1> QED
  BY <1>1, <1>2, <1>3, <1>4

\* list_del of the first node.
LEMMA WithoutHead ==
  ASSUME NEW s \in Seq(Events), s # <<>>,
         \A i \in DOMAIN s : s[i] = Head(s) => i = 1
  PROVE  /\ Without(s, Head(s)) \in Seq(Events)
         /\ DOMAIN Without(s, Head(s)) = 1 .. Len(s) - 1
         /\ \A i \in 1 .. Len(s) - 1 : Without(s, Head(s))[i] = s[i + 1]
<1>1. 1 \in DOMAIN s /\ s[1] = Head(s)
  OBVIOUS
<1> DEFINE n == CHOOSE j \in DOMAIN s : s[j] = Head(s)
<1>2. n = 1
  BY <1>1
<1>3. Without(s, Head(s)) = SubSeq(s, 1, 0) \o SubSeq(s, 2, Len(s))
  <2>1. Without(s, Head(s)) = SubSeq(s, 1, n - 1) \o SubSeq(s, n + 1, Len(s))
    BY DEF Without
  <2> HIDE DEF n
  <2>2. n - 1 = 0 /\ n + 1 = 2
    BY <1>2
  <2> QED
    BY <2>1, <2>2
<1> HIDE DEF n
<1>4. SubSeq(s, 1, 0) = <<>>
  OBVIOUS
<1>5. /\ SubSeq(s, 2, Len(s)) \in Seq(Events)
      /\ Len(SubSeq(s, 2, Len(s))) = Len(s) - 1
      /\ \A i \in 1 .. Len(s) - 1 : SubSeq(s, 2, Len(s))[i] = s[i + 1]
  <2>1. Len(s) \in Nat /\ Len(s) >= 1 /\ DOMAIN s = 1 .. Len(s)
        /\ \A i \in 1 .. Len(s) : s[i] \in Events
    BY <1>1
  <2>2. \A i \in 2 .. Len(s) : s[i] \in Events
    BY <2>1
  <2>3. SubSeq(s, 2, Len(s)) \in Seq(Events)
    BY <2>1
  <2>4. Len(SubSeq(s, 2, Len(s))) = Len(s) - 1
    BY <2>1
  <2>5. \A i \in 1 .. Len(s) - 1 : SubSeq(s, 2, Len(s))[i] = s[i + 1]
    BY <2>1
  <2> QED
    BY <2>3, <2>4, <2>5
<1> QED
  BY <1>3, <1>4, <1>5

-----------------------------------------------------------------------------
(***************************************************************************)
(* Types.                                                                  *)
(***************************************************************************)

\* A removal unlinks the first node.
LEMMA Unlinked ==
  ASSUME IInv, NEW t \in Tasks, Unlink(t)
  PROVE  /\ list' = [list EXCEPT ![t] = list'[t]]
         /\ list'[t] \in Seq(Events)
         /\ DOMAIN list'[t] = 1 .. Len(list[t]) - 1
         /\ \A i \in DOMAIN list'[t] :
              /\ i + 1 \in DOMAIN list[t] /\ list'[t][i] = list[t][i + 1]
              /\ list'[t][i] # event[t]
<1>1. list' = [list EXCEPT ![t] = Without(list[t], event[t])] /\ pc[t] = "unlink"
  BY DEF Unlink, DelGoto
<1>2. list[t] # <<>> /\ event[t] = Head(list[t])
  BY <1>1 DEF IInv, EventInv
<1>3. list[t] \in Seq(Events) /\ DOMAIN list[t] = 1 .. Len(list[t])
      /\ Head(list[t]) = list[t][1] /\ 1 \in DOMAIN list[t]
  BY <1>2, Lists DEF IInv
<1>4. \A i \in DOMAIN list[t] : list[t][i] = Head(list[t]) => i = 1
  BY <1>3 DEF IInv, ListInv
<1>5. list'[t] = Without(list[t], Head(list[t]))
  BY <1>1, <1>2 DEF IInv, TypeOK
<1>6. /\ list'[t] \in Seq(Events)
      /\ DOMAIN list'[t] = 1 .. Len(list[t]) - 1
      /\ \A i \in 1 .. Len(list[t]) - 1 : list'[t][i] = list[t][i + 1]
  BY <1>2, <1>3, <1>4, <1>5, WithoutHead
<1>7. \A i \in 1 .. Len(list[t]) - 1 : i + 1 \in DOMAIN list[t] /\ i + 1 # 1
  BY <1>3
<1> QED
  BY <1>1, <1>2, <1>4, <1>5, <1>6, <1>7

LEMMA TaskTypes ==
  ASSUME IInv, NEW t \in Tasks, TaskStep(t)
  PROVE  TypeOK'
<1> USE DEF TypeOK, delVars, histVars
<1>1. TypeOK
  BY DEF IInv
<1>2. First(t) \in Events \cup {Null} /\ \A c : TaskEvent(t, c) \in Events \cup {Null}
  BY <1>1, Lists DEF TaskEvent
<1>3. CASE OpenEvent(t)
  <2>1. PICK e \in Events :
          /\ mem' = [mem EXCEPT ![e] = "live"]
          /\ list' = [list EXCEPT ![t] = Append(@, e)]
          /\ behind' = IF First(t) \in own THEN behind \cup {e} ELSE behind
    BY <1>3 DEF OpenEvent
  <2>2. Append(list[t], e) \in Seq(Events)
    BY <1>1, Appended
  <2> QED
    BY <1>1, <1>3, <2>1, <2>2 DEF OpenEvent
<1>4. CASE ReadData(t)
  <2>1. private[TaskEvent(t, cpu[t])] \in Data \cup {Null}
    BY <1>1, <1>2, <1>4 DEF ReadData
  <2> HIDE DEF TaskEvent
  <2> QED
    BY <1>1, <1>4, <2>1 DEF ReadData, DelGoto, PCs
<1>5. CASE NothingToDelete(t)
  BY <1>1, <1>5 DEF NothingToDelete, DelReturns, DelGoto, PCs
<1>6. CASE SetFlag(t)
  BY <1>1, <1>2, <1>6 DEF SetFlag, DelGoto, PCs
<1>7. CASE ClearPrivate(t)
  BY <1>1, <1>7 DEF ClearPrivate, DelGoto, PCs
<1>8. CASE Release(t)
  BY <1>1, <1>8 DEF Release, DelGoto, PCs
<1>9. CASE LockToUnlink(t)
  BY <1>1, <1>9 DEF LockToUnlink, DelGoto, PCs
<1>10. CASE Unlink(t)
  <2>1. list' \in [Tasks -> Seq(Events)]
    BY <1>1, <1>10, Unlinked
  <2> QED
    BY <1>1, <1>10, <2>1 DEF Unlink, DelGoto, PCs
<1>11. CASE ClearFlag(t)
  BY <1>1, <1>11 DEF ClearFlag, DelReturns, DelGoto, PCs
<1>12. CASE Sleep(t)
  BY <1>1, <1>12 DEF Sleep
<1>13. CASE Pmi(t)
  BY <1>1, <1>2, <1>13 DEF Pmi
<1>14. CASE PmiReturns(t)
  BY <1>1, <1>14 DEF PmiReturns
<1>15. ASSUME NEW c \in CPUs, CallDel(t, c) PROVE TypeOK'
  BY <1>1, <1>15 DEF CallDel, PCs
<1>16. ASSUME NEW c \in CPUs, Wake(t, c) PROVE TypeOK'
  <2>1. from[t] \in CPUs
    BY <1>1, <1>16 DEF Wake, IInv, CpuInv
  <2> QED
    BY <1>1, <1>16, <2>1 DEF Wake
<1> QED
  BY <1>3, <1>4, <1>5, <1>6, <1>7, <1>8, <1>9, <1>10, <1>11, <1>12, <1>13,
     <1>14,
     <1>15, <1>16 DEF TaskStep

\* The types of the adders' part of the state.
AddRecords ==
  [pc : {"idle", "create", "lock", "link"}, task : Tasks \cup {Null},
   data : Data \cup {Null}, event : Events \cup {Null}]

AddTypes ==
  /\ add \in [Adders -> AddRecords]
  /\ \A a \in Adders :
       /\ (add[a].pc # "idle" => add[a].task # Null)
       /\ (add[a].pc \in {"lock", "link"} => add[a].event # Null)

LEMMA AddChanges ==
  ASSUME TypeOK, NEW a \in Adders, NEW r \in AddRecords,
         r.pc # "idle" => r.task # Null,
         r.pc \in {"lock", "link"} => r.event # Null,
         add' = [add EXCEPT ![a] = r]
  PROVE  AddTypes'
<1>1. AddTypes
  BY DEF TypeOK, AddTypes, AddRecords
<1> QED
  BY <1>1 DEF AddTypes

LEMMA OtherTypes ==
  ASSUME IInv,
         \/ \E e \in Events : FreeEvent(e)
         \/ \E a \in Adders :
              \/ \E t \in Tasks, d \in Data \cup {Null}, c \in CPUs : CallAdd(a, t, d, c)
              \/ CreateEvent(a) \/ CreateFails(a) \/ LockToLink(a) \/ LinkEvent(a)
  PROVE  TypeOK'
<1> USE DEF TypeOK, delVars, histVars
<1>1. TypeOK
  BY DEF IInv
<1>2. ASSUME NEW e \in Events, FreeEvent(e) PROVE TypeOK'
  BY <1>1, <1>2 DEF FreeEvent
<1>3. ASSUME NEW a \in Adders, NEW t \in Tasks, NEW d \in Data \cup {Null}, NEW c \in CPUs,
             CallAdd(a, t, d, c)
      PROVE  TypeOK'
  BY <1>1, <1>3, NullAssumption DEF CallAdd
<1>4. ASSUME NEW a \in Adders, CreateEvent(a) PROVE TypeOK'
  <2>1. PICK e \in Events :
          /\ mem' = [mem EXCEPT ![e] = "live"]
          /\ private' = [private EXCEPT ![e] = add[a].data]
          /\ own' = own \cup {e}
          /\ add' = [add EXCEPT ![a].pc = "lock", ![a].event = e]
    BY <1>4 DEF CreateEvent
  <2>2. add[a].pc = "create" /\ add[a].task # Null /\ e # Null
    BY <1>1, <1>4, NullAssumption DEF CreateEvent
  <2> DEFINE r == [add[a] EXCEPT !.pc = "lock", !.event = e]
  <2>3. add' = [add EXCEPT ![a] = r]
    BY <1>1, <2>1
  <2>4. /\ r \in AddRecords /\ r.pc # "idle"
        /\ r.task = add[a].task /\ r.task # Null /\ r.event # Null
    BY <1>1, <2>2 DEF AddRecords
  <2> HIDE DEF r
  <2>5. AddTypes'
    BY <1>1, <2>3, <2>4, AddChanges
  <2> QED
    BY <1>1, <1>4, <2>1, <2>5 DEF CreateEvent, AddTypes, AddRecords
<1>5. ASSUME NEW a \in Adders, CreateFails(a) PROVE TypeOK'
  BY <1>1, <1>5 DEF CreateFails, NotAdding
<1>6. ASSUME NEW a \in Adders, LockToLink(a) PROVE TypeOK'
  <2>1. add[a].task \in Tasks /\ add[a].event # Null /\ add[a].pc = "lock"
    BY <1>1, <1>6 DEF LockToLink
  <2>2. mutex' \in [Tasks -> Tasks \cup Adders \cup {Null}]
    BY <1>1, <1>6 DEF LockToLink
  <2> DEFINE r == [add[a] EXCEPT !.pc = "link"]
  <2>3. add' = [add EXCEPT ![a] = r]
    BY <1>1, <1>6 DEF LockToLink
  <2>4. /\ r \in AddRecords /\ r.pc # "idle"
        /\ r.task = add[a].task /\ r.task # Null /\ r.event # Null
    BY <1>1, <2>1 DEF AddRecords
  <2> HIDE DEF r
  <2>5. AddTypes'
    BY <1>1, <2>3, <2>4, AddChanges
  <2> QED
    BY <1>1, <1>6, <2>2, <2>5 DEF LockToLink, AddTypes, AddRecords
<1>7. ASSUME NEW a \in Adders, LinkEvent(a) PROVE TypeOK'
  <2> DEFINE t == add[a].task
             e == add[a].event
  <2>1. t \in Tasks /\ e \in Events
    BY <1>1, <1>7 DEF LinkEvent
  <2>2. Append(list[t], e) \in Seq(Events)
    BY <1>1, <2>1, Appended
  <2>3. list' \in [Tasks -> Seq(Events)]
    BY <1>1, <1>7, <2>1, <2>2 DEF LinkEvent
  <2> QED
    BY <1>1, <1>7, <2>3 DEF LinkEvent, NotAdding
<1> QED
  BY <1>2, <1>3, <1>4, <1>5, <1>6, <1>7

-----------------------------------------------------------------------------
(***************************************************************************)
(* The flags of the CPUs.                                                  *)
(***************************************************************************)

CpuPart == CpuInv /\ FlagIsRemoval /\ FlagInv

\* The places of a removal at which it may go on to the next.
Steps == {"clear", "release", "lock", "unlink", "unflag"}

\* A step that leaves the CPUs alone, or goes on within a removal.
LEMMA CpuSame ==
  ASSUME CpuPart, UNCHANGED <<cpu, from, flag, strays>>,
         \A t \in Tasks :
           \/ pc'[t] = pc[t]
           \/ /\ pc[t] \in Steps /\ pc'[t] \in Steps \ {"clear"}
              /\ cpu[t] # Null
  PROVE  CpuPart'
<1>1. \A t \in Tasks : Removing(t)' <=> Removing(t)
  BY DEF Removing, Steps
<1>2. \A t \in Tasks : pc'[t] = "flag" <=> pc[t] = "flag"
  BY DEF Steps
<1>3. CpuInv'
  BY DEF CpuPart, CpuInv, Steps
<1>4. FlagIsRemoval'
  BY <1>1 DEF CpuPart, FlagIsRemoval
<1>5. FlagInv'
  BY <1>1, <1>2 DEF CpuPart, FlagInv
<1> QED
  BY <1>3, <1>4, <1>5 DEF CpuPart

LEMMA CallDelCpu ==
  ASSUME TypeOK, CpuPart, NEW t \in Tasks, NEW c \in CPUs, CallDel(t, c)
  PROVE  CpuPart'
<1>1. /\ pc' = [pc EXCEPT ![t] = "get"] /\ pc[t] = "run"
      /\ cpu' = [cpu EXCEPT ![t] = c] /\ from' = [from EXCEPT ![t] = c]
      /\ \A u \in Tasks : cpu[u] # c
      /\ UNCHANGED <<flag, strays>>
  BY DEF CallDel, Busy, histVars
<1>2. /\ pc'[t] = "get" /\ cpu'[t] = c /\ from'[t] = c /\ c # Null
      /\ \A u \in Tasks \ {t} :
           pc'[u] = pc[u] /\ cpu'[u] = cpu[u] /\ from'[u] = from[u]
  BY <1>1, NullAssumption DEF TypeOK
<1>3. \A u \in Tasks :
        Removing(u)' => u # t /\ Removing(u)
  BY <1>2 DEF Removing
<1>4. \A u \in Tasks : Removing(u) => u # t /\ Removing(u)'
  BY <1>1, <1>2 DEF Removing
<1>5. CpuInv'
  BY <1>1, <1>2 DEF CpuPart, CpuInv
<1>6. FlagIsRemoval'
  BY <1>1, <1>2, <1>3, <1>4 DEF CpuPart, FlagIsRemoval
<1>7. FlagInv'
  BY <1>1, <1>2, <1>3 DEF CpuPart, FlagInv
<1> QED
  BY <1>5, <1>6, <1>7 DEF CpuPart

\* It found an event, so no removal is under way on the CPU.
LEMMA ReadDataCpu ==
  ASSUME TypeOK, CpuPart, NEW t \in Tasks, ReadData(t)
  PROVE  CpuPart'
<1>1. /\ pc' = [pc EXCEPT ![t] = "flag"] /\ pc[t] = "get"
      /\ ~flag[cpu[t]] /\ cpu[t] # Null
      /\ UNCHANGED <<cpu, from, flag, strays>>
  BY DEF ReadData, DelGoto, TaskEvent, histVars
<1>2. /\ pc'[t] = "flag"
      /\ \A u \in Tasks \ {t} : pc'[u] = pc[u]
  BY <1>1 DEF TypeOK
<1>3. \A u \in Tasks : Removing(u)' <=> Removing(u)
  BY <1>1, <1>2 DEF Removing
<1>4. cpu[t] = from[t] /\ from[t] \in CPUs
  BY <1>1 DEF CpuPart, CpuInv, TypeOK
<1>5. CpuInv'
  BY <1>1, <1>2, <1>4 DEF CpuPart, CpuInv
<1>6. FlagIsRemoval'
  BY <1>1, <1>3 DEF CpuPart, FlagIsRemoval
<1>7. ASSUME NEW u \in Tasks, from[u] = from[t], from[t] \notin strays,
             pc[u] = "flag" \/ Removing(u)
      PROVE  u = t
  <2>1. CASE pc[u] = "flag"
    BY <1>1, <1>4, <1>7, <2>1 DEF CpuPart, CpuInv
  <2>2. CASE Removing(u)
    BY <1>1, <1>4, <1>7, <2>2 DEF CpuPart, FlagIsRemoval
  <2> QED
    BY <1>7, <2>1, <2>2
<1>8. FlagInv'
  BY <1>1, <1>2, <1>3, <1>7 DEF CpuPart, FlagInv
<1> QED
  BY <1>5, <1>6, <1>8 DEF CpuPart

LEMMA SetFlagCpu ==
  ASSUME TypeOK, CpuPart, NEW t \in Tasks, SetFlag(t)
  PROVE  CpuPart'
<1> DEFINE c == cpu[t]
<1>1. /\ pc'[t] \in {"clear", "unflag"} /\ pc[t] = "flag" /\ c # Null
      /\ \A u \in Tasks \ {t} : pc'[u] = pc[u]
      /\ flag' = [flag EXCEPT ![c] = TRUE]
      /\ UNCHANGED <<cpu, from, strays>>
  BY DEF SetFlag, DelGoto, histVars, TypeOK
<1>2. from[t] = c /\ c \in CPUs
  BY <1>1 DEF CpuPart, CpuInv, TypeOK
<1>3. /\ Removing(t)' /\ \A u \in Tasks \ {t} : Removing(u)' <=> Removing(u)
  BY <1>1 DEF Removing
<1>4. flag'[c] = TRUE /\ \A d \in CPUs \ {c} : flag'[d] = flag[d]
  BY <1>1, <1>2 DEF TypeOK
<1>5. CpuInv'
  BY <1>1, <1>2 DEF CpuPart, CpuInv
<1>6. ASSUME NEW d \in CPUs, d \notin strays
      PROVE  flag'[d] <=> \E u \in Tasks : from'[u] = d /\ Removing(u)'
  <2>1. CASE d = c
    BY <1>1, <1>2, <1>3, <1>4, <2>1
  <2>2. CASE d # c
    <3>1. flag[d] <=> \E u \in Tasks : from[u] = d /\ Removing(u)
      BY <1>6 DEF CpuPart, FlagIsRemoval
    <3>2. ~Removing(t)
      BY <1>1 DEF Removing
    <3>3. \A u \in Tasks : from[u] = d => u # t
      BY <1>2, <2>2
    <3> QED
      BY <1>1, <1>3, <1>4, <2>2, <3>1, <3>2, <3>3
  <2> QED
    BY <2>1, <2>2
<1>7. FlagIsRemoval'
  BY <1>1, <1>6 DEF FlagIsRemoval
<1>8. FlagInv'
  BY <1>1, <1>3 DEF CpuPart, FlagInv
<1> QED
  BY <1>5, <1>7, <1>8 DEF CpuPart

\* The return of the deletion, facts that both of its steps share.
LEMMA Returned ==
  ASSUME TypeOK, NEW t \in Tasks, NEW at, DelReturns(t, at)
  PROVE  /\ pc[t] = at /\ cpu[t] # Null /\ pc'[t] = "exited"
         /\ cpu'[t] = Null /\ from'[t] = Null /\ strays' = strays
         /\ \A u \in Tasks \ {t} :
              pc'[u] = pc[u] /\ cpu'[u] = cpu[u] /\ from'[u] = from[u]
         /\ ~Removing(t)'
         /\ \A u \in Tasks \ {t} : Removing(u)' <=> Removing(u)
BY DEF DelReturns, DelGoto, TypeOK, histVars, Removing

LEMMA ReturnCpuInv ==
  ASSUME TypeOK, CpuPart, NEW t \in Tasks, NEW at, DelReturns(t, at)
  PROVE  CpuInv' /\ FlagInv'
<1>1. CpuInv'
  BY Returned DEF CpuPart, CpuInv
<1>2. FlagInv'
  BY Returned DEF CpuPart, FlagInv
<1> QED
  BY <1>1, <1>2

LEMMA NothingToDeleteCpu ==
  ASSUME TypeOK, CpuPart, NEW t \in Tasks, NothingToDelete(t)
  PROVE  CpuPart'
<1>1. DelReturns(t, "get") /\ flag' = flag
  BY DEF NothingToDelete
<1>2. ~Removing(t)
  BY <1>1, Returned DEF Removing
<1>3. \A u \in Tasks : \A c : (from'[u] = c /\ Removing(u)') <=> (from[u] = c /\ Removing(u))
  BY <1>1, <1>2, Returned
<1>4. FlagIsRemoval'
  BY <1>1, <1>3, Returned DEF CpuPart, FlagIsRemoval
<1> QED
  BY <1>1, <1>4, ReturnCpuInv DEF CpuPart

\* The removal resets the flag of the CPU it ends on, which is the one it set
\* unless it strayed; nobody else is at work from there.
LEMMA ClearFlagCpu ==
  ASSUME TypeOK, CpuPart, NEW t \in Tasks, ClearFlag(t)
  PROVE  CpuPart'
<1> DEFINE c == cpu[t]
<1>1. DelReturns(t, "unflag") /\ flag' = [flag EXCEPT ![c] = FALSE]
  BY DEF ClearFlag
<1>2. pc[t] = "unflag" /\ c # Null /\ c \in CPUs /\ Removing(t)
  BY <1>1, Returned DEF TypeOK, Removing
<1>3. flag'[c] = FALSE /\ \A d \in CPUs \ {c} : flag'[d] = flag[d]
  BY <1>1, <1>2 DEF TypeOK
<1>4. c = from[t] \/ (c \in strays /\ from[t] \in strays)
  BY <1>2 DEF CpuPart, CpuInv
<1>5. ASSUME NEW d \in CPUs, d \notin strays
      PROVE  flag'[d] <=> \E u \in Tasks : from'[u] = d /\ Removing(u)'
  <2>1. CASE d = c
    <3>1. from[t] = d
      BY <1>4, <1>5, <2>1
    <3>2. ASSUME NEW u \in Tasks, from'[u] = d, Removing(u)'
          PROVE  FALSE
      <4>1. u # t /\ from[u] = d /\ Removing(u)
        BY <1>1, <3>2, Returned
      <4>2. from[t] = from[u] /\ from[t] \notin strays \cup {Null}
        BY <1>2, <1>5, <2>1, <3>1, <4>1
      <4> QED
        BY <1>2, <4>1, <4>2 DEF CpuPart, FlagInv
    <3> QED
      BY <1>3, <2>1, <3>2
  <2>2. CASE d # c
    <3>1. from[t] # d
      BY <1>4, <1>5, <2>2
    <3>2. \A u \in Tasks : (from'[u] = d /\ Removing(u)') <=> (from[u] = d /\ Removing(u))
      BY <1>1, <3>1, Returned
    <3>3. flag[d] <=> \E u \in Tasks : from[u] = d /\ Removing(u)
      BY <1>5 DEF CpuPart, FlagIsRemoval
    <3> QED
      BY <1>3, <2>2, <3>2, <3>3
  <2> QED
    BY <2>1, <2>2
<1>6. FlagIsRemoval'
  BY <1>1, <1>5, Returned DEF FlagIsRemoval
<1> QED
  BY <1>1, <1>6, ReturnCpuInv DEF CpuPart

LEMMA SleepCpu ==
  ASSUME TypeOK, CpuPart, NEW t \in Tasks, Sleep(t)
  PROVE  CpuPart'
<1>1. /\ pc[t] \in {"release", "lock"} /\ UNCHANGED <<pc, from, flag, strays>>
      /\ cpu'[t] = Null /\ \A u \in Tasks \ {t} : cpu'[u] = cpu[u]
  BY DEF Sleep, histVars, TypeOK
<1>2. CpuInv'
  BY <1>1 DEF CpuPart, CpuInv
<1>3. FlagIsRemoval' /\ FlagInv'
  BY <1>1 DEF CpuPart, FlagIsRemoval, FlagInv, Removing
<1> QED
  BY <1>2, <1>3 DEF CpuPart

\* Whoever wakes up elsewhere makes strays of both CPUs.
LEMMA WakeCpu ==
  ASSUME TypeOK, CpuPart, NEW t \in Tasks, NEW c \in CPUs, Wake(t, c)
  PROVE  CpuPart'
<1>1. /\ pc[t] \in {"release", "lock"} /\ UNCHANGED <<pc, from, flag>>
      /\ cpu'[t] = c /\ \A u \in Tasks \ {t} : cpu'[u] = cpu[u]
      /\ \A u \in Tasks : cpu[u] # c
      /\ strays' = IF c = from[t] THEN strays ELSE strays \cup {c, from[t]}
      /\ c # Null
  BY NullAssumption DEF Wake, Busy, TypeOK
<1>2. strays \subseteq strays' /\ (c # from[t] => {c, from[t]} \subseteq strays')
  BY <1>1
<1>3. CpuInv'
  BY <1>1, <1>2 DEF CpuPart, CpuInv
<1>4. \A u \in Tasks : Removing(u)' <=> Removing(u)
  BY <1>1 DEF Removing
<1>5. FlagIsRemoval'
  BY <1>1, <1>2, <1>4 DEF CpuPart, FlagIsRemoval
<1>6. FlagInv'
  BY <1>1, <1>2, <1>4 DEF CpuPart, FlagInv
<1> QED
  BY <1>3, <1>5, <1>6 DEF CpuPart

LEMMA CpuNext ==
  ASSUME TypeOK, CpuPart, Next
  PROVE  CpuPart'
<1>1. ASSUME UNCHANGED <<pc, cpu, from, flag, strays>> PROVE CpuPart'
  BY <1>1, CpuSame
<1>2. ASSUME NEW t \in Tasks, TaskStep(t) PROVE CpuPart'
  <2>1. CASE OpenEvent(t) \/ Pmi(t) \/ PmiReturns(t)
    BY <1>1, <2>1 DEF OpenEvent, Pmi, PmiReturns, delVars, histVars
  <2>2. CASE ClearPrivate(t) \/ Release(t) \/ LockToUnlink(t) \/ Unlink(t)
    <3>1. UNCHANGED <<cpu, from, flag, strays>>
      BY <2>2 DEF ClearPrivate, Release, LockToUnlink, Unlink, histVars
    <3>2. /\ pc[t] \in Steps /\ pc'[t] \in Steps \ {"clear"} /\ cpu[t] # Null
          /\ \A u \in Tasks \ {t} : pc'[u] = pc[u]
      BY <2>2 DEF ClearPrivate, Release, LockToUnlink, Unlink, DelGoto,
         Steps, TypeOK
    <3> QED
      BY <3>1, <3>2, CpuSame
  <2>3. CASE ReadData(t)
    BY <2>3, ReadDataCpu
  <2>4. CASE NothingToDelete(t)
    BY <2>4, NothingToDeleteCpu
  <2>5. CASE SetFlag(t)
    BY <2>5, SetFlagCpu
  <2>6. CASE ClearFlag(t)
    BY <2>6, ClearFlagCpu
  <2>7. CASE Sleep(t)
    BY <2>7, SleepCpu
  <2>8. CASE \E c \in CPUs : CallDel(t, c) \/ Wake(t, c)
    BY <2>8, CallDelCpu, WakeCpu
  <2> QED
    BY <1>2, <2>1, <2>2, <2>3, <2>4, <2>5, <2>6, <2>7, <2>8 DEF TaskStep
<1>3. ASSUME NEW e \in Events, FreeEvent(e) PROVE CpuPart'
  BY <1>1, <1>3 DEF FreeEvent, delVars, histVars
<1>4. ASSUME NEW a \in Adders, NEW t \in Tasks, NEW d, NEW c, CallAdd(a, t, d, c)
      PROVE  CpuPart'
  BY <1>1, <1>4 DEF CallAdd, delVars, histVars
<1>5. ASSUME NEW a \in Adders,
             CreateEvent(a) \/ CreateFails(a) \/ LockToLink(a) \/ LinkEvent(a)
      PROVE  CpuPart'
  BY <1>1, <1>5 DEF CreateEvent, CreateFails, LockToLink, LinkEvent,
     delVars, histVars
<1> QED
  BY <1>2, <1>3, <1>4, <1>5 DEF Next

-----------------------------------------------------------------------------
(***************************************************************************)
(* The lists and the events in them.                                       *)
(***************************************************************************)

ListPart ==
  /\ ListInv /\ AddInv /\ ListedAreAllocated /\ EventInv /\ PmiInv
  /\ BehindInv /\ ForeignEventsKept

\* From the lookup of the event to its list_del.
Found(t) == pc[t] \in {"clear", "release", "lock", "unlink"}

\* The event is released, and still in the list.
Window(t) == pc[t] \in {"lock", "unlink"}

\* A step that neither links nor unlinks, and leaves the events as they are.
LEMMA ListSame ==
  ASSUME ListPart, UNCHANGED <<list, mem, own, behind>>,
         \A a \in Adders : add'[a].pc \in {"lock", "link"} =>
           add[a].pc \in {"lock", "link"} /\ add'[a].event = add[a].event,
         \A t \in Tasks :
           /\ Window(t) => /\ Window(t)' /\ event'[t] = event[t]
                           /\ slept[t] => slept'[t]
           /\ Found(t)' => \/ Found(t) /\ event'[t] = event[t]
                           \/ list[t] # <<>> /\ event'[t] = Head(list[t])
           /\ pmi'[t] # Null =>
                /\ \E i \in DOMAIN list[t] : list[t][i] = pmi'[t]
                /\ Removing(t)' => cpu'[t] \in strays'
           /\ pc[t] \in {"unflag", "exited"} => pc'[t] \in {"unflag", "exited"}
  PROVE  ListPart'
<1>1. ListInv' /\ ForeignEventsKept'
  BY DEF ListPart, ListInv, ForeignEventsKept
<1>2. AddInv'
  BY DEF ListPart, AddInv
<1>3. ListedAreAllocated'
  BY DEF ListPart, ListedAreAllocated, Window
<1>4. EventInv'
  BY DEF ListPart, EventInv, Found
<1>5. PmiInv'
  BY DEF ListPart, PmiInv
<1>6. BehindInv'
  BY DEF ListPart, BehindInv, First
<1> QED
  BY <1>1, <1>2, <1>3, <1>4, <1>5, <1>6 DEF ListPart

\* A step that leaves PMIs and their CPUs alone keeps PmiInv's half of that.
LEMMA PmiSame ==
  ASSUME ListPart, NEW t \in Tasks,
         pmi'[t] = Null \/ (pmi'[t] = pmi[t] /\ (Removing(t)' => Removing(t))),
         cpu[t] \in strays => cpu'[t] \in strays'
  PROVE  pmi'[t] # Null =>
           /\ \E i \in DOMAIN list[t] : list[t][i] = pmi'[t]
           /\ Removing(t)' => cpu'[t] \in strays'
BY DEF ListPart, PmiInv

\* The steps of the deletion that neither release nor unlink.
LEMMA DelSame ==
  ASSUME IInv, ListPart, NEW t \in Tasks, UNCHANGED <<list, mem, own,
  behind, add, pmi>>,
         pmi[t] = Null, strays \subseteq strays',
         \A u \in Tasks \ {t} :
           /\ pc'[u] = pc[u] /\ event'[u] = event[u] /\ slept'[u] = slept[u]
           /\ cpu'[u] = cpu[u],
         Window(t) => /\ Window(t)' /\ event'[t] = event[t]
                      /\ slept[t] => slept'[t],
         Found(t)' => \/ Found(t) /\ event'[t] = event[t]
                      \/ list[t] # <<>> /\ event'[t] = Head(list[t]),
         pc[t] \in {"unflag", "exited"} => pc'[t] \in {"unflag", "exited"}
  PROVE  ListPart'
<1>1. \A u \in Tasks \ {t} :
        /\ Window(u) <=> Window(u)'
        /\ Found(u) <=> Found(u)'
        /\ Removing(u) <=> Removing(u)'
  BY DEF Window, Found, Removing
<1>2. ASSUME NEW u \in Tasks
      PROVE  pmi'[u] # Null =>
               /\ \E i \in DOMAIN list[u] : list[u][i] = pmi'[u]
               /\ Removing(u)' => cpu'[u] \in strays'
  BY <1>1, PmiSame
<1>3. \A u \in Tasks :
           /\ Window(u) => /\ Window(u)' /\ event'[u] = event[u]
                           /\ slept[u] => slept'[u]
           /\ Found(u)' => \/ Found(u) /\ event'[u] = event[u]
                           \/ list[u] # <<>> /\ event'[u] = Head(list[u])
           /\ pc[u] \in {"unflag", "exited"} => pc'[u] \in {"unflag", "exited"}
  BY <1>1
<1> QED
  BY <1>2, <1>3, ListSame

\* The steps of an adder that neither link nor create.
LEMMA AdderSame ==
  ASSUME IInv, ListPart,
         UNCHANGED <<list, mem, own, flag, pmi, delVars, histVars>>,
         \A a \in Adders : add'[a].pc \in {"lock", "link"} =>
           add[a].pc \in {"lock", "link"} /\ add'[a].event = add[a].event
  PROVE  ListPart'
<1>1. UNCHANGED <<list, mem, own, behind, strays, pc, event, slept, cpu, pmi>>
  BY DEF delVars, histVars
<1>2. \A u \in Tasks : /\ Window(u) <=> Window(u)'
                       /\ Found(u) <=> Found(u)'
                       /\ Removing(u) <=> Removing(u)'
  BY <1>1 DEF Window, Found, Removing
<1>3. \A u \in Tasks :
        pmi'[u] # Null =>
          /\ \E i \in DOMAIN list[u] : list[u][i] = pmi'[u]
          /\ Removing(u)' => cpu'[u] \in strays'
  BY <1>1, <1>2, PmiSame
<1> QED
  BY <1>1, <1>2, <1>3, ListSame

LEMMA DelQuietList ==
  ASSUME IInv, ListPart, NEW t \in Tasks,
         \/ ReadData(t) \/ NothingToDelete(t) \/ SetFlag(t) \/ ClearPrivate(t)
         \/ LockToUnlink(t) \/ ClearFlag(t) \/ Sleep(t)
         \/ \E c \in CPUs : CallDel(t, c) \/ Wake(t, c)
  PROVE  ListPart'
<1> USE DEF DelGoto, delVars, histVars
<1>1. TypeOK
  BY DEF IInv
<1>2. First(t) # Null => list[t] # <<>> /\ First(t) = Head(list[t])
  BY DEF First
<1>3. CASE ReadData(t)
  <2>1. /\ UNCHANGED <<list, mem, own, behind, add, pmi, strays, event, slept, cpu>>
        /\ pmi[t] = Null /\ pc[t] = "get" /\ pc'[t] = "flag"
        /\ \A u \in Tasks \ {t} : pc'[u] = pc[u]
    BY <1>1, <1>3 DEF ReadData, TypeOK
  <2> QED
    BY <2>1, DelSame DEF Window, Found
<1>4. ASSUME NEW at, DelReturns(t, at), at \in {"get", "unflag"} PROVE ListPart'
  <2>1. /\ UNCHANGED <<list, mem, own, behind, add, pmi, strays>>
        /\ pmi[t] = Null /\ pc[t] = at /\ pc'[t] = "exited"
        /\ \A u \in Tasks \ {t} :
             /\ pc'[u] = pc[u] /\ event'[u] = event[u] /\ slept'[u] = slept[u]
             /\ cpu'[u] = cpu[u]
    BY <1>1, <1>4 DEF DelReturns, TypeOK
  <2> QED
    BY <1>4, <2>1, DelSame DEF Window, Found
<1>5. CASE SetFlag(t)
  <2>1. /\ UNCHANGED <<list, mem, own, behind, add, pmi, strays, slept, cpu>>
        /\ pmi[t] = Null /\ pc[t] = "flag" /\ event'[t] = First(t)
        /\ pc'[t] = IF First(t) = Null THEN "unflag" ELSE "clear"
        /\ \A u \in Tasks \ {t} : pc'[u] = pc[u] /\ event'[u] = event[u]
    BY <1>1, <1>5 DEF SetFlag, TypeOK
  <2>2. Found(t)' => list[t] # <<>> /\ event'[t] = Head(list[t])
    BY <1>2, <2>1 DEF Found
  <2>3. ~Window(t)
    BY <2>1 DEF Window
  <2>4. \A u \in Tasks \ {t} :
           /\ pc'[u] = pc[u] /\ event'[u] = event[u] /\ slept'[u] = slept[u]
           /\ cpu'[u] = cpu[u]
    BY <2>1
  <2> QED
    BY <2>1, <2>2, <2>3, <2>4, DelSame
<1>6. CASE ClearPrivate(t) \/ LockToUnlink(t)
  <2>1. /\ UNCHANGED <<list, mem, own, behind, add, pmi, strays, event, slept, cpu>>
        /\ pmi[t] = Null
        /\ \/ pc[t] = "clear" /\ pc'[t] = "release"
           \/ pc[t] = "lock" /\ pc'[t] = "unlink"
        /\ \A u \in Tasks \ {t} : pc'[u] = pc[u]
    BY <1>1, <1>6 DEF ClearPrivate, LockToUnlink, TypeOK
  <2> QED
    BY <2>1, DelSame DEF Window, Found
<1>7. CASE Sleep(t)
  <2>1. /\ UNCHANGED <<list, mem, own, behind, add, pmi, strays, event, pc>>
        /\ pmi[t] = Null /\ (pc[t] = "lock" => slept'[t])
        /\ pc[t] \in {"release", "lock"}
        /\ \A u \in Tasks \ {t} : slept'[u] = slept[u] /\ cpu'[u] = cpu[u]
    BY <1>1, <1>7 DEF Sleep, TypeOK
  <2> QED
    BY <2>1, DelSame DEF Window, Found
<1>8. ASSUME NEW c \in CPUs, CallDel(t, c) PROVE ListPart'
  <2>1. /\ UNCHANGED <<list, mem, own, behind, add, pmi, strays, event, slept>>
        /\ pmi[t] = Null /\ pc[t] = "run" /\ pc'[t] = "get"
        /\ \A u \in Tasks \ {t} : pc'[u] = pc[u] /\ cpu'[u] = cpu[u]
    BY <1>1, <1>8 DEF CallDel, TypeOK
  <2> QED
    BY <2>1, DelSame DEF Window, Found
<1>9. ASSUME NEW c \in CPUs, Wake(t, c) PROVE ListPart'
  <2>1. /\ UNCHANGED <<list, mem, own, behind, add, pmi, event, slept, pc>>
        /\ pc[t] \in {"release", "lock"} /\ cpu[t] = Null
        /\ strays \subseteq strays'
        /\ \A u \in Tasks \ {t} : cpu'[u] = cpu[u]
    BY <1>1, <1>9 DEF Wake, TypeOK
  <2>2. pmi[t] = Null
    <3>1. Removing(t) /\ cpu[t] \notin strays
      BY <1>1, <2>1, NullAssumption DEF Removing, TypeOK
    <3> QED
      BY <3>1 DEF ListPart, PmiInv
  <2> QED
    BY <2>1, <2>2, DelSame DEF Window, Found
<1> QED
  BY <1>3, <1>4, <1>5, <1>6, <1>7, <1>8, <1>9 DEF NothingToDelete, ClearFlag

\* A PMI meets an event while its task is being removed only on a CPU whose
\* flag does not say so, and that is a stray's.
LEMMA PmiList ==
  ASSUME IInv, ListPart, NEW t \in Tasks, Pmi(t)
  PROVE  ListPart'
<1>1. PICK c \in CPUs :
        /\ IF pc[t] \in {"run", "exited"} THEN ~Busy(c) ELSE cpu[t] = c
        /\ TaskEvent(t, c) # Null
        /\ pmi' = [pmi EXCEPT ![t] = TaskEvent(t, c)]
  BY DEF Pmi
<1>2. UNCHANGED <<list, mem, own, behind, strays, pc, event, slept, cpu, add>>
  BY DEF Pmi, delVars, histVars
<1>3. ~flag[c] /\ TaskEvent(t, c) = First(t) /\ First(t) # Null
  BY <1>1 DEF TaskEvent
<1>4. 1 \in DOMAIN list[t] /\ list[t][1] = First(t)
  BY <1>3, Lists DEF IInv
<1>5. pmi'[t] = First(t) /\ \A u \in Tasks \ {t} : pmi'[u] = pmi[u]
  BY <1>1, <1>3 DEF IInv, TypeOK
<1>6. Removing(t) => cpu[t] \in strays
  <2> SUFFICES ASSUME Removing(t), c \notin strays, cpu[t] = c PROVE FALSE
    BY <1>1 DEF Removing
  <2>1. from[t] = c /\ c # Null
    BY NullAssumption DEF IInv, CpuInv
  <2> QED
    BY <1>3, <2>1 DEF IInv, FlagIsRemoval
<1>7. \A u \in Tasks : /\ Window(u) <=> Window(u)'
                       /\ Found(u) <=> Found(u)'
                       /\ Removing(u) <=> Removing(u)'
  BY <1>2 DEF Window, Found, Removing
<1>8. ASSUME NEW u \in Tasks
      PROVE  pmi'[u] # Null =>
               /\ \E i \in DOMAIN list[u] : list[u][i] = pmi'[u]
               /\ Removing(u)' => cpu'[u] \in strays'
  <2>1. CASE u = t
    BY <1>2, <1>4, <1>5, <1>6, <1>7, <2>1
  <2>2. CASE u # t
    BY <1>2, <1>5, <1>7, <2>2, PmiSame
  <2> QED
    BY <2>1, <2>2
<1> QED
  BY <1>2, <1>7, <1>8, ListSame

LEMMA PmiReturnsList ==
  ASSUME IInv, ListPart, NEW t \in Tasks, PmiReturns(t)
  PROVE  ListPart'
<1>1. /\ UNCHANGED <<list, mem, own, behind, strays, pc, event, slept, cpu, add>>
      /\ pmi'[t] = Null /\ \A u \in Tasks \ {t} : pmi'[u] = pmi[u]
  BY DEF PmiReturns, delVars, histVars, IInv, TypeOK
<1>2. \A u \in Tasks : /\ Window(u) <=> Window(u)'
                       /\ Found(u) <=> Found(u)'
                       /\ Removing(u) <=> Removing(u)'
  BY <1>1 DEF Window, Found, Removing
<1>3. ASSUME NEW u \in Tasks
      PROVE  pmi'[u] # Null =>
               /\ \E i \in DOMAIN list[u] : list[u][i] = pmi'[u]
               /\ Removing(u)' => cpu'[u] \in strays'
  BY <1>1, <1>2, PmiSame
<1> QED
  BY <1>1, <1>2, <1>3, ListSame

\* The part of the state that none of the steps below touches.
Others == <<pc, event, slept, cpu, pmi, strays>>

\* No other task has this task's event.
LEMMA OwnList ==
  ASSUME ListPart, NEW t \in Tasks, NEW i \in DOMAIN list[t],
         NEW u \in Tasks, NEW j \in DOMAIN list[u], u # t \/ j # i
  PROVE  list[u][j] # list[t][i]
BY DEF ListPart, ListInv

\* The first event of the list is released.
LEMMA ReleaseList ==
  ASSUME IInv, ListPart, NEW t \in Tasks, Release(t)
  PROVE  ListPart'
<1> DEFINE e == event[t]
<1>1. /\ UNCHANGED <<list, own, behind, add, pmi, strays, event, slept, cpu>>
      /\ mem' = [mem EXCEPT ![e] = "released"]
      /\ pmi[t] = Null /\ pc[t] = "release" /\ pc'[t] = "lock"
      /\ \A u \in Tasks \ {t} : pc'[u] = pc[u]
  BY DEF Release, DelGoto, histVars, IInv, TypeOK
<1>2. list[t] # <<>> /\ e = Head(list[t])
  BY <1>1 DEF ListPart, EventInv
<1>3. 1 \in DOMAIN list[t] /\ list[t][1] = e /\ e \in Events /\ e = First(t)
  BY <1>2, Lists, NullAssumption DEF IInv, First
<1> HIDE DEF e
<1>4. mem'[e] = "released" /\ \A x \in Events \ {e} : mem'[x] = mem[x]
  BY <1>1, <1>3 DEF IInv, TypeOK
<1>5. \A u \in Tasks : \A i \in DOMAIN list[u] : list[u][i] \in Events
  BY Lists DEF IInv
<1>6. ListInv'
  BY <1>1, <1>4, <1>5 DEF ListPart, ListInv
<1>7. AddInv'
  <2>1. \A a \in Adders : add[a].pc \in {"lock", "link"} =>
          add[a].event \in Events \ {e}
    BY <1>3 DEF ListPart, AddInv, IInv, TypeOK
  <2> QED
    BY <1>1, <1>4, <2>1 DEF ListPart, AddInv
<1>8. ListedAreAllocated'
  <2> SUFFICES ASSUME NEW u \in Tasks, NEW i \in DOMAIN list[u],
                      mem'[list[u][i]] # "live"
      PROVE  /\ event[u] = list[u][i] /\ pc'[u] \in {"lock", "unlink"}
             /\ mem'[list[u][i]] = "freed" => slept[u]
    BY <1>1 DEF ListedAreAllocated
  <2>1. CASE list[u][i] = e
    <3>1. u = t
      BY <1>3, <2>1, OwnList
    <3> QED
      BY <1>1, <1>4, <2>1, <3>1 DEF e
  <2>2. CASE list[u][i] # e
    <3>1. mem[list[u][i]] = mem'[list[u][i]]
      BY <1>4, <1>5, <2>2
    <3>2. /\ event[u] = list[u][i] /\ pc[u] \in {"lock", "unlink"}
          /\ mem[list[u][i]] = "freed" => slept[u]
      BY <3>1 DEF ListPart, ListedAreAllocated
    <3> QED
      BY <1>1, <3>1, <3>2
  <2> QED
    BY <2>1, <2>2
<1>9. EventInv'
  BY <1>1, <1>2 DEF ListPart, EventInv, e
<1>10. PmiInv'
  BY <1>1 DEF ListPart, PmiInv, Removing
<1>11. e \notin behind
  BY <1>1, <1>3 DEF ListPart, BehindInv
<1>12. BehindInv'
  <2>1. \A x \in own : mem'[x] # "unused"
    BY <1>4 DEF ListPart, BehindInv, IInv, TypeOK
  <2> QED
    BY <1>1, <2>1 DEF ListPart, BehindInv, First
<1>13. ForeignEventsKept'
  BY <1>1, <1>4, <1>11 DEF ListPart, ForeignEventsKept, IInv, TypeOK
<1> QED
  BY <1>6, <1>7, <1>8, <1>9, <1>10, <1>12, <1>13 DEF ListPart

\* It leaves the list; what is behind it was not released.
LEMMA UnlinkList ==
  ASSUME IInv, ListPart, NEW t \in Tasks, Unlink(t)
  PROVE  ListPart'
<1>1. /\ UNCHANGED <<mem, own, behind, add, pmi, strays, event, slept, cpu>>
      /\ pmi[t] = Null /\ pc[t] = "unlink" /\ pc'[t] = "unflag"
      /\ \A u \in Tasks \ {t} : pc'[u] = pc[u] /\ list'[u] = list[u]
  BY DEF Unlink, DelGoto, histVars, IInv, TypeOK
<1>2. \A i \in DOMAIN list'[t] :
        /\ i \in Nat /\ i + 1 \in DOMAIN list[t] /\ list'[t][i] = list[t][i + 1]
        /\ list'[t][i] # event[t]
  BY Unlinked
<1>3. ListInv'
  <2>1. ASSUME NEW u \in Tasks, NEW v \in Tasks,
               NEW i \in DOMAIN list'[u], NEW j \in DOMAIN list'[v],
               list'[u][i] = list'[v][j]
        PROVE  u = v /\ i = j
    <3> DEFINE I == IF u = t THEN i + 1 ELSE i
               J == IF v = t THEN j + 1 ELSE j
    <3>1. I \in DOMAIN list[u] /\ list[u][I] = list'[u][i]
      BY <1>1, <1>2
    <3>2. J \in DOMAIN list[v] /\ list[v][J] = list'[v][j]
      BY <1>1, <1>2
    <3>3. u = v /\ I = J
      <4> HIDE DEF I, J
      <4> QED
        BY <2>1, <3>1, <3>2 DEF ListPart, ListInv
    <3>4. CASE u = t
      BY <1>2, <3>3, <3>4
    <3>5. CASE u # t
      BY <3>3, <3>5
    <3> QED
      BY <3>4, <3>5
  <2>2. \A u \in Tasks : \A i \in DOMAIN list'[u] : mem'[list'[u][i]] # "unused"
    BY <1>1, <1>2 DEF ListPart, ListInv
  <2> QED
    BY <2>1, <2>2 DEF ListInv
<1>4. AddInv'
  BY <1>1, <1>2 DEF ListPart, AddInv
<1>5. ListedAreAllocated'
  BY <1>1, <1>2 DEF ListPart, ListedAreAllocated
<1>6. EventInv'
  BY <1>1 DEF ListPart, EventInv
<1>7. PmiInv'
  BY <1>1 DEF ListPart, PmiInv, Removing
<1>8. BehindInv'
  BY <1>1 DEF ListPart, BehindInv, First
<1>9. ForeignEventsKept'
  BY <1>1 DEF ListPart, ForeignEventsKept
<1> QED
  BY <1>3, <1>4, <1>5, <1>6, <1>7, <1>8, <1>9 DEF ListPart

\* The memory of a released event goes; if the event is still listed, its
\* removal slept.
LEMMA FreeEventList ==
  ASSUME IInv, ListPart, NEW e \in Events, FreeEvent(e)
  PROVE  ListPart'
<1>1. /\ mem[e] = "released" /\ UNCHANGED <<list, own, behind, add, Others>>
      /\ \A t \in Tasks : event[t] = e /\ pc[t] \in {"lock", "unlink"} => slept[t]
      /\ mem' = [mem EXCEPT ![e] = "freed"]
  BY DEF FreeEvent, delVars, histVars, Others
<1>2. mem'[e] = "freed" /\ \A x \in Events \ {e} : mem'[x] = mem[x]
  BY <1>1 DEF IInv, TypeOK
<1>3. \A u \in Tasks : \A i \in DOMAIN list[u] : list[u][i] \in Events
  BY Lists DEF IInv
<1>4. ListInv'
  BY <1>1, <1>2, <1>3 DEF ListPart, ListInv
<1>5. AddInv'
  <2>1. \A a \in Adders : add[a].pc \in {"lock", "link"} =>
          add[a].event \in Events \ {e}
    BY <1>1 DEF ListPart, AddInv, IInv, TypeOK
  <2> QED
    BY <1>1, <1>2, <2>1 DEF ListPart, AddInv
<1>6. ListedAreAllocated'
  BY <1>1, <1>2, <1>3 DEF ListPart, ListedAreAllocated, Others
<1>7. EventInv' /\ PmiInv'
  BY <1>1 DEF ListPart, EventInv, PmiInv, Removing, Others
<1>8. BehindInv'
  <2>1. \A x \in own : mem'[x] # "unused"
    BY <1>2 DEF ListPart, BehindInv, IInv, TypeOK
  <2> QED
    BY <1>1, <2>1 DEF ListPart, BehindInv, First, Others
<1>9. ForeignEventsKept'
  BY <1>1, <1>2 DEF ListPart, ForeignEventsKept, IInv, TypeOK
<1> QED
  BY <1>4, <1>5, <1>6, <1>7, <1>8, <1>9 DEF ListPart

\* A new event is nobody else's.
LEMMA CreateEventList ==
  ASSUME IInv, ListPart, NEW a \in Adders, CreateEvent(a)
  PROVE  ListPart'
<1>1. PICK e \in Events :
        /\ mem[e] = "unused"
        /\ mem' = [mem EXCEPT ![e] = "live"]
        /\ own' = own \cup {e}
        /\ add' = [add EXCEPT ![a].pc = "lock", ![a].event = e]
  BY DEF CreateEvent
<1>2. UNCHANGED <<list, behind, Others>>
  BY DEF CreateEvent, delVars, histVars, Others
<1>3. mem'[e] = "live" /\ \A x \in Events \ {e} : mem'[x] = mem[x]
  BY <1>1 DEF IInv, TypeOK
<1>4. \A u \in Tasks : \A i \in DOMAIN list[u] : list[u][i] \in Events \ {e}
  BY <1>1, Lists DEF IInv, ListPart, ListInv
<1>5. add'[a].event = e /\ \A b \in Adders \ {a} : add'[b] = add[b]
  BY <1>1 DEF IInv, TypeOK
<1>6. \A b \in Adders : add[b].pc \in {"lock", "link"} =>
        add[b].event \in Events \ {e}
  BY <1>1 DEF ListPart, AddInv, IInv, TypeOK
<1>7. ListInv'
  BY <1>2, <1>3, <1>4 DEF ListPart, ListInv
<1>8. AddInv'
  <2>1. ASSUME NEW b \in Adders, add'[b].pc \in {"lock", "link"}
        PROVE  /\ mem'[add'[b].event] = "live" /\ add'[b].event \in own'
               /\ \A t \in Tasks : \A i \in DOMAIN list'[t] : list'[t][i] # add'[b].event
    <3>1. CASE b = a
      <4>1. add'[b].event = e /\ e \in own' /\ list' = list
        BY <1>1, <1>2, <1>5, <3>1
      <4> QED
        BY <1>3, <1>4, <4>1
    <3>2. CASE b # a
      <4>1. /\ add'[b] = add[b] /\ add[b].event \in Events \ {e}
            /\ own \subseteq own' /\ list' = list
        BY <1>1, <1>2, <1>5, <1>6, <2>1, <3>2
      <4>2. /\ mem[add[b].event] = "live" /\ add[b].event \in own
            /\ \A t \in Tasks : \A i \in DOMAIN list[t] : list[t][i] # add[b].event
        BY <2>1, <4>1 DEF ListPart, AddInv
      <4> QED
        BY <1>3, <4>1, <4>2
    <3> QED
      BY <3>1, <3>2
  <2>2. ASSUME NEW b \in Adders, NEW c \in Adders,
               add'[b].pc \in {"lock", "link"}, add'[c].pc \in {"lock",
               "link"},
               add'[b].event = add'[c].event
        PROVE  b = c
    BY <1>5, <1>6, <2>2 DEF ListPart, AddInv
  <2> QED
    BY <2>1, <2>2 DEF AddInv
<1>9. ListedAreAllocated'
  BY <1>2, <1>3, <1>4 DEF ListPart, ListedAreAllocated, Others
<1>10. EventInv' /\ PmiInv'
  BY <1>2 DEF ListPart, EventInv, PmiInv, Removing, Others
<1>11. e \notin behind
  BY <1>1 DEF ListPart, ForeignEventsKept
<1>12. BehindInv'
  <2>1. \A x \in own' : mem'[x] # "unused"
    BY <1>1, <1>3 DEF ListPart, BehindInv, IInv, TypeOK
  <2>2. behind' \cap own' = {}
    BY <1>1, <1>2, <1>11 DEF ListPart, BehindInv
  <2> QED
    BY <1>1, <1>2, <2>1, <2>2 DEF ListPart, BehindInv, First, Others
<1>13. ForeignEventsKept'
  BY <1>2, <1>3 DEF ListPart, ForeignEventsKept, IInv, TypeOK
<1> QED
  BY <1>7, <1>8, <1>9, <1>10, <1>12, <1>13 DEF ListPart

\* list_add_tail of a live event that no list holds.
Grows(t, e) ==
  /\ list' = [list EXCEPT ![t] = Append(@, e)] /\ UNCHANGED Others
  /\ mem'[e] = "live" /\ \A x \in Events \ {e} : mem'[x] = mem[x]
  /\ \A u \in Tasks : \A i \in DOMAIN list[u] : list[u][i] # e

\* A list with one more event at its end.
LEMMA ListGrows ==
  ASSUME IInv, ListPart, NEW t \in Tasks, NEW e \in Events, Grows(t, e)
  PROVE  /\ \A u \in Tasks : \A i \in DOMAIN list[u] :
              i \in DOMAIN list'[u] /\ list'[u][i] = list[u][i]
         /\ \A u \in Tasks : \A i \in DOMAIN list'[u] :
              \/ i \in DOMAIN list[u] /\ list'[u][i] = list[u][i]
              \/ u = t /\ list'[u][i] = e
         /\ \A u \in Tasks : list[u] # <<>> =>
              list'[u] # <<>> /\ Head(list'[u]) = Head(list[u])
         /\ ListInv' /\ ListedAreAllocated' /\ EventInv' /\ PmiInv'
<1> USE DEF Grows
<1>1. /\ list'[t] = Append(list[t], e)
      /\ \A u \in Tasks \ {t} : list'[u] = list[u]
      /\ list[t] \in Seq(Events)
  BY DEF IInv, TypeOK
<1> DEFINE n == Len(list[t]) + 1
<1>2. /\ DOMAIN list[t] = 1 .. Len(list[t]) /\ n \in DOMAIN list'[t]
      /\ \A i \in DOMAIN list'[t] : i \in DOMAIN list[t] \/ i = n
      /\ \A i \in DOMAIN list[t] : i \in DOMAIN list'[t] /\ list'[t][i] = list[t][i]
      /\ list'[t][n] = e
      /\ list'[t] # <<>>
      /\ list[t] # <<>> => Head(list'[t]) = Head(list[t])
  BY <1>1, Appended
<1> HIDE DEF n
<1>3. \A u \in Tasks : \A i \in DOMAIN list[u] :
        i \in DOMAIN list'[u] /\ list'[u][i] = list[u][i]
  BY <1>1, <1>2
<1>4. \A u \in Tasks : \A i \in DOMAIN list'[u] :
        \/ i \in DOMAIN list[u] /\ list'[u][i] = list[u][i]
        \/ u = t /\ i = n /\ list'[u][i] = e
  BY <1>1, <1>2
<1>5. \A u \in Tasks : list[u] # <<>> =>
        list'[u] # <<>> /\ Head(list'[u]) = Head(list[u])
  BY <1>1, <1>2
<1>7. \A u \in Tasks : \A i \in DOMAIN list[u] : list[u][i] \in Events \ {e}
  BY Lists DEF IInv
<1>8. ListInv'
  <2>1. ASSUME NEW u \in Tasks, NEW v \in Tasks,
               NEW i \in DOMAIN list'[u], NEW j \in DOMAIN list'[v],
               list'[u][i] = list'[v][j]
        PROVE  u = v /\ i = j
    BY <1>4, <1>7, <2>1 DEF ListPart, ListInv
  <2>2. ASSUME NEW u \in Tasks, NEW i \in DOMAIN list'[u]
        PROVE  mem'[list'[u][i]] # "unused"
    BY <1>4, <1>7 DEF ListPart, ListInv
  <2> QED
    BY <2>1, <2>2 DEF ListInv
<1>9. ListedAreAllocated'
  <2> SUFFICES ASSUME NEW u \in Tasks, NEW i \in DOMAIN list'[u],
                      mem'[list'[u][i]] # "live"
      PROVE  /\ event[u] = list'[u][i] /\ pc[u] \in {"lock", "unlink"}
             /\ mem'[list'[u][i]] = "freed" => slept[u]
    BY DEF ListedAreAllocated, Others
  <2>1. i \in DOMAIN list[u] /\ list'[u][i] = list[u][i]
    BY <1>4
  <2>2. mem'[list[u][i]] = mem[list[u][i]]
    BY <1>7, <2>1
  <2> QED
    BY <2>1, <2>2 DEF ListPart, ListedAreAllocated
<1>10. EventInv'
  BY <1>5 DEF ListPart, EventInv, Others
<1>11. PmiInv'
  BY <1>3 DEF ListPart, PmiInv, Removing, Others
<1> QED
  BY <1>3, <1>4, <1>5, <1>8, <1>9, <1>10, <1>11

LEMMA LinkEventList ==
  ASSUME IInv, ListPart, NEW a \in Adders, LinkEvent(a)
  PROVE  ListPart'
<1>0. add[a].pc = "link" /\ add[a].task \in Tasks /\ add[a].event \in Events
  BY DEF LinkEvent, IInv, TypeOK
<1>2. PICK t \in Tasks, e \in Events : t = add[a].task /\ e = add[a].event
  BY <1>0
<1>1. /\ add[a].pc = "link" /\ list' = [list EXCEPT ![t] = Append(@, e)]
      /\ add' = [add EXCEPT ![a] = NotAdding]
      /\ UNCHANGED <<mem, own, behind>> /\ UNCHANGED Others
  BY <1>2 DEF LinkEvent, delVars, histVars, Others
<1>3. /\ mem[e] = "live" /\ e \in own
      /\ \A u \in Tasks : \A i \in DOMAIN list[u] : list[u][i] # e
  BY <1>1, <1>2 DEF ListPart, AddInv
<1>4. add'[a].pc = "idle" /\ \A b \in Adders \ {a} : add'[b] = add[b]
  BY <1>1 DEF IInv, TypeOK, NotAdding
<1>5. \A b \in Adders \ {a} : add[b].pc \in {"lock", "link"} => add[b].event # e
  BY <1>1, <1>2 DEF ListPart, AddInv
<1>6. /\ \A u \in Tasks : \A i \in DOMAIN list'[u] :
           \/ i \in DOMAIN list[u] /\ list'[u][i] = list[u][i]
           \/ u = t /\ list'[u][i] = e
      /\ \A u \in Tasks : list[u] # <<>> =>
           list'[u] # <<>> /\ Head(list'[u]) = Head(list[u])
      /\ ListInv' /\ ListedAreAllocated' /\ EventInv' /\ PmiInv'
  <2>1. mem'[e] = "live" /\ \A x \in Events \ {e} : mem'[x] = mem[x]
    BY <1>1, <1>3
  <2>2. Grows(t, e)
    BY <1>1, <1>3, <2>1 DEF Grows
  <2> QED
    BY <2>2, ListGrows
<1>7. AddInv'
  <2>1. ASSUME NEW b \in Adders, add'[b].pc \in {"lock", "link"}
        PROVE  /\ mem'[add'[b].event] = "live" /\ add'[b].event \in own'
               /\ \A u \in Tasks : \A i \in DOMAIN list'[u] : list'[u][i] # add'[b].event
    BY <1>1, <1>4, <1>5, <1>6, <2>1 DEF ListPart, AddInv
  <2>2. ASSUME NEW b \in Adders, NEW c \in Adders,
               add'[b].pc \in {"lock", "link"}, add'[c].pc \in {"lock",
               "link"},
               add'[b].event = add'[c].event
        PROVE  b = c
    BY <1>4, <2>2 DEF ListPart, AddInv
  <2> QED
    BY <2>1, <2>2 DEF AddInv
<1>8. e \notin behind
  BY <1>3 DEF ListPart, BehindInv
<1>9. BehindInv'
  <2> SUFFICES ASSUME NEW u \in Tasks, pc[u] \notin {"unflag", "exited"},
                      NEW i \in DOMAIN list'[u], list'[u][i] \in behind
      PROVE  First(u)' \in own
    BY <1>1 DEF ListPart, BehindInv, Others
  <2>1. i \in DOMAIN list[u] /\ list[u][i] \in behind
    BY <1>6, <1>8
  <2>2. First(u) \in own
    BY <2>1 DEF ListPart, BehindInv
  <2>3. list[u] # <<>>
    BY <2>1
  <2> QED
    BY <1>6, <2>2, <2>3 DEF First
<1>10. ForeignEventsKept'
  BY <1>1 DEF ListPart, ForeignEventsKept
<1> QED
  BY <1>6, <1>7, <1>9, <1>10 DEF ListPart

\* An event of the task itself; whatever the tracker's event is, it was there
\* before.
LEMMA OpenEventList ==
  ASSUME IInv, ListPart, NEW t \in Tasks, OpenEvent(t)
  PROVE  ListPart'
<1>1. PICK e \in Events :
        /\ mem[e] = "unused"
        /\ mem' = [mem EXCEPT ![e] = "live"]
        /\ list' = [list EXCEPT ![t] = Append(@, e)]
        /\ behind' = IF First(t) \in own THEN behind \cup {e} ELSE behind
  BY DEF OpenEvent
<1>2. UNCHANGED <<own, add>> /\ UNCHANGED Others /\ pc[t] = "run"
  BY DEF OpenEvent, delVars, Others
<1>3. mem'[e] = "live" /\ \A x \in Events \ {e} : mem'[x] = mem[x]
  BY <1>1 DEF IInv, TypeOK
<1>4. \A u \in Tasks : \A i \in DOMAIN list[u] : list[u][i] # e
  BY <1>1 DEF ListPart, ListInv
<1>5. /\ \A u \in Tasks : \A i \in DOMAIN list'[u] :
           \/ i \in DOMAIN list[u] /\ list'[u][i] = list[u][i]
           \/ u = t /\ list'[u][i] = e
      /\ \A u \in Tasks : list[u] # <<>> =>
           list'[u] # <<>> /\ Head(list'[u]) = Head(list[u])
      /\ ListInv' /\ ListedAreAllocated' /\ EventInv' /\ PmiInv'
  <2>1. Grows(t, e)
    BY <1>1, <1>2, <1>3, <1>4 DEF Grows
  <2> QED
    BY <2>1, ListGrows
<1>6. \A b \in Adders : add[b].pc \in {"lock", "link"} =>
        add[b].event \in Events \ {e}
  BY <1>1 DEF ListPart, AddInv, IInv, TypeOK
<1>7. AddInv'
  BY <1>2, <1>3, <1>5, <1>6 DEF ListPart, AddInv
<1>8. e \notin own /\ e \notin behind
  BY <1>1 DEF ListPart, BehindInv, ForeignEventsKept
<1>9. BehindInv'
  <2>1. behind' \cap own' = {}
    BY <1>1, <1>2, <1>8 DEF ListPart, BehindInv
  <2>2. \A x \in own' : mem'[x] # "unused"
    BY <1>2, <1>3 DEF ListPart, BehindInv, IInv, TypeOK
  <2>3. ASSUME NEW u \in Tasks, pc[u] \notin {"unflag", "exited"},
               NEW i \in DOMAIN list'[u], list'[u][i] \in behind'
        PROVE  First(u)' \in own
    <3>1. First(u) \in own
      <4>1. CASE i \in DOMAIN list[u] /\ list'[u][i] = list[u][i]
        <5>1. list[u][i] \in behind
          BY <1>1, <1>4, <2>3, <4>1
        <5> QED
          BY <2>3, <4>1, <5>1 DEF ListPart, BehindInv
      <4>2. CASE u = t /\ list'[u][i] = e
        <5>1. e \in behind'
          BY <2>3, <4>2
        <5> QED
          BY <1>1, <1>8, <4>2, <5>1
      <4> QED
        BY <1>5, <4>1, <4>2
    <3>2. list[u] # <<>>
      BY <3>1, NullAssumption DEF First, IInv, TypeOK
    <3> QED
      BY <1>5, <3>1, <3>2 DEF First
  <2>4. ASSUME NEW u \in Tasks, pc'[u] \notin {"unflag", "exited"},
               \E i \in DOMAIN list'[u] : list'[u][i] \in behind'
        PROVE  First(u)' \in own'
    BY <1>2, <2>3, <2>4 DEF Others
  <2> QED
    BY <2>1, <2>2, <2>4 DEF BehindInv
<1>10. ForeignEventsKept'
  BY <1>1, <1>3, <1>8 DEF ListPart, ForeignEventsKept, IInv, TypeOK
<1> QED
  BY <1>5, <1>7, <1>9, <1>10 DEF ListPart

LEMMA ListNext ==
  ASSUME IInv, ListPart, Next
  PROVE  ListPart'
<1>1. ASSUME NEW t \in Tasks, TaskStep(t) PROVE ListPart'
  BY <1>1, OpenEventList, DelQuietList, ReleaseList, UnlinkList, PmiList,
     PmiReturnsList DEF TaskStep
<1>2. ASSUME NEW e \in Events, FreeEvent(e) PROVE ListPart'
  BY <1>2, FreeEventList
<1>3. ASSUME NEW a \in Adders, NEW t \in Tasks, NEW d, NEW c, CallAdd(a, t, d, c)
      PROVE  ListPart'
  <2>1. \A b \in Adders : add'[b].pc \in {"lock", "link"} =>
          add[b].pc \in {"lock", "link"} /\ add'[b].event = add[b].event
    BY <1>3 DEF CallAdd, IInv, TypeOK
  <2> QED
    BY <1>3, <2>1, AdderSame DEF CallAdd
<1>4. ASSUME NEW a \in Adders, CreateFails(a) \/ LockToLink(a) PROVE ListPart'
  <2>1. \A b \in Adders : add'[b].pc \in {"lock", "link"} =>
          add[b].pc \in {"lock", "link"} /\ add'[b].event = add[b].event
    <3>1. CASE CreateFails(a)
      BY <3>1 DEF CreateFails, NotAdding, IInv, TypeOK
    <3>2. CASE LockToLink(a)
      BY <3>2 DEF LockToLink, IInv, TypeOK
    <3> QED
      BY <1>4, <3>1, <3>2
  <2> QED
    BY <1>4, <2>1, AdderSame DEF CreateFails, LockToLink
<1>5. ASSUME NEW a \in Adders, CreateEvent(a) PROVE ListPart'
  BY <1>5, CreateEventList
<1>6. ASSUME NEW a \in Adders, LinkEvent(a) PROVE ListPart'
  BY <1>6, LinkEventList
<1> QED
  BY <1>1, <1>2, <1>3, <1>4, <1>5, <1>6 DEF Next

-----------------------------------------------------------------------------
(***************************************************************************)
(* The invariant.                                                          *)
(***************************************************************************)

LEMMA InitInv == Init => IInv
<1> SUFFICES ASSUME Init PROVE IInv
  OBVIOUS
<1>1. TypeOK
  <2>1. add \in [Adders -> AddRecords] /\ \A a \in Adders : add[a] = NotAdding
    BY DEF Init, NotAdding, AddRecords
  <2>2. list \in [Tasks -> Seq(Events)]
    BY DEF Init
  <2> QED
    BY <2>1, <2>2 DEF Init, TypeOK, PCs, NotAdding, AddRecords
<1>2. CpuInv /\ FlagIsRemoval /\ FlagInv
  BY DEF Init, CpuInv, FlagIsRemoval, FlagInv, Removing
<1>3. \A t \in Tasks : DOMAIN list[t] = {}
  <2>1. \A t \in Tasks : list[t] = <<>>
    BY DEF Init
  <2>2. \A t \in Tasks : DOMAIN list[t] = 1 .. Len(list[t])
    BY <1>1, Lists
  <2>3. Len(<<>>) = 0 /\ 1 .. 0 = {}
    OBVIOUS
  <2> QED
    BY <2>1, <2>2, <2>3
<1>4. ListInv /\ AddInv /\ ListedAreAllocated /\ EventInv /\ PmiInv
  BY <1>3 DEF Init, ListInv, AddInv, ListedAreAllocated, EventInv, PmiInv,
     NotAdding
<1>5. BehindInv /\ ForeignEventsKept
  BY <1>3 DEF Init, BehindInv, ForeignEventsKept
<1> QED
  BY <1>1, <1>2, <1>4, <1>5 DEF IInv

LEMMA NextInv == IInv /\ [Next]_vars => IInv'
<1> SUFFICES ASSUME IInv, [Next]_vars PROVE IInv'
  OBVIOUS
<1>1. CpuPart /\ ListPart /\ TypeOK
  BY DEF IInv, CpuPart, ListPart
<1>2. CASE Next
  <2>1. TypeOK'
    BY <1>2, TaskTypes, OtherTypes DEF Next
  <2>2. CpuPart' /\ ListPart'
    BY <1>1, <1>2, CpuNext, ListNext
  <2> QED
    BY <2>1, <2>2 DEF IInv, CpuPart, ListPart
<1>3. CASE UNCHANGED vars
  <2> USE <1>3 DEF vars, delVars, histVars
  <2>1. TypeOK'
    BY <1>1 DEF TypeOK
  <2>2. CpuPart'
    BY <1>1, CpuSame
  <2>3. ListPart'
    BY <1>1, AdderSame
  <2> QED
    BY <2>1, <2>2, <2>3 DEF IInv, CpuPart, ListPart
<1> QED
  BY <1>2, <1>3

LEMMA Inductive == Spec => []IInv
BY InitInv, NextInv, PTL DEF Spec

-----------------------------------------------------------------------------

\* Whatever the adders, the tasks and the scheduler do, only events get into
\* the lists of the tasks, and a deletion at work has a CPU.
THEOREM PerfTypeCorrect == Spec => []TypeOK
<1>1. IInv => TypeOK
  BY DEF IInv
<1> QED
  BY <1>1, Inductive, PTL

\* pcpu_removing_event says on every CPU that no removal left or reached in its
\* sleep whether a removal that began there is under way, for any number of
\* deletions that sleep while others begin on their CPU.
THEOREM FlagsAreRemovals == Spec => []FlagIsRemoval
<1>1. IInv => FlagIsRemoval
  BY DEF IInv
<1> QED
  BY <1>1, Inductive, PTL

\* A PMI reads the event of its task only while it is allocated, unless the
\* removal of the event went on on another CPU.
THEOREM PmiReadsLiveEvents == Spec => []NoReadAfterRelease
<1>1. IInv => NoReadAfterRelease
  <2> SUFFICES ASSUME IInv, NEW t \in Tasks, pmi[t] # Null,
                      mem[pmi[t]] # "live"
      PROVE  cpu[t] \in strays
    BY DEF NoReadAfterRelease
  <2>1. PICK i \in DOMAIN list[t] : list[t][i] = pmi[t]
    BY DEF IInv, PmiInv
  <2>2. Removing(t)
    BY <2>1 DEF IInv, ListedAreAllocated, Removing
  <2> QED
    BY <2>2 DEF IInv, PmiInv
<1> QED
  BY <1>1, Inductive, PTL

\* An event in the list of a task is allocated, but for the window between its
\* release and its list_del, and its memory goes only if the removal slept
\* there.
THEOREM ListsHoldAllocated == Spec => []ListedAreAllocated
<1>1. IInv => ListedAreAllocated
  BY DEF IInv
<1> QED
  BY <1>1, Inductive, PTL

\* No deletion releases an event that its task opened behind the tracker's.
THEOREM ForeignEventsLive == Spec => []ForeignEventsKept
<1>1. IInv => ForeignEventsKept
  BY DEF IInv
<1> QED
  BY <1>1, Inductive, PTL
=============================================================================
