---------------------------- MODULE HashTracker ----------------------------
(***************************************************************************)
(* ptracker_hash.c: the tracked pids in a hash table under one spinlock.   *)
(*                                                                         *)
(* Each CPU has two frames of execution: the code of the current task      *)
(* (probe handlers, writes to the proc file) and the performance monitor   *)
(* interrupt, an NMI, which interrupts the former at any step, also inside *)
(* the critical section, and runs to its end before it resumes.            *)
(*                                                                         *)
(* The callers keep to what the code of src/ does: a task frame registers  *)
(* and queries any pid, but deletes only the pid of its own current task   *)
(* (track_exit_wrapper), and the NMI asks for the data of the current task *)
(* (snapshot_pmc(current)).  A task that went through its exit may be      *)
(* reaped, from when on its pid can be given to a task of another CPU,     *)
(* while it still runs.  Nodes with other ids in the same bucket are       *)
(* skipped by every search, so a bucket is modelled as one chain per id.   *)
(***************************************************************************)
EXTENDS Integers, Sequences

CONSTANTS
  CPUs,
  Ids,       \* the pids a task can have
  Nodes,     \* the addresses kmalloc may return for a struct tp_node
  Data,      \* the data pointers callers register
  NoOne,     \* the lock is free
  NoId,      \* the pid of no call, and of the idle task
  NoNode,    \* NULL
  NoData,    \* NULL
  Freed      \* the content of a node that is not allocated

Frames == CPUs \X {"task", "nmi"}

ASSUME NullAssumption ==
  /\ NoOne \notin Frames /\ NoNode \notin Nodes
  /\ NoId \notin Ids /\ NoData \notin Data
  /\ Freed \notin Data \cup BOOLEAN /\ Freed # NoData

VARIABLES
  cur,             \* the pid each CPU runs
  reaped,          \* per CPU: the task it runs has given up its pid
  lock,            \* the frame that holds the spinlock
  chain,           \* tracked_map: per id, its nodes, the newest first
  ndata,           \* the data field of each node
  tracked_count,
  op, pc,          \* per frame: the operation it is in, and where
  id, arg,         \* its arguments
  node,            \* its local tp or cur
  res              \* its result

callVars == <<op, id, arg>>
vars == <<cur, reaped, lock, chain, ndata, tracked_count, op, pc, id, arg, node, res>>

\* The code of a frame advances unless an NMI has interrupted it.
Running(f) == f[2] = "nmi" \/ pc[<<f[1], "nmi">>] = "idle"

Goto(f, from, to) ==
  /\ Running(f) /\ pc[f] = from
  /\ pc' = [pc EXCEPT ![f] = to]

-----------------------------------------------------------------------------
(***************************************************************************)
(* Who calls what.                                                         *)
(***************************************************************************)

Call(f, o, i, d, first) ==
  /\ Goto(f, "idle", first)
  /\ op' = [op EXCEPT ![f] = o]
  /\ id' = [id EXCEPT ![f] = i]
  /\ arg' = [arg EXCEPT ![f] = d]
  /\ UNCHANGED <<cur, reaped, lock, chain, ndata, tracked_count, node, res>>

\* tracker_add for a child (track_fork_wrapper), perhaps with the NULL of an
\* attach callback that failed, or for a pid (register_process).
CallAdd(c) ==
  /\ ~reaped[c]
  /\ \E i \in Ids, d \in Data \cup {NoData} :
       Call(<<c, "task">>, "add", i, d, "alloc")

\* query_tracker(parent), query_tracker(prev), query_tracker(next).
CallQuery(c) ==
  \E i \in Ids : Call(<<c, "task">>, "query", i, NoData, "lock")

\* tracker_del(p) in the exit of the current task.
CallDel(c) ==
  /\ cur[c] # NoId /\ ~reaped[c]
  /\ Call(<<c, "task">>, "del", cur[c], NoData, "lock")

\* A PMI on CPU c: query_data_tracker(current).
CallData(c) ==
  cur[c] # NoId /\ Call(<<c, "nmi">>, "data", cur[c], NoData, "lock")

\* release_task of a task that is past its exit callback and still executes.
Reap(c) ==
  /\ cur[c] # NoId /\ ~reaped[c]
  /\ op[<<c, "task">>] \in {"none", "query"}
  /\ reaped' = [reaped EXCEPT ![c] = TRUE]
  /\ UNCHANGED <<cur, lock, chain, ndata, tracked_count, callVars, pc, node, res>>

\* The scheduler gives CPU c to idle, to a task whose pid is its own, or to one
\* that was reaped.
Switch(c) ==
  /\ pc[<<c, "task">>] = "idle" /\ pc[<<c, "nmi">>] = "idle"
  /\ \E i \in Ids \cup {NoId}, r \in BOOLEAN :
       /\ i = NoId => ~r
       /\ i \in Ids /\ ~r => \A k \in CPUs : cur[k] = i => reaped[k]
       /\ cur' = [cur EXCEPT ![c] = i]
       /\ reaped' = [reaped EXCEPT ![c] = r]
  /\ UNCHANGED <<lock, chain, ndata, tracked_count, callVars, pc, node, res>>

-----------------------------------------------------------------------------
(***************************************************************************)
(* The operations, one step per access to shared memory.                   *)
(***************************************************************************)

\* tracker_add: kmalloc and the fields of the new node ...
Kmalloc(f) ==
  /\ Goto(f, "alloc", "lock")
  /\ \E n \in Nodes :
       /\ ndata[n] = Freed
       /\ ndata' = [ndata EXCEPT ![n] = arg[f]]
       /\ node' = [node EXCEPT ![f] = n]
  /\ UNCHANGED <<cur, reaped, lock, chain, tracked_count, callVars, res>>

\* ... or -ENOMEM.
KmallocFails(f) ==
  /\ Goto(f, "alloc", "done")
  /\ UNCHANGED <<cur, reaped, lock, chain, ndata, tracked_count, callVars, node, res>>

\* Mutant: the critical section is entered without the lock.
AcquireWithoutLock(f) ==
  /\ Goto(f, "lock", "body")
  /\ lock' = IF lock = NoOne THEN f ELSE lock
  /\ UNCHANGED <<cur, reaped, chain, ndata, tracked_count, callVars, node, res>>

\* spin_lock_irqsave takes the lock, or spin_trylock_irqsave succeeds.
Acquire(f) ==
  /\ lock = NoOne
  /\ Goto(f, "lock", "body")
  /\ lock' = f
  /\ UNCHANGED <<cur, reaped, chain, ndata, tracked_count, callVars, node, res>>

\* Mutant: query_data_tracker spins like the other operations.
TrylockFailsNotForData(f) ==
  /\ lock # NoOne /\ op[f] = "query"
  /\ Goto(f, "lock", "done")
  /\ res' = [res EXCEPT ![f] = FALSE]
  /\ UNCHANGED <<cur, reaped, lock, chain, ndata, tracked_count, callVars, node>>

\* The queries do not spin: they answer NULL when the lock is taken.
TrylockFails(f) ==
  /\ lock # NoOne /\ op[f] \in {"query", "data"}
  /\ Goto(f, "lock", "done")
  /\ res' = [res EXCEPT ![f] = IF op[f] = "query" THEN FALSE ELSE NoData]
  /\ UNCHANGED <<cur, reaped, lock, chain, ndata, tracked_count, callVars, node>>

\* hash_add at the head of the bucket; tracked_count++.
HashAdd(f) ==
  /\ op[f] = "add"
  /\ Goto(f, "body", "unlock")
  /\ chain' = [chain EXCEPT ![id[f]] = <<node[f]>> \o @]
  /\ tracked_count' = tracked_count + 1
  /\ UNCHANGED <<cur, reaped, lock, ndata, callVars, node, res>>

\* Mutant: hash_add puts the node at the tail of its bucket.
LookupOldest(i) == IF chain[i] = <<>> THEN NoNode ELSE chain[i][Len(chain[i])]

\* The first node of the chain whose id is i, or NULL.
Lookup(i) == IF chain[i] = <<>> THEN NoNode ELSE Head(chain[i])

\* Mutant: the search of tracker_del forgets hash_del.
HashDelKeepsNode(f) ==
  /\ op[f] = "del"
  /\ Goto(f, "body", "unlock")
  /\ node' = [node EXCEPT ![f] = Lookup(id[f])]
  /\ tracked_count' = IF chain[id[f]] = <<>> THEN tracked_count
                      ELSE tracked_count - 1
  /\ UNCHANGED <<chain, cur, reaped, lock, ndata, callVars, res>>

\* Mutant: the search of tracker_del does not compare cur->id with id.
HashDelAnyId(f) ==
  /\ op[f] = "del"
  /\ Goto(f, "body", "unlock")
  /\ \E i \in Ids :
       /\ chain[i] # <<>>
       /\ node' = [node EXCEPT ![f] = Lookup(i)]
       /\ chain' = [chain EXCEPT ![i] = Tail(@)]
  /\ tracked_count' = tracked_count - 1
  /\ UNCHANGED <<cur, reaped, lock, ndata, callVars, res>>

\* The loop of tracker_del: tracked_count--, hash_del of the first match.
HashDel(f) ==
  /\ op[f] = "del"
  /\ Goto(f, "body", "unlock")
  /\ node' = [node EXCEPT ![f] = Lookup(id[f])]
  /\ IF chain[id[f]] = <<>> THEN UNCHANGED <<chain, tracked_count>>
     ELSE /\ chain' = [chain EXCEPT ![id[f]] = Tail(@)]
          /\ tracked_count' = tracked_count - 1
  /\ UNCHANGED <<cur, reaped, lock, ndata, callVars, res>>

\* The loop of the two queries.
Search(f) ==
  /\ op[f] \in {"query", "data"}
  /\ Goto(f, "body", "unlock")
  /\ node' = [node EXCEPT ![f] = Lookup(id[f])]
  /\ UNCHANGED <<cur, reaped, lock, chain, ndata, tracked_count, callVars, res>>

\* spin_unlock_irqrestore; query_tracker returns exist.
Release(f) ==
  /\ Goto(f, "unlock", IF op[f] \in {"del", "data"} THEN "finish" ELSE "done")
  /\ lock' = NoOne
  /\ res' = [res EXCEPT ![f] = IF op[f] = "query" THEN node[f] # NoNode ELSE @]
  /\ UNCHANGED <<cur, reaped, chain, ndata, tracked_count, callVars, node>>

\* Mutant: kfree(cur) comes before the read of cur->data.
FinishDelReadsFreed(f) ==
  /\ op[f] = "del"
  /\ Goto(f, "finish", "done")
  /\ IF node[f] = NoNode THEN UNCHANGED <<ndata, res>>
     ELSE /\ res' = [res EXCEPT ![f] = Freed]
          /\ ndata' = [ndata EXCEPT ![node[f]] = Freed]
  /\ UNCHANGED <<cur, reaped, lock, chain, tracked_count, callVars, node>>

\* tracker_del after the unlock: return cur->data and kfree(cur) if it exists.
FinishDel(f) ==
  /\ op[f] = "del"
  /\ Goto(f, "finish", "done")
  /\ IF node[f] = NoNode THEN UNCHANGED <<ndata, res>>
     ELSE /\ res' = [res EXCEPT ![f] = ndata[node[f]]]
          /\ ndata' = [ndata EXCEPT ![node[f]] = Freed]
  /\ UNCHANGED <<cur, reaped, lock, chain, tracked_count, callVars, node>>

\* query_data_tracker after the unlock: (exist) ? cur->data : NULL.
FinishData(f) ==
  /\ op[f] = "data"
  /\ Goto(f, "finish", "done")
  /\ res' = [res EXCEPT ![f] = IF node[f] = NoNode THEN NoData
                               ELSE ndata[node[f]]]
  /\ UNCHANGED <<cur, reaped, lock, chain, ndata, tracked_count, callVars, node>>

\* The operation returns to its caller.
Respond(f) ==
  /\ Goto(f, "done", "idle")
  /\ op' = [op EXCEPT ![f] = "none"]
  /\ id' = [id EXCEPT ![f] = NoId]
  /\ arg' = [arg EXCEPT ![f] = NoData]
  /\ node' = [node EXCEPT ![f] = NoNode]
  /\ res' = [res EXCEPT ![f] = NoData]
  /\ UNCHANGED <<cur, reaped, lock, chain, ndata, tracked_count>>

Step(f) ==
  \/ Kmalloc(f) \/ KmallocFails(f) \/ Acquire(f) \/ TrylockFails(f)
  \/ HashAdd(f) \/ HashDel(f) \/ Search(f) \/ Release(f)
  \/ FinishDel(f) \/ FinishData(f) \/ Respond(f)

-----------------------------------------------------------------------------

\* tracker_init: hash_init and spin_lock_init.
Init ==
  /\ cur = [c \in CPUs |-> NoId]
  /\ reaped = [c \in CPUs |-> FALSE]
  /\ lock = NoOne
  /\ chain = [i \in Ids |-> <<>>]
  /\ ndata = [n \in Nodes |-> Freed]
  /\ tracked_count = 0
  /\ op = [f \in Frames |-> "none"]
  /\ pc = [f \in Frames |-> "idle"]
  /\ id = [f \in Frames |-> NoId]
  /\ arg = [f \in Frames |-> NoData]
  /\ node = [f \in Frames |-> NoNode]
  /\ res = [f \in Frames |-> NoData]

Next ==
  \/ \E c \in CPUs : \/ CallAdd(c) \/ CallQuery(c) \/ CallDel(c)
                     \/ CallData(c) \/ Reap(c) \/ Switch(c)
  \/ \E f \in Frames : Step(f)

Spec == Init /\ [][Next]_vars

\* Only the NMI frames are obliged to advance: an NMI must not depend on any
\* other frame, least of all on the one it interrupted.
NmiFairSpec == Spec /\ \A c \in CPUs : WF_vars(Step(<<c, "nmi">>))

-----------------------------------------------------------------------------
(***************************************************************************)
(* Properties.                                                             *)
(***************************************************************************)

Results == Data \cup {NoData, Freed} \cup BOOLEAN

\* The values of the tracker's variables and of each frame's locals; the
\* content of a freed node reaches nobody but a PMI on a reaped task.
TypeOK ==
  /\ cur \in [CPUs -> Ids \cup {NoId}] /\ reaped \in [CPUs -> BOOLEAN]
  /\ lock \in Frames \cup {NoOne}
  /\ chain \in [Ids -> Seq(Nodes)]
  /\ ndata \in [Nodes -> Data \cup {NoData, Freed}]
  /\ tracked_count \in Int
  /\ op \in [Frames -> {"none", "add", "del", "query", "data"}]
  /\ pc \in [Frames -> {"idle", "alloc", "lock", "body", "unlock", "finish",
                        "done"}]
  /\ id \in [Frames -> Ids \cup {NoId}]
  /\ arg \in [Frames -> Data \cup {NoData}]
  /\ node \in [Frames -> Nodes \cup {NoNode}]
  /\ res \in [Frames -> Results]
  /\ \A f \in Frames : res[f] = Freed => op[f] = "data" /\ reaped[f[1]]

\* At most one frame is in a critical section, and it is the lock's holder:
\* the spinlock with trylock excludes tasks, other CPUs and NMIs alike.
MutualExclusion ==
  \A f \in Frames : pc[f] \in {"body", "unlock"} <=> lock = f

\* Node n is linked in the chain of id i.
Linked(n, i) == \E k \in 1 .. Len(chain[i]) : chain[i][k] = n

\* Frame f owns a node: tracker_add before hash_add, tracker_del after
\* hash_del and until kfree.
Owns(f, n) ==
  /\ node[f] = n
  /\ \/ op[f] = "add" /\ pc[f] \in {"lock", "body"}
     \/ op[f] = "del" /\ pc[f] \in {"unlock", "finish"}

\* Every allocated node is linked in exactly one place or owned by exactly
\* one frame, and a free one by nobody: no leak, no double free, no node of
\* the table that was freed.
NodesAccounted ==
  \A n \in Nodes :
    IF ndata[n] = Freed
    THEN /\ \A i \in Ids : ~Linked(n, i)
         /\ \A f \in Frames : ~Owns(f, n)
    ELSE \/ /\ \E f \in Frames : /\ Owns(f, n)
                                 /\ \A g \in Frames : Owns(g, n) => g = f
            /\ \A i \in Ids : ~Linked(n, i)
         \/ /\ \A f \in Frames : ~Owns(f, n)
            /\ \E i \in Ids : \E k \in 1 .. Len(chain[i]) :
                 /\ chain[i][k] = n
                 /\ \A j \in Ids : \A l \in 1 .. Len(chain[j]) :
                      chain[j][l] = n => j = i /\ l = k

\* query_data_tracker reads cur->data after it dropped the lock.  The node is
\* still allocated then: another CPU may register the pid again, but only the
\* exit of the interrupted task takes its nodes out.  The exception is a task
\* that was reaped, whose pid another task may have, and leave the table with.
NoReadAfterFree ==
  \A f \in Frames :
    op[f] = "data" /\ pc[f] = "finish" /\ node[f] # NoNode /\ ~reaped[f[1]]
      => ndata[node[f]] # Freed

\* A PMI that asks for the data of the current task returns, whatever frame
\* holds the lock and even if no other frame ever runs again.
NmiReturns == \A c \in CPUs : pc[<<c, "nmi">>] # "idle" ~> pc[<<c, "nmi">>] = "idle"

-----------------------------------------------------------------------------
(***************************************************************************)
(* The hash tracker implements the tracker its callers expect.             *)
(***************************************************************************)

\* Where each operation has taken effect.
EffectDone(f) ==
  \/ pc[f] = "done"
  \/ pc[f] \in {"unlock", "finish"}

absSt == [f \in Frames |-> IF pc[f] = "idle" THEN "idle"
                           ELSE IF EffectDone(f) THEN "done" ELSE "pending"]

\* The data of a node, as the operation that found it will return it.
Found(f) == IF node[f] = NoNode THEN NoData ELSE ndata[node[f]]

absRes == [f \in Frames |->
             CASE pc[f] \in {"unlock", "finish"} /\ op[f] \in {"del", "data"} -> Found(f)
               [] pc[f] = "unlock" /\ op[f] = "query" -> node[f] # NoNode
               [] OTHER -> res[f]]

absEntries == [i \in Ids |-> [k \in 1 .. Len(chain[i]) |-> ndata[chain[i][k]]]]

absOver == {f \in Frames : reaped[f[1]]}

Abs == INSTANCE Tracker
         WITH Callers <- Frames, entries <- absEntries, st <- absSt,
              res <- absRes, over <- absOver

\* Every behaviour of the hash tracker is one of the abstract tracker: its
\* operations are atomic at the point where they scan or change the chain, but
\* for the data that a PMI on a reaped task reads from the node it found.
ImplementsTracker == Abs!Spec
=============================================================================
