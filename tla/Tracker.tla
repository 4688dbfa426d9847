------------------------------ MODULE Tracker ------------------------------
(***************************************************************************)
(* What a tracker promises to its callers (ptracker.h): each operation     *)
(* takes effect at one instant between its call and its return.  A second  *)
(* registration of an id is pushed on top of the first, and a deletion     *)
(* removes, and hands back the data of, the top registration only.  A      *)
(* query may miss: it may answer "not tracked" for an id that is tracked,  *)
(* never the converse, and it never hands back any data but the data       *)
(* registered on top when it took effect.  This holds as long as the task  *)
(* it asks for has its pid.  Once that task was reaped, the answer is any  *)
(* pointer: the entry may go with another task before it is read.          *)
(***************************************************************************)
EXTENDS Sequences

CONSTANTS
  Callers,   \* who calls the tracker
  Ids,       \* the pids
  Data,      \* the data pointers a caller registers
  NoId,      \* the id of no call
  NoData,    \* the NULL answer
  Freed      \* what is read from an entry that is gone

VARIABLES
  entries,   \* per id, the registered data, the newest first
  op, st,    \* per caller: the operation; "idle", "pending" or "done"
  id, arg,   \* its arguments
  res,       \* its result once done
  over       \* the callers that run on top of a task that was reaped

vars == <<entries, op, st, id, arg, res, over>>

Invoke(f, o, i, d) ==
  /\ st[f] = "idle"
  /\ st' = [st EXCEPT ![f] = "pending"]
  /\ op' = [op EXCEPT ![f] = o]
  /\ id' = [id EXCEPT ![f] = i]
  /\ arg' = [arg EXCEPT ![f] = d]
  /\ UNCHANGED <<entries, res, over>>

\* The pending operation o of f takes effect ...
Pending(f, o) == st[f] = "pending" /\ op[f] = o

\* ... with the result r.
Effect(f, r) ==
  /\ st' = [st EXCEPT ![f] = "done"]
  /\ res' = [res EXCEPT ![f] = r]
  /\ UNCHANGED <<op, id, arg, over>>

Tracked(i) == entries[i] # <<>>
Top(i) == IF Tracked(i) THEN Head(entries[i]) ELSE NoData

Add(f) ==
  /\ Pending(f, "add") /\ Effect(f, NoData)
  /\ entries' = [entries EXCEPT ![id[f]] = <<arg[f]>> \o @]

\* No memory for the entry.
AddFails(f) ==
  /\ Pending(f, "add") /\ Effect(f, NoData)
  /\ UNCHANGED entries

Del(f) ==
  /\ Pending(f, "del") /\ Effect(f, Top(id[f]))
  /\ entries' = [entries EXCEPT ![id[f]] = IF @ = <<>> THEN @ ELSE Tail(@)]

Query(f) ==
  /\ Pending(f, "query")
  /\ \E r \in {FALSE, Tracked(id[f])} : Effect(f, r)
  /\ UNCHANGED entries

QueryData(f) ==
  /\ Pending(f, "data")
  /\ \E r \in {NoData, Top(id[f])} : Effect(f, r)
  /\ UNCHANGED entries

\* Callers come to, or leave, the tasks that were reaped.
Reap ==
  /\ over' \in SUBSET Callers
  /\ UNCHANGED <<entries, op, st, id, arg, res>>

\* An entry that the query for a reaped task has found changes before its data
\* is read.
Outdate ==
  /\ res' \in [Callers -> Data \cup {NoData, Freed} \cup BOOLEAN]
  /\ \A f \in Callers :
       res'[f] # res[f] => f \in over /\ st[f] = "done" /\ op[f] = "data"
  /\ UNCHANGED <<entries, op, st, id, arg, over>>

Respond(f) ==
  /\ st[f] = "done"
  /\ st' = [st EXCEPT ![f] = "idle"]
  /\ op' = [op EXCEPT ![f] = "none"]
  /\ id' = [id EXCEPT ![f] = NoId]
  /\ arg' = [arg EXCEPT ![f] = NoData]
  /\ res' = [res EXCEPT ![f] = NoData]
  /\ UNCHANGED <<entries, over>>

Init ==
  /\ entries = [i \in Ids |-> <<>>]
  /\ op = [f \in Callers |-> "none"]
  /\ st = [f \in Callers |-> "idle"]
  /\ id = [f \in Callers |-> NoId]
  /\ arg = [f \in Callers |-> NoData]
  /\ res = [f \in Callers |-> NoData]
  /\ over = {}

Call(f) ==
  \/ \E i \in Ids, d \in Data \cup {NoData} : Invoke(f, "add", i, d)
  \/ \E o \in {"del", "query", "data"}, i \in Ids : Invoke(f, o, i, NoData)

Next ==
  \/ Reap \/ Outdate
  \/ \E f \in Callers :
       \/ Call(f) \/ Respond(f)
       \/ Add(f) \/ AddFails(f) \/ Del(f) \/ Query(f) \/ QueryData(f)

Spec == Init /\ [][Next]_vars
=============================================================================
