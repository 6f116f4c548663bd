---------------------------- MODULE StorageList ----------------------------
(***************************************************************************)
(* The operations of IStorage (Storage.cpp) on its list of tasks, as       *)
(* functions of the list and of the clock: each modifies the list, then    *)
(* renumbers it.  addTask and editTask also return the task with its new   *)
(* id.                                                                     *)
(***************************************************************************)
EXTENDS TaskOrder, SequencesExt

IsId(ts, id) == id \in 1 .. Len(ts)

Pushed(ts, t) == Append(ts, t)
AddTask(ts, t, now) == Renumber(Pushed(ts, t), now)

(* Wrong on purpose: the id of the task before the list is renumbered. *)
AddedIdUnsorted(ts, t, now) == Len(ts) + 1

AddedId(ts, t, now) == IdAfter(Pushed(ts, t), now, Len(ts) + 1)

(* QList::replace, for an id of the list. *)
Replaced(ts, id, t) == [ts EXCEPT ![id] = t]
EditTask(ts, id, t, now) == Renumber(Replaced(ts, id, t), now)
EditedId(ts, id, t, now) == IdAfter(Replaced(ts, id, t), now, id)

(* QList::removeAt does nothing when there is no such position. *)
RemoveTask(ts, id, now) ==
  Renumber(IF IsId(ts, id) THEN RemoveAt(ts, id) ELSE ts, now)

(* search() and the tasks it selects, in list order.  A task that is shown
   carries the number it had when the list was read.                       *)
Enumeration(positions) ==
  [k \in 1 .. Cardinality(positions) |->
     CHOOSE i \in positions : Cardinality({j \in positions : j <= i}) = k]

(* Wrong on purpose: numbers from 0, as the code counts. *)
SearchFromZero(ts, hits) ==
  <<>> \o [k \in 1 .. Cardinality(hits) |->
             LET i == Enumeration(hits)[k] IN [number |-> i - 1, task |-> ts[i]]]

Search(ts, hits) ==
  <<>> \o [k \in 1 .. Cardinality(hits) |->
             LET i == Enumeration(hits)[k] IN [number |-> i, task |-> ts[i]]]

Undone(ts) == {i \in 1 .. Len(ts) : ~ts[i].done}

(* getTasks() hides the tasks that are done unless told otherwise. *)
GetTasks(ts) == Search(ts, Undone(ts))

=============================================================================
