----------------------------- MODULE FreeTime -----------------------------
(***************************************************************************)
(* IStorage::nextFreeTime (Storage.cpp 173 to 207): when the user is free  *)
(* next, by one pass over the list in the order renumber() left it in.     *)
(*                                                                         *)
(* Of the tasks only events count, which have a begin and an end; the      *)
(* others are passed over.  Their order is by end, what is done after what *)
(* is not; events that end together stand in any order, that of their      *)
(* descriptions.  Time is in units the answer tells apart.                 *)
(***************************************************************************)
EXTENDS Naturals, Sequences, FiniteSetsExt, SequencesExt

CONSTANTS
  MaxTime,    \* bound: of the clock and of the times of an event
  MaxEvents    \* bound: the most events there are

ASSUME BoundsAssumption == MaxTime \in Nat /\ MaxEvents \in Nat

VARIABLES
  tasks,   \* IStorage::tasks, of them the events
  now      \* QDateTime::currentDateTime()

freeVars == <<tasks, now>>

Event == {e \in [begin : 0 .. MaxTime, end : 0 .. MaxTime, done : BOOLEAN] :
            e.begin <= e.end}

Before(e, f) == (~e.done /\ f.done) \/ (e.done = f.done /\ e.end <= f.end)

Ordered(list) == \A i, j \in DOMAIN list : i < j => Before(list[i], list[j])

IsOverdue(e) == e.end < now

-----------------------------------------------------------------------------
(* What the pass makes of the next event: so far the user is busy until `until',
   unless the loop has been left.                                          *)

(* Wrong on purpose: an event that begins when another ends is not merged. *)
PassStrict(so, e) ==
  CASE so.left \/ IsOverdue(e) -> so
    [] ~so.left /\ ~IsOverdue(e) /\ e.begin < so.until -> [so EXCEPT !.until = e.end]
    [] ~so.left /\ ~IsOverdue(e) /\ e.begin >= so.until -> [so EXCEPT !.left = TRUE]

Pass(so, e) ==
  CASE so.left \/ IsOverdue(e) -> so
    [] ~so.left /\ ~IsOverdue(e) /\ e.begin <= so.until -> [so EXCEPT !.until = e.end]
    [] ~so.left /\ ~IsOverdue(e) /\ e.begin > so.until -> [so EXCEPT !.left = TRUE]

(* What it has made of the first m events. *)
Passed[m \in 0 .. Len(tasks)] ==
  IF m = 0 THEN [until |-> now, left |-> FALSE] ELSE Pass(Passed[m - 1], tasks[m])

NextFreeTime == Passed[Len(tasks)].until

-----------------------------------------------------------------------------
FreeInit == tasks = <<>> /\ now \in 0 .. MaxTime

(* Wrong on purpose: the list is not sorted again. *)
AddTaskUnsorted ==
  /\ Len(tasks) < MaxEvents
  /\ \E e \in Event : tasks' = Append(tasks, e)
  /\ UNCHANGED now

(* An event is added to the list, by hand or by an undo. *)
AddTask ==
  /\ Len(tasks) < MaxEvents
  /\ \E e \in Event, i \in 1 .. Len(tasks) + 1 :
       tasks' = InsertAt(tasks, i, e)
  /\ Ordered(tasks')
  /\ UNCHANGED now

RemoveTask ==
  /\ \E i \in DOMAIN tasks : tasks' = RemoveAt(tasks, i)
  /\ UNCHANGED now

(* An event is marked, and sorted with those of its kind. *)
Mark ==
  /\ \E i \in DOMAIN tasks : \E j \in DOMAIN tasks :
       tasks' = InsertAt(RemoveAt(tasks, i), j, [tasks[i] EXCEPT !.done = ~@])
  /\ Ordered(tasks')
  /\ UNCHANGED now

Tick ==
  /\ now < MaxTime
  /\ now' = now + 1
  /\ UNCHANGED tasks

ChangeTasks == AddTask \/ RemoveTask \/ Mark

-----------------------------------------------------------------------------
(* Every variable has its type. *)
TypeOKFree ==
  /\ \A i \in DOMAIN tasks : tasks[i] \in Event
  /\ Ordered(tasks)
  /\ now \in 0 .. MaxTime

Busy(time) ==
  \E i \in DOMAIN tasks : tasks[i].begin <= time /\ time < tasks[i].end

FirstFree == Min({time \in now .. MaxTime : ~Busy(time)})

(* The list is in order of ends, but for what is done; this is that it is in order
   of beginnings too, and what is done in its place.                       *)
InOrderOfBegin ==
  \A i, j \in DOMAIN tasks :
    i < j => tasks[i].begin <= tasks[j].begin /\ tasks[i].end <= tasks[j].end

(* The answer is the first moment from now on at which no event is on, however
   events overlap, follow each other at once and are over, if that is the order:
   an event that goes on beyond the end of one that begins after it is not seen.
   In any order it is not in the past, and unless it is now it is the end of an
   event that is not over.  What is done counts as busy.                   *)
MergesEvents ==
  /\ InOrderOfBegin => NextFreeTime = FirstFree
  /\ \/ NextFreeTime = now
     \/ \E i \in DOMAIN tasks : tasks[i].end >= now /\ NextFreeTime = tasks[i].end
=============================================================================
