----------------------------- MODULE TaskOrder -----------------------------
(***************************************************************************)
(* The order IStorage keeps its list of tasks in (Storage.cpp, with the    *)
(* predicates of Task.cpp it sorts by).  Pure: no variables.               *)
(*                                                                         *)
(* A task is reduced to what the order and the commands tell apart: `desc' *)
(* is the rank of its lower-cased description in the alphabet, `end' the   *)
(* time it ends at, `done' its flag, and `rest' everything the order does  *)
(* not look at (the case of the description, the begin date, the tags).    *)
(* The id a task carries is its position in the list, so it is not a field *)
(* of it; the code counts from 0, this module from 1, as the user does.    *)
(***************************************************************************)
EXTENDS Integers, Sequences, FiniteSets

CONSTANTS
  Descs,      \* ranks of the lower-cased descriptions
  Ends,       \* times a task can end at
  Rests,      \* the content the order ignores
  DayLength   \* clock units in a day

ASSUME DescsAssumption == Descs \subseteq Int
ASSUME EndsAssumption == Ends \subseteq Nat
ASSUME DayLengthAssumption == DayLength \in Nat \ {0}

(* An invalid QDateTime.  It compares below every valid one, as QDateTime's
   operator< does, so it is a number below every time.                     *)
NoTime == -1

Task == [desc : Descs, end : Ends \cup {NoTime}, rest : Rests, done : BOOLEAN]

HasEndDate(t) == t.end # NoTime

IsOverdue(t, now) == HasEndDate(t) /\ t.end < now

(* BEGINNING_OF_DAY .. END_OF_DAY of the current date; a task that is already
   overdue still counts while its end is within the day.                   *)
DayStart(now) == now - (now % DayLength)
DayEnd(now) == DayStart(now) + DayLength - 1

IsDueToday(t, now) ==
  /\ HasEndDate(t)
  /\ t.end >= DayStart(now)
  /\ IsOverdue(t, now) \/ t.end <= DayEnd(now)

(***************************************************************************)
(* Stable sorting.  A sort is given the list as a sequence s of elements   *)
(* and a key for each of them; Place is where the element at position i    *)
(* goes: behind the smaller ones, and behind the equal ones before it.     *)
(***************************************************************************)
Ahead(s, key, i) ==
  {j \in DOMAIN s : key[s[j]] < key[s[i]] \/ (key[s[j]] = key[s[i]] /\ j <= i)}

Place(s, key, i) == Cardinality(Ahead(s, key, i))

Sorted(s, key) ==
  [k \in 1 .. Len(s) |-> s[CHOOSE i \in 1 .. Len(s) : Place(s, key, i) = k]]

(* The empty sequence changes nothing; it has TLC compute the sort only once. *)
StableSort(s, key) == <<>> \o Sorted(s, key)

(* The keys of the six sorts of renumber(), one for each index of the list. *)
First(b) == IF b THEN 0 ELSE 1

ByDescription(ts) == [i \in DOMAIN ts |-> ts[i].desc]
ByEndDate(ts) == [i \in DOMAIN ts |-> ts[i].end]
ByIsDueToday(ts, now) == [i \in DOMAIN ts |-> First(IsDueToday(ts[i], now))]
ByOverdue(ts, now) == [i \in DOMAIN ts |-> First(IsOverdue(ts[i], now))]
ByHasEndDate(ts) == [i \in DOMAIN ts |-> First(HasEndDate(ts[i]))]
ByDone(ts) == [i \in DOMAIN ts |-> First(~ts[i].done)]

(* Wrong on purpose: what is done is put last before what has no date is. *)
OrderDoneEarly(ts, now) ==
  LET positions   == [i \in 1 .. Len(ts) |-> i]
      description == StableSort(positions, ByDescription(ts))
      date        == StableSort(description, ByEndDate(ts))
      today       == StableSort(date, ByIsDueToday(ts, now))
      overdue     == StableSort(today, ByOverdue(ts, now))
      done        == StableSort(overdue, ByDone(ts))
  IN  StableSort(done, ByHasEndDate(ts))

(* The list positions in the order renumber() leaves the tasks in: the last
   sort is the strongest.                                                  *)
Order(ts, now) ==
  LET positions   == [i \in 1 .. Len(ts) |-> i]
      description == StableSort(positions, ByDescription(ts))
      date        == StableSort(description, ByEndDate(ts))
      today       == StableSort(date, ByIsDueToday(ts, now))
      overdue     == StableSort(today, ByOverdue(ts, now))
      dated       == StableSort(overdue, ByHasEndDate(ts))
  IN  StableSort(dated, ByDone(ts))

Arranged(ts, order) == <<>> \o [k \in 1 .. Len(ts) |-> ts[order[k]]]

Renumber(ts, now) == Arranged(ts, Order(ts, now))

(* The id renumber() gives to the task that was at position i before it.   *)
IdAfter(ts, now, i) ==
  LET order == Order(ts, now) IN CHOOSE k \in 1 .. Len(ts) : order[k] = i

-----------------------------------------------------------------------------
(* The order the window's sections promise: what is done comes last, and before
   that overdue, due today, due later and undated tasks, each section in order
   of date, then of description.  Not so the overdue section: the sort that puts
   what is due today first runs before the one that puts what is overdue first,
   and is kept by it.                                                       *)
Section(t, time) ==
  CASE IsOverdue(t, time) -> 1
    [] ~IsOverdue(t, time) /\ IsDueToday(t, time) -> 2
    [] HasEndDate(t) /\ ~IsOverdue(t, time) /\ ~IsDueToday(t, time) -> 3
    [] ~HasEndDate(t) -> 4

SectionsInOrder(ts, time) ==
  \A i, j \in DOMAIN ts : i < j =>
    /\ ts[i].done => ts[j].done
    /\ ts[i].done = ts[j].done => Section(ts[i], time) <= Section(ts[j], time)

ByDateThenName(t, u) == t.end < u.end \/ (t.end = u.end /\ t.desc <= u.desc)

DatesInOrderIn(ts, time, sections) ==
  \A i, j \in DOMAIN ts :
    /\ i < j
    /\ ts[i].done = ts[j].done
    /\ Section(ts[i], time) = Section(ts[j], time)
    /\ Section(ts[i], time) \in sections
    => ByDateThenName(ts[i], ts[j])
=============================================================================
