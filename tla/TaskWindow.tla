---------------------------- MODULE TaskWindow ----------------------------
(***************************************************************************)
(* The list of tasks on the screen and the keys that move through it       *)
(* (TaskWindow.cpp).  Rows are tasks and subheadings; the window keeps the *)
(* tasks, the place each subheading stands at, and the selected task, and  *)
(* works out rows from these.  To change the look of a row it inserts a    *)
(* new one and takes the old one away.  A new list leaves the selection as *)
(* it was, in range or not.                                                *)
(*                                                                         *)
(* Of a task only its section counts: overdue, due today, timed, untimed.  *)
(* Tasks and rows count from 1, where the code counts from 0; a task 0 is  *)
(* the code's -1.                                                          *)
(***************************************************************************)
EXTENDS Integers, Sequences, FiniteSetsExt, SequencesExt

CONSTANTS
  TASKS_PER_PAGE,
  MaxTasks         \* bound: the most tasks there are

ASSUME PageAssumption == TASKS_PER_PAGE \in Nat \ {0}
ASSUME MaxTasksAssumption == MaxTasks \in Nat

VARIABLES
  tasks,     \* currentTasks
  first,     \* subheadingRowIndexes: the first task of each section
  rows,      \* ui.taskList
  selected,  \* currentlySelectedTask
  previous   \* previouslySelectedTask

vars == <<tasks, first, rows, selected, previous>>

Sections == 1 .. 4
Untimed == 4
NoTask == 0

Ascending(list) == \A i, j \in DOMAIN list : i < j => list[i] <= list[j]

(* What the window is given, in the order of renumber(): tasks that are not done
   in order of section, then tasks that are, in order of section again.     *)
Lists ==
  {list \in SeqOf(Sections, MaxTasks) :
     \E n \in 0 .. Len(list) :
       Ascending(SubSeq(list, 1, n)) /\ Ascending(SubSeq(list, n + 1, Len(list)))}

(* What the sections of a list on display are when the clock has moved on. *)
Later(list) ==
  {then \in Lists :
     /\ Len(then) = Len(list)
     /\ \A i \in DOMAIN list :
          then[i] <= list[i] /\ (then[i] = Untimed <=> list[i] = Untimed)}

HeadingRow(s) == [heading |-> s, task |-> NoTask, lit |-> FALSE]
TaskRow(i, lit) == [heading |-> 0, task |-> i, lit |-> lit]

-----------------------------------------------------------------------------
(* displayTaskList() *)

FirstOf(list) ==
  [s \in Sections |-> IF s \in ToSet(list) THEN Min({i \in DOMAIN list : list[i] = s})
                                            ELSE NoTask]

RowsOf(list) ==
  FlattenSeq([i \in DOMAIN list |->
    IF FirstOf(list)[list[i]] = i THEN <<HeadingRow(list[i]), TaskRow(i, FALSE)>>
                                  ELSE <<TaskRow(i, FALSE)>>])

DisplayTaskList(list) ==
  /\ tasks' = list
  /\ first' = FirstOf(list)
  /\ rows' = RowsOf(list)

-----------------------------------------------------------------------------
(* The selection. *)

IsInRange(i, list) == i \in 1 .. Len(list)

(* Wrong on purpose: a heading is not counted for the task just below it. *)
GetTaskEntryRowShort(i, tops) ==
  i + Cardinality({s \in Sections : tops[s] # NoTask /\ tops[s] < i})

GetTaskEntryRow(i, tops) ==
  i + Cardinality({s \in Sections : tops[s] # NoTask /\ tops[s] <= i})

(* A new row is inserted and the one after it, which was there, taken away. *)
Dressed(screen, i, lit, list, tops) ==
  LET row == GetTaskEntryRow(i, tops)
  IN  IF IsInRange(i, list)
      THEN RemoveAt(InsertAt(screen, row, TaskRow(i, lit)), row + 1)
      ELSE screen

(* Wrong on purpose: nothing is lit if there is nothing to darken. *)
HighlightedIfBoth(screen, old, new, list, tops) ==
  IF IsInRange(old, list)
  THEN Dressed(Dressed(screen, old, FALSE, list, tops), new, TRUE, list, tops)
  ELSE screen

(* highlightCurrentlySelectedTask() *)
Highlighted(screen, old, new, list, tops) ==
  Dressed(Dressed(screen, old, FALSE, list, tops), new, TRUE, list, tops)

(* Wrong on purpose: the task selected before is not remembered. *)
JumpToForgetful(i) ==
  /\ selected' = i
  /\ rows' = Highlighted(rows, previous, i, tasks, first)
  /\ UNCHANGED <<tasks, first, previous>>

(* updateCurrentlySelectedTo() and jumpToCurrentlySelectedTask() *)
JumpTo(i) ==
  /\ selected' = i
  /\ previous' = selected
  /\ rows' = Highlighted(rows, selected, i, tasks, first)
  /\ UNCHANGED <<tasks, first>>

HighlightTask(i) == IF IsInRange(i, tasks) THEN JumpTo(i) ELSE UNCHANGED vars

-----------------------------------------------------------------------------
Init ==
  /\ tasks = <<>> /\ rows = <<>>
  /\ first = [s \in Sections |-> NoTask]
  /\ selected = NoTask
  /\ previous = NoTask     \* not initialised, and not read before it is set

(* A command changed the list, another one was asked for, or the back button
   or key brought back the default one.                                    *)
ShowTasks ==
  /\ \E list \in Lists : DisplayTaskList(list)
  /\ UNCHANGED <<selected, previous>>

(* A command highlights the task it added or edited, by its id. *)
HighlightId == \E id \in 1 .. MaxTasks : HighlightTask(id)

(* displayTaskList() by itself, with another font. *)
ChangeFont ==
  /\ \E list \in Later(tasks) : DisplayTaskList(list)
  /\ UNCHANGED <<selected, previous>>

(* The list is displayed again, and its first task is highlighted. *)
ReloadTheme ==
  \E list \in Later(tasks) :
    IF list = <<>>
    THEN DisplayTaskList(list) /\ UNCHANGED <<selected, previous>>
    ELSE /\ tasks' = list /\ first' = FirstOf(list)
         /\ selected' = 1 /\ previous' = selected
         /\ rows' = Highlighted(RowsOf(list), selected, 1, list, first')

ScrollUp == selected > 1 /\ JumpTo(selected - 1)

ScrollDown == selected < Len(tasks) /\ JumpTo(selected + 1)

(* Wrong on purpose: the guard is left out. *)
PageUpUnguarded == JumpTo(selected - TASKS_PER_PAGE)

PageUp ==
  /\ selected > 1
  /\ JumpTo(IF selected > TASKS_PER_PAGE THEN selected - TASKS_PER_PAGE ELSE 1)

PageDown ==
  /\ selected # Len(tasks)
  /\ JumpTo(IF selected < Len(tasks) - TASKS_PER_PAGE
            THEN selected + TASKS_PER_PAGE ELSE Len(tasks))

Started(reaches(_)) == {s \in Sections : first[s] # NoTask /\ reaches(first[s])}

(* Wrong on purpose: to the section the selected task is in. *)
GotoPreviousSectionNear ==
  LET upTo(i) == i <= selected
      here == Started(upTo)
  IN  HighlightTask(IF here = {} THEN 1 ELSE first[Max(here)])

(* Of the sections that start no later than the selected task the last is taken
   for the one it is in, the last but one for the one before.               *)
GotoPreviousSection ==
  LET upTo(i) == i <= selected
      here == Started(upTo)
      before == here \ {Max(here)}
  IN  HighlightTask(IF here = {} \/ before = {} THEN 1 ELSE first[Max(before)])

GotoNextSection ==
  LET beyond(i) == i > selected
      after == Started(beyond)
  IN  HighlightTask(IF after = {} THEN Len(tasks) ELSE first[Min(after)])

Key ==
  \/ ScrollUp \/ ScrollDown \/ PageUp \/ PageDown
  \/ GotoPreviousSection \/ GotoNextSection

Next == ShowTasks \/ HighlightId \/ ChangeFont \/ ReloadTheme \/ Key

Spec == Init /\ [][Next]_vars

-----------------------------------------------------------------------------
(* Every variable has its type; a selection out of range is one that was in range
   of a longer list, or none.                                              *)
TypeOK ==
  /\ tasks \in Lists
  /\ first \in [Sections -> 0 .. Len(tasks)]
  /\ selected \in 0 .. MaxTasks /\ previous \in 0 .. MaxTasks

(* However rows were inserted and taken away, those on the screen are all the
   tasks, each once and in order, and one subheading above the first task of
   each section.                                                           *)
RowsMatch ==
  LET ofTask == {k \in DOMAIN rows : rows[k].task # NoTask}
      Under(i) == {s \in Sections : s = tasks[i] /\ \A j \in 1 .. i - 1 : tasks[j] # s}
  IN  /\ {rows[k].task : k \in ofTask} = DOMAIN tasks
      /\ \A k, l \in ofTask : k < l => rows[k].task < rows[l].task
      /\ Len(rows) = Len(tasks) + Cardinality(ToSet(tasks))
      /\ \A k \in DOMAIN rows :
           rows[k].heading # 0 =>
             /\ k < Len(rows) /\ rows[k + 1].task # NoTask
             /\ rows[k].heading \in Under(rows[k + 1].task)

(* At most one row is lit, that of the selected task. *)
OneIsLit == \A k \in DOMAIN rows : rows[k].lit => rows[k].task = selected

(* A key that moves the selection to a task lights it, whatever the selection was
   left at by a longer list.                                               *)
KeyLights ==
  [][Key /\ selected' # selected /\ selected' \in 1 .. Len(tasks)
       => \E k \in DOMAIN rows' : rows'[k].lit]_vars

(* In a list in order of section, which the default view is, the section keys go
   to the first task of the section before, and of the section after, that of
   the selected task; at the ends to the first task and the last one.       *)
SectionKeys ==
  [][Ascending(tasks) /\ IsInRange(selected, tasks) =>
       LET here == tasks[selected]
           Of(s) == {i \in DOMAIN tasks : tasks[i] = s}
           lower == {s \in ToSet(tasks) : s < here}
           upper == {s \in ToSet(tasks) : s > here}
       IN  /\ GotoPreviousSection =>
                selected' = IF lower = {} THEN 1 ELSE Min(Of(Max(lower)))
           /\ GotoNextSection =>
                selected' = IF upper = {} THEN Len(tasks) ELSE Min(Of(Min(upper)))]_vars
=============================================================================
