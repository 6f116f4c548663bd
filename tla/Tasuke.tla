------------------------------- MODULE Tasuke -------------------------------
(***************************************************************************)
(* The core of the program: the commands a user submits (Interpreter.cpp), *)
(* what each does to the list of tasks and how it undoes it (Commands.cpp),*)
(* the undo and redo histories (Tasuke.cpp), the list the task window      *)
(* shows, and the file every completed command is saved to.                *)
(*                                                                         *)
(* A handler of the GUI thread runs to its end before the next one starts, *)
(* but not in one step: a command is a list of parts, each part reads the  *)
(* clock afresh when it renumbers the list, and the program may be killed  *)
(* between two of them.  `job' is the handler in progress.                 *)
(***************************************************************************)
EXTENDS StorageList

CONSTANTS
  NewTasks,   \* what a user asks for in an add or an edit
  Commands,   \* bound: the kinds of commands submitted besides undo and redo
  Views,      \* bound: the searches of the show command a user makes
  UNDO_LIMIT, \* the most commands the undo history keeps
  MaxTasks,   \* bound: no command is submitted when there are more tasks
  MaxPicks,   \* bound on the ids of one list of ids, unless it is `all'
  MaxTimes,   \* bound on the number given to undo and redo
  StartTime, MaxNow  \* the clock runs from the one to the other

ASSUME NewTasksAssumption == NewTasks \subseteq {t \in Task : ~t.done}
ASSUME CommandsAssumption ==
  Commands \subseteq {"add", "remove", "edit", "clear", "done", "undone"}
ASSUME ViewsAssumption ==
  Views \subseteq {"all", "done", "undone", "overdue", "today"}
ASSUME UndoLimitAssumption == UNDO_LIMIT \in Nat \ {0}
ASSUME BoundsAssumption ==
  /\ MaxTasks \in Nat /\ MaxPicks \in Nat /\ MaxTimes \in Nat
  /\ StartTime \in Nat /\ MaxNow \in Nat /\ StartTime <= MaxNow

VARIABLES
  tasks,        \* IStorage::tasks
  now,          \* QDateTime::currentDateTime()
  undoHistory,  \* Tasuke::commandUndoHistory, the newest at the end
  redoHistory,  \* Tasuke::commandRedoHistory, the next to redo at the end
  last,         \* Interpreter::last, 0 when there is none
  shown,        \* TaskWindow::currentTasks: the tasks and their numbers
  selected,     \* TaskWindow::currentlySelectedTask, 0 when there is none
  file,         \* the tasks in the save file
  job,          \* the handler in progress
  cmd,          \* the command it runs or undoes
  at,           \* the part of the command to run or undo next
  times,        \* the calls of undoCommand or redoCommand still to make
  readd         \* the tasks ClearCommand::undo has still to add

vars == <<tasks, now, undoHistory, redoHistory, last, shown, selected, file,
          job, cmd, at, times, readd>>

-----------------------------------------------------------------------------
(* Commands.  An add, an edit and a clear are a command of their own, remove,
   done and undone are composites of one part for each id; here all are lists
   of parts, and `ran' is ICommand::hasRun of the whole and of each part.   *)

AddPart(t) == [kind |-> "add", ran |-> FALSE, tid |-> 0, task |-> t]
RemovePart(id, t) == [kind |-> "remove", ran |-> FALSE, id |-> id, task |-> t]
EditPart(id, t) ==
  [kind |-> "edit", ran |-> FALSE, id |-> id, tid |-> id, task |-> t, old |-> t]
ClearPart == [kind |-> "clear", ran |-> FALSE, olds |-> <<>>]
DonePart(id, flag) == [kind |-> "done", ran |-> FALSE, id |-> id, flag |-> flag]

Part ==
  [kind : {"add"}, ran : BOOLEAN, tid : Nat, task : Task]
  \cup [kind : {"remove"}, ran : BOOLEAN, id : Nat, task : Task]
  \cup [kind : {"edit"}, ran : BOOLEAN, id : Nat, tid : Nat, task : Task, old : Task]
  \cup [kind : {"clear"}, ran : BOOLEAN, olds : Seq(Task)]
  \cup [kind : {"done"}, ran : BOOLEAN, id : Nat, flag : BOOLEAN]

Command == [ran : BOOLEAN, parts : Seq(Part)]

NewCommand(parts) == [ran |-> FALSE, parts |-> parts]
NoCommand == NewCommand(<<>>)

-----------------------------------------------------------------------------
Init ==
  /\ tasks = <<>> /\ file = <<>> /\ shown = <<>>
  /\ now = StartTime
  /\ undoHistory = <<>> /\ redoHistory = <<>>
  /\ last = 0 /\ selected = 0
  /\ job = "none" /\ cmd = NoCommand /\ at = 0 /\ times = 0 /\ readd = <<>>

Idle == job = "none"

Rest == job' = "none" /\ cmd' = NoCommand /\ at' = 0 /\ times' = 0

storageVars == <<tasks, file>>
historyVars == <<undoHistory, redoHistory>>
windowVars == <<shown, selected>>

(***************************************************************************)
(* Interpreting.  parseId takes a number in range, or `last' as it stands; *)
(* a list of ids is a sequence of those, or `all' the numbers there are,   *)
(* and the commands are made for the ids sorted.  A list of ids naming a   *)
(* group (done, overdue, today...) is one of these sequences too.  Text    *)
(* that cannot be parsed has no effect on this state.                      *)
(***************************************************************************)
Ids == (1 .. Len(tasks)) \cup (IF last > 0 THEN {last} ELSE {})

AllIds == [i \in 1 .. Len(tasks) |-> i]

IdLists == (UNION {[1 .. n -> Ids] : n \in 1 .. MaxPicks}) \cup {AllIds}

(* Wrong on purpose: the ids of a removal from the lowest up. *)
DescendingReversed(ids) == StableSort(ids, [id \in Nat |-> id])

Descending(ids) == StableSort(ids, [id \in Nat |-> -id])
Ascending(ids) == StableSort(ids, [id \in Nat |-> id])

(* The bounds of an instance.  The list has to be bounded for every command: to
   undo a removal that named a task twice makes the list grow.             *)
MaySubmit(kind) == Idle /\ kind \in Commands /\ Len(tasks) <= MaxTasks

Run(parts) ==
  /\ job' = "run"
  /\ cmd' = [NewCommand(parts) EXCEPT !.ran = TRUE]
  /\ at' = 1
  /\ UNCHANGED <<storageVars, now, historyVars, last, windowVars, times, readd>>

SubmitAdd ==
  /\ MaySubmit("add")
  /\ Len(tasks) < MaxTasks
  /\ \E t \in NewTasks : Run(<<AddPart(t)>>)

(* RemoveCommand keeps a copy of the task at the time it is made. *)
SubmitRemove ==
  /\ MaySubmit("remove")
  /\ \E ids \in IdLists :
       /\ \A k \in DOMAIN ids : IsId(tasks, ids[k])
       /\ LET picked == Descending(ids)
          IN  Run([k \in 1 .. Len(ids) |-> RemovePart(picked[k], tasks[picked[k]])])

(* The task to edit is copied, and the parts of it the user names replaced. *)
SubmitEdit ==
  /\ MaySubmit("edit")
  /\ \E id \in Ids, t \in NewTasks :
       /\ IsId(tasks, id)
       /\ Run(<<EditPart(id, [t EXCEPT !.done = tasks[id].done])>>)

SubmitDone ==
  /\ MaySubmit("done")
  /\ \E ids \in IdLists :
       LET picked == Descending(ids)
       IN  Run([k \in 1 .. Len(ids) |-> DonePart(picked[k], TRUE)])

SubmitUndone ==
  /\ MaySubmit("undone")
  /\ \E ids \in IdLists :
       LET picked == Ascending(ids)
       IN  Run([k \in 1 .. Len(ids) |-> DonePart(picked[k], FALSE)])

SubmitClear == MaySubmit("clear") /\ Run(<<ClearPart>>)

Hits(view) ==
  CASE view = "all" -> Undone(tasks)
    [] view = "undone" -> Undone(tasks)
    [] view = "done" -> (1 .. Len(tasks)) \ Undone(tasks)
    [] view = "overdue" -> {i \in 1 .. Len(tasks) : IsOverdue(tasks[i], now)}
    [] view = "today" -> {i \in 1 .. Len(tasks) : IsDueToday(tasks[i], now)}

Show ==
  /\ Idle
  /\ \E view \in Views : shown' = Search(tasks, Hits(view))
  /\ UNCHANGED <<storageVars, now, historyVars, last, selected,
                 job, cmd, at, times, readd>>

(* `edit last' and `remove last' copy the task at the remembered number, which
   is not checked against the list: reading past its end kills the program. *)
LastIsNoTask ==
  /\ Idle
  /\ last > Len(tasks)
  /\ job' = "lost"
  /\ UNCHANGED <<storageVars, now, historyVars, last, windowVars,
                 cmd, at, times, readd>>

-----------------------------------------------------------------------------
(* The parts of a command, in order when it is run or redone, in reverse order
   when it is undone.                                                      *)

Running(kind) ==
  job \in {"run", "redo"} /\ at <= Len(cmd.parts) /\ cmd.parts[at].kind = kind

Undoing(kind) == job = "undo" /\ at >= 1 /\ cmd.parts[at].kind = kind

part == cmd.parts[at]

Ran(p) ==
  /\ cmd' = [cmd EXCEPT !.parts[at] = [p EXCEPT !.ran = TRUE]]
  /\ at' = at + 1
  /\ UNCHANGED <<now, historyVars, file, job, times, readd>>

(* Wrong on purpose: undo leaves the flag set. *)
UndidKeepsFlag(p) ==
  /\ cmd' = [cmd EXCEPT !.parts[at] = p]
  /\ at' = at - 1
  /\ UNCHANGED <<now, historyVars, file, job, times>>

Undid(p) ==
  /\ cmd' = [cmd EXCEPT !.parts[at] = [p EXCEPT !.ran = FALSE]]
  /\ at' = at - 1
  /\ UNCHANGED <<now, historyVars, file, job, times>>

Refresh == shown' = GetTasks(tasks')

(* The task window ignores a position that is not in its list. *)
Highlight(id) == selected' = IF id \in 1 .. Len(shown') THEN id ELSE selected

RunAdd ==
  /\ Running("add")
  /\ LET id == AddedId(tasks, part.task, now)
     IN  /\ tasks' = AddTask(tasks, part.task, now)
         /\ Refresh
         /\ Highlight(id)
         /\ last' = id
         /\ Ran([part EXCEPT !.tid = id])

UndoAdd ==
  /\ Undoing("add")
  /\ tasks' = RemoveTask(tasks, part.tid, now)
  /\ Refresh
  /\ Undid(part)
  /\ UNCHANGED <<last, selected, readd>>

RunRemove ==
  /\ Running("remove")
  /\ tasks' = RemoveTask(tasks, part.id, now)
  /\ Refresh
  /\ Ran(part)
  /\ UNCHANGED <<last, selected>>

(* Wrong on purpose: the window is not told of the task that is back. *)
UndoRemoveUnseen ==
  /\ Undoing("remove")
  /\ tasks' = AddTask(tasks, part.task, now)
  /\ Undid(part)
  /\ UNCHANGED <<last, windowVars, readd>>

(* Wrong on purpose: what is in the list already is not added again. *)
UndoRemoveOnce ==
  /\ Undoing("remove")
  /\ tasks' = IF part.task \in ToSet(tasks) THEN tasks ELSE AddTask(tasks, part.task, now)
  /\ Refresh
  /\ Undid(part)
  /\ UNCHANGED <<last, selected, readd>>

UndoRemove ==
  /\ Undoing("remove")
  /\ tasks' = AddTask(tasks, part.task, now)
  /\ Refresh
  /\ Undid(part)
  /\ UNCHANGED <<last, selected, readd>>

RunEdit ==
  /\ Running("edit")
  /\ IsId(tasks, part.id)
  /\ LET id == EditedId(tasks, part.id, part.task, now)
     IN  /\ tasks' = EditTask(tasks, part.id, part.task, now)
         /\ Refresh
         /\ Highlight(id)
         /\ last' = id
         /\ Ran([part EXCEPT !.tid = id, !.old = tasks[part.id]])

(* Wrong on purpose: the edit is undone at the number it was made at. *)
UndoEditAtOldId ==
  /\ Undoing("edit")
  /\ IsId(tasks, part.id)
  /\ tasks' = EditTask(tasks, part.id, part.old, now)
  /\ Refresh
  /\ Highlight(part.id)
  /\ last' = part.tid
  /\ Undid(part)
  /\ UNCHANGED readd

(* The task put back is highlighted where it was when it was edited, and
   `last' is the number the edited task had.                               *)
UndoEdit ==
  /\ Undoing("edit")
  /\ IsId(tasks, part.tid)
  /\ tasks' = EditTask(tasks, part.tid, part.old, now)
  /\ Refresh
  /\ Highlight(part.id)
  /\ last' = part.tid
  /\ Undid(part)
  /\ UNCHANGED readd

(* getTasks() hides what is done, clearAllTasks() does not. *)
RunClear ==
  /\ Running("clear")
  /\ tasks' = <<>>
  /\ Refresh
  /\ LET old == GetTasks(tasks)
     IN  Ran([part EXCEPT !.olds = [k \in 1 .. Len(old) |-> old[k].task]])
  /\ UNCHANGED <<last, selected>>

UndoClear ==
  /\ Undoing("clear")
  /\ part.ran
  /\ readd' = part.olds
  /\ cmd' = [cmd EXCEPT !.parts[at].ran = FALSE]
  /\ UNCHANGED <<storageVars, now, historyVars, last, windowVars, job, at, times>>

UndoClearAdd ==
  /\ Undoing("clear")
  /\ ~part.ran
  /\ readd # <<>>
  /\ tasks' = AddTask(tasks, Head(readd), now)
  /\ readd' = Tail(readd)
  /\ UNCHANGED <<file, now, historyVars, last, windowVars, job, cmd, at, times>>

UndoClearShow ==
  /\ Undoing("clear")
  /\ ~part.ran
  /\ readd = <<>>
  /\ UNCHANGED tasks
  /\ Refresh
  /\ Undid(part)
  /\ UNCHANGED <<last, selected, readd>>

(* DoneCommand keeps the id the task has afterwards, for its next undo or run. *)
SetDone(flag) ==
  LET t  == [tasks[part.id] EXCEPT !.done = flag]
      id == EditedId(tasks, part.id, t, now)
  IN  /\ tasks' = EditTask(tasks, part.id, t, now)
      /\ Refresh
      /\ IF part.flag THEN UNCHANGED selected ELSE Highlight(id)
      /\ IF job = "undo" THEN Undid([part EXCEPT !.id = id]) /\ UNCHANGED readd
                         ELSE Ran([part EXCEPT !.id = id])
      /\ UNCHANGED last

RunDone == Running("done") /\ IsId(tasks, part.id) /\ SetDone(part.flag)

UndoDone == Undoing("done") /\ IsId(tasks, part.id) /\ SetDone(~part.flag)

(* getTask() and QList::replace() with a number past the end of the list kill
   the program.                                                            *)
Target(p) == IF p.kind = "edit" /\ job = "undo" THEN p.tid ELSE p.id

NoSuchTask ==
  /\ \E kind \in {"edit", "done"} : Running(kind) \/ Undoing(kind)
  /\ ~IsId(tasks, Target(part))
  /\ job' = "lost"
  /\ UNCHANGED <<storageVars, now, historyVars, last, windowVars,
                 cmd, at, times, readd>>

-----------------------------------------------------------------------------
(* The histories.  limitUndoRedo() drops the oldest commands.               *)

Limited(history) ==
  IF Len(history) <= UNDO_LIMIT THEN history
  ELSE SubSeq(history, Len(history) - UNDO_LIMIT + 1, Len(history))

(* Wrong on purpose: a new command leaves the redo history as it is. *)
FinishRunKeepsRedo ==
  /\ job = "run"
  /\ at > Len(cmd.parts)
  /\ undoHistory' = Limited(Append(undoHistory, cmd))
  /\ file' = tasks
  /\ Rest
  /\ UNCHANGED <<tasks, now, redoHistory, last, windowVars, readd>>

FinishRun ==
  /\ job = "run"
  /\ at > Len(cmd.parts)
  /\ undoHistory' = Limited(Append(undoHistory, cmd))
  /\ redoHistory' = <<>>
  /\ file' = tasks
  /\ Rest
  /\ UNCHANGED <<tasks, now, last, windowVars, readd>>

(* undoCommand() n times over: each takes the newest command from the history,
   and does nothing when there is none.                                    *)
BeginUndo(n) ==
  IF n = 0 \/ undoHistory = <<>>
  THEN Rest /\ UNCHANGED undoHistory
  ELSE LET c == undoHistory[Len(undoHistory)]
       IN  /\ job' = "undo"
           /\ cmd' = [c EXCEPT !.ran = FALSE]
           /\ at' = Len(c.parts)
           /\ times' = n
           /\ undoHistory' = SubSeq(undoHistory, 1, Len(undoHistory) - 1)

BeginRedo(n) ==
  IF n = 0 \/ redoHistory = <<>>
  THEN Rest /\ UNCHANGED redoHistory
  ELSE LET c == redoHistory[Len(redoHistory)]
       IN  /\ job' = "redo"
           /\ cmd' = [c EXCEPT !.ran = TRUE]
           /\ at' = 1
           /\ times' = n
           /\ redoHistory' = SubSeq(redoHistory, 1, Len(redoHistory) - 1)

SubmitUndo ==
  /\ Idle
  /\ \E n \in 1 .. MaxTimes : BeginUndo(n)
  /\ UNCHANGED <<storageVars, now, redoHistory, last, windowVars, readd>>

SubmitRedo ==
  /\ Idle
  /\ \E n \in 1 .. MaxTimes : BeginRedo(n)
  /\ UNCHANGED <<storageVars, now, undoHistory, last, windowVars, readd>>

FinishUndo ==
  /\ job = "undo"
  /\ at = 0
  /\ redoHistory' = Limited(Append(redoHistory, cmd))
  /\ file' = tasks
  /\ BeginUndo(times - 1)
  /\ UNCHANGED <<tasks, now, last, windowVars, readd>>

(* Wrong on purpose: what was redone is not saved. *)
FinishRedoUnsaved ==
  /\ job = "redo"
  /\ at > Len(cmd.parts)
  /\ undoHistory' = Limited(Append(undoHistory, cmd))
  /\ BeginRedo(times - 1)
  /\ UNCHANGED <<tasks, file, now, last, windowVars, readd>>

FinishRedo ==
  /\ job = "redo"
  /\ at > Len(cmd.parts)
  /\ undoHistory' = Limited(Append(undoHistory, cmd))
  /\ file' = tasks
  /\ BeginRedo(times - 1)
  /\ UNCHANGED <<tasks, now, last, windowVars, readd>>

-----------------------------------------------------------------------------
(* The clock moves on at any time. *)
Tick ==
  /\ now < MaxNow
  /\ now' = now + 1
  /\ UNCHANGED <<storageVars, historyVars, last, windowVars, job, cmd, at,
                 times, readd>>

(* The program ends at any time, in the middle of a command too, and is started
   again: only the save file is left.                                      *)
Restart ==
  /\ tasks' = Renumber(file, now)
  /\ Refresh
  /\ undoHistory' = <<>> /\ redoHistory' = <<>>
  /\ last' = 0 /\ selected' = 0 /\ readd' = <<>>
  /\ Rest
  /\ UNCHANGED <<now, file>>

Submit ==
  \/ SubmitAdd \/ SubmitRemove \/ SubmitEdit \/ SubmitClear
  \/ SubmitDone \/ SubmitUndone \/ SubmitUndo \/ SubmitRedo
  \/ Show \/ LastIsNoTask

RunPart == RunAdd \/ RunRemove \/ RunEdit \/ RunClear \/ RunDone

UndoPart ==
  \/ UndoAdd \/ UndoRemove \/ UndoEdit \/ UndoDone
  \/ UndoClear \/ UndoClearAdd \/ UndoClearShow

Finish == FinishRun \/ FinishUndo \/ FinishRedo

Handler == RunPart \/ UndoPart \/ NoSuchTask \/ Finish

Next == Submit \/ Handler \/ Tick \/ Restart

Spec == Init /\ [][Next]_vars

-----------------------------------------------------------------------------
(***************************************************************************)
(* Properties.                                                             *)
(***************************************************************************)
Entry == [number : Nat \ {0}, task : Task]

(* Every variable has its type; a task on display has a number from 1 up, as
   the user reads it, and no handler is past the ends of its command.      *)
TypeOK ==
  /\ tasks \in Seq(Task) /\ file \in Seq(Task) /\ readd \in Seq(Task)
  /\ now \in StartTime .. MaxNow
  /\ undoHistory \in Seq(Command) /\ redoHistory \in Seq(Command)
  /\ last \in Nat /\ selected \in Nat
  /\ shown \in Seq(Entry)
  /\ job \in {"none", "run", "undo", "redo", "lost"}
  /\ cmd \in Command
  /\ at \in 0 .. Len(cmd.parts) + 1
  /\ times \in 0 .. MaxTimes

AllRan(c) == c.ran /\ \A i \in DOMAIN c.parts : c.parts[i].ran
NoneRan(c) == ~c.ran /\ \A i \in DOMAIN c.parts : ~c.parts[i].ran

(* The assertions of ICommand::run and undo never fail: what is in the undo
   history has run, what is in the redo history has not, and of the command in
   progress exactly the parts already passed have.  A clear being undone drops
   its flag before it adds the tasks again.                                *)
HistoryFlags ==
  /\ \A k \in DOMAIN undoHistory : AllRan(undoHistory[k])
  /\ \A k \in DOMAIN redoHistory : NoneRan(redoHistory[k])
  /\ job \in {"run", "redo"} =>
       /\ cmd.ran
       /\ \A i \in DOMAIN cmd.parts : cmd.parts[i].ran <=> i < at
  /\ job = "undo" =>
       /\ ~cmd.ran
       /\ \A i \in DOMAIN cmd.parts :
            /\ i < at => cmd.parts[i].ran
            /\ i > at => ~cmd.parts[i].ran
            /\ i = at /\ ~cmd.parts[i].ran => cmd.parts[i].kind = "clear"

(* Undo and redo together never hold more than UNDO_LIMIT commands, the one in
   progress between the two histories included, so limitUndoRedo() never drops
   a command the user has undone.                                          *)
InTransit == IF job \in {"undo", "redo"} THEN 1 ELSE 0

HistoryBound == Len(undoHistory) + Len(redoHistory) + InTransit <= UNDO_LIMIT

(* The number the window shows beside a task is the number a command must give
   to reach that very task, whatever was run, undone or restarted since; only
   the undo of a clear shows its work when all of it is done.              *)
DisplayMatches ==
  ~(Undoing("clear") /\ ~part.ran) =>
    \A k \in DOMAIN shown :
      /\ IsId(tasks, shown[k].number)
      /\ tasks[shown[k].number] = shown[k].task

SameTasks(ts, us) ==
  /\ Len(ts) = Len(us)
  /\ \A t \in ToSet(ts) :
       Cardinality({i \in DOMAIN ts : ts[i] = t})
         = Cardinality({i \in DOMAIN us : us[i] = t})

(* Between two handlers the save file holds exactly the tasks in memory. *)
SavedWhenIdle == Idle => SameTasks(file, tasks)

(* Whatever the clock has done meanwhile, every handler that changes the list
   leaves it in the order of the present time.                             *)
UrgencyOrder ==
  [][tasks' # tasks => /\ SectionsInOrder(tasks', now)
                       /\ DatesInOrderIn(tasks', now, 2 .. 4)]_vars

(* The task just added or edited is where `last' says, and if it is on display
   it is the one highlighted: ids count the whole list, rows of the window only
   the tasks not done, and the two agree because those come first.         *)
HighlightsTheTask ==
  [][RunAdd \/ RunEdit =>
       /\ tasks'[last'] = part.task
       /\ ~part.task.done =>
            /\ selected' = last'
            /\ shown'[selected'] = [number |-> last', task |-> part.task]]_vars
=============================================================================
