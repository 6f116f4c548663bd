# Tasuke in TLA+

Tasuke is a task manager for the desktop, driven by typed commands (`add`, `edit`, `remove`,
`done`, `undone`, `clear`, `show`, `undo`, `redo`), written in C++ with Qt. This directory holds
TLA+ modules of the parts in which its logic lies, the TLC configurations that check them on small
instances, and theorems about them that TLAPS proves for every value of their constants. Paths
are those of `src/Tasuke/` unless they say otherwise; line numbers are those of the files as they
stand beside this directory.

Contents: [the program](#1-the-program) · [modules](#2-modules-and-the-code-they-model) ·
[runs](#3-what-the-runs-check) · [fairness](#4-fairness) · [proofs](#5-what-is-proved) ·
[disagreements](#6-where-the-code-and-what-it-says-of-itself-part) ·
[left out](#7-what-is-abstracted-and-what-is-left-out) · [plan](#8-plan) ·
[running it](#9-running-the-checks)

## 1. The program

### Parts, state, operations

| part | files | state | operations |
|---|---|---|---|
| Task list | `Task.cpp`, `Storage.cpp` | `IStorage::tasks`, a list in which a task's id is its place | `addTask`, `editTask`, `removeTask`, `getTasks`, `search`, `clearAllTasks`, `nextFreeTime`; each change ends in `renumber()`, six stable sorts that read the clock |
| Commands | `Commands.cpp` | `hasRun`, and the copies and ids each needs to undo itself | `run`, `undo` of add, remove, edit, clear, done and of a composite of them |
| Undo and redo | `Tasuke.cpp` 536-735 | `commandUndoHistory`, `commandRedoHistory` | `runCommand`, `undoCommand`, `redoCommand`, `limitUndoRedo` |
| Interpreter | `Interpreter.cpp` | `last`, the date formats, `formatsAlreadyInit`; the parts of the text it is taking apart | `interpret`, `decompose`, `createAddCommand`, `createEditCommand`, `parseTimePeriod`, `parseDate`, `initFormats` |
| Evaluation while typing | `Tasuke.cpp` 594-671, `InputWindow.cpp`, `TooltipWidget.cpp` | `input`, `inputTimer`, `mutex`, the thread, queued results, the tooltip | `handleInputChanged`, `handleInputTimeout`, `handleTryFinish`, and submitting or closing the box |
| Save file | `Storage.cpp` 366-457 | the keys in a `QSettings`, the file behind it | `saveFile` after every command, undo and redo, `loadFile` at the start |
| Task window | `TaskWindow.cpp` | `currentTasks`, rows, subheadings, selected and previous task | `showTasks`, `highlightTask`, scroll, page and section keys, redraws for themes and fonts |
| Windows, pages, tutorial | `Tasuke.cpp` 240-345, `TaskWindow.cpp` 144-205, `SlidingStackedWidget.cpp`, `TutorialWidget.cpp` | what is visible, the page of each stack, animations under way, `isFirstRun` | toggling windows, asking for help, turning pages |
| Hot keys, system tray | `HotKeyManager.cpp`, `HotKeyThread.cpp`, `SystemTrayWidget.cpp` | registered keys | ask the above to show or hide windows |
| Notifications | `NotificationManager.cpp`, `Storage.cpp` 78-87 | `nextTask`, the interval of a timer | `init` after each load and save, `scheduleNotification`; the timer is never started |
| Settings, themes | `SettingsWindow.cpp`, `ThemeStylesheets.cpp` | keys in the settings, the choices in the window, a link in the startup directory | showing the window, choosing, Apply: five edits, each of which stores a key and tells the windows to read it |
| Highlighter, entries, about window, `main.cpp` | | no state of their own | |

### How they interact

All of it lives in one process. The GUI thread runs one handler at a time: a key in the box, a
timer, a queued signal, a hot key. A handler that gets a command from the interpreter runs it, puts
it into the undo history, saves the list, and each part of the command redraws the task window by
a direct call. Two more kinds of threads exist. One is started by the constructor of `Tasuke`
(lines 38-44) to make the date formats; whoever else wants to read a date meanwhile waits for it.
The other is started half a second after the last key to judge the text typed so far; it reads
`Tasuke::input` and the list of tasks while the GUI thread may change them, and posts its result
back as a queued signal. Between runs of the program only the save file and the settings are left.

### What is hard about it

- **Numbers.** A user, a command, its undo, `last` and the display all name a task by its number,
  and every change of the list, and time itself, gives tasks new numbers.
- **Time.** `renumber()`, the parts of one command, and begin and end of one period look at the
  clock one after the other.
- **Undo.** Commands are shared objects with a flag that is asserted, moved between two histories
  with a limit, and undone part by part in reverse.
- **Late results.** The judgement of a text may arrive after the text was changed or submitted or
  the box closed; a timeout may find the previous evaluation still at work.
- **Threads.** A flag read without its lock, a string and a list read without any.
- **Kills.** A save is a sequence of synchronisations, and an end of the program in between
  leaves what there is of it.
- **Stale selections.** The task window keeps the selected number when the list is replaced.
- **Text.** One pass over the tokens with two flags, and parts applied in the order of a hash table.
- **Settings** are read again by who is told of a change, one edit after the other, and the program may end in between.
- **Animations.** Requests for a page arrive while pages slide, and the index of a stack changes
  only when the slide is over.

### What makes each part correct

The task list: no task is dropped or invented by a renumbering, ids lead to the tasks they were
given for, and the order is that of the sections at the present time. Commands and histories: a
command for several numbers acts on the tasks that had them; undo and redo walk exactly along the
lists there were; no assertion fails. Display: the number beside a task reaches it; the new task
is highlighted. Save file: what is on the disk at rest is the list; a killed save never leaves
half a list that passes for a whole one. Evaluation: one at a time, the tooltip comes to rest on
the judgement of the text in the box, nobody waits for ever. Date formats: made once, seen whole,
and a period is read as it stands though midnight passes. Text: a command is refused for what its
text says only, and makes the task the text describes. Settings: every window looks as is stored.
Notifications: what is scheduled is the next event that is yet to begin. Task window: rows are the tasks in
order, one is lit, keys go where they say. Pages: none is lost and none is left over.
`PROJECT.json` lists under `hazards` each place in the code where one of these can fail and
the properties that would notice.

## 2. Modules and the code they model

```
TaskOrder <- StorageList <- Tasuke <- TasukeTimeline --implements--> UndoTimeline
                 ^            ^            ^
     StorageListProofs <- TasukeProofs <- TimelineProofs

InputEvaluation <- InputEvaluationProofs     FreeTime <- Notifications
Screens         <- ScreensProofs
DateFormats, CommandText <- InterpreterProofs
MCStorage       <- StorageProofs             MCTaskWindow <- TaskWindowProofs

MCInterpreter = DateFormats + CommandText    MCStorage = SaveFile + Notifications
MCTaskWindow  = TaskWindow + Settings
```

(`A <- B`: B extends A.) Each other module is a component whose state the others do
not share; an `MC...` module gives its constants their values. Those three check two
components that share nothing in one run, as a sum: each takes its steps while the other is as it
started, so that their states are added and not multiplied, and each behaves exactly as it does alone.

A definition that is commented *Wrong on purpose* is a mutation of the one after it: it stands for a
plausible bug in the code, is used nowhere, and `PROJECT.json` says which property of which run must
fail when it takes that one's place.

**TaskOrder** is the order of the list (`Task.cpp`, `Storage.cpp` 296-330): `StableSort` is `qStableSort`
by a key, `Renumber` the six sorts of `renumber()` one on top of the other, `IdAfter` the id a task finds itself
with. Also what the sections promise (`SectionsInOrder`, `DatesInOrderIn`).

**StorageList** is the operations of `IStorage` as functions of the list and the clock.

**Tasuke** is the core. A *handler* of the GUI thread is in progress while `job` is not `"none"`; a command
is a list of *parts*, each with the `hasRun` of its `ICommand`, so that a composite and a single command have
one form. `Submit...` are what the interpreter makes of a text (the whole of its checks: ids in range, `last`, lists and
`all`, sorted the way each command wants them), `Run...` and `Undo...` are `ICommand::run` and `undo` of one part with the redraw and
highlight they end in, `Finish...` what `Tasuke` does with the command afterwards: history, limit, save.
Between two parts the clock may move (`Tick`) and the program may be killed and started again (`Restart`); both happen
at rest too. `Show` is the show command, `NoSuchTask` the exception a part throws for an id that is none, `LastIsNoTask`
the death of the program at `last` out of range.

**UndoTimeline** is the abstract undo and redo: a line of documents, one of them the present. **TasukeTimeline** adds
history variables to Tasuke (the documents before each command of the undo history and after each of the redo
history, the numbers the command was given) and maps one to the other.

**InputEvaluation** is the evaluation while typing. Every handler of the GUI thread is one step; the thread takes one for
each read of `input`, and a read that meets a write gives the old text, the new one or the end of the program.
`showTooltip` starts with any value, for the constructor does not set it.

**SaveFile** is `saveFile` and `loadFile`, a synchronisation at a time, with `Kill`, `Start` and a file that may
refuse to be written. The largest `int` is the constant `IntMax`, the largest unsigned number twice that and one, so that the unsigned
seconds that are written and the signed ones that are read differ.

**TaskWindow** is the rows of the list and the keys. Rows are inserted and taken away at numbers worked out from
subheadings, as the code does; the selection survives a new list. Lists are in the order `renumber()` leaves them in,
which is the interface to Tasuke.

**Screens** is the windows and every `SlidingStackedWidget`: a request for a page while one slides is dropped, the end of the
animation sets the index and hides the page it left, and the tutorial sets an index whether or not it slides.

**Settings** is the settings window and everyone who reads what it stores: the choices in the window, the edits of Apply one by one, each
storing its key before it tells the others, the link in the startup directory that may fail to be made, what every window read last, rows that are replaced
in between, and the end of the program at any point. *Rows* and *headings* are sets, for those made at different times may look different.

**FreeTime** is `nextFreeTime()` on every list of events in the order of the list: `Passed` is what its loop knows after each event. **Notifications** adds what `NotificationManager::init()` makes of
the list after every change: which task `getNextUpcomingTask` finds, and the interval of the timer, unsigned first and signed then.

**CommandText** is how the text of an add or an edit is taken apart: `ReadToken` and `RefuseToken` are one turn of the loop of `decompose()`, with the
delimiter it is at and whether a delimiter must come next; `Fill` is one turn of the loop over the parts, in any order, for their order is that of a
hash table; `Decomposed`, `RefuseUndescribed` and `MakeCommand` are what `createAddCommand` and `createEditCommand` do around them. Tokens are a
delimiter and a name, and the empty token that a second blank makes is one of them. What the text says, read as a whole (`TypedDescription`, `TypedTags`,
`TypedDate`), is the reference the loop is checked against.

**DateFormats** is the making of the date formats by several threads and the reading of a period with them. Lists of format strings
are sets of forms (has it a date, spelt or in numbers, with slashes or with dashes; a year; a time, of which kind); each of the five generators is a step,
built from the lists made before it as in the code. What is typed is one text or several with dashes between them, and is split at every dash, those of the
dates included, before anything is read: `RefuseParts` refuses more than two parts, and `Parse` sets out to read the one or two there are, which
for a date with one dash are its `Halves`.

`PROJECT.json` maps every definition to the lines it stands for; together they are 37 % of the lines of `src/Tasuke`,
and 3 % of a repository that is mostly vendored libraries.

## 3. What the runs check

Every property has a mutation of the code model that breaks it under the run's own configuration. All
but those of liveness are also proved for every instance (section 5).

| run | states | checks | bounds, and why they are enough |
|---|---|---|---|
| `core` | 170 115 | `TypeOK`; `HistoryFlags`: the assertions of `ICommand` hold; `DisplayMatches`: each number on display reaches its task; `SavedWhenIdle`: at rest the file is the list; `UrgencyOrder`: the order after each change is that of the present time; `HighlightsTheTask` | two tasks, one timed and one floating, which every sort tells apart; a clock that runs from before the end to after midnight (`StartTime` 1, `DayLength` 2, `MaxNow` 3), so each task passes from due today through overdue within a command; ids one at a time and `all`; history of one. |
| `timeline_undo` | 241 379 | `ImplementsTimeline`: undo and redo are those of UndoTimeline, in every detail and order; `HistoryBound` | histories of two, up to two undos at a time, two ids to a command: the limit is reached, passed and undone across. The clock stands still and commands are straight (below). |
| `timeline_batch` | 708 836 | `HitsThePicked`: a straight command for several numbers acts on the tasks that had them; `UndoGivesBack`: straight or not, the undo of a removal adds each task as often as the removal named it; and if nothing else was undone since, the list is no shorter than the one the command found, the undo of a mark has changed only marks, that of a clear gives back exactly what was not done | three tasks, and two numbers or all in any order, the same one twice included: each part renumbers what the next one names |
| `evaluation` | 66 721 | `TypeOK`; `OneEvaluation`; `TipNeedsBox`; `Answered`; `Settles` | a good text, a refused one, one that kills the program; two threads, though `OneEvaluation` shows one at a time: with one name for threads a second could not start and the property would be empty |
| `storage` | 719 804 | `TypeOK`, `TypeOKNotify`; `AllOrNothing`: what a start finds is all of the last save or nothing; `KeepsWhatIsSaved`; `MergesEvents`: one pass finds the first free moment; `UpcomingIsNext`: the event scheduled is the first that is yet to begin, and the interval ends when its notice is due | two tasks, so that a kill can leave one of two, and a shorter list can overwrite a longer one; `IntMax` 3, which a second can exceed; any number of kills, starts and failures of the disk. Three events at four moments: two that overlap, touch or nest with a third after, between or before them; a timer of two bits, which an event can be too far off for |
| `task_window` | 23 622 | `TypesOK`; `RowsMatch`; `OneIsLit`; `KeyLights`; `SectionKeys`; `LooksAsStored`: no window looks other than the settings say | four tasks in any sections, so that every section can be there or not, and pages of two: a list is shorter than a page, one page and two pages; lists replace each other freely. Two values of each setting, and five edits to be cut short between |
| `screens` | 204 630 | `TypeOK`; `OnePage`; `NoReentrance`; `FirstRunShowsTutorial`; `Arrives` | all three tabs; four, three and two pages where the program has eight, three and two: a stack behaves as its neighbours do beyond a first, a middle and a last page |
| `interpreter` | 490 958 | `TypeOK`; `MadeOnce`; `WholeTables`; `PeriodsStand`: a period typed forward, in dates without dashes, is never refused, none accepted is reversed, and of dates with dashes none is accepted but those taken for two times; `Answered`; `TypeOKText`; `JudgedByTheRules`: a text is refused for what it says and nothing else; `DoneAsTyped`: the task is the one described, in whatever order the parts are applied | the startup thread, the GUI thread and an evaluation; one midnight and two hours; six periods: a day by its name with a time alone, dated, an end alone, and three dates with dashes, of which one has too many parts, one has halves that are nothing, and one may be taken for two times, reversed unless midnight passes. Every text of up to four tokens of two names: a delimiter, what follows it, what follows that and one more; a new task and three to edit, with no, one and the most tags there may be |
| `found_add`, `found_refusal`, `found_crash`, `found_text` | | one property each, violated | section 6 |

*Straight* commands name a task once, mark only what is not so marked, and clear only when nothing
is done; `ImplementsTimeline` and `HitsThePicked` are about these, for with the others undo is not
the reverse (section 6); `UndoGivesBack` says what holds of the others too. It compares with the list the command found only when nothing
has been undone between, for the undo of a later command that is not straight need not lead back to the list this one left: with histories of two
TLC refutes the comparison without that condition (a mark, then `remove 1,1`, and both undone). The run keeps a history of one; the theorem covers any. `ImplementsTimeline` also needs contents that the order tells apart: two that it does
not may come back in the other order, which is the finding `found_add`.

Kills, stops at a text that ends the program, and a user who does nothing make no deadlock in any run:
`Restart` is always possible, a dead program stutters on purpose (`Dead`), and no configuration
turns the check of deadlocks off.

## 4. Fairness

Only three specifications state any.

- **InputEvaluation**: weak fairness of the timeout, of the delivery of a queued signal and of each thread. A
  running `QTimer` fires and is re-armed when the mutex is taken (`Tasuke.cpp` 615-618); the event loop delivers what
  is posted; the system schedules threads. Nothing the user does is fair: `Settles` says
  what happens *if* the user at last lets the box be.
- **Screens**: weak fairness of the end of each animation, which runs on a timer of its own whether or not it
  can be seen. No fairness of the user. `FirstRunShowsTutorial` is conditional on the window being brought up.
- **DateFormats**: weak fairness of the steps of each thread. Nothing is assumed of the mutex being fair: once the
  flag is up whoever asks goes past it (`Interpreter.cpp` 787), so a thread that waits is overtaken a bounded number of times.

  In `MCInterpreter` the same is said of the steps it takes; CommandText needs none.

Tasuke, SaveFile, TaskWindow, Settings, CommandText and Notifications state safety only.

## 5. What is proved

By TLAPS, for every value of the constants that meets the named assumptions (which are: ranks of descriptions are
integers, times are naturals, a day has a length, limits and bounds are naturals, `UNDO_LIMIT` is not
zero, new tasks are not done; for DateFormats, that the threads differ, the periods are periods and the day has a last hour; for
InputEvaluation, that no text is named like the absence of one and there are finitely many names for threads; for SaveFile, that times and `IntMax` are
naturals and a second has a tick; for FreeTime and Notifications, that times, the notice and the largest interval are naturals; for TaskWindow, that a page has a row; for CommandText, that the tasks to edit are tasks with finitely many tags; for Screens, that there are tabs and pages; for
Settings, that the defaults are among the choices). The bounds on the length of texts and lists and on the clock are constants like the others, so no
theorem rests on how large they are. Two theorems have a hypothesis beyond these, because what they state needs it (section 6): the clock stands
still (`StartTime = MaxNow`) in `HitsThePickedCorrect` and `TimelineImplemented`, and in the latter the order tells the contents apart (`NoTies`: no two
new tasks have the same description and the same end). The configurations of `timeline_undo` and `timeline_batch` meet them.

| theorem | says | property of a run |
|---|---|---|
| `RenumberKeepsTasks` | `renumber()` permutes the list | |
| `RenumberInOrder` | and leaves sections in order, and each but the overdue one in order of date and name | |
| `IdAfterFindsTask` | the id `addTask` and `editTask` return is where the task is | |
| `TidyIsUnique` | two lists in order with the same tasks are one list, unless two tasks differ in nothing the order looks at | |
| `TypeCorrect` | types, no handler past its command | `TypeOK` |
| `FlagsCorrect` | the assertions of `ICommand::run` and `undo` never fail | `HistoryFlags` |
| `BoundCorrect` | both histories and the command between them keep within the limit | `HistoryBound` |
| `DisplayCorrect` | each number on display reaches its task | `DisplayMatches` |
| `OrderCorrect` | each change leaves the order of the present time | `UrgencyOrder` |
| `HighlightCorrect` | the new task is at `last`, and lit when it is on display | `HighlightsTheTask` |
| `SavedCorrect` | at rest the file holds the tasks in memory | `SavedWhenIdle` |
| `HitsThePickedCorrect` | a straight command for any numbers acts on the tasks that had them, while each part renumbers the list | `HitsThePicked` |
| `TimelineImplemented` | with straight commands and no ties, undo and redo are those of UndoTimeline, in every detail and order | `ImplementsTimeline` |
| `UndoGivesBackCorrect` | whatever the commands, the clock and the limit, the undo of a removal adds each task as often as it was named; that of a mark changes marks, that of a clear gives back what was not done | `UndoGivesBack` |
| `MadeOnceCorrect` | the date formats are made by one thread, once | `MadeOnce` |
| `WholeTablesCorrect` | who searches them finds all of them | `WholeTables` |
| `PeriodsStandCorrect` | whatever the clock does, no period that stands as it is typed, in dates without dashes, is refused, none accepted is reversed, and no date with dashes is accepted but those taken for two times | `PeriodsStand` |
| `ListsTyped` | types, and `am` and `pm` in the lists made for them | `TypeOK` |
| `EvaluationTyped` | types; an error is explained only of a text found refused | `TypeOK` |
| `OneEvaluationCorrect` | one evaluation runs or waits to be heard, exactly while the mutex is held | `OneEvaluation` |
| `TipNeedsBoxCorrect` | no late result shows a tooltip without its box | `TipNeedsBox` |
| `SaveTyped` | types, and a save writes each task once | `TypeOK` |
| `AllOrNothingCorrect` | after any kills a start finds all of the last save, or nothing | `AllOrNothing` |
| `KeepsCorrect` | and all of it if no save was under way and it could be written | `KeepsWhatIsSaved` |
| `NotifyTyped` | types; what is scheduled is an `int` | `TypeOKNotify` |
| `FreeTimeCorrect` | one pass finds the first free moment, however many events overlap, touch or are over | `MergesEvents` |
| `UpcomingCorrect` | what is scheduled is the first event yet to begin, and the interval ends when its notice is due | `UpcomingIsNext` |
| `TextTyped` | types, and nothing typed behind a tag gets into its part | `TypeOKText` |
| `NeverTooManyTags` | in whatever order its parts are applied, a text never gives a task too many tags | third part of `JudgedByTheRules` |
| `MalformedIsRefused` | no command comes of two dates, a nameless tag or a word behind a tag | of the second part |
| `JudgedCorrect` | a text is refused for what it says and for nothing else, and nothing that must be refused is accepted | `JudgedByTheRules` |
| `DoneAsTypedCorrect` | the task of a plain text is the one it describes, in whatever order its parts are applied | `DoneAsTyped` |
| `ScreensTyped` | types, and no page asked for that is none | `TypeOK` |
| `OnePageCorrect` | each stack at rest shows its current page and no other | `OnePage` |
| `NoReentranceCorrect` | no slide under way is sent elsewhere | `NoReentrance` |
| `LooksCorrect` | every window looks as is stored | `LooksAsStored` |
| `WindowTyped` | types of the rows, headings and selection | first half of `TypesOK` |
| `TypesCorrect` | the same of rows and settings together | `TypesOK` |
| `RowsMatchCorrect` | rows are the tasks in order, each under the one subheading of its section | `RowsMatch` |
| `OneIsLitCorrect` | one row at most is lit, and it is that of the selected task | `OneIsLit` |
| `KeyLightsCorrect` | a key that moves to a task lights it, wherever a longer list left the selection | `KeyLights` |
| `SectionKeysCorrect` | section keys go to the first task of the neighbouring section, or to the ends | `SectionKeys` |

**StorageListProofs** begins with the order. A stable sort is a bijection of positions (`SortRearranges`) that orders by key and, among equal keys, by
former position (`SortOrders`). So a sort by a key turns a list that is in an order R into one that is in the order "key, then
R" (`SortPositions`); used six times, from the first sort to the last, this gives the lexicographic order of the six keys, and
the sections follow from it. That the overdue section is *not* by date comes out here too: the key "due today"
is stronger than the date. The same order is a relation between two tasks (`AtOrBefore`): a list is in it (`Tidy`) after every renumbering, one that
is in it is left alone by the next (`TidyStays`), and of the rearrangements of a list only one is in it if there are no ties. That last fact (`TidyIsUnique`) is by counting:
the first `i` tasks of one list do not all fit among the first `i - 1` of the other, so the `i`-th task of each is at or before that of the other.

The rest of StorageListProofs says of each operation what it returns; **TasukeProofs** rests on it. The invariant is `TypeInv`: `TypeOK`, and
`InBounds`, which says where in its command a handler can be (`at` from 1 to one past the last part when it runs, from the
last down to 0 when it undoes). `TypeOK` alone is not inductive, for a step could leave a command. `HistoryFlags`, `HistoryBound`,
`DisplayMatches` and `SavedWhenIdle` are inductive with `TypeInv`, and each has a lemma `Step...` with one step for each action or kind of
action. The two action properties follow from `TypeInv` and the lemmas of the operations. That the id of the new task, which counts the
whole list, is also its row among the tasks not done, rests on `RenumberInOrder`: what is done comes last.

**TimelineProofs** is about a command as a whole. Its parts name tasks by number, and each part renumbers what the next one names; that the next still finds
its task is `BatchInv`. It holds because the ids of a command are sorted, downwards for `remove` and `done` and upwards for `undone`: a removal
or a mark changes only what is behind the task it is given, an unmark only what is before it (`TakeOne`, `MarkOne`), so the list is the one
there was when the command was given, less what has been taken out (`Taken`) or with what has been marked put elsewhere (`Marking`), and untouched as far as the next
id. `HitsThePicked` is what this says at the last part.

The refinement needs more: undo starts from a list that other commands have made and undone. `TimelineInv` says that each command of the
two histories *leads* from the document before it to the one after it (`UndoChain`, `RedoChain`): there is a path of lists, one between any two of
its parts, that are in order and of which each differs from the one before by the task of the part (`Joins`). Run, a part goes one step along
the path, undone one step back, because a list in order without ties is the only one of its tasks: it is enough to know which tasks
the undo leaves, and not where `renumber()` puts them. The undo of a clear adds the tasks one at a time, which `Readding` says in between. `HistoryBound` is
part of the invariant too, for otherwise the limit could cut off a document that redo still counts on. A restart in the middle of a
command loads `file`, which is the document before it.

`UndoGivesBack` is of all commands, with ties and any clock, so no path of lists will do: after `remove 1,1` the undo does not lead back.
`GivesInv` counts instead. `Forth` says what the parts of a command run so far can have made of the list (a removal at most one task shorter for each, a
mark a rearrangement but for the marks, a clear nothing, with what was not done kept in its part), `Back` what the parts undone so far have: each
task as often as before and once more for each of these parts that named it. A rearrangement does not change a count (`RearrangedSame`), so
`renumber()` is no matter, and neither ids nor the order are mentioned. Two facts make it inductive: a
command is of one kind (`Uniform`, of those in the histories too), and the last command of the history, while nothing has been undone, leads from the
last list of `past` to the present one (`LedHere`). That the undo of a clear finds its tasks still kept needs `HistoryFlags`.

**InterpreterProofs**, of the date formats. `MadeOnce` and `WholeTables` say nothing of who holds the mutex, so neither is inductive. `Excluded` adds it:
who is inside holds it, who makes the lists found the flag down, who searches found it up. `Built` says what the lists hold at each stage
of their making (`FullTo(k)` after k generators), all of it once the flag is up. That each generator leads from one stage
to the next is `GenerateFills`, from what each list adds (`TimedFull`, `DateFormatsFull`, ...), and that the last stage is everything
the program understands is `FullIsUnderstood`.

`PeriodsStand` needs `Answers`: a thread that is not done has no answer yet, reads what the typed period was split into, and the begin it has read is that of
a day no later than the one it will read the end on. That what is typed forward is split into a period that is, and that of a date with dashes a half at least is
nothing the program understands unless the two may be times, is `SplitStands`. That the lists, once whole, read a text as its form says is `ParseDateReads`; that a period that is forward on one day is
so when its end is read on a later one is `ForwardReads`.

**InputEvaluationProofs**. `OneEvaluation` does not say when the mutex is held. `ThreadsInv` does (`OneAtWork`): it is held for one thread until that has
posted its result, then for the result until it is handled, and there is neither while it is free. `TipNeedsBox` rests on `ScreenInv`, which each
handler keeps by itself.

**StorageProofs**, of the save file. `SaveInv`: the number of entries, in the keys and on the disk, is either there and right or not there (`Whole`); while a save is under
way what is stored is the list up to where it has come, without a number (`Underway`); a file with a number holds the last list saved to the end, and a
file without one, if the last save could be written, means that there was nothing to save. That a time an `int` can hold comes back as it
was is `KeepableComesBack`.

Of the free time. The loop is a function of the number of events passed, and `Merged(m)` says of it what a loop invariant would: until the end found so far the user is
busy; before the loop is left no event passed goes on beyond it; after, none is on at it. Each event leads from one stage to the next (`MergesOne`), and a
smallest stage without the property is a contradiction. `NotifyInv` adds only that the list stays in order and the interval is an `int`, whichever way
the unsigned number wraps; that the task found is the first to begin rests on the order of the list (`UpcomingFound`).

Of the text of a command. `TextInv` says that behind a tag a delimiter must follow (`NextIsNoWord`), without which the part of a tag could take a word, and
that the task and the one it was made from have finitely many tags, within the limit if the latter was (`Limit`). `FormInv` says what of the text so far the flags
remember: whether there is a date, and whether the last token was a tag.

`JudgedByTheRules` and `DoneAsTyped` compare what two loops did, one over the tokens and one over a hash table, with the text as a whole. `ReadInv` is of
the first: each part holds the words of the text behind its delimiter but for some of the blanks they begin with (`Holds`: a blank alone is
overwritten by what follows), which is the same once trimmed, and the flags say whose part a word that follows would go to (`EndRead`). `FillInv` is
of the second: with the parts not in `keys` applied (`Applied`), the task is the original changed by exactly these. Of a plain text no two parts get in each
other's way (`PlainParts`), so it does not matter which come first; when `keys` is empty it is the whole text. That a refusal has a reason (`JudgeInv`) is, for the
tags, by counting: when a part finds no room, the tags of the original and of the parts applied before it fill the limit, and the text gives one more.

**ScreensProofs**. `ScreensInv` says of each stack what holds between any two steps, sliding or not (`Sound`): its current page is shown, and while it slides
no page but that, the one it leaves and the one it brings in. Each operation of a stack keeps it (`SlideInSound`, `SetCurrentSound`,
`DoneSound`), so each handler does.

**TaskWindowProofs**. `WindowInv` says that the rows are `Shown`: row by row, the subheadings stand at the numbers kept for them and each task is
at the number that is worked out from these, lit if it is the selected one. This is the arithmetic of the window: the
number of a task's row is its place and the number of sections that begin at or before it (`Place`, `Above`), which steps by one, or by two where
a section begins (`PlaceSteps`). A list is drawn by adding tasks at the end (`RowsShown`); a row is replaced without moving the others. The selection may be beyond the list, for it survives
a shorter one; so nothing is said of it except of the rows there are. `OneIsLit` alone is not inductive: the keys put the
light on and out at numbers that are worked out, and only `Shown` says whose these are. `SettingsInv` is what `LooksAsStored` says, but of any point of Apply: each edit leaves everything right by itself.

**Only model-checked**: liveness (`Answered` of both, `Settles`, `Arrives`, `FirstRunShowsTutorial`), which is beyond this prover. Every invariant and every action
property of the passing runs is a theorem.

## 6. Where the code and what it says of itself part

Four runs show a disagreement with a comment of the code; `PROJECT.json` quotes it.

- `found_add`: undo of an add removes the task at the number the added one had. Re-added or edited tasks go behind those
  the order cannot tell from them, so this may be another task (`Commands.cpp` 55).
- `found_refusal`: a misplaced parenthesis drops the error message of a refused command (`Tasuke.cpp` 579).
- `found_crash`: after a kill in a save, tasks are in the file and none is loaded, for their number is not (`Storage.cpp` 448).
- `found_text`: an edit with two blanks behind the number, as in `edit 1  #home`, empties the description (`Interpreter.cpp` 388), and "all tasks
  must have a description" (`Task.cpp` 30).

Others were met while modelling. The models do what the code does; no run is made of them, because no text of the repository
says otherwise or the property that holds is stated with its condition.

- `remove 1,1` removes the task behind the first as well, and its undo adds the first twice, so that the other is lost (`Commands.cpp` 82); undo of `done` on a task that was done
  unmarks it (178); undo of a clear does not bring back what was done (132); an end time that passes between the parts of
  a command renumbers the rest of its ids (162); undo of an edit takes `last` and the highlight from the wrong task (115).
- A tag that is repeated is one tag of two words: `#a #a` adds `a a`, and `-#a -#a` removes nothing (`Interpreter.cpp` 193-200). A tag followed by two blanks is
  refused, as is a tag the task already has when it has as many as there may be (`Task.cpp` 36-46), and whether `-#a #b` is depends on the order of a
  hash table. `-#a` and `-@` in an add are taken and passed over.
- `searchByTag` lists a task once for each of its tags that match (`Storage.cpp` 152-169).
- Features that are switched off are on again after a restart until Apply is used: nothing gives the input window its features when it is made (`InputWindow.cpp` 17).
  Run on startup counts as chosen until it is first stored, with no link made.
- `last` is not checked: after a removal, `edit last` reads past the list and kills the program (`Interpreter.cpp` 631), and so does
  the evaluation of the text while it is typed.
- The overdue section is not in order of date (`Storage.cpp` 306). Times from 2^31 seconds on load as none (387). A save that cannot write
  the file ends like one that did (412, 451). `nextFreeTime` misses an event that contains another, and counts done ones (183-194).
- The success icon may stand beside an old error (`TooltipWidget.cpp` 25).
- Help asked for while the window comes up is dropped (`Tasuke.cpp` 333, `SlidingStackedWidget.cpp` 77); the reset of the
  tutorial is undone by a page that is sliding (`TutorialWidget.cpp` 18).
- In a search result with done and undone tasks the section keys can stick (`TaskWindow.cpp` 108).
- A date with dashes is in the lists of formats (`Interpreter.cpp` 979, 1013) and is never read as such, for the text is split at every dash first: `1-2-2014` is
  refused as no range (745), `1-2` for its begin (756), and `14 01-2 05pm`, by which the first of February 2014 is meant, is two times of the present day (753).
- A period of weekdays such as `mon - sun` can be refused as reversed: each of the two is the next day of its name.
- The timer for the next notification is given an unsigned time that is tested for being negative: for an event that begins within ten minutes it is
  a negative interval, and for one a month off it may be any. It is never started (`NotificationManager.cpp` 54-63).

## 7. What is abstracted, and what is left out

- **Text.** In CommandText a token is a delimiter and a name; how a name is spelt, which word begins a command, the filters of `show` and the aliases are left
  out. A date there is a text that can be read or cannot; how it is read is in DateFormats, where a text is a form, a day and an hour. In
  Tasuke a command is its kind, ids and task, and in InputEvaluation a text is good, refused or fatal.
- **Tasks.** `desc` is the rank of a description in the alphabet, `rest` all that the order ignores: the case of the description, the begin
  date, the tags. In SaveFile a task is a name and an end; the other fields are written and read the same way.
- **The clock** is read once for each renumbering in Tasuke, though the code reads it in each comparison; a time that passes inside one
  sort is left out. The year does not change in DateFormats.
- **A save** is one step in Tasuke, and takes its own steps in SaveFile; there a single synchronisation is atomic.
- **The races** on the list of tasks between the evaluation and the GUI thread are undefined behaviour whose effect on the list is not
  modelled; the one on `input` is.
- **Notifications.** What is scheduled is modelled, what is then shown is not: the timer is never started, so nothing ever comes due.
- **Settings** that were edited by hand to a theme or icon set that is none are left out; the checks of their range (`SettingsWindow.cpp` 169, 186)
  join with "and" what would have to be joined with "or". The three features that are stored and read together are one.
- **Not modelled**: the highlighter and spell checker (a function to colours), layout of entries and the about window, the style sheets, the
  start of the program (`main.cpp`), the operating system's message loop for hot keys, and the vendored libraries `glog-0.3.3` and `hunspell-1.3.2`, which are nine
  tenths of the repository's lines and none of its logic. The unit tests were read as statements of what the code promises.

## 8. Plan

The order of work is that of how much of the program's promise rests on a part. Done: task list and order; commands, undo and redo; their
refinement of the timeline; evaluation; save file; task window; pages; free time; date formats; the text of commands; settings; notifications; the
proofs of section 5. What is left, in this order:

1. *Model.* Tasuke with SaveFile in place of its one-step save (kills inside a save after undo and redo; SaveFile as the refinement of `file' = tasks`).
   The messages and buttons of the task window (`decideContent`, `TaskWindow.cpp` 535-585), composed with Tasuke's display.
   `searchByTag` and the searches by text. `parseId`, ranges and lists of ids as functions of token sequences. Hot keys with their thread.
2. *Abstract specifications.* A task list as a bag of tasks that Tasuke implements at rest; an atomic save that SaveFile implements up to the
   loss it admits; a judge of texts that InputEvaluation implements at rest.
3. *Prove.* The safety properties of the runs are proved; next are those of item 1 and the refinements of item 2, for which `SavedCorrect` and
   `AllOrNothingCorrect` already give the invariants.

## 9. Running the checks

In this directory, `tlc -workers 2 -config Tasuke_core.cfg MCTasuke` runs one configuration; `PROJECT.json` pairs each with
its module. No run takes more than about three minutes with two workers. `tlapm TasukeProofs.tla`, and likewise the other `...Proofs` modules,
checks the proofs.
