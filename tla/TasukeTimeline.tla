--------------------------- MODULE TasukeTimeline ---------------------------
(***************************************************************************)
(* Tasuke with history variables: the list of tasks as it was when the     *)
(* last handler was done, those before each command of the undo history    *)
(* and after each one of the redo history, and the command in progress as  *)
(* it was given.  They record what happened and constrain nothing;   *)
(* whether it is what undo and redo promise is for the properties to say.  *)
(***************************************************************************)
EXTENDS Tasuke

VARIABLES doc, past, future, given

history == <<doc, past, future>>
allVars == <<vars, history, given>>

InitT == Init /\ doc = <<>> /\ past = <<>> /\ future = <<>> /\ given = NoCommand

Front1(s) == SubSeq(s, 1, Len(s) - 1)

RecordRun ==
  /\ FinishRun
  /\ past' = Limited(Append(past, doc))
  /\ doc' = tasks
  /\ future' = <<>>
  /\ given' = NoCommand

RecordUndo ==
  /\ FinishUndo
  /\ past' = Front1(past)
  /\ doc' = tasks
  /\ future' = Append(future, doc)
  /\ UNCHANGED given

RecordRedo ==
  /\ FinishRedo
  /\ past' = Limited(Append(past, doc))
  /\ doc' = tasks
  /\ future' = Front1(future)
  /\ UNCHANGED given

RecordRestart ==
  /\ Restart
  /\ past' = <<>> /\ future' = <<>> /\ given' = NoCommand
  /\ doc' = tasks'

RecordSubmit == Submit /\ given' = cmd' /\ UNCHANGED history

RecordOther ==
  /\ RunPart \/ UndoPart \/ NoSuchTask \/ Tick
  /\ UNCHANGED <<history, given>>

NextT ==
  \/ RecordSubmit \/ RecordOther \/ RecordRestart
  \/ RecordRun \/ RecordUndo \/ RecordRedo

SpecT == InitT /\ [][NextT]_allVars

(***************************************************************************)
(* Commands that are given each task once, mark only what is not so marked *)
(* already, and clear only when nothing is done.  Of the others undo is    *)
(* not the reverse: a task removed twice is added twice, one marked again  *)
(* is unmarked, and what was done is not among the tasks a clear keeps.    *)
(***************************************************************************)
Straight(c, ts) ==
  LET kinds == {c.parts[k].kind : k \in DOMAIN c.parts}
  IN  /\ \A i, j \in DOMAIN c.parts :
           c.parts[i].kind \in {"remove", "done"} /\ i # j
             => c.parts[i].id # c.parts[j].id
      /\ \A k \in DOMAIN c.parts :
           c.parts[k].kind = "done"
             => IsId(ts, c.parts[k].id) /\ ts[c.parts[k].id].done # c.parts[k].flag
      /\ "clear" \in kinds => Undone(ts) = 1 .. Len(ts)

NextStraight == NextT /\ (Idle /\ job' = "run" => Straight(cmd', tasks))

SpecStraight == InitT /\ [][NextStraight]_allVars

-----------------------------------------------------------------------------
IdsOf(c) == {c.parts[k].id : k \in {j \in DOMAIN c.parts :
                                      c.parts[j].kind \in {"remove", "done"}}}

Timeline == INSTANCE UndoTimeline WITH Docs <- Seq(Task), Limit <- UNDO_LIMIT

(* With commands that are straight, no two contents the order cannot tell apart
   and a clock that stands still, the program is the abstract undo and redo:
   every undo gives back the list there was before the command, in every
   detail, every redo the one after it, in any order and number, and a restart
   in the middle of a command the list before it.                          *)
ImplementsTimeline == Timeline!Spec

(* A straight command for several numbers acts on the very tasks that had them
   when it was given, although each of its parts renumbers the list.       *)
AfterPicks ==
  LET picked == IdsOf(given)
  IN  CASE cmd.parts = <<>> -> doc
        [] cmd.parts # <<>> /\ cmd.parts[1].kind = "remove" ->
             LET left == (1 .. Len(doc)) \ picked
             IN  [k \in 1 .. Cardinality(left) |-> doc[Enumeration(left)[k]]]
        [] cmd.parts # <<>> /\ cmd.parts[1].kind = "done" ->
             [i \in 1 .. Len(doc) |->
                IF i \in picked THEN [doc[i] EXCEPT !.done = cmd.parts[1].flag]
                                ELSE doc[i]]
        [] cmd.parts # <<>> /\ cmd.parts[1].kind \notin {"remove", "done"} -> tasks

HitsThePicked ==
  [][FinishRun /\ Straight(given, doc) => SameTasks(tasks, AfterPicks)]_allVars

(* What an undo gives back whatever the command was, straight or not: that of a
   removal adds the tasks it was made for, each as often as it was named.  And
   when nothing has been undone since the command ran, the list is then no
   shorter than the one it found; of that list marks are all that a done or an
   undone leaves changed, and a clear brings back exactly what was not done.  *)
Copies(t, ts) == Cardinality({i \in DOMAIN ts : ts[i] = t})
Named(t, parts, n) == Cardinality({k \in 1 .. n : parts[k].task = t})
Unmarked(ts) == [i \in 1 .. Len(ts) |-> [ts[i] EXCEPT !.done = FALSE]]

UndoGivesBack ==
  [][FinishUndo =>
       LET kinds == {cmd.parts[k].kind : k \in DOMAIN cmd.parts}
           before == past[Len(past)]
       IN  /\ "remove" \in kinds =>
                \A t \in Task :
                  Copies(t, tasks) = Copies(t, doc) + Named(t, cmd.parts, Len(cmd.parts))
           /\ future = <<>> =>
                /\ "remove" \in kinds => Len(tasks) >= Len(before)
                /\ "done" \in kinds => SameTasks(Unmarked(tasks), Unmarked(before))
                /\ "clear" \in kinds =>
                     \A t \in Task :
                       Copies(t, tasks) = IF t.done THEN 0 ELSE Copies(t, before)]_allVars

(* "Undos adding the task": the tasks there are then are those there were before
   it was added.                                                           *)
UndoAddRestores ==
  [][FinishUndo /\ (\A k \in DOMAIN cmd.parts : cmd.parts[k].kind = "add")
       => SameTasks(tasks, past[Len(past)])]_allVars
=============================================================================
