---------------------------- MODULE TasukeProofs ----------------------------
(***************************************************************************)
(* Theorems of Tasuke, for any contents, any limit and any clock:          *)
(*   TypeCorrect    Spec => []TypeOK                                       *)
(*   FlagsCorrect   Spec => []HistoryFlags                                 *)
(*   BoundCorrect   Spec => []HistoryBound                                 *)
(*   OrderCorrect   Spec => UrgencyOrder                                   *)
(*   DisplayCorrect Spec => []DisplayMatches                               *)
(*   HighlightCorrect Spec => HighlightsTheTask                            *)
(*   SavedCorrect   Spec => []SavedWhenIdle                                *)
(* The invariant they rest on is TypeInv: the types, and that a handler    *)
(* in progress is at a part of its command or just past the last.          *)
(***************************************************************************)
EXTENDS Tasuke, StorageListProofs

InBounds ==
  /\ job \in {"run", "redo"} => at \in 1 .. Len(cmd.parts) + 1
  /\ job = "undo" => at \in 0 .. Len(cmd.parts)
  /\ job \in {"undo", "redo"} => times \in 1 .. MaxTimes

TypeInv == TypeOK /\ InBounds

-----------------------------------------------------------------------------
(* The parts of a command. *)
LEMMA PartFields ==
  ASSUME NEW p \in Part
  PROVE  /\ p.kind \in {"add", "remove", "edit", "clear", "done"}
         /\ p.ran \in BOOLEAN
         /\ p.kind \in {"add", "remove", "edit"} => p.task \in Task
         /\ p.kind \in {"add", "edit"} => p.tid \in Nat
         /\ p.kind \in {"remove", "edit", "done"} => p.id \in Nat
         /\ p.kind = "edit" => p.old \in Task
         /\ p.kind = "clear" => p.olds \in Seq(Task)
         /\ p.kind = "done" => p.flag \in BOOLEAN
BY DEF Part

(* What a handler writes to a part leaves a part. *)
LEMMA PartUpdates ==
  ASSUME NEW p \in Part
  PROVE  /\ \A b \in BOOLEAN : /\ [p EXCEPT !.ran = b] \in Part
                               /\ [p EXCEPT !.ran = b].ran = b
                               /\ [p EXCEPT !.ran = b].kind = p.kind
         /\ p.kind = "add" => \A id \in Nat : /\ [p EXCEPT !.tid = id] \in Part
         /\ p.kind = "edit" => \A id \in Nat, t \in Task :
              [p EXCEPT !.tid = id, !.old = t] \in Part
         /\ p.kind = "clear" => \A ts \in Seq(Task) : [p EXCEPT !.olds = ts] \in Part
         /\ p.kind = "done" => \A id \in Nat : [p EXCEPT !.id = id] \in Part
BY DEF Part

(* The fields of a command. *)
LEMMA CommandFields ==
  ASSUME NEW c \in Command
  PROVE  /\ c.ran \in BOOLEAN /\ c.parts \in Seq(Part) /\ Len(c.parts) \in Nat
         /\ DOMAIN c.parts = 1 .. Len(c.parts)
         /\ \A i \in 1 .. Len(c.parts) : c.parts[i] \in Part
         /\ \A b \in BOOLEAN : /\ [c EXCEPT !.ran = b] \in Command
                               /\ [c EXCEPT !.ran = b].ran = b
                               /\ [c EXCEPT !.ran = b].parts = c.parts
<1>1. c.ran \in BOOLEAN /\ c.parts \in Seq(Part)
  BY DEF Command
<1>2. /\ Len(c.parts) \in Nat
      /\ DOMAIN c.parts = 1 .. Len(c.parts)
      /\ \A i \in 1 .. Len(c.parts) : c.parts[i] \in Part
  BY <1>1
<1>3. \A b \in BOOLEAN : /\ [c EXCEPT !.ran = b] \in Command
                         /\ [c EXCEPT !.ran = b].ran = b
                         /\ [c EXCEPT !.ran = b].parts = c.parts
  BY DEF Command
<1> QED BY <1>1, <1>2, <1>3

(* To write a part of a command leaves its other parts as they are. *)
LEMMA PartReplaced ==
  ASSUME NEW c \in Command, NEW i \in 1 .. Len(c.parts), NEW q \in Part
  PROVE  /\ [c EXCEPT !.parts[i] = q] \in Command
         /\ [c EXCEPT !.parts[i] = q].ran = c.ran
         /\ Len([c EXCEPT !.parts[i] = q].parts) = Len(c.parts)
         /\ \A j \in 1 .. Len(c.parts) :
              [c EXCEPT !.parts[i] = q].parts[j] = IF j = i THEN q ELSE c.parts[j]
<1> DEFINE new == [c.parts EXCEPT ![i] = q]
<1>1. c.parts \in Seq(Part)
  BY CommandFields
<1>2. /\ new \in Seq(Part)
      /\ Len(new) = Len(c.parts)
      /\ \A j \in 1 .. Len(c.parts) : new[j] = IF j = i THEN q ELSE c.parts[j]
  BY <1>1, ExceptSeq
<1>3. [c EXCEPT !.parts[i] = q] = [c EXCEPT !.parts = new]
  BY DEF Command
<1> HIDE DEF new
<1>4. /\ [c EXCEPT !.parts = new] \in Command
      /\ [c EXCEPT !.parts = new].ran = c.ran
      /\ [c EXCEPT !.parts = new].parts = new
  BY <1>2 DEF Command
<1> QED BY <1>2, <1>3, <1>4

(* The histories. *)
LEMMA LimitedResult ==
  ASSUME NEW h \in Seq(Command)
  PROVE  /\ Limited(h) \in Seq(Command)
         /\ Len(Limited(h)) <= UNDO_LIMIT
         /\ Len(Limited(h)) <= Len(h)
         /\ \A k \in 1 .. Len(Limited(h)) : \E j \in 1 .. Len(h) : Limited(h)[k] = h[j]
<1>1. UNDO_LIMIT \in Nat \ {0} /\ Len(h) \in Nat
  BY UndoLimitAssumption
<1>2. CASE Len(h) <= UNDO_LIMIT
  <2>1. Limited(h) = h
    BY <1>2 DEF Limited
  <2> QED BY <1>1, <1>2, <2>1
<1>3. CASE ~(Len(h) <= UNDO_LIMIT)
  <2> DEFINE m == Len(h) - UNDO_LIMIT + 1
  <2>1. Limited(h) = SubSeq(h, m, Len(h))
    BY <1>3 DEF Limited
  <2>2. m \in Int /\ Len(h) \in Int /\ 1 <= m /\ m <= Len(h)
        /\ Len(h) - m + 1 = UNDO_LIMIT
    BY <1>1, <1>3
  <2>3. \A k \in m .. Len(h) : k \in 1 .. Len(h) /\ h[k] \in Command
    BY <2>2, ElementOfSeq
  <2> HIDE DEF m
  <2>4. /\ Limited(h) \in Seq(Command)
        /\ Len(Limited(h)) = UNDO_LIMIT
        /\ \A k \in 1 .. UNDO_LIMIT : Limited(h)[k] = h[m + k - 1]
    BY <2>1, <2>2, <2>3, SubSeqProperties
  <2>5. \A k \in 1 .. UNDO_LIMIT : m + k - 1 \in 1 .. Len(h)
    BY <1>1, <2>2
  <2> DEFINE l == Limited(h)
  <2>6. /\ l \in Seq(Command) /\ Len(l) = UNDO_LIMIT
        /\ \A k \in 1 .. UNDO_LIMIT : l[k] = h[m + k - 1]
    BY <2>4
  <2> HIDE DEF l
  <2>7. Len(l) <= UNDO_LIMIT /\ Len(l) <= Len(h)
    BY <1>1, <1>3, <2>6
  <2>8. ASSUME NEW k \in 1 .. Len(l) PROVE \E j \in 1 .. Len(h) : l[k] = h[j]
    <3>1. k \in 1 .. UNDO_LIMIT BY <2>6
    <3>2. l[k] = h[m + k - 1] /\ m + k - 1 \in 1 .. Len(h) BY <2>5, <2>6, <3>1
    <3> QED BY <3>2
  <2> QED BY <2>6, <2>7, <2>8 DEF l
<1> QED BY <1>2, <1>3

(* limitUndoRedo() after a push keeps the newest commands and no more than
   the limit. *)
LEMMA LimitedAppend ==
  ASSUME NEW h \in Seq(Command), NEW c \in Command
  PROVE  /\ Limited(Append(h, c)) \in Seq(Command)
         /\ Len(Limited(Append(h, c))) \in Nat
         /\ Len(Limited(Append(h, c))) <= UNDO_LIMIT
         /\ Len(Limited(Append(h, c))) <= Len(h) + 1
         /\ \A k \in 1 .. Len(Limited(Append(h, c))) :
              \/ Limited(Append(h, c))[k] = c
              \/ \E j \in 1 .. Len(h) : Limited(Append(h, c))[k] = h[j]
<1> DEFINE g == Append(h, c)
<1>1. /\ g \in Seq(Command) /\ Len(g) = Len(h) + 1
      /\ \A j \in 1 .. Len(g) : g[j] = c \/ (j \in 1 .. Len(h) /\ g[j] = h[j])
  BY AppendProperties
<1> HIDE DEF g
<1>2. /\ Limited(g) \in Seq(Command)
      /\ Len(Limited(g)) <= UNDO_LIMIT
      /\ Len(Limited(g)) <= Len(h) + 1
  BY <1>1, LimitedResult
<1>3. \A k \in 1 .. Len(Limited(g)) : \E j \in 1 .. Len(g) : Limited(g)[k] = g[j]
  BY <1>1, LimitedResult
<1>4. \A k \in 1 .. Len(Limited(g)) :
        Limited(g)[k] = c \/ \E j \in 1 .. Len(h) : Limited(g)[k] = h[j]
  BY <1>1, <1>3
<1>5. Len(Limited(g)) \in Nat
  BY <1>2
<1> QED BY <1>2, <1>4, <1>5 DEF g

(* A history that a command is taken from. *)
LEMMA Shortened ==
  ASSUME NEW h \in Seq(Command), h # <<>>
  PROVE  /\ Len(h) \in Nat \ {0}
         /\ h[Len(h)] \in Command
         /\ SubSeq(h, 1, Len(h) - 1) \in Seq(Command)
         /\ Len(SubSeq(h, 1, Len(h) - 1)) = Len(h) - 1
         /\ \A k \in 1 .. Len(h) - 1 : SubSeq(h, 1, Len(h) - 1)[k] = h[k]
<1>1. Len(h) \in Nat \ {0}
  BY EmptySeq
<1>2. \A k \in 1 .. Len(h) : h[k] \in Command
  BY ElementOfSeq
<1>3. \A k \in 1 .. Len(h) - 1 : h[k] \in Command
  BY <1>1, <1>2
<1>4. /\ SubSeq(h, 1, Len(h) - 1) \in Seq(Command)
      /\ Len(SubSeq(h, 1, Len(h) - 1)) =
           IF 1 <= Len(h) - 1 THEN Len(h) - 1 - 1 + 1 ELSE 0
      /\ \A k \in 1 .. Len(h) - 1 - 1 + 1 :
           SubSeq(h, 1, Len(h) - 1)[k] = h[1 + k - 1]
  BY <1>1, <1>3, SubSeqProperties
<1>5. Len(SubSeq(h, 1, Len(h) - 1)) = Len(h) - 1
  <2>1. \A n \in Nat \ {0} : (IF 1 <= n - 1 THEN n - 1 - 1 + 1 ELSE 0) = n - 1
    OBVIOUS
  <2> QED BY <1>1, <1>4, <2>1, Zenon
<1>6. h[Len(h)] \in Command
  BY <1>1, <1>2
<1>7. ASSUME NEW k \in 1 .. Len(h) - 1
      PROVE  SubSeq(h, 1, Len(h) - 1)[k] = h[k]
  <2>1. k \in 1 .. Len(h) - 1 - 1 + 1 /\ 1 + k - 1 = k
    BY <1>1
  <2> QED BY <1>4, <2>1
<1> QED BY <1>1, <1>4, <1>5, <1>6, <1>7

-----------------------------------------------------------------------------
(* Types.  The list and what is shown of it on one side, the control of the
   handlers and the histories on the other: most actions change both.      *)
ListOK ==
  /\ tasks \in Seq(Task) /\ shown \in Seq(Entry)
  /\ last \in Nat /\ selected \in Nat

ControlOK ==
  /\ file \in Seq(Task) /\ readd \in Seq(Task)
  /\ now \in StartTime .. MaxNow
  /\ undoHistory \in Seq(Command) /\ redoHistory \in Seq(Command)
  /\ job \in {"none", "run", "undo", "redo", "lost"}
  /\ cmd \in Command
  /\ at \in 0 .. Len(cmd.parts) + 1
  /\ times \in 0 .. MaxTimes
  /\ InBounds

(* The invariant, cut into what the list and what the control of the
   handlers need. *)
LEMMA TypeInvParts == TypeInv <=> ListOK /\ ControlOK
BY DEF TypeInv, TypeOK, ListOK, ControlOK

(* The same of the next state. *)
LEMMA TypeInvNextParts == TypeInv' <=> ListOK' /\ ControlOK'
BY DEF TypeInv, TypeOK, ListOK, ControlOK

(* The clock is a number. *)
LEMMA NowIsNat == TypeInv => now \in Nat
BY BoundsAssumption DEF TypeInv, TypeOK

(* What a search shows is of the type of the display. *)
LEMMA SearchEntries ==
  ASSUME NEW ts \in Seq(Task), NEW hits \in SUBSET (1 .. Len(ts))
  PROVE  Search(ts, hits) \in Seq(Entry)
<1>1. [number : 1 .. Len(ts), task : Task] \subseteq Entry
  BY DEF Entry
<1> QED BY <1>1, SearchResult, SeqMonotonic

(* A redraw keeps the types. *)
LEMMA RefreshTypes ==
  ASSUME tasks' \in Seq(Task), Refresh
  PROVE  shown' \in Seq(Entry)
<1>1. Undone(tasks') \in SUBSET (1 .. Len(tasks'))
  BY DEF Undone
<1> QED BY <1>1, SearchEntries DEF Refresh, GetTasks

(* A highlight selects a number. *)
LEMMA HighlightTypes ==
  ASSUME selected \in Nat, NEW id, Highlight(id)
  PROVE  selected' \in Nat
BY DEF Highlight

(* The part about to be run is a part of the command. *)
LEMMA RunningPart ==
  ASSUME TypeInv, NEW kind, Running(kind)
  PROVE  /\ at \in 1 .. Len(cmd.parts) /\ part \in Part /\ part.kind = kind
         /\ job \in {"run", "redo"}
<1>1. cmd \in Command /\ job \in {"run", "redo"} /\ at \in 1 .. Len(cmd.parts) + 1
  BY DEF TypeInv, TypeOK, InBounds, Running
<1>2. at \in 1 .. Len(cmd.parts)
  BY <1>1, CommandFields DEF Running
<1> QED BY <1>1, <1>2, CommandFields DEF Running, part

(* The part about to be undone is a part of the command. *)
LEMMA UndoingPart ==
  ASSUME TypeInv, NEW kind, Undoing(kind)
  PROVE  /\ at \in 1 .. Len(cmd.parts) /\ part \in Part /\ part.kind = kind
         /\ job = "undo"
<1>1. cmd \in Command /\ job = "undo" /\ at \in 0 .. Len(cmd.parts)
  BY DEF TypeInv, TypeOK, InBounds, Undoing
<1>2. at \in 1 .. Len(cmd.parts)
  BY <1>1, CommandFields DEF Undoing
<1> QED BY <1>1, <1>2, CommandFields DEF Undoing, part

(* To go on to the next part keeps the invariant of the control. *)
LEMMA RanTypes ==
  ASSUME TypeInv, job \in {"run", "redo"}, at \in 1 .. Len(cmd.parts),
         NEW q \in Part, Ran(q)
  PROVE  ControlOK'
<1>1. cmd \in Command /\ Len(cmd.parts) \in Nat
  BY CommandFields DEF TypeInv, TypeOK
<1>2. [q EXCEPT !.ran = TRUE] \in Part
  BY PartUpdates
<1>3. cmd' \in Command /\ Len(cmd'.parts) = Len(cmd.parts)
  BY <1>1, <1>2, PartReplaced DEF Ran
<1>4. at' \in 1 .. Len(cmd'.parts) + 1
  BY <1>1, <1>3 DEF Ran
<1>5. /\ file' \in Seq(Task) /\ readd' \in Seq(Task)
      /\ now' \in StartTime .. MaxNow /\ times' \in 0 .. MaxTimes
      /\ undoHistory' \in Seq(Command) /\ redoHistory' \in Seq(Command)
      /\ job' = job /\ times' = times
  BY DEF Ran, historyVars, TypeInv, TypeOK
<1>6. job \in {"undo", "redo"} => times \in 1 .. MaxTimes
  BY DEF TypeInv, InBounds
<1>7. at' \in 0 .. Len(cmd'.parts) + 1
  BY <1>1, <1>3, <1>4
<1>8. InBounds'
  BY <1>4, <1>5, <1>6 DEF InBounds
<1> QED BY <1>3, <1>5, <1>7, <1>8 DEF ControlOK

(* To go back to the part before keeps it too. *)
LEMMA UndidTypes ==
  ASSUME TypeInv, job = "undo", at \in 1 .. Len(cmd.parts),
         NEW q \in Part, Undid(q), readd' \in Seq(Task)
  PROVE  ControlOK'
<1>1. cmd \in Command /\ Len(cmd.parts) \in Nat
  BY CommandFields DEF TypeInv, TypeOK
<1>2. [q EXCEPT !.ran = FALSE] \in Part
  BY PartUpdates
<1>3. cmd' \in Command /\ Len(cmd'.parts) = Len(cmd.parts)
  BY <1>1, <1>2, PartReplaced DEF Undid
<1>4. at' \in 0 .. Len(cmd'.parts)
  BY <1>1, <1>3 DEF Undid
<1>5. /\ file' \in Seq(Task) /\ readd' \in Seq(Task)
      /\ now' \in StartTime .. MaxNow /\ times' \in 0 .. MaxTimes
      /\ undoHistory' \in Seq(Command) /\ redoHistory' \in Seq(Command)
      /\ job' = job /\ times' = times
  BY DEF Undid, historyVars, TypeInv, TypeOK
<1>6. job \in {"undo", "redo"} => times \in 1 .. MaxTimes
  BY DEF TypeInv, InBounds
<1>7. at' \in 0 .. Len(cmd'.parts) + 1
  BY <1>1, <1>3, <1>4
<1>8. InBounds'
  BY <1>4, <1>5, <1>6 DEF InBounds
<1> QED BY <1>3, <1>5, <1>7, <1>8 DEF ControlOK

-----------------------------------------------------------------------------
(* Every step leaves the list as it is, empty, or renumbered at the present
   time.                                                                   *)
ListStep ==
  \/ tasks' = tasks
  \/ tasks' = <<>>
  \/ Renumbered(tasks', now)

(* What renumber() leaves is a list of tasks. *)
LEMMA RenumberedTypes ==
  ASSUME NEW new, NEW time \in Nat, Renumbered(new, time)
  PROVE  new \in Seq(Task)
BY RenumberKeepsTasks DEF Renumbered

(* Each part, run, keeps the types. *)
LEMMA RunPartTypes ==
  ASSUME TypeInv, RunPart
  PROVE  ListStep /\ ListOK' /\ ControlOK' /\ \E q \in Part : Ran(q)
<1> USE NowIsNat
<1>0. tasks \in Seq(Task) /\ selected \in Nat /\ last \in Nat
  BY DEF TypeInv, TypeOK
<1>1. CASE RunAdd
  <2>1. /\ at \in 1 .. Len(cmd.parts) /\ part \in Part /\ part.kind = "add"
        /\ job \in {"run", "redo"}
    BY <1>1, RunningPart DEF RunAdd
  <2>2. part.task \in Task
    BY <2>1, PartFields
  <2> DEFINE id == AddedId(tasks, part.task, now)
  <2>3. /\ tasks' \in Seq(Task) /\ Renumbered(tasks', now)
        /\ id \in Nat
    BY <1>0, <1>1, <2>2, AddTaskResult DEF RunAdd
  <2>4. /\ Refresh /\ Highlight(id) /\ last' = id
        /\ Ran([part EXCEPT !.tid = id])
    BY <1>1 DEF RunAdd
  <2> HIDE DEF id
  <2>5. [part EXCEPT !.tid = id] \in Part
    BY <2>1, <2>3, PartUpdates
  <2>6. ControlOK'
    BY <2>1, <2>4, <2>5, RanTypes
  <2>7. ListOK'
    BY <1>0, <2>3, <2>4, RefreshTypes, HighlightTypes DEF ListOK
  <2> QED BY <2>3, <2>4, <2>5, <2>6, <2>7 DEF ListStep
<1>2. CASE RunRemove
  <2>1. /\ at \in 1 .. Len(cmd.parts) /\ part \in Part /\ part.kind = "remove"
        /\ job \in {"run", "redo"}
    BY <1>2, RunningPart DEF RunRemove
  <2>2. tasks' \in Seq(Task) /\ Renumbered(tasks', now)
    BY <1>0, <1>2, <2>1, PartFields, RemoveTaskResult DEF RunRemove
  <2>3. ControlOK'
    BY <1>2, <2>1, RanTypes DEF RunRemove
  <2>4. ListOK'
    BY <1>0, <1>2, <2>2, RefreshTypes DEF ListOK, RunRemove
  <2>5. Ran(part)
    BY <1>2 DEF RunRemove
  <2> QED BY <2>1, <2>2, <2>3, <2>4, <2>5 DEF ListStep
<1>3. CASE RunEdit
  <2>1. /\ at \in 1 .. Len(cmd.parts) /\ part \in Part /\ part.kind = "edit"
        /\ job \in {"run", "redo"}
    BY <1>3, RunningPart DEF RunEdit
  <2>2. part.task \in Task /\ part.id \in 1 .. Len(tasks) /\ tasks[part.id] \in Task
    BY <1>0, <1>3, <2>1, PartFields, ElementOfSeq DEF RunEdit, IsId
  <2> DEFINE id == EditedId(tasks, part.id, part.task, now)
             q == [part EXCEPT !.tid = id, !.old = tasks[part.id]]
  <2>3. /\ tasks' \in Seq(Task) /\ Renumbered(tasks', now)
        /\ id \in Nat
    BY <1>0, <1>3, <2>2, EditTaskResult DEF RunEdit
  <2>4. Refresh /\ Highlight(id) /\ last' = id /\ Ran(q)
    BY <1>3 DEF RunEdit
  <2> HIDE DEF id
  <2>5. q \in Part
    BY <2>1, <2>2, <2>3, PartUpdates
  <2>6. ControlOK'
    BY <2>1, <2>4, <2>5, RanTypes
  <2>7. ListOK'
    BY <1>0, <2>3, <2>4, RefreshTypes, HighlightTypes DEF ListOK
  <2> QED BY <2>3, <2>4, <2>5, <2>6, <2>7 DEF ListStep
<1>4. CASE RunClear
  <2>1. /\ at \in 1 .. Len(cmd.parts) /\ part \in Part /\ part.kind = "clear"
        /\ job \in {"run", "redo"}
    BY <1>4, RunningPart DEF RunClear
  <2>2. tasks' = <<>> /\ tasks' \in Seq(Task)
    BY <1>4 DEF RunClear
  <2> DEFINE old == GetTasks(tasks)
             olds == [k \in 1 .. Len(old) |-> old[k].task]
  <2>3. old \in Seq(Entry)
    BY <1>0, SearchEntries DEF GetTasks, Undone
  <2>4. olds \in Seq(Task)
    <3> HIDE DEF old
    <3>1. ASSUME NEW k \in 1 .. Len(old)
          PROVE  old[k].task \in Task
      <4>1. old[k] \in Entry
        BY <2>3, ElementOfSeq
      <4> QED BY <4>1 DEF Entry
    <3> QED BY <2>3, <3>1
  <2>5. Ran([part EXCEPT !.olds = olds])
    BY <1>4 DEF RunClear
  <2> HIDE DEF olds
  <2>6. [part EXCEPT !.olds = olds] \in Part
    BY <2>1, <2>4, PartUpdates
  <2>7. ControlOK'
    BY <2>1, <2>5, <2>6, RanTypes
  <2>8. ListOK'
    BY <1>0, <1>4, <2>2, RefreshTypes DEF ListOK, RunClear
  <2> QED BY <2>2, <2>5, <2>6, <2>7, <2>8 DEF ListStep
<1>5. CASE RunDone
  <2>1. /\ at \in 1 .. Len(cmd.parts) /\ part \in Part /\ part.kind = "done"
        /\ job \in {"run", "redo"} /\ part.id \in 1 .. Len(tasks)
        /\ part.flag \in BOOLEAN
    BY <1>5, RunningPart, PartFields DEF RunDone, IsId
  <2> DEFINE t == [tasks[part.id] EXCEPT !.done = part.flag]
             id == EditedId(tasks, part.id, t, now)
  <2>2. t \in Task
    <3>1. tasks[part.id] \in Task
      BY <1>0, <2>1, ElementOfSeq
    <3> QED BY <2>1, <3>1 DEF Task
  <2>3. /\ tasks' = EditTask(tasks, part.id, t, now)
        /\ Refresh
        /\ selected' = selected \/ Highlight(id)
        /\ last' = last
        /\ Ran([part EXCEPT !.id = id])
    BY <1>5, <2>1 DEF RunDone, SetDone
  <2> HIDE DEF t
  <2>4. /\ tasks' \in Seq(Task) /\ Renumbered(tasks', now)
        /\ id \in Nat
    BY <1>0, <2>1, <2>2, <2>3, EditTaskResult
  <2> HIDE DEF id
  <2>5. [part EXCEPT !.id = id] \in Part
    BY <2>1, <2>4, PartUpdates
  <2>6. ControlOK'
    BY <2>1, <2>3, <2>5, RanTypes
  <2>7. ListOK'
    BY <1>0, <2>3, <2>4, RefreshTypes, HighlightTypes DEF ListOK
  <2> QED BY <2>3, <2>4, <2>5, <2>6, <2>7 DEF ListStep
<1> QED BY <1>1, <1>2, <1>3, <1>4, <1>5 DEF RunPart

(* Each part, undone, keeps the types. *)
LEMMA UndoPartTypes ==
  ASSUME TypeInv, UndoPart
  PROVE  /\ ListStep /\ ListOK' /\ ControlOK'
         /\ UndoClear \/ UndoClearAdd \/ \E q \in Part : Undid(q)
<1> USE NowIsNat
<1>0. /\ tasks \in Seq(Task) /\ selected \in Nat /\ last \in Nat
      /\ readd \in Seq(Task) /\ cmd \in Command /\ shown \in Seq(Entry)
  BY DEF TypeInv, TypeOK
<1>1. CASE UndoAdd
  <2>1. /\ at \in 1 .. Len(cmd.parts) /\ part \in Part /\ part.kind = "add"
        /\ job = "undo"
    BY <1>1, UndoingPart DEF UndoAdd
  <2>2. tasks' \in Seq(Task) /\ Renumbered(tasks', now)
    BY <1>0, <1>1, <2>1, PartFields, RemoveTaskResult DEF UndoAdd
  <2>3. ControlOK'
    BY <1>0, <1>1, <2>1, UndidTypes DEF UndoAdd
  <2>4. ListOK'
    BY <1>0, <1>1, <2>2, RefreshTypes DEF ListOK, UndoAdd
  <2> QED BY <1>1, <2>1, <2>2, <2>3, <2>4 DEF ListStep, UndoAdd
<1>2. CASE UndoRemove
  <2>1. /\ at \in 1 .. Len(cmd.parts) /\ part \in Part /\ part.kind = "remove"
        /\ job = "undo"
    BY <1>2, UndoingPart DEF UndoRemove
  <2>2. tasks' \in Seq(Task) /\ Renumbered(tasks', now)
    BY <1>0, <1>2, <2>1, PartFields, AddTaskResult DEF UndoRemove
  <2>3. ControlOK'
    BY <1>0, <1>2, <2>1, UndidTypes DEF UndoRemove
  <2>4. ListOK'
    BY <1>0, <1>2, <2>2, RefreshTypes DEF ListOK, UndoRemove
  <2> QED BY <1>2, <2>1, <2>2, <2>3, <2>4 DEF ListStep, UndoRemove
<1>3. CASE UndoEdit
  <2>1. /\ at \in 1 .. Len(cmd.parts) /\ part \in Part /\ part.kind = "edit"
        /\ job = "undo" /\ part.old \in Task /\ part.tid \in 1 .. Len(tasks)
    BY <1>3, UndoingPart, PartFields DEF UndoEdit, IsId
  <2>2. tasks' \in Seq(Task) /\ Renumbered(tasks', now)
    BY <1>0, <1>3, <2>1, EditTaskResult DEF UndoEdit
  <2>3. ControlOK'
    BY <1>0, <1>3, <2>1, UndidTypes DEF UndoEdit
  <2>4. ListOK'
    BY <1>0, <1>3, <2>1, <2>2, RefreshTypes, HighlightTypes DEF ListOK, UndoEdit
  <2> QED BY <1>3, <2>1, <2>2, <2>3, <2>4 DEF ListStep, UndoEdit
<1>4. CASE UndoDone
  <2>1. /\ at \in 1 .. Len(cmd.parts) /\ part \in Part /\ part.kind = "done"
        /\ job = "undo" /\ part.id \in 1 .. Len(tasks)
        /\ (~part.flag) \in BOOLEAN
    BY <1>4, UndoingPart, PartFields DEF UndoDone, IsId
  <2> DEFINE t == [tasks[part.id] EXCEPT !.done = ~part.flag]
             id == EditedId(tasks, part.id, t, now)
  <2>2. t \in Task
    <3>1. tasks[part.id] \in Task
      BY <1>0, <2>1, ElementOfSeq
    <3> QED BY <2>1, <3>1 DEF Task
  <2>3. /\ tasks' = EditTask(tasks, part.id, t, now)
        /\ Refresh
        /\ selected' = selected \/ Highlight(id)
        /\ last' = last /\ readd' = readd
        /\ Undid([part EXCEPT !.id = id])
    BY <1>4, <2>1 DEF UndoDone, SetDone
  <2> HIDE DEF t
  <2>4. /\ tasks' \in Seq(Task) /\ Renumbered(tasks', now)
        /\ id \in Nat
    BY <1>0, <2>1, <2>2, <2>3, EditTaskResult
  <2> HIDE DEF id
  <2>5. [part EXCEPT !.id = id] \in Part
    BY <2>1, <2>4, PartUpdates
  <2>6. ControlOK'
    BY <1>0, <2>1, <2>3, <2>5, UndidTypes
  <2>7. ListOK'
    BY <1>0, <2>3, <2>4, RefreshTypes, HighlightTypes DEF ListOK
  <2> QED BY <2>3, <2>4, <2>5, <2>6, <2>7 DEF ListStep
<1>5. CASE UndoClear
  <2>1. /\ at \in 1 .. Len(cmd.parts) /\ part \in Part /\ part.kind = "clear"
        /\ job = "undo" /\ part.olds \in Seq(Task)
    BY <1>5, UndoingPart, PartFields DEF UndoClear
  <2>2. cmd' = [cmd EXCEPT !.parts[at] = [part EXCEPT !.ran = FALSE]]
    BY <1>0, <1>5, <2>1, CommandFields DEF UndoClear, part
  <2>3. [part EXCEPT !.ran = FALSE] \in Part
    BY <2>1, PartUpdates
  <2>4. cmd' \in Command /\ Len(cmd'.parts) = Len(cmd.parts)
    BY <1>0, <2>1, <2>2, <2>3, PartReplaced
  <2>5. ControlOK'
    BY <1>5, <2>1, <2>4
    DEF UndoClear, TypeInv, TypeOK, InBounds, ControlOK, historyVars, storageVars
  <2>6. ListOK' /\ tasks' = tasks
    BY <1>0, <1>5 DEF ListOK, UndoClear, storageVars, windowVars
  <2> QED BY <1>5, <2>5, <2>6 DEF ListStep
<1>6. CASE UndoClearAdd
  <2>1. Head(readd) \in Task /\ Tail(readd) \in Seq(Task)
    BY <1>0, <1>6, HeadTailProperties DEF UndoClearAdd
  <2>2. tasks' \in Seq(Task) /\ Renumbered(tasks', now)
    BY <1>0, <1>6, <2>1, AddTaskResult DEF UndoClearAdd
  <2>3. ControlOK'
    BY <1>6, <2>1
    DEF UndoClearAdd, TypeInv, TypeOK, InBounds, ControlOK, historyVars
  <2>4. ListOK'
    BY <1>0, <1>6, <2>2 DEF ListOK, UndoClearAdd, windowVars
  <2> QED BY <1>6, <2>2, <2>3, <2>4 DEF ListStep
<1>7. CASE UndoClearShow
  <2>1. /\ at \in 1 .. Len(cmd.parts) /\ part \in Part /\ job = "undo"
    BY <1>7, UndoingPart DEF UndoClearShow
  <2>2. ControlOK'
    BY <1>0, <1>7, <2>1, UndidTypes DEF UndoClearShow
  <2>3. ListOK' /\ tasks' = tasks
    BY <1>0, <1>7, RefreshTypes DEF ListOK, UndoClearShow
  <2> QED BY <1>7, <2>1, <2>2, <2>3 DEF ListStep, UndoClearShow
<1> QED BY <1>1, <1>2, <1>3, <1>4, <1>5, <1>6, <1>7 DEF UndoPart

(* To begin a command keeps the types. *)
LEMMA RunTypes ==
  ASSUME TypeInv, NEW parts \in Seq(Part), Run(parts)
  PROVE  tasks' = tasks /\ ListOK' /\ ControlOK'
<1>1. NewCommand(parts) \in Command /\ NewCommand(parts).parts = parts
  BY DEF NewCommand, Command
<1>2. cmd' \in Command /\ cmd'.parts = parts
  BY <1>1, CommandFields DEF Run
<1>3. Len(parts) \in Nat
  OBVIOUS
<1> QED BY <1>2, <1>3
        DEF Run, TypeInv, TypeOK, InBounds, ListOK, ControlOK, storageVars,
            historyVars, windowVars

(* A new command is run with none of its parts run. *)
NewRun == \E parts \in Seq(Part) :
            Run(parts) /\ \A i \in 1 .. Len(parts) : ~parts[i].ran

(* So does a command of a single part. *)
LEMMA SingleRun ==
  ASSUME TypeInv, NEW p \in Part, ~p.ran, Run(<<p>>)
  PROVE  tasks' = tasks /\ ListOK' /\ ControlOK' /\ NewRun
<1>1. <<p>> \in Seq(Part) /\ \A i \in 1 .. Len(<<p>>) : ~<<p>>[i].ran
  OBVIOUS
<1>2. NewRun
  BY <1>1 DEF NewRun
<1> QED BY <1>1, <1>2, RunTypes

(* What is left to say of the control once it is at rest, or has begun the next
   undo or redo.                                                           *)
HistoriesOK ==
  /\ file \in Seq(Task) /\ readd \in Seq(Task) /\ now \in StartTime .. MaxNow
  /\ undoHistory \in Seq(Command) /\ redoHistory \in Seq(Command)

(* With no handler in progress the control is of its type. *)
LEMMA RestTypes ==
  ASSUME HistoriesOK', Rest
  PROVE  ControlOK'
<1>1. NoCommand \in Command /\ Len(NoCommand.parts) = 0
  BY DEF NoCommand, NewCommand, Command
<1>2. 0 \in 0 .. MaxTimes
  BY BoundsAssumption
<1> QED BY <1>1, <1>2 DEF Rest, HistoriesOK, ControlOK, InBounds

(* undoCommand() takes a command from its history, or ends. *)
LEMMA BeginUndoTypes ==
  ASSUME undoHistory \in Seq(Command), redoHistory' \in Seq(Command),
         file' \in Seq(Task), readd' \in Seq(Task), now' \in StartTime .. MaxNow,
         NEW n \in 0 .. MaxTimes, BeginUndo(n)
  PROVE  ControlOK'
<1>1. CASE n = 0 \/ undoHistory = <<>>
  <2>1. Rest /\ undoHistory' = undoHistory
    BY <1>1 DEF BeginUndo
  <2> QED BY <2>1, RestTypes DEF HistoriesOK
<1>2. CASE n # 0 /\ undoHistory # <<>>
  <2> DEFINE c == undoHistory[Len(undoHistory)]
  <2>1. /\ job' = "undo" /\ cmd' = [c EXCEPT !.ran = FALSE] /\ at' = Len(c.parts)
        /\ times' = n /\ undoHistory' = SubSeq(undoHistory, 1, Len(undoHistory) - 1)
    BY <1>2 DEF BeginUndo
  <2>2. c \in Command /\ undoHistory' \in Seq(Command)
    BY <1>2, <2>1, Shortened
  <2> HIDE DEF c
  <2>3. cmd' \in Command /\ cmd'.parts = c.parts /\ Len(c.parts) \in Nat
    BY <2>1, <2>2, CommandFields
  <2>4. n \in 1 .. MaxTimes
    BY <1>2, BoundsAssumption
  <2> QED BY <2>1, <2>2, <2>3, <2>4 DEF ControlOK, InBounds
<1> QED BY <1>1, <1>2

(* redoCommand() takes a command from its history, or ends. *)
LEMMA BeginRedoTypes ==
  ASSUME redoHistory \in Seq(Command), undoHistory' \in Seq(Command),
         file' \in Seq(Task), readd' \in Seq(Task), now' \in StartTime .. MaxNow,
         NEW n \in 0 .. MaxTimes, BeginRedo(n)
  PROVE  ControlOK'
<1>1. CASE n = 0 \/ redoHistory = <<>>
  <2>1. Rest /\ redoHistory' = redoHistory
    BY <1>1 DEF BeginRedo
  <2> QED BY <2>1, RestTypes DEF HistoriesOK
<1>2. CASE n # 0 /\ redoHistory # <<>>
  <2> DEFINE c == redoHistory[Len(redoHistory)]
  <2>1. /\ job' = "redo" /\ cmd' = [c EXCEPT !.ran = TRUE] /\ at' = 1
        /\ times' = n /\ redoHistory' = SubSeq(redoHistory, 1, Len(redoHistory) - 1)
    BY <1>2 DEF BeginRedo
  <2>2. c \in Command /\ redoHistory' \in Seq(Command)
    BY <1>2, <2>1, Shortened
  <2> HIDE DEF c
  <2>3. cmd' \in Command /\ cmd'.parts = c.parts /\ Len(c.parts) \in Nat
    BY <2>1, <2>2, CommandFields
  <2>4. n \in 1 .. MaxTimes
    BY <1>2, BoundsAssumption
  <2> QED BY <2>1, <2>2, <2>3, <2>4 DEF ControlOK, InBounds
<1> QED BY <1>1, <1>2

(* The ids of a list, sorted, are the ids of the list. *)
LEMMA PickedIds ==
  ASSUME NEW n \in Nat, NEW S \in SUBSET Nat, NEW ids \in [1 .. n -> S],
         NEW key \in [Nat -> Int]
  PROVE  /\ Len(ids) = n
         /\ \A k \in 1 .. n : \E j \in 1 .. n : StableSort(ids, key)[k] = ids[j]
         /\ \A k \in 1 .. n : StableSort(ids, key)[k] \in S
<1>1. ids \in [1 .. n -> Nat]
  OBVIOUS
<1>2. ids \in Seq(Nat) /\ Len(ids) = n
  BY <1>1, SeqDef, LenProperties
<1>3. /\ \A k \in 1 .. Len(ids) : From(ids, key, k) \in 1 .. Len(ids)
      /\ StableSort(ids, key) = [k \in 1 .. Len(ids) |-> ids[From(ids, key, k)]]
      /\ StableSort(ids, key) \in [1 .. Len(ids) -> Nat]
  BY <1>2, SortRearranges, Zenon
<1>4. /\ \A k \in 1 .. n : From(ids, key, k) \in 1 .. n
      /\ StableSort(ids, key) = [k \in 1 .. n |-> ids[From(ids, key, k)]]
  BY <1>2, <1>3, Zenon
<1> QED BY <1>2, <1>4

(* What a user picks is a list of ids, sorted or not. *)
LEMMA IdListsTypes ==
  ASSUME TypeInv, NEW ids \in IdLists
  PROVE  \E n \in Nat : ids \in [1 .. n -> Nat]
<1>1. tasks \in Seq(Task) /\ last \in Nat /\ Len(tasks) \in Nat
  BY DEF TypeInv, TypeOK
<1>2. Ids \subseteq Nat
  BY <1>1 DEF Ids
<1>3. CASE ids = AllIds
  <2>1. ids \in [1 .. Len(tasks) -> Nat]
    BY <1>1, <1>3 DEF AllIds
  <2> QED BY <1>1, <2>1
<1>4. CASE ids # AllIds
  <2>1. PICK n \in 1 .. MaxPicks : ids \in [1 .. n -> Ids]
    BY <1>4 DEF IdLists
  <2>2. n \in Nat
    BY BoundsAssumption
  <2>3. ids \in [1 .. n -> Nat]
    BY <1>2, <2>1
  <2> QED BY <2>2, <2>3
<1> QED BY <1>3, <1>4

(* Everything that can be submitted keeps the types. *)
LEMMA SubmitTypes ==
  ASSUME TypeInv, Submit
  PROVE  /\ tasks' = tasks /\ ListOK' /\ ControlOK'
         /\ NewRun \/ SubmitUndo \/ SubmitRedo \/ Show \/ LastIsNoTask
<1>0. /\ tasks \in Seq(Task) /\ selected \in Nat /\ last \in Nat
      /\ cmd \in Command /\ shown \in Seq(Entry)
  BY DEF TypeInv, TypeOK
<1>1. CASE SubmitAdd
  <2>1. PICK t \in NewTasks : Run(<<AddPart(t)>>)
    BY <1>1 DEF SubmitAdd
  <2>2. AddPart(t) \in Part /\ ~AddPart(t).ran
    BY <2>1, NewTasksAssumption DEF AddPart, Part
  <2> QED BY <2>1, <2>2, SingleRun
<1>2. CASE SubmitRemove
  <2> DEFINE picked(ids) == Descending(ids)
             parts(ids) == [k \in 1 .. Len(ids) |->
                              RemovePart(picked(ids)[k], tasks[picked(ids)[k]])]
  <2>1. PICK ids \in IdLists :
          /\ \A k \in DOMAIN ids : IsId(tasks, ids[k])
          /\ Run(parts(ids))
    BY <1>2 DEF SubmitRemove
  <2>2. PICK n \in Nat : ids \in [1 .. n -> Nat]
    BY <2>1, IdListsTypes
  <2>3. ids \in [1 .. n -> 1 .. Len(tasks)]
    BY <2>1, <2>2 DEF IsId
  <2>4. /\ Len(ids) = n
        /\ \A k \in 1 .. n : picked(ids)[k] \in 1 .. Len(tasks)
    <3>1. (1 .. Len(tasks)) \in SUBSET Nat
      OBVIOUS
    <3>2. [id \in Nat |-> -id] \in [Nat -> Int]
      OBVIOUS
    <3> QED BY <2>3, <3>1, <3>2, PickedIds DEF Descending
  <2> HIDE DEF picked
  <2>5. ASSUME NEW k \in 1 .. n
        PROVE  RemovePart(picked(ids)[k], tasks[picked(ids)[k]]) \in Part
    <3>1. tasks[picked(ids)[k]] \in Task
      BY <1>0, <2>4, ElementOfSeq
    <3> QED BY <2>4, <3>1 DEF RemovePart, Part
  <2>6. parts(ids) \in [1 .. n -> Part] /\ \A k \in 1 .. n : ~parts(ids)[k].ran
    BY <2>4, <2>5 DEF RemovePart
  <2> HIDE DEF parts
  <2>7. parts(ids) \in Seq(Part) /\ Len(parts(ids)) = n
    BY <2>6, SeqDef, LenProperties
  <2> QED BY <2>1, <2>6, <2>7, RunTypes DEF NewRun
<1>3. CASE SubmitEdit
  <2>1. PICK id \in Ids, t \in NewTasks :
          /\ IsId(tasks, id)
          /\ Run(<<EditPart(id, [t EXCEPT !.done = tasks[id].done])>>)
    BY <1>3 DEF SubmitEdit
  <2>2. tasks[id].done \in BOOLEAN /\ id \in Nat
    BY <1>0, <2>1, ElementOfSeq, TaskFields DEF IsId
  <2>3. [t EXCEPT !.done = tasks[id].done] \in Task
    BY <2>2, NewTasksAssumption DEF Task
  <2>4. /\ EditPart(id, [t EXCEPT !.done = tasks[id].done]) \in Part
        /\ ~EditPart(id, [t EXCEPT !.done = tasks[id].done]).ran
    BY <2>2, <2>3 DEF EditPart, Part
  <2> QED BY <2>1, <2>4, SingleRun
<1>4. ASSUME NEW flag \in BOOLEAN, NEW key \in [Nat -> Int], NEW ids \in IdLists,
             Run([k \in 1 .. Len(ids) |-> DonePart(StableSort(ids, key)[k], flag)])
      PROVE  tasks' = tasks /\ ListOK' /\ ControlOK' /\ NewRun
  <2> DEFINE parts == [k \in 1 .. Len(ids) |-> DonePart(StableSort(ids, key)[k], flag)]
  <2>1. PICK n \in Nat : ids \in [1 .. n -> Nat]
    BY IdListsTypes
  <2>2. /\ Len(ids) = n
        /\ \A k \in 1 .. n : StableSort(ids, key)[k] \in Nat
    BY <2>1, PickedIds
  <2>3. \A k \in 1 .. n : DonePart(StableSort(ids, key)[k], flag) \in Part
    BY <2>2 DEF DonePart, Part
  <2>4. parts \in [1 .. n -> Part] /\ \A k \in 1 .. n : ~parts[k].ran
    BY <2>2, <2>3 DEF DonePart
  <2>5. Run(parts)
    BY <1>4
  <2> HIDE DEF parts
  <2>6. parts \in Seq(Part) /\ Len(parts) = n
    BY <2>4, SeqDef, LenProperties
  <2> QED BY <2>4, <2>5, <2>6, RunTypes DEF NewRun
<1>5. CASE SubmitDone
  <2>1. PICK ids \in IdLists :
          Run([k \in 1 .. Len(ids) |->
                 DonePart(StableSort(ids, [id \in Nat |-> -id])[k], TRUE)])
    BY <1>5 DEF SubmitDone, Descending
  <2>2. [id \in Nat |-> -id] \in [Nat -> Int]
    OBVIOUS
  <2> QED BY <1>4, <2>1, <2>2
<1>6. CASE SubmitUndone
  <2>1. PICK ids \in IdLists :
          Run([k \in 1 .. Len(ids) |->
                 DonePart(StableSort(ids, [id \in Nat |-> id])[k], FALSE)])
    BY <1>6 DEF SubmitUndone, Ascending
  <2>2. [id \in Nat |-> id] \in [Nat -> Int]
    OBVIOUS
  <2> QED BY <1>4, <2>1, <2>2
<1>7. CASE SubmitClear
  <2>1. ClearPart \in Part /\ ~ClearPart.ran
    BY DEF ClearPart, Part
  <2> QED BY <1>7, <2>1, SingleRun DEF SubmitClear
<1>8. CASE SubmitUndo
  <2>1. PICK n \in 1 .. MaxTimes : BeginUndo(n)
    BY <1>8 DEF SubmitUndo
  <2> QED BY <1>0, <1>8, <2>1, BeginUndoTypes
          DEF SubmitUndo, TypeInv, TypeOK, ListOK, storageVars, windowVars
<1>9. CASE SubmitRedo
  <2>1. PICK n \in 1 .. MaxTimes : BeginRedo(n)
    BY <1>9 DEF SubmitRedo
  <2> QED BY <1>0, <1>9, <2>1, BeginRedoTypes
          DEF SubmitRedo, TypeInv, TypeOK, ListOK, storageVars, windowVars
<1>10. CASE Show
  <2>1. PICK view \in Views : shown' = Search(tasks, Hits(view))
    BY <1>10 DEF Show
  <2>2. view \in {"all", "done", "undone", "overdue", "today"}
    BY ViewsAssumption
  <2>3. Hits(view) \in SUBSET (1 .. Len(tasks))
    BY <2>2 DEF Hits, Undone
  <2>4. shown' \in Seq(Entry)
    BY <1>0, <2>1, <2>3, SearchEntries
  <2>5. /\ tasks' = tasks /\ last' = last /\ selected' = selected
        /\ UNCHANGED <<file, readd, now, undoHistory, redoHistory, job, cmd, at, times>>
    BY <1>10 DEF Show, storageVars, historyVars
  <2>6. ListOK'
    BY <1>0, <2>4, <2>5 DEF ListOK
  <2> QED BY <1>10, <2>5, <2>6 DEF TypeInv, TypeOK, InBounds, ControlOK
<1>11. CASE LastIsNoTask
  BY <1>0, <1>11
  DEF LastIsNoTask, TypeInv, TypeOK, InBounds, ListOK, ControlOK, storageVars,
      historyVars, windowVars
<1> QED BY <1>1, <1>2, <1>3, <1>5, <1>6, <1>7, <1>8, <1>9, <1>10, <1>11 DEF Submit

(* So does the end of a run, an undo and a redo. *)
LEMMA FinishTypes ==
  ASSUME TypeInv, Finish
  PROVE  tasks' = tasks /\ ListOK' /\ ControlOK'
<1>0. /\ tasks \in Seq(Task) /\ selected \in Nat /\ last \in Nat
      /\ cmd \in Command /\ shown \in Seq(Entry) /\ readd \in Seq(Task)
      /\ undoHistory \in Seq(Command) /\ redoHistory \in Seq(Command)
      /\ now \in StartTime .. MaxNow
  BY DEF TypeInv, TypeOK
<1>1. /\ Limited(Append(undoHistory, cmd)) \in Seq(Command)
      /\ Limited(Append(redoHistory, cmd)) \in Seq(Command)
  BY <1>0, AppendProperties, LimitedResult
<1>2. CASE FinishRun
  <2>1. Rest /\ HistoriesOK'
    BY <1>0, <1>1, <1>2 DEF FinishRun, HistoriesOK
  <2> QED BY <1>0, <1>2, <2>1, RestTypes
          DEF FinishRun, ListOK, windowVars
<1>3. CASE FinishUndo
  <2>1. times - 1 \in 0 .. MaxTimes
    BY <1>3, BoundsAssumption DEF FinishUndo, TypeInv, InBounds
  <2> QED BY <1>0, <1>1, <1>3, <2>1, BeginUndoTypes
          DEF FinishUndo, ListOK, windowVars
<1>4. CASE FinishRedo
  <2>1. times - 1 \in 0 .. MaxTimes
    BY <1>4, BoundsAssumption DEF FinishRedo, TypeInv, InBounds
  <2> QED BY <1>0, <1>1, <1>4, <2>1, BeginRedoTypes
          DEF FinishRedo, ListOK, windowVars
<1> QED BY <1>2, <1>3, <1>4 DEF Finish

(* So do the clock, a restart, and an id that is none. *)
LEMMA OtherTypes ==
  ASSUME TypeInv, NoSuchTask \/ Tick \/ Restart \/ UNCHANGED vars
  PROVE  ListStep /\ ListOK' /\ ControlOK'
<1>0. /\ tasks \in Seq(Task) /\ selected \in Nat /\ last \in Nat
      /\ file \in Seq(Task) /\ now \in Nat
  BY NowIsNat DEF TypeInv, TypeOK
<1>1. CASE NoSuchTask
  BY <1>0, <1>1
  DEF NoSuchTask, TypeInv, TypeOK, InBounds, ListStep, ListOK, ControlOK,
      storageVars, historyVars, windowVars
<1>2. CASE Tick
  <2>1. now' \in StartTime .. MaxNow
    BY <1>2, BoundsAssumption DEF Tick, TypeInv, TypeOK
  <2> QED BY <1>0, <1>2, <2>1
          DEF Tick, TypeInv, TypeOK, InBounds, ListStep, ListOK, ControlOK,
              storageVars, historyVars, windowVars
<1>3. CASE Restart
  <2>1. tasks' \in Seq(Task) /\ Renumbered(tasks', now)
    BY <1>0, <1>3, RenumberKeepsTasks DEF Restart, Renumbered
  <2>2. ListOK'
    BY <1>0, <1>3, <2>1, RefreshTypes DEF Restart, ListOK
  <2>3. Rest /\ HistoriesOK'
    BY <1>0, <1>3 DEF Restart, TypeInv, TypeOK, HistoriesOK
  <2> QED BY <2>1, <2>2, <2>3, RestTypes DEF ListStep
<1>4. CASE UNCHANGED vars
  BY <1>4 DEF vars, TypeInv, TypeOK, InBounds, ListStep, ListOK, ControlOK
<1> QED BY <1>1, <1>2, <1>3, <1>4

(* Every step keeps the invariant. *)
LEMMA StepTypes ==
  ASSUME TypeInv, [Next]_vars
  PROVE  TypeInv' /\ ListStep
<1>1. CASE Submit
  BY <1>1, SubmitTypes, TypeInvNextParts DEF ListStep
<1>2. CASE RunPart
  BY <1>2, RunPartTypes, TypeInvNextParts
<1>3. CASE UndoPart
  BY <1>3, UndoPartTypes, TypeInvNextParts
<1>4. CASE Finish
  BY <1>4, FinishTypes, TypeInvNextParts DEF ListStep
<1>5. CASE NoSuchTask \/ Tick \/ Restart \/ UNCHANGED vars
  BY <1>5, OtherTypes, TypeInvNextParts
<1> QED BY <1>1, <1>2, <1>3, <1>4, <1>5 DEF Next, Handler

(* It holds when the program starts. *)
LEMMA InitTypes == Init => TypeInv
<1> SUFFICES ASSUME Init PROVE TypeInv
  OBVIOUS
<1>1. NoCommand \in Command /\ Len(NoCommand.parts) = 0
  BY DEF NoCommand, NewCommand, Command
<1> QED BY <1>1, BoundsAssumption DEF Init, TypeInv, TypeOK, InBounds

(* It holds always. *)
LEMMA AlwaysTypeInv == Spec => []TypeInv
BY InitTypes, StepTypes, PTL DEF Spec

(* Every variable has its type, and no handler is past the ends of its command,
   whatever ids commands are given and in whatever order they are undone and
   redone.                                                                 *)
THEOREM TypeCorrect == Spec => []TypeOK
<1>1. TypeInv => TypeOK
  BY DEF TypeInv
<1> QED BY <1>1, AlwaysTypeInv, PTL

-----------------------------------------------------------------------------
(* Order. *)
LEMMA StepOrder ==
  ASSUME TypeInv, [Next]_vars
  PROVE  tasks' # tasks => /\ SectionsInOrder(tasks', now)
                           /\ DatesInOrderIn(tasks', now, 2 .. 4)
<1> SUFFICES ASSUME tasks' # tasks
             PROVE  /\ SectionsInOrder(tasks', now)
                    /\ DatesInOrderIn(tasks', now, 2 .. 4)
  OBVIOUS
<1>1. tasks' = <<>> \/ Renumbered(tasks', now)
  BY StepTypes DEF ListStep
<1>2. CASE tasks' = <<>>
  BY <1>2 DEF SectionsInOrder, DatesInOrderIn
<1>3. CASE Renumbered(tasks', now)
  <2>1. PICK ts \in Seq(Task) : tasks' = Renumber(ts, now)
    BY <1>3 DEF Renumbered
  <2> QED BY <2>1, NowIsNat, RenumberInOrder
<1> QED BY <1>1, <1>2, <1>3

(* Every handler that changes the list leaves it in the order of its sections
   at the present time, whatever order an earlier time had left it in.     *)
THEOREM OrderCorrect == Spec => UrgencyOrder
<1>1. TypeInv /\ [Next]_vars =>
        [tasks' # tasks => /\ SectionsInOrder(tasks', now)
                           /\ DatesInOrderIn(tasks', now, 2 .. 4)]_vars
  BY StepOrder
<1> QED BY <1>1, AlwaysTypeInv, PTL DEF Spec, UrgencyOrder

-----------------------------------------------------------------------------
(* The bound on the histories. *)
LEMMA BeginUndoLength ==
  ASSUME undoHistory \in Seq(Command), NEW n \in Int, BeginUndo(n)
  PROVE  /\ Len(undoHistory') \in Nat
         /\ \/ job' = "none" /\ Len(undoHistory') = Len(undoHistory)
            \/ job' = "undo" /\ Len(undoHistory') = Len(undoHistory) - 1
<1>1. CASE n = 0 \/ undoHistory = <<>>
  BY <1>1 DEF BeginUndo, Rest
<1>2. CASE n # 0 /\ undoHistory # <<>>
  <2>1. job' = "undo" /\ undoHistory' = SubSeq(undoHistory, 1, Len(undoHistory) - 1)
    BY <1>2 DEF BeginUndo
  <2> QED BY <1>2, <2>1, Shortened
<1> QED BY <1>1, <1>2

(* A redo takes one command from its history, or it takes none and ends. *)
LEMMA BeginRedoLength ==
  ASSUME redoHistory \in Seq(Command), NEW n \in Int, BeginRedo(n)
  PROVE  /\ Len(redoHistory') \in Nat
         /\ \/ job' = "none" /\ Len(redoHistory') = Len(redoHistory)
            \/ job' = "redo" /\ Len(redoHistory') = Len(redoHistory) - 1
<1>1. CASE n = 0 \/ redoHistory = <<>>
  BY <1>1 DEF BeginRedo, Rest
<1>2. CASE n # 0 /\ redoHistory # <<>>
  <2>1. job' = "redo" /\ redoHistory' = SubSeq(redoHistory, 1, Len(redoHistory) - 1)
    BY <1>2 DEF BeginRedo
  <2> QED BY <1>2, <2>1, Shortened
<1> QED BY <1>1, <1>2

(* Every step keeps the bound of the histories. *)
LEMMA StepBound ==
  ASSUME TypeInv, HistoryBound, [Next]_vars
  PROVE  HistoryBound'
<1>0. /\ undoHistory \in Seq(Command) /\ redoHistory \in Seq(Command)
      /\ cmd \in Command /\ Len(undoHistory) \in Nat /\ Len(redoHistory) \in Nat
      /\ times - 1 \in Int
  BY DEF TypeInv, TypeOK
<1> USE UndoLimitAssumption
<1>1. ASSUME UNCHANGED <<undoHistory, redoHistory>>,
             job' \in {"undo", "redo"} => job \in {"undo", "redo"}
      PROVE  HistoryBound'
  BY <1>0, <1>1 DEF HistoryBound, InTransit
<1>2. CASE SubmitUndo
  <2>1. PICK n \in 1 .. MaxTimes : BeginUndo(n)
    BY <1>2 DEF SubmitUndo
  <2>2. job = "none" /\ redoHistory' = redoHistory
    BY <1>2 DEF SubmitUndo, Idle
  <2> QED BY <1>0, <2>1, <2>2, BeginUndoLength DEF HistoryBound, InTransit
<1>3. CASE SubmitRedo
  <2>1. PICK n \in 1 .. MaxTimes : BeginRedo(n)
    BY <1>3 DEF SubmitRedo
  <2>2. job = "none" /\ undoHistory' = undoHistory
    BY <1>3 DEF SubmitRedo, Idle
  <2> QED BY <1>0, <2>1, <2>2, BeginRedoLength DEF HistoryBound, InTransit
<1>4. CASE FinishRun
  <2>1. /\ undoHistory' = Limited(Append(undoHistory, cmd))
        /\ redoHistory' = <<>> /\ job' = "none"
    BY <1>4 DEF FinishRun, Rest
  <2>2. Len(undoHistory') <= UNDO_LIMIT /\ Len(undoHistory') \in Nat
    BY <1>0, <2>1, LimitedAppend
  <2> QED BY <2>1, <2>2 DEF HistoryBound, InTransit
<1>5. CASE FinishUndo
  <2>1. /\ redoHistory' = Limited(Append(redoHistory, cmd))
        /\ BeginUndo(times - 1) /\ job = "undo"
    BY <1>5 DEF FinishUndo
  <2>2. Len(redoHistory') <= Len(redoHistory) + 1 /\ Len(redoHistory') \in Nat
    BY <1>0, <2>1, LimitedAppend
  <2> QED BY <1>0, <2>1, <2>2, BeginUndoLength DEF HistoryBound, InTransit
<1>6. CASE FinishRedo
  <2>1. /\ undoHistory' = Limited(Append(undoHistory, cmd))
        /\ BeginRedo(times - 1) /\ job = "redo"
    BY <1>6 DEF FinishRedo
  <2>2. Len(undoHistory') <= Len(undoHistory) + 1 /\ Len(undoHistory') \in Nat
    BY <1>0, <2>1, LimitedAppend
  <2> QED BY <1>0, <2>1, <2>2, BeginRedoLength DEF HistoryBound, InTransit
<1>7. CASE Restart
  BY <1>7 DEF Restart, Rest, HistoryBound, InTransit
<1>8. CASE SubmitAdd \/ SubmitRemove \/ SubmitEdit \/ SubmitClear
           \/ SubmitDone \/ SubmitUndone \/ Show \/ LastIsNoTask
  <2>1. UNCHANGED historyVars /\ (job' = "run" \/ job' = "lost" \/ job' = job)
    BY <1>8 DEF SubmitAdd, SubmitRemove, SubmitEdit, SubmitClear, SubmitDone,
                SubmitUndone, Show, LastIsNoTask, Run
  <2> QED BY <1>1, <2>1 DEF historyVars
<1>9. CASE RunPart \/ UndoPart
  <2>1. UNCHANGED historyVars /\ job' = job
    BY <1>9 DEF RunPart, RunAdd, RunRemove, RunEdit, RunClear, RunDone,
                UndoPart, UndoAdd, UndoRemove, UndoEdit, UndoDone, UndoClear,
                UndoClearAdd, UndoClearShow, SetDone, Ran, Undid
  <2> QED BY <1>1, <2>1 DEF historyVars
<1>10. CASE NoSuchTask \/ Tick \/ UNCHANGED vars
  <2>1. UNCHANGED historyVars /\ (job' = "lost" \/ job' = job)
    BY <1>10 DEF NoSuchTask, Tick, vars, historyVars
  <2> QED BY <1>1, <2>1 DEF historyVars
<1> QED BY <1>2, <1>3, <1>4, <1>5, <1>6, <1>7, <1>8, <1>9, <1>10
        DEF Next, Submit, Handler, Finish

(* Undo and redo together never hold more commands than the limit. *)
THEOREM BoundCorrect == Spec => []HistoryBound
<1>1. Init => HistoryBound
  BY UndoLimitAssumption DEF Init, HistoryBound, InTransit
<1> QED BY <1>1, AlwaysTypeInv, StepBound, PTL DEF Spec

-----------------------------------------------------------------------------
(* The flags. *)
LEMMA RanFlags ==
  ASSUME TypeInv, HistoryFlags, job \in {"run", "redo"}, at \in 1 .. Len(cmd.parts),
         NEW q \in Part, Ran(q)
  PROVE  HistoryFlags'
<1> DEFINE r == [q EXCEPT !.ran = TRUE]
<1>1. /\ cmd \in Command /\ Len(cmd.parts) \in Nat
      /\ DOMAIN cmd.parts = 1 .. Len(cmd.parts)
  BY CommandFields DEF TypeInv, TypeOK
<1>2. r \in Part /\ r.ran = TRUE
  BY PartUpdates
<1> HIDE DEF r
<1>3. /\ cmd' = [cmd EXCEPT !.parts[at] = r] /\ at' = at + 1
      /\ job' = job /\ undoHistory' = undoHistory /\ redoHistory' = redoHistory
  BY DEF Ran, r, historyVars
<1>4. /\ cmd' \in Command /\ cmd'.ran = cmd.ran
      /\ Len(cmd'.parts) = Len(cmd.parts)
      /\ \A j \in 1 .. Len(cmd.parts) : cmd'.parts[j] = IF j = at THEN r ELSE cmd.parts[j]
  BY <1>1, <1>2, <1>3, PartReplaced
<1>5. DOMAIN cmd'.parts = 1 .. Len(cmd.parts)
  BY <1>4, CommandFields
<1>6. ASSUME NEW i \in 1 .. Len(cmd.parts)
      PROVE  cmd'.parts[i].ran <=> i < at + 1
  <2>1. cmd.parts[i].ran <=> i < at
    BY <1>1 DEF HistoryFlags
  <2>2. CASE i = at
    BY <1>1, <1>2, <1>4, <2>2
  <2>3. CASE i # at
    <3>1. i < at <=> i < at + 1
      BY <1>1, <2>3
    <3> QED BY <1>4, <2>1, <2>3, <3>1
  <2> QED BY <2>2, <2>3
<1>7. cmd'.ran
  BY <1>4 DEF HistoryFlags
<1> QED BY <1>3, <1>5, <1>6, <1>7 DEF HistoryFlags

(* The part being undone has its flag cleared; the cursor moves down or, before
   a clear adds its tasks again, stays.                                    *)
LEMMA ClearedFlags ==
  ASSUME TypeInv, HistoryFlags, job = "undo", at \in 1 .. Len(cmd.parts),
         NEW r \in Part, r.ran = FALSE,
         cmd' = [cmd EXCEPT !.parts[at] = r],
         at' = at - 1 \/ (at' = at /\ r.kind = "clear"),
         UNCHANGED <<job, undoHistory, redoHistory>>
  PROVE  HistoryFlags'
<1>1. /\ cmd \in Command /\ Len(cmd.parts) \in Nat
      /\ DOMAIN cmd.parts = 1 .. Len(cmd.parts)
  BY CommandFields DEF TypeInv, TypeOK
<1>2. /\ cmd' \in Command /\ cmd'.ran = cmd.ran
      /\ Len(cmd'.parts) = Len(cmd.parts)
      /\ \A j \in 1 .. Len(cmd.parts) : cmd'.parts[j] = IF j = at THEN r ELSE cmd.parts[j]
  BY <1>1, PartReplaced
<1>3. DOMAIN cmd'.parts = 1 .. Len(cmd.parts)
  BY <1>2, CommandFields
<1>4. ASSUME NEW i \in 1 .. Len(cmd.parts)
      PROVE  /\ i < at' => cmd'.parts[i].ran
             /\ i > at' => ~cmd'.parts[i].ran
             /\ i = at' /\ ~cmd'.parts[i].ran => cmd'.parts[i].kind = "clear"
  <2>1. /\ i < at => cmd.parts[i].ran
        /\ i > at => ~cmd.parts[i].ran
    BY <1>1 DEF HistoryFlags
  <2>2. CASE i = at
    BY <1>1, <1>2, <2>2
  <2>3. CASE i < at
    <3>1. cmd'.parts[i].ran /\ ~(i > at')
      BY <1>1, <1>2, <2>1, <2>3
    <3> QED BY <3>1
  <2>4. CASE i > at
    <3>1. ~cmd'.parts[i].ran /\ ~(i < at') /\ ~(i = at')
      BY <1>1, <1>2, <2>1, <2>4
    <3> QED BY <3>1
  <2> QED BY <1>1, <2>2, <2>3, <2>4
<1>5. ~cmd'.ran
  BY <1>2 DEF HistoryFlags
<1> QED BY <1>3, <1>4, <1>5 DEF HistoryFlags

(* What is in a history after a push was there or was pushed. *)
LEMMA AppendedFlags ==
  ASSUME NEW h \in Seq(Command), NEW c \in Command, NEW k \in DOMAIN Limited(Append(h, c))
  PROVE  \/ Limited(Append(h, c))[k] = c
         \/ \E j \in DOMAIN h : Limited(Append(h, c))[k] = h[j]
<1>1. k \in 1 .. Len(Limited(Append(h, c)))
  BY LimitedAppend, LenProperties
<1>2. DOMAIN h = 1 .. Len(h)
  OBVIOUS
<1>3. \A i \in 1 .. Len(Limited(Append(h, c))) :
        \/ Limited(Append(h, c))[i] = c
        \/ \E j \in 1 .. Len(h) : Limited(Append(h, c))[i] = h[j]
  BY LimitedAppend
<1> QED BY <1>1, <1>2, <1>3, Zenon

(* To go on to the next undo keeps the flags. *)
LEMMA BeginUndoFlags ==
  ASSUME undoHistory \in Seq(Command), NEW n, BeginUndo(n),
         \A k \in DOMAIN undoHistory : AllRan(undoHistory[k]),
         \A k \in DOMAIN redoHistory' : NoneRan(redoHistory'[k])
  PROVE  HistoryFlags'
<1>1. CASE n = 0 \/ undoHistory = <<>>
  <2>1. job' = "none" /\ undoHistory' = undoHistory
    BY <1>1 DEF BeginUndo, Rest
  <2> QED BY <2>1 DEF HistoryFlags
<1>2. CASE n # 0 /\ undoHistory # <<>>
  <2> DEFINE c == undoHistory[Len(undoHistory)]
             h == SubSeq(undoHistory, 1, Len(undoHistory) - 1)
  <2>1. /\ job' = "undo" /\ cmd' = [c EXCEPT !.ran = FALSE] /\ at' = Len(c.parts)
        /\ undoHistory' = h
    BY <1>2 DEF BeginUndo
  <2>2. /\ Len(undoHistory) \in Nat \ {0} /\ c \in Command /\ h \in Seq(Command)
        /\ Len(h) = Len(undoHistory) - 1
        /\ \A k \in 1 .. Len(undoHistory) - 1 : h[k] = undoHistory[k]
    BY <1>2, Shortened
  <2>3. DOMAIN undoHistory = 1 .. Len(undoHistory) /\ DOMAIN h = 1 .. Len(undoHistory) - 1
    BY <2>2
  <2>4. AllRan(c) /\ \A k \in DOMAIN h : AllRan(h[k])
    BY <2>2, <2>3
  <2> HIDE DEF c, h
  <2>5. /\ cmd'.ran = FALSE /\ cmd'.parts = c.parts
        /\ DOMAIN c.parts = 1 .. Len(c.parts) /\ Len(c.parts) \in Nat
    BY <2>1, <2>2, CommandFields
  <2>6. \A i \in DOMAIN cmd'.parts : cmd'.parts[i].ran /\ ~(i > at')
    BY <2>1, <2>4, <2>5 DEF AllRan
  <2> QED BY <2>1, <2>4, <2>5, <2>6 DEF HistoryFlags
<1> QED BY <1>1, <1>2

(* To go on to the next redo keeps the flags. *)
LEMMA BeginRedoFlags ==
  ASSUME redoHistory \in Seq(Command), NEW n, BeginRedo(n),
         \A k \in DOMAIN redoHistory : NoneRan(redoHistory[k]),
         \A k \in DOMAIN undoHistory' : AllRan(undoHistory'[k])
  PROVE  HistoryFlags'
<1>1. CASE n = 0 \/ redoHistory = <<>>
  <2>1. job' = "none" /\ redoHistory' = redoHistory
    BY <1>1 DEF BeginRedo, Rest
  <2> QED BY <2>1 DEF HistoryFlags
<1>2. CASE n # 0 /\ redoHistory # <<>>
  <2> DEFINE c == redoHistory[Len(redoHistory)]
             h == SubSeq(redoHistory, 1, Len(redoHistory) - 1)
  <2>1. /\ job' = "redo" /\ cmd' = [c EXCEPT !.ran = TRUE] /\ at' = 1
        /\ redoHistory' = h
    BY <1>2 DEF BeginRedo
  <2>2. /\ Len(redoHistory) \in Nat \ {0} /\ c \in Command /\ h \in Seq(Command)
        /\ Len(h) = Len(redoHistory) - 1
        /\ \A k \in 1 .. Len(redoHistory) - 1 : h[k] = redoHistory[k]
    BY <1>2, Shortened
  <2>3. DOMAIN redoHistory = 1 .. Len(redoHistory) /\ DOMAIN h = 1 .. Len(redoHistory) - 1
    BY <2>2
  <2>4. NoneRan(c) /\ \A k \in DOMAIN h : NoneRan(h[k])
    BY <2>2, <2>3
  <2> HIDE DEF c, h
  <2>5. /\ cmd'.ran = TRUE /\ cmd'.parts = c.parts
        /\ DOMAIN c.parts = 1 .. Len(c.parts) /\ Len(c.parts) \in Nat
    BY <2>1, <2>2, CommandFields
  <2>6. \A i \in DOMAIN cmd'.parts : ~cmd'.parts[i].ran /\ ~(i < at')
    BY <2>1, <2>4, <2>5 DEF NoneRan
  <2> QED BY <2>1, <2>4, <2>5, <2>6 DEF HistoryFlags
<1> QED BY <1>1, <1>2

(* To begin a command none of whose parts has run keeps the flags. *)
LEMMA RunFlags ==
  ASSUME HistoryFlags, NEW parts \in Seq(Part), Run(parts),
         \A i \in 1 .. Len(parts) : ~parts[i].ran
  PROVE  HistoryFlags'
<1>1. NewCommand(parts) \in Command /\ NewCommand(parts).parts = parts
  BY DEF NewCommand, Command
<1>2. /\ cmd'.ran = TRUE /\ cmd'.parts = parts /\ at' = 1 /\ job' = "run"
      /\ undoHistory' = undoHistory /\ redoHistory' = redoHistory
  BY <1>1, CommandFields DEF Run, historyVars
<1>3. \A i \in DOMAIN parts : ~parts[i].ran /\ ~(i < 1)
  OBVIOUS
<1> QED BY <1>2, <1>3 DEF HistoryFlags

(* Every step keeps the flags. *)
LEMMA StepFlags ==
  ASSUME TypeInv, HistoryFlags, [Next]_vars
  PROVE  HistoryFlags'
<1>0. /\ undoHistory \in Seq(Command) /\ redoHistory \in Seq(Command)
      /\ cmd \in Command /\ DOMAIN cmd.parts = 1 .. Len(cmd.parts)
      /\ Len(cmd.parts) \in Nat /\ at \in Nat
  BY CommandFields DEF TypeInv, TypeOK
<1>1. ASSUME UNCHANGED <<undoHistory, redoHistory>>,
             job' \in {"none", "lost"} \/ UNCHANGED <<job, cmd, at>>
      PROVE  HistoryFlags'
  BY <1>1 DEF HistoryFlags
<1>2. /\ \A k \in DOMAIN undoHistory : AllRan(undoHistory[k])
      /\ \A k \in DOMAIN redoHistory : NoneRan(redoHistory[k])
  BY DEF HistoryFlags
<1>3. CASE Submit
  <2>1. CASE NewRun
    BY <2>1, RunFlags DEF NewRun
  <2>2. CASE SubmitUndo
    BY <1>0, <1>2, <2>2, BeginUndoFlags DEF SubmitUndo
  <2>3. CASE SubmitRedo
    BY <1>0, <1>2, <2>3, BeginRedoFlags DEF SubmitRedo
  <2>4. CASE Show \/ LastIsNoTask
    BY <1>1, <2>4 DEF Show, LastIsNoTask, historyVars
  <2> QED BY <1>3, <2>1, <2>2, <2>3, <2>4, SubmitTypes
<1>4. CASE RunPart
  <2>1. PICK q \in Part : Ran(q)
    BY <1>4, RunPartTypes
  <2>2. job \in {"run", "redo"} /\ at \in 1 .. Len(cmd.parts)
    BY <1>4, RunningPart DEF RunPart, RunAdd, RunRemove, RunEdit, RunClear, RunDone
  <2> QED BY <2>1, <2>2, RanFlags
<1>5. CASE UndoPart
  <2>1. /\ job = "undo" /\ at \in 1 .. Len(cmd.parts)
        /\ part \in Part
    BY <1>5, UndoingPart
    DEF UndoPart, UndoAdd, UndoRemove, UndoEdit, UndoDone, UndoClear,
        UndoClearAdd, UndoClearShow
  <2>2. ASSUME NEW q \in Part, Undid(q)
        PROVE  HistoryFlags'
    BY <2>1, <2>2, ClearedFlags, PartUpdates DEF Undid, historyVars
  <2>3. CASE UndoClear
    <3>1. part.kind = "clear" /\ part = cmd.parts[at]
      BY <2>3 DEF UndoClear, Undoing, part
    <3>2. cmd' = [cmd EXCEPT !.parts[at] = [part EXCEPT !.ran = FALSE]]
      BY <1>0, <2>1, <2>3, CommandFields DEF UndoClear, part
    <3>3. at' = at /\ UNCHANGED <<job, undoHistory, redoHistory>>
      BY <2>3 DEF UndoClear, historyVars
    <3> DEFINE r == [part EXCEPT !.ran = FALSE]
    <3>4. r \in Part /\ r.ran = FALSE /\ r.kind = "clear"
      BY <2>1, <3>1, PartUpdates
    <3>5. cmd' = [cmd EXCEPT !.parts[at] = r]
      BY <3>2
    <3> HIDE DEF r
    <3> QED BY <1>0, <2>1, <3>3, <3>4, <3>5, ClearedFlags
  <2>4. CASE UndoClearAdd
    BY <1>1, <2>4 DEF UndoClearAdd, historyVars
  <2> QED BY <1>5, <2>2, <2>3, <2>4, UndoPartTypes
<1>6. CASE FinishRun
  <2>1. AllRan(cmd)
    BY <1>0, <1>6 DEF FinishRun, HistoryFlags, AllRan
  <2>2. \A k \in DOMAIN Limited(Append(undoHistory, cmd)) :
          AllRan(Limited(Append(undoHistory, cmd))[k])
    BY <1>0, <1>2, <2>1, AppendedFlags
  <2> QED BY <1>6, <2>2 DEF FinishRun, Rest, HistoryFlags
<1>7. CASE FinishUndo
  <2>1. NoneRan(cmd)
    BY <1>0, <1>7 DEF FinishUndo, HistoryFlags, NoneRan
  <2>2. \A k \in DOMAIN Limited(Append(redoHistory, cmd)) :
          NoneRan(Limited(Append(redoHistory, cmd))[k])
    BY <1>0, <1>2, <2>1, AppendedFlags
  <2> QED BY <1>0, <1>2, <1>7, <2>2, BeginUndoFlags DEF FinishUndo
<1>8. CASE FinishRedo
  <2>1. AllRan(cmd)
    BY <1>0, <1>8 DEF FinishRedo, HistoryFlags, AllRan
  <2>2. \A k \in DOMAIN Limited(Append(undoHistory, cmd)) :
          AllRan(Limited(Append(undoHistory, cmd))[k])
    BY <1>0, <1>2, <2>1, AppendedFlags
  <2> QED BY <1>0, <1>2, <1>8, <2>2, BeginRedoFlags DEF FinishRedo
<1>9. CASE Restart
  BY <1>9 DEF Restart, Rest, HistoryFlags
<1>10. CASE NoSuchTask \/ Tick \/ UNCHANGED vars
  BY <1>1, <1>10 DEF NoSuchTask, Tick, vars, historyVars
<1> QED BY <1>3, <1>4, <1>5, <1>6, <1>7, <1>8, <1>9, <1>10
        DEF Next, Handler, Finish

(* The assertions of ICommand::run and ICommand::undo never fail, whatever is
   submitted, undone, redone or cut short by a restart.                    *)
THEOREM FlagsCorrect == Spec => []HistoryFlags
<1>1. Init => HistoryFlags
  BY DEF Init, HistoryFlags
<1> QED BY <1>1, AlwaysTypeInv, StepFlags, PTL DEF Spec

-----------------------------------------------------------------------------
(* What is on display. *)
ClearBeingUndone == Undoing("clear") /\ ~part.ran

(* What getTasks() and a search show, is beside the number that reaches it. *)
LEMMA FreshDisplay ==
  ASSUME tasks' \in Seq(Task), NEW hits \in SUBSET (1 .. Len(tasks')),
         shown' = Search(tasks', hits)
  PROVE  DisplayMatches'
<1>1. /\ shown' \in Seq([number : 1 .. Len(tasks'), task : Task])
      /\ \A k \in DOMAIN shown' : shown'[k].task = tasks'[shown'[k].number]
  BY SearchResult
<1>2. ASSUME NEW k \in DOMAIN shown'
      PROVE  IsId(tasks', shown'[k].number)
  <2>1. k \in 1 .. Len(shown')
    BY <1>1, LenProperties
  <2>2. shown'[k] \in [number : 1 .. Len(tasks'), task : Task]
    BY <1>1, <2>1, ElementOfSeq
  <2> QED BY <2>2 DEF IsId
<1> QED BY <1>1, <1>2 DEF DisplayMatches, IsId

(* So the display is right after a redraw. *)
LEMMA RefreshedDisplay ==
  ASSUME tasks' \in Seq(Task), Refresh
  PROVE  DisplayMatches'
<1>1. Undone(tasks') \in SUBSET (1 .. Len(tasks'))
  BY DEF Undone
<1> QED BY <1>1, FreshDisplay DEF Refresh, GetTasks

(* It stays right while neither it nor the list changes. *)
LEMMA SameDisplay ==
  ASSUME DisplayMatches, ~ClearBeingUndone, UNCHANGED <<tasks, shown>>
  PROVE  DisplayMatches'
BY DEF DisplayMatches, ClearBeingUndone, IsId

(* Every step keeps the display right. *)
LEMMA StepDisplay ==
  ASSUME TypeInv, DisplayMatches, [Next]_vars
  PROVE  DisplayMatches'
<1>0. /\ tasks' \in Seq(Task) /\ tasks \in Seq(Task)
      /\ cmd \in Command /\ Len(cmd.parts) \in Nat /\ at \in Nat
  <2>1. TypeInv'
    BY StepTypes
  <2>2. tasks' \in Seq(Task)
    BY <2>1 DEF TypeInv, TypeOK
  <2>3. tasks \in Seq(Task) /\ cmd \in Command /\ at \in Nat
    BY DEF TypeInv, TypeOK
  <2> QED BY <2>2, <2>3, CommandFields
<1>1. CASE Show
  <2>1. PICK view \in Views : shown' = Search(tasks, Hits(view))
    BY <1>1 DEF Show
  <2>2. view \in {"all", "done", "undone", "overdue", "today"}
    BY ViewsAssumption
  <2>3. Hits(view) \in SUBSET (1 .. Len(tasks)) /\ tasks' = tasks
    BY <1>1, <2>2 DEF Hits, Undone, Show, storageVars
  <2> QED BY <1>0, <2>1, <2>3, FreshDisplay
<1>2. CASE RunPart
  <2>1. Refresh
    BY <1>2 DEF RunPart, RunAdd, RunRemove, RunEdit, RunClear, RunDone, SetDone
  <2> QED BY <1>0, <2>1, RefreshedDisplay
<1>3. CASE UndoAdd \/ UndoRemove \/ UndoEdit \/ UndoDone \/ UndoClearShow \/ Restart
  <2>1. Refresh
    BY <1>3 DEF UndoAdd, UndoRemove, UndoEdit, UndoDone, SetDone, UndoClearShow, Restart
  <2> QED BY <1>0, <2>1, RefreshedDisplay
<1>4. CASE UndoClear
  <2>1. /\ at \in 1 .. Len(cmd.parts) /\ part \in Part /\ part.kind = "clear"
        /\ part = cmd.parts[at]
    BY <1>4, UndoingPart DEF UndoClear, part
  <2>2. cmd' = [cmd EXCEPT !.parts[at] = [part EXCEPT !.ran = FALSE]]
    BY <1>0, <1>4, <2>1, CommandFields DEF UndoClear
  <2>3. [part EXCEPT !.ran = FALSE] \in Part
    BY <2>1, PartUpdates
  <2>4. cmd'.parts[at] = [part EXCEPT !.ran = FALSE]
    BY <1>0, <2>1, <2>2, <2>3, PartReplaced
  <2>5. cmd'.parts[at].kind = "clear" /\ ~cmd'.parts[at].ran
    BY <2>1, <2>4, PartUpdates
  <2>6. at' = at /\ job' = "undo" /\ at >= 1
    BY <1>4 DEF UndoClear, Undoing
  <2> QED BY <2>5, <2>6 DEF DisplayMatches, Undoing, part
<1>5. CASE UndoClearAdd
  <2>1. /\ Undoing("clear") /\ ~part.ran
        /\ job' = job /\ cmd' = cmd /\ at' = at
    BY <1>5 DEF UndoClearAdd
  <2> QED BY <2>1 DEF DisplayMatches, Undoing, part
<1>6. CASE SubmitAdd \/ SubmitRemove \/ SubmitEdit \/ SubmitClear \/ SubmitDone
           \/ SubmitUndone \/ SubmitUndo \/ SubmitRedo \/ LastIsNoTask
  <2>1. job = "none"
    BY <1>6 DEF SubmitAdd, SubmitRemove, SubmitEdit, SubmitClear, SubmitDone,
                SubmitUndone, MaySubmit, SubmitUndo, SubmitRedo, LastIsNoTask, Idle
  <2>2. UNCHANGED <<tasks, shown>>
    BY <1>6 DEF SubmitAdd, SubmitRemove, SubmitEdit, SubmitClear, SubmitDone,
                SubmitUndone, Run, SubmitUndo, SubmitRedo, LastIsNoTask,
                storageVars, windowVars
  <2> QED BY <2>1, <2>2, SameDisplay DEF ClearBeingUndone, Undoing
<1>7. CASE Finish
  <2>1. ~ClearBeingUndone
    BY <1>7 DEF Finish, FinishRun, FinishUndo, FinishRedo, ClearBeingUndone, Undoing
  <2>2. UNCHANGED <<tasks, shown>>
    BY <1>7 DEF Finish, FinishRun, FinishUndo, FinishRedo, windowVars
  <2> QED BY <2>1, <2>2, SameDisplay
<1>8. CASE NoSuchTask
  <2>1. ~ClearBeingUndone
    BY <1>8 DEF NoSuchTask, Running, Undoing, ClearBeingUndone
  <2>2. UNCHANGED <<tasks, shown>>
    BY <1>8 DEF NoSuchTask, storageVars, windowVars
  <2> QED BY <2>1, <2>2, SameDisplay
<1>9. CASE Tick \/ UNCHANGED vars
  <2>1. UNCHANGED <<tasks, shown, job, cmd, at>>
    BY <1>9 DEF Tick, vars, storageVars, windowVars
  <2> QED BY <2>1 DEF DisplayMatches, Undoing, part, IsId
<1> QED BY <1>1, <1>2, <1>3, <1>4, <1>5, <1>6, <1>7, <1>8, <1>9
        DEF Next, Submit, Handler, UndoPart

(* Whatever was run, undone, cut short or searched for, the number the window
   shows beside a task is the number that reaches this task.               *)
THEOREM DisplayCorrect == Spec => []DisplayMatches
<1>1. Init => DisplayMatches
  BY DEF Init, DisplayMatches
<1> QED BY <1>1, AlwaysTypeInv, StepDisplay, PTL DEF Spec

(* What is highlighted. *)
LEMMA HighlightedRow ==
  ASSUME TypeInv, tasks' \in Seq(Task), Renumbered(tasks', now), Refresh,
         NEW id \in 1 .. Len(tasks'), NEW t \in Task, tasks'[id] = t, ~t.done,
         Highlight(id)
  PROVE  selected' = id /\ shown'[id] = [number |-> id, task |-> t]
<1>1. PICK ts \in Seq(Task) : tasks' = Renumber(ts, now)
  BY DEF Renumbered
<1>2. SectionsInOrder(tasks', now)
  BY <1>1, NowIsNat, RenumberInOrder
<1>3. \A i, j \in DOMAIN tasks' : i < j => (tasks'[i].done => tasks'[j].done)
  BY <1>2 DEF SectionsInOrder
<1>4. /\ id \in 1 .. Len(GetTasks(tasks'))
      /\ GetTasks(tasks')[id] = [number |-> id, task |-> tasks'[id]]
  BY <1>3, RowIsId
<1> QED BY <1>4 DEF Refresh, Highlight

(* The task an add or an edit leaves is where `last' says, and when it is on
   display it is the one highlighted: its row among the tasks not done is its
   id among all of them.                                                   *)
THEOREM HighlightCorrect == Spec => HighlightsTheTask
<1>1. ASSUME TypeInv, RunAdd
      PROVE  /\ tasks'[last'] = part.task
             /\ ~part.task.done =>
                  /\ selected' = last'
                  /\ shown'[selected'] = [number |-> last', task |-> part.task]
  <2> DEFINE id == AddedId(tasks, part.task, now)
  <2>1. tasks \in Seq(Task) /\ now \in Nat /\ part.task \in Task
    BY <1>1, NowIsNat, RunningPart, PartFields DEF RunAdd, TypeInv, TypeOK
  <2>2. /\ tasks' = AddTask(tasks, part.task, now) /\ Refresh /\ Highlight(id)
        /\ last' = id
    BY <1>1 DEF RunAdd
  <2>3. /\ tasks' \in Seq(Task) /\ Renumbered(tasks', now)
        /\ id \in 1 .. Len(tasks') /\ tasks'[id] = part.task
    BY <2>1, <2>2, AddTaskResult
  <2> HIDE DEF id
  <2>4. ASSUME ~part.task.done
        PROVE  selected' = id /\ shown'[id] = [number |-> id, task |-> part.task]
    BY <1>1, <2>1, <2>2, <2>3, <2>4, HighlightedRow
  <2> QED BY <2>2, <2>3, <2>4
<1>2. ASSUME TypeInv, RunEdit
      PROVE  /\ tasks'[last'] = part.task
             /\ ~part.task.done =>
                  /\ selected' = last'
                  /\ shown'[selected'] = [number |-> last', task |-> part.task]
  <2> DEFINE id == EditedId(tasks, part.id, part.task, now)
  <2>1. /\ tasks \in Seq(Task) /\ now \in Nat /\ part.task \in Task
        /\ part.id \in 1 .. Len(tasks)
    BY <1>2, NowIsNat, RunningPart, PartFields DEF RunEdit, IsId, TypeInv, TypeOK
  <2>2. /\ tasks' = EditTask(tasks, part.id, part.task, now) /\ Refresh /\ Highlight(id)
        /\ last' = id
    BY <1>2 DEF RunEdit
  <2>3. /\ tasks' \in Seq(Task) /\ Renumbered(tasks', now)
        /\ id \in 1 .. Len(tasks') /\ tasks'[id] = part.task
    BY <2>1, <2>2, EditTaskResult
  <2> HIDE DEF id
  <2>4. ASSUME ~part.task.done
        PROVE  selected' = id /\ shown'[id] = [number |-> id, task |-> part.task]
    BY <1>2, <2>1, <2>2, <2>3, <2>4, HighlightedRow
  <2> QED BY <2>2, <2>3, <2>4
<1>3. TypeInv /\ [Next]_vars =>
        [RunAdd \/ RunEdit =>
           /\ tasks'[last'] = part.task
           /\ ~part.task.done =>
                /\ selected' = last'
                /\ shown'[selected'] = [number |-> last', task |-> part.task]]_vars
  BY <1>1, <1>2
<1> QED BY <1>3, AlwaysTypeInv, PTL DEF Spec, HighlightsTheTask

-----------------------------------------------------------------------------
(* The save file. *)

(* renumber() leaves every content as often as it was there before. *)
LEMMA RenumberSameTasks ==
  ASSUME NEW ts \in Seq(Task), NEW time \in Nat
  PROVE  SameTasks(ts, Renumber(ts, time))
<1> DEFINE n == Len(ts)
           order == Order(ts, time)
           new == Renumber(ts, time)
<1>1. /\ order \in Bijection(1 .. n, 1 .. n)
      /\ new = [k \in 1 .. n |-> ts[order[k]]]
      /\ Len(new) = n /\ n \in Nat /\ DOMAIN ts = 1 .. n
  BY RenumberKeepsTasks
<1> HIDE DEF order, new, n
<1>2. /\ order \in [1 .. n -> 1 .. n]
      /\ \A k, l \in 1 .. n : order[k] = order[l] => k = l
      /\ \A i \in 1 .. n : \E k \in 1 .. n : order[k] = i
  BY <1>1 DEF Bijection, Injection, Surjection, IsInjective
<1>3. ASSUME NEW t
      PROVE  Cardinality({i \in DOMAIN ts : ts[i] = t})
               = Cardinality({i \in DOMAIN new : new[i] = t})
  <2> DEFINE I == {i \in DOMAIN ts : ts[i] = t}
             K == {k \in DOMAIN new : new[k] = t}
             f == [k \in K |-> order[k]]
  <2>1. K \subseteq 1 .. n /\ IsFiniteSet(1 .. n)
    BY <1>1, FS_Interval
  <2>2. IsFiniteSet(K)
    BY <2>1, FS_Subset
  <2>3. \A k \in K : order[k] \in I
    BY <1>1, <1>2
  <2>4. \A i \in I : \E k \in K : order[k] = i
    BY <1>1, <1>2
  <2>5. \A k, l \in K : order[k] = order[l] => k = l
    BY <1>2, <2>1
  <2> HIDE DEF I, K
  <2>6. f \in Bijection(K, I)
    BY <2>3, <2>4, <2>5 DEF Bijection, Injection, Surjection, IsInjective
  <2>7. ExistsBijection(K, I)
    BY <2>6 DEF ExistsBijection
  <2>8. Cardinality(I) = Cardinality(K)
    BY <2>2, <2>7, FS_Bijection
  <2> QED BY <2>8 DEF I, K
<1> QED BY <1>1, <1>3 DEF SameTasks, new, n

(* A handler that ends leaves the file as the list is. *)
LEMMA StepSaved ==
  ASSUME TypeInv, SavedWhenIdle, [Next]_vars
  PROVE  SavedWhenIdle'
<1>1. ASSUME file' = tasks' PROVE SavedWhenIdle'
  BY <1>1 DEF SavedWhenIdle, SameTasks
<1>2. ASSUME UNCHANGED <<tasks, file>>, job' = "none" => job = "none"
      PROVE  SavedWhenIdle'
  BY <1>2 DEF SavedWhenIdle, Idle
<1>3. CASE FinishRun \/ FinishUndo \/ FinishRedo
  <2>1. file' = tasks'
    BY <1>3 DEF FinishRun, FinishUndo, FinishRedo
  <2> QED BY <1>1, <2>1
<1>4. CASE Restart
  <2>1. /\ tasks' = Renumber(file, now) /\ file' = file
        /\ file \in Seq(Task) /\ now \in Nat
    BY <1>4, NowIsNat DEF Restart, TypeInv, TypeOK
  <2>2. SameTasks(file, Renumber(file, now))
    BY <2>1, RenumberSameTasks
  <2> QED BY <2>1, <2>2 DEF SavedWhenIdle
<1>5. CASE RunPart \/ UndoPart
  <2>1. job' = job /\ job # "none"
    BY <1>5 DEF RunPart, RunAdd, RunRemove, RunEdit, RunClear, RunDone, Running,
                UndoPart, UndoAdd, UndoRemove, UndoEdit, UndoDone, UndoClear,
                UndoClearAdd, UndoClearShow, Undoing, SetDone, Ran, Undid
  <2> QED BY <2>1 DEF SavedWhenIdle, Idle
<1>6. CASE Submit
  <2>1. UNCHANGED <<tasks, file>> /\ job = "none"
    BY <1>6 DEF Submit, SubmitAdd, SubmitRemove, SubmitEdit, SubmitClear, SubmitDone,
                SubmitUndone, SubmitUndo, SubmitRedo, Show, LastIsNoTask, MaySubmit,
                Idle, Run, storageVars
  <2> QED BY <1>2, <2>1
<1>7. CASE NoSuchTask \/ Tick \/ UNCHANGED vars
  <2>1. UNCHANGED <<tasks, file>> /\ (job' = "none" => job = "none")
    BY <1>7 DEF NoSuchTask, Tick, vars, storageVars
  <2> QED BY <1>2, <2>1
<1> QED BY <1>3, <1>4, <1>5, <1>6, <1>7 DEF Next, Handler, Finish

(* Between two handlers the save file holds the tasks there are, each as often,
   whatever was run, undone, redone or cut short, and however often.       *)
THEOREM SavedCorrect == Spec => []SavedWhenIdle
<1>1. Init => SavedWhenIdle
  BY DEF Init, SavedWhenIdle, SameTasks
<1>2. TypeInv /\ SavedWhenIdle /\ [Next]_vars => SavedWhenIdle'
  BY StepSaved
<1> QED BY <1>1, <1>2, AlwaysTypeInv, PTL DEF Spec
=============================================================================
