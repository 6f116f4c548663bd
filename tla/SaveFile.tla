----------------------------- MODULE SaveFile -----------------------------
(***************************************************************************)
(* Storage::saveFile and Storage::loadFile (Storage.cpp): how the list of  *)
(* tasks gets to the disk and back.  A save empties the settings, then     *)
(* writes the tasks one by one and has QSettings synchronise the file      *)
(* after each; the number of tasks is written last of all, by endArray().  *)
(* The program may be killed between any two of these, and the disk may    *)
(* refuse to be written.  A synchronisation by itself is taken to be       *)
(* atomic.                                                                 *)
(*                                                                         *)
(* A task is its name and the time it ends at, in ticks of which           *)
(* TicksPerSecond make a second: the file keeps whole seconds.  Numbers    *)
(* go to IntMax, unsigned ones to twice that and one.                      *)
(***************************************************************************)
EXTENDS Integers, Sequences, SequencesExt

CONSTANTS
  Names, Times,     \* of the tasks
  TicksPerSecond,
  IntMax,           \* the largest int
  MaxTasks          \* bound: the most tasks there are

ASSUME TimesAssumption == Times \subseteq Nat
ASSUME NumbersAssumption == TicksPerSecond \in Nat \ {0} /\ IntMax \in Nat
ASSUME MaxTasksAssumption == MaxTasks \in Nat

VARIABLES
  memory,    \* IStorage::tasks
  settings,  \* the keys QSettings holds
  disk,      \* the keys in the file
  at,        \* the task to write next, 0 when no save is in progress
  running,   \* the program is running
  writable,  \* the file can be written
  saved,     \* history: what was written by the last save that came to its end
  kept       \* history: no save has begun since

vars == <<memory, settings, disk, at, running, writable, saved, kept>>

NoTime == -1
Task == [name : Names, end : Times \cup {NoTime}]
Tasks == SeqOf(Task, MaxTasks)

UIntMax == 2 * IntMax + 1

(* QDateTime::toTime_t; an empty string stands for no time. *)
Written(end) ==
  IF end = NoTime THEN NoTime
  ELSE LET second == end \div TicksPerSecond
       IN  IF second > UIntMax THEN UIntMax ELSE second

(* The value is tested as an unsigned number and used as a signed one, and
   QString::toInt() of a number that does not fit is 0.                    *)
Read(second) ==
  IF second \in {NoTime, 0} THEN NoTime
  ELSE TicksPerSecond * (IF second > IntMax THEN 0 ELSE second)

Stored(t) == [name |-> t.name, end |-> Written(t.end)]
Loaded(t) == [name |-> t.name, end |-> Read(t.end)]
Each(ts, Op(_)) == [i \in 1 .. Len(ts) |-> Op(ts[i])]

(* An array without the key `size' has none of its entries read. *)
NoSize == -1
Empty == [entries |-> <<>>, size |-> NoSize]
Contents(file) ==
  IF file.size = NoSize THEN <<>> ELSE Each(SubSeq(file.entries, 1, file.size), Loaded)

Init ==
  /\ memory = <<>> /\ saved = <<>>
  /\ settings = Empty /\ disk = Empty
  /\ at = 0
  /\ running = TRUE /\ writable \in BOOLEAN
  /\ kept = TRUE

Synchronise(keys) ==
  /\ settings' = keys
  /\ disk' = IF writable THEN keys ELSE disk

(* A command is done, and the save of its outcome begins. *)
BeginSave ==
  /\ running /\ at = 0
  /\ memory' \in Tasks
  /\ settings' = Empty
  /\ at' = 1
  /\ kept' = FALSE
  /\ UNCHANGED <<disk, running, writable, saved>>

(* Wrong on purpose: the last task is written once more. *)
SaveTaskTwice ==
  /\ running /\ at \in 1 .. Len(memory)
  /\ Synchronise([settings EXCEPT !.entries = Append(@, Stored(memory[at]))])
  /\ at' \in {at, at + 1}
  /\ UNCHANGED <<memory, running, writable, saved, kept>>

(* Wrong on purpose: an array that knows how long it is. *)
SaveTaskCounted ==
  /\ running /\ at \in 1 .. Len(memory)
  /\ Synchronise([entries |-> Append(settings.entries, Stored(memory[at])), size |-> at])
  /\ at' = at + 1
  /\ UNCHANGED <<memory, running, writable, saved, kept>>

SaveTask ==
  /\ running /\ at \in 1 .. Len(memory)
  /\ Synchronise([settings EXCEPT !.entries = Append(@, Stored(memory[at]))])
  /\ at' = at + 1
  /\ UNCHANGED <<memory, running, writable, saved, kept>>

(* Wrong on purpose: the last synchronisation is left out. *)
EndSaveUnsynced ==
  /\ running /\ at = Len(memory) + 1
  /\ settings' = [settings EXCEPT !.size = Len(memory)]
  /\ saved' = IF writable THEN memory ELSE saved
  /\ kept' = writable
  /\ at' = 0
  /\ UNCHANGED <<memory, disk, running, writable>>

EndSave ==
  /\ running /\ at = Len(memory) + 1
  /\ Synchronise([settings EXCEPT !.size = Len(memory)])
  /\ saved' = IF writable THEN memory ELSE saved
  /\ kept' = writable
  /\ at' = 0
  /\ UNCHANGED <<memory, running, writable>>

Kill ==
  /\ running
  /\ running' = FALSE
  /\ memory' = <<>> /\ settings' = Empty /\ at' = 0
  /\ UNCHANGED <<disk, writable, saved, kept>>

Start ==
  /\ ~running
  /\ running' = TRUE
  /\ memory' = Contents(disk)
  /\ settings' = disk
  /\ UNCHANGED <<disk, at, writable, saved, kept>>

DiskChanges ==
  /\ writable' = ~writable
  /\ UNCHANGED <<memory, settings, disk, at, running, saved, kept>>

Next == BeginSave \/ SaveTask \/ EndSave \/ Kill \/ Start \/ DiskChanges

Spec == Init /\ [][Next]_vars

-----------------------------------------------------------------------------
(* Every variable has its type; a save is never past the end of the list it
   writes, and of the tasks before the next one each has been written once. *)
TypeOK ==
  /\ \A ts \in {memory, saved} : \A i \in DOMAIN ts : ts[i].name \in Names
  /\ \A keys \in {settings, disk} :
       keys.size = NoSize \/ keys.size = Len(keys.entries)
  /\ at \in 0 .. Len(memory) + 1
  /\ at > 0 => Len(settings.entries) = at - 1
  /\ {running, writable, kept} \subseteq BOOLEAN

(* The times the file keeps: whole seconds after the first one of 1970 that an
   int can count.                                                          *)
Keepable(t) ==
  LET second == t.end \div TicksPerSecond
  IN  \/ t.end = NoTime
      \/ second \in 1 .. IntMax /\ t.end = TicksPerSecond * second

(* Wherever the program was killed, and however often, what it finds when it
   starts is all a save that came to its end has written, or nothing: never
   the first few tasks of a list.                                          *)
AllOrNothing ==
  [][Start => \/ memory' = <<>>
              \/ /\ Len(memory') = Len(saved)
                 /\ \A i \in DOMAIN saved :
                      /\ memory'[i].name = saved[i].name
                      /\ Keepable(saved[i]) => memory'[i] = saved[i]]_vars

(* Killed at any time between a save that wrote the file to its end and the
   beginning of the next, and however often, the program finds every task of
   that save when it starts.                                               *)
KeepsWhatIsSaved == [][Start /\ kept => Len(memory') = Len(saved)]_vars

(* "This function loads the contents of the text file and serializes it into
   the memory": every task that is in the file.                            *)
LoadsTheContents == [][Start => Len(memory') = Len(disk.entries)]_vars
=============================================================================
