---------------------------- MODULE StorageProofs ----------------------------
(***************************************************************************)
(* Proofs about the storage: the save file, however many tasks there are,  *)
(* however wide an int is, and wherever and however often the program is   *)
(* killed; and the next free time and the reminder of the next task, for   *)
(* any list of events in the order of Task::operator<.                     *)
(***************************************************************************)
EXTENDS MCStorage, SequenceTheorems, WellFoundedInduction, TLAPS

(* A task in memory and one in the file: of the times only that they are numbers. *)
Item == [name : Names, end : Int]
File == [entries : Seq(Item), size : Int]

Types ==
  /\ memory \in Seq(Item) /\ saved \in Seq(Item)
  /\ settings \in File /\ disk \in File
  /\ at \in 0 .. Len(memory) + 1
  /\ running \in BOOLEAN /\ writable \in BOOLEAN /\ kept \in BOOLEAN

(* The size is there only when the array is whole. *)
Whole(keys) == keys.size = NoSize \/ keys.size = Len(keys.entries)

Holds(keys, ts) ==
  /\ Len(keys.entries) = Len(ts)
  /\ \A i \in 1 .. Len(ts) : keys.entries[i] = Stored(ts[i])

(* While a save is in progress, the tasks before the next one have been written. *)
Underway ==
  /\ Len(settings.entries) = at - 1 /\ settings.size = NoSize
  /\ \A i \in 1 .. at - 1 : settings.entries[i] = Stored(memory[i])
  /\ running /\ ~kept

(* A file with a size is that of the last save that came to its end; one without
   is the outcome of a save cut short, unless nothing has been saved yet.   *)
SaveInv ==
  /\ Types
  /\ Whole(settings) /\ Whole(disk)
  /\ at > 0 => Underway
  /\ disk.size # NoSize => Holds(disk, saved)
  /\ kept /\ disk.size = NoSize => saved = <<>>

-----------------------------------------------------------------------------
(* A task is stored and loaded as one. *)
LEMMA StoredTyped ==
  ASSUME NEW t \in Item
  PROVE  Stored(t) \in Item /\ Loaded(t) \in Item
<1>1. Written(t.end) \in Int
  <2>1. t.end \in Int BY DEF Item
  <2>2. t.end \div TicksPerSecond \in Int BY <2>1, NumbersAssumption
  <2>3. UIntMax \in Int BY NumbersAssumption DEF UIntMax
  <2> QED BY <2>1, <2>2, <2>3 DEF Written, NoTime
<1>2. Read(t.end) \in Int
  <2>1. t.end \in Int BY DEF Item
  <2>2. TicksPerSecond * (IF t.end > IntMax THEN 0 ELSE t.end) \in Int
    BY <2>1, NumbersAssumption
  <2> QED BY <2>2 DEF Read, NoTime
<1> QED BY <1>1, <1>2 DEF Stored, Loaded, Item

(* Whole seconds that an int can count come back as they were. *)
LEMMA KeepableComesBack ==
  ASSUME NEW t \in Item, Keepable(t)
  PROVE  Loaded(Stored(t)) = t
<1>1. t.end \in Int /\ t = [name |-> t.name, end |-> t.end] BY DEF Item
<1>2. Loaded(Stored(t)) = [name |-> t.name, end |-> Read(Written(t.end))]
  BY DEF Loaded, Stored
<1>3. Read(Written(t.end)) = t.end
  <2>1. CASE t.end = NoTime BY <2>1 DEF Written, Read
  <2>2. CASE t.end # NoTime
    <3> DEFINE second == t.end \div TicksPerSecond
    <3>1. second \in 1 .. IntMax /\ t.end = TicksPerSecond * second
      BY <2>2 DEF Keepable
    <3>2. IntMax \in Nat /\ UIntMax = 2 * IntMax + 1
      BY NumbersAssumption DEF UIntMax
    <3>3. Written(t.end) = second
      <4> HIDE DEF second
      <4>1. second <= UIntMax BY <3>1, <3>2
      <4>2. ~(second > UIntMax) BY <3>1, <3>2, <4>1
      <4>3. Written(t.end) = IF second > UIntMax THEN UIntMax ELSE second
        BY <2>2 DEF Written, second
      <4> QED BY <4>2, <4>3
    <3>4. Read(second) = TicksPerSecond * second
      <4> HIDE DEF second
      <4> QED BY <3>1, <3>2 DEF Read, NoTime
    <3> QED BY <3>1, <3>3, <3>4
  <2> QED BY <2>1, <2>2
<1> QED BY <1>1, <1>2, <1>3

(* What is read of a file: nothing, or each entry of it. *)
LEMMA ContentsOfFile ==
  ASSUME NEW file \in File, Whole(file)
  PROVE  /\ Contents(file) \in Seq(Item)
         /\ file.size = NoSize => Contents(file) = <<>>
         /\ file.size # NoSize =>
              /\ Len(Contents(file)) = Len(file.entries)
              /\ \A i \in 1 .. Len(file.entries) :
                   Contents(file)[i] = Loaded(file.entries[i])
<1>1. CASE file.size = NoSize BY <1>1, EmptySeq DEF Contents
<1>2. CASE file.size # NoSize
  <2> DEFINE entries == file.entries
             loaded == [i \in 1 .. Len(entries) |-> Loaded(entries[i])]
  <2>1. entries \in Seq(Item) /\ file.size = Len(entries) BY <1>2 DEF File, Whole
  <2>2. SubSeq(entries, 1, Len(entries)) = entries BY <2>1, SubSeqFull
  <2>3. Contents(file) = loaded BY <1>2, <2>1, <2>2 DEF Contents, Each
  <2>4. \A i \in 1 .. Len(entries) : Loaded(entries[i]) \in Item
    BY <2>1, LenProperties, StoredTyped
  <2>5. Len(entries) \in Nat BY <2>1, LenProperties
  <2>6. loaded \in Seq(Item) BY <2>4, <2>5, IsASeq
  <2>7. Len(loaded) = Len(entries)
    <3>1. DOMAIN loaded = 1 .. Len(entries) OBVIOUS
    <3>2. DOMAIN loaded = 1 .. Len(loaded) BY <2>6, LenProperties
    <3>3. Len(loaded) \in Nat BY <2>6, LenProperties
    <3> HIDE DEF loaded
    <3> QED BY <2>5, <3>1, <3>2, <3>3
  <2> QED BY <1>2, <2>3, <2>6, <2>7
<1> QED BY <1>1, <1>2

-----------------------------------------------------------------------------
LEMMA InitSave == Init => SaveInv
<1> SUFFICES ASSUME Init PROVE SaveInv
  OBVIOUS
<1>1. <<>> \in Seq(Item) /\ Len(<<>>) = 0 BY EmptySeq
<1>2. Empty \in File /\ Empty.size = NoSize /\ Empty.entries = <<>>
  BY <1>1 DEF Empty, File, NoSize
<1> QED BY <1>1, <1>2 DEF Init, SaveInv, Types, Whole

LEMMA BeginSaveKeeps ==
  ASSUME SaveInv, BeginSave
  PROVE  SaveInv'
<1>1. memory' \in Seq(Item)
  <2>1. \A t \in Task : t \in Item
    <3>1. Times \cup {NoTime} \subseteq Int BY TimesAssumption DEF NoTime
    <3> QED BY <3>1 DEF Task, Item
  <2>2. PICK m \in 0 .. MaxTasks : memory' \in [1 .. m -> Task]
    BY DEF BeginSave, Tasks, SeqOf
  <2>3. m \in Nat BY MaxTasksAssumption
  <2>4. memory' \in [1 .. m -> Item] BY <2>1, <2>2
  <2> QED BY <2>3, <2>4
<1>2. <<>> \in Seq(Item) /\ Len(<<>>) = 0 BY EmptySeq
<1>3. settings' \in File /\ settings'.size = NoSize /\ settings'.entries = <<>>
  BY <1>2 DEF BeginSave, Empty, File, NoSize
<1>4. Len(memory') \in Nat BY <1>1, LenProperties
<1>5. at' = 1 /\ ~kept' /\ running' BY DEF BeginSave
<1>6. Types'
  <2>1. at' \in 0 .. Len(memory') + 1 BY <1>4, <1>5
  <2>2. disk' \in File /\ saved' \in Seq(Item) BY DEF BeginSave, SaveInv, Types
  <2>3. running' \in BOOLEAN /\ writable' \in BOOLEAN /\ kept' \in BOOLEAN
    BY DEF BeginSave, SaveInv, Types
  <2> QED BY <1>1, <1>3, <2>1, <2>2, <2>3 DEF Types
<1>7. Underway' BY <1>2, <1>3, <1>5 DEF Underway
<1>8. Whole(settings)' /\ Whole(disk)' BY <1>3 DEF BeginSave, SaveInv, Whole
<1>9. disk'.size # NoSize => Holds(disk, saved)' BY DEF BeginSave, SaveInv, Holds
<1> QED BY <1>5, <1>6, <1>7, <1>8, <1>9 DEF SaveInv

LEMMA SaveTaskKeeps ==
  ASSUME SaveInv, SaveTask
  PROVE  SaveInv'
<1> DEFINE t == Stored(memory[at])
<1>1. /\ at \in 1 .. Len(memory) /\ Underway /\ settings.size = NoSize
      /\ memory \in Seq(Item) /\ settings \in File /\ disk \in File
  BY DEF SaveTask, SaveInv, Types, Underway
<1>2. memory[at] \in Item BY <1>1, LenProperties
<1>3. t \in Item BY <1>2, StoredTyped
<1>4. settings.entries \in Seq(Item) /\ Len(settings.entries) = at - 1
  BY <1>1 DEF File, Underway
<1>5. settings' = [settings EXCEPT !.entries = Append(@, t)]
  BY DEF SaveTask, Synchronise
<1>6. /\ settings'.entries = Append(settings.entries, t)
      /\ settings'.size = NoSize
  BY <1>1, <1>5 DEF File
<1> HIDE DEF t
<1>7. /\ Append(settings.entries, t) \in Seq(Item)
      /\ Len(Append(settings.entries, t)) = at
      /\ Append(settings.entries, t)[at] = t
      /\ \A i \in 1 .. at - 1 : Append(settings.entries, t)[i] = settings.entries[i]
  BY <1>1, <1>3, <1>4, AppendProperties
<1>8. settings' \in File BY <1>1, <1>5, <1>6, <1>7 DEF File
<1>9. UNCHANGED <<memory, running, writable, saved, kept>> /\ at' = at + 1 /\ running
  BY DEF SaveTask
<1>10. disk' = settings' \/ disk' = disk
  BY DEF SaveTask, Synchronise
<1>11. Len(memory) \in Nat BY <1>1, LenProperties
<1>12. Types' BY <1>1, <1>8, <1>9, <1>10, <1>11 DEF SaveInv, Types
<1>13. Underway'
  <2>1. \A i \in 1 .. at : settings'.entries[i] = Stored(memory[i])
    <3> TAKE i \in 1 .. at
    <3>1. CASE i = at BY <1>6, <1>7, <3>1 DEF t
    <3>2. CASE i # at
      <4>1. i \in 1 .. at - 1 BY <1>1, <1>11, <3>2
      <4> QED BY <1>1, <1>6, <1>7, <4>1 DEF Underway
    <3> QED BY <3>1, <3>2
  <2>2. at' - 1 = at BY <1>1, <1>9, <1>11
  <2>3. Len(settings'.entries) = at BY <1>6, <1>7
  <2> QED BY <1>1, <1>6, <1>9, <2>1, <2>2, <2>3 DEF Underway
<1>14. Whole(settings)' /\ Whole(disk)' BY <1>6, <1>10 DEF SaveInv, Whole
<1>15. disk'.size # NoSize => Holds(disk, saved)'
  BY <1>6, <1>9, <1>10 DEF SaveInv, Holds
<1>16. ~kept' BY <1>1, <1>9 DEF Underway
<1> QED BY <1>12, <1>13, <1>14, <1>15, <1>16 DEF SaveInv

(* Every task has been written: what is put on the disk is the list. *)
LEMMA EndSaveKeeps ==
  ASSUME SaveInv, EndSave
  PROVE  SaveInv'
<1>1. /\ at = Len(memory) + 1 /\ at' = 0
      /\ memory \in Seq(Item) /\ settings \in File /\ disk \in File
      /\ UNCHANGED <<memory, running, writable>> /\ kept' = writable
      /\ writable \in BOOLEAN /\ saved \in Seq(Item) /\ running \in BOOLEAN
  BY DEF EndSave, SaveInv, Types
<1>2. Len(memory) \in Nat BY <1>1, LenProperties
<1>3. Underway BY <1>1, <1>2 DEF SaveInv
<1>4. settings' = [settings EXCEPT !.size = Len(memory)]
  BY DEF EndSave, Synchronise
<1>5. settings'.entries = settings.entries /\ settings'.size = Len(memory)
  BY <1>1, <1>4 DEF File
<1>6. settings' \in File BY <1>1, <1>2, <1>4 DEF File
<1>7. at - 1 = Len(memory) BY <1>1, <1>2
<1>8. Holds(settings', memory) BY <1>3, <1>5, <1>7 DEF Underway, Holds
<1>9. Whole(settings') BY <1>5, <1>8 DEF Whole, Holds
<1>10. settings'.size # NoSize BY <1>2, <1>5 DEF NoSize
<1>11. CASE writable
  <2>1. disk' = settings' /\ saved' = memory BY <1>11 DEF EndSave, Synchronise
  <2> QED BY <1>1, <1>2, <1>6, <1>8, <1>9, <1>10, <2>1 DEF SaveInv, Types, Whole, Holds
<1>12. CASE ~writable
  <2>1. disk' = disk /\ saved' = saved BY <1>12 DEF EndSave, Synchronise
  <2>2. ~kept' BY <1>1, <1>12
  <2> QED BY <1>1, <1>2, <1>6, <1>9, <2>1, <2>2 DEF SaveInv, Types, Whole, Holds
<1> QED BY <1>1, <1>11, <1>12

LEMMA KillKeeps ==
  ASSUME SaveInv, Kill
  PROVE  SaveInv'
<1>1. <<>> \in Seq(Item) /\ Len(<<>>) = 0 BY EmptySeq
<1>2. Empty \in File /\ Whole(Empty) BY <1>1 DEF Empty, File, NoSize, Whole
<1>3. at' = 0 /\ memory' = <<>> /\ settings' = Empty /\ running' = FALSE
  BY DEF Kill
<1>4. UNCHANGED <<disk, writable, saved, kept>> BY DEF Kill
<1>5. Types'
  <2>1. Len(memory') = 0 BY <1>1, <1>3
  <2>2. at' \in 0 .. Len(memory') + 1 BY <1>3, <2>1
  <2> QED BY <1>1, <1>2, <1>3, <1>4, <2>2 DEF SaveInv, Types
<1> QED BY <1>2, <1>3, <1>4, <1>5 DEF SaveInv, Whole, Holds

LEMMA StartKeeps ==
  ASSUME SaveInv, Start
  PROVE  SaveInv'
<1>1. ~running /\ at = 0
  BY DEF Start, SaveInv, Types, Underway
<1>2. memory' \in Seq(Item) BY ContentsOfFile DEF Start, SaveInv, Types
<1>3. Len(memory') \in Nat BY <1>2, LenProperties
<1>4. settings' = disk /\ running' = TRUE /\ UNCHANGED <<disk, at, writable, saved, kept>>
  BY DEF Start
<1>5. Types' BY <1>1, <1>2, <1>3, <1>4 DEF SaveInv, Types
<1> QED BY <1>1, <1>4, <1>5 DEF SaveInv, Whole, Holds

LEMMA StepSave == SaveInv /\ [Next]_vars => SaveInv'
<1> SUFFICES ASSUME SaveInv, [Next]_vars PROVE SaveInv'
  OBVIOUS
<1>1. CASE DiskChanges
  BY <1>1 DEF DiskChanges, SaveInv, Types, Whole, Holds, Underway
<1>2. CASE UNCHANGED vars
  BY <1>2 DEF vars, SaveInv, Types, Whole, Holds, Underway
<1> QED BY <1>1, <1>2, BeginSaveKeeps, SaveTaskKeeps, EndSaveKeeps, KillKeeps, StartKeeps
  DEF Next

LEMMA Saves == Spec => []SaveInv
  BY InitSave, StepSave, PTL DEF Spec

-----------------------------------------------------------------------------
(* Every variable keeps its type, and a save writes each task once. *)
THEOREM SaveTyped == Spec => []TypeOK
<1>1. SaveInv => TypeOK
  <2> SUFFICES ASSUME SaveInv PROVE TypeOK
    OBVIOUS
  <2>1. \A ts \in {memory, saved} : \A i \in DOMAIN ts : ts[i].name \in Names
    <3> TAKE ts \in {memory, saved}
    <3>1. ts \in Seq(Item) BY DEF SaveInv, Types
    <3> TAKE i \in DOMAIN ts
    <3>2. ts[i] \in Item BY <3>1, LenProperties
    <3> QED BY <3>2 DEF Item
  <2> QED BY <2>1 DEF SaveInv, Types, Whole, Underway, TypeOK
<1> QED BY <1>1, Saves, PTL

(* Wherever the program is killed, it finds all of the last save that came to its
   end when it starts, or nothing.                                          *)
THEOREM AllOrNothingCorrect == Spec => AllOrNothing
<1>1. ASSUME SaveInv, Start
      PROVE  \/ memory' = <<>>
             \/ /\ Len(memory') = Len(saved)
                /\ \A i \in DOMAIN saved :
                     /\ memory'[i].name = saved[i].name
                     /\ Keepable(saved[i]) => memory'[i] = saved[i]
  <2>1. disk \in File /\ Whole(disk) /\ saved \in Seq(Item) /\ memory' = Contents(disk)
    BY <1>1 DEF SaveInv, Types, Start
  <2>2. CASE disk.size = NoSize BY <2>1, <2>2, ContentsOfFile
  <2>3. CASE disk.size # NoSize
    <3>1. Len(memory') = Len(saved) BY <1>1, <2>1, <2>3, ContentsOfFile DEF SaveInv, Holds
    <3>2. ASSUME NEW i \in DOMAIN saved
          PROVE  /\ memory'[i].name = saved[i].name
                 /\ Keepable(saved[i]) => memory'[i] = saved[i]
      <4>1. i \in 1 .. Len(saved) /\ saved[i] \in Item BY <2>1, LenProperties
      <4>2. memory'[i] = Loaded(Stored(saved[i]))
        BY <1>1, <2>1, <2>3, <4>1, ContentsOfFile DEF SaveInv, Holds
      <4>3. Loaded(Stored(saved[i])).name = saved[i].name BY DEF Loaded, Stored
      <4> QED BY <4>1, <4>2, <4>3, KeepableComesBack
    <3> QED BY <3>1, <3>2
  <2> QED BY <2>2, <2>3
<1>2. SaveInv /\ [Next]_vars =>
        [Start => \/ memory' = <<>>
                  \/ /\ Len(memory') = Len(saved)
                     /\ \A i \in DOMAIN saved :
                          /\ memory'[i].name = saved[i].name
                          /\ Keepable(saved[i]) => memory'[i] = saved[i]]_vars
  BY <1>1
<1> QED BY <1>2, Saves, PTL DEF Spec, AllOrNothing

(* Killed between a save that wrote the file to its end and the next, it finds
   every task.                                                              *)
THEOREM KeepsCorrect == Spec => KeepsWhatIsSaved
<1>1. ASSUME SaveInv, Start, kept
      PROVE  Len(memory') = Len(saved)
  <2>1. disk \in File /\ Whole(disk) /\ memory' = Contents(disk)
    BY <1>1 DEF SaveInv, Types, Start
  <2>2. CASE disk.size = NoSize
    BY <1>1, <2>1, <2>2, ContentsOfFile DEF SaveInv
  <2>3. CASE disk.size # NoSize
    BY <1>1, <2>1, <2>3, ContentsOfFile DEF SaveInv, Holds
  <2> QED BY <2>2, <2>3
<1>2. SaveInv /\ [Next]_vars => [Start /\ kept => Len(memory') = Len(saved)]_vars
  BY <1>1
<1> QED BY <1>2, Saves, PTL DEF Spec, KeepsWhatIsSaved

-----------------------------------------------------------------------------
(* The next free time, and the reminder. *)

(* A set of numbers that is not empty has a smallest one. *)
LEMMA HasSmallest ==
  ASSUME NEW S \in SUBSET Nat, S # {}
  PROVE  \E m \in S : \A k \in S : m <= k
<1> DEFINE Less == OpToRel(<, Nat)
<1>1. IsWellFoundedOn(Less, Nat) BY NatLessThanWellFounded DEF OpToRel
<1>2. \A i, j \in Nat : i < j => <<i, j>> \in Less BY DEF OpToRel
<1> HIDE DEF Less
<1>3. PICK m \in S : \A k \in S : ~(<<k, m>> \in Less) BY <1>1, WFMin
<1>4. \A k \in S : ~(k < m) BY <1>2, <1>3
<1> QED BY <1>4

(* That is what Min picks. *)
LEMMA MinIsSmallest ==
  ASSUME NEW S \in SUBSET Nat, S # {}
  PROVE  Min(S) \in S /\ \A k \in S : Min(S) <= k
<1>1. \E m \in S : \A k \in S : m <= k BY HasSmallest
<1> QED BY <1>1 DEF Min

-----------------------------------------------------------------------------
(* The list of events. *)
FreeInv == tasks \in Seq(Event) /\ Ordered(tasks) /\ now \in 0 .. MaxTime

LEMMA EventFields ==
  ASSUME NEW e \in Event
  PROVE  /\ e.begin \in 0 .. MaxTime /\ e.end \in 0 .. MaxTime /\ e.done \in BOOLEAN
         /\ e.begin <= e.end
         /\ e.begin \in Nat /\ e.end \in Nat
         /\ [e EXCEPT !.done = ~@] \in Event
<1>1. e \in [begin : 0 .. MaxTime, end : 0 .. MaxTime, done : BOOLEAN] /\ e.begin <= e.end
  BY DEF Event
<1>2. \A d \in BOOLEAN : [e EXCEPT !.done = d] \in Event BY <1>1 DEF Event
<1>3. (~e.done) \in BOOLEAN OBVIOUS
<1>4. [e EXCEPT !.done = ~@] = [e EXCEPT !.done = ~e.done] OBVIOUS
<1>5. [e EXCEPT !.done = ~@] \in Event BY <1>2, <1>3, <1>4
<1>6. \A i \in 0 .. MaxTime : i \in Nat BY BoundsAssumption
<1> QED BY <1>1, <1>5, <1>6

LEMMA InsertedTyped ==
  ASSUME NEW S, NEW s \in Seq(S), NEW i \in 1 .. Len(s) + 1, NEW x \in S
  PROVE  InsertAt(s, i, x) \in Seq(S)
  BY DEF InsertAt

(* A list one shorter is the same before the gap, and moved up after it. *)
LEMMA RemovedTyped ==
  ASSUME NEW S, NEW s \in Seq(S), NEW i \in 1 .. Len(s)
  PROVE  /\ RemoveAt(s, i) \in Seq(S) /\ Len(RemoveAt(s, i)) = Len(s) - 1
         /\ \A k \in 1 .. Len(s) - 1 : RemoveAt(s, i)[k] = IF k < i THEN s[k] ELSE s[k + 1]
<1>1. Len(s) \in Nat /\ DOMAIN s = 1 .. Len(s) BY LenProperties
<1> DEFINE n == Len(s)
           low == SubSeq(s, 1, i - 1)
           high == SubSeq(s, i + 1, n)
           u == RemoveAt(s, i)
<1>2. /\ low \in Seq(S) /\ Len(low) = i - 1
      /\ \A k \in 1 .. i - 1 : low[k] = s[k]
  BY <1>1
<1>3. /\ high \in Seq(S) /\ Len(high) = n - i
      /\ \A k \in 1 .. n - i : high[k] = s[i + k]
  <2>1. \A k \in i + 1 .. n : s[k] \in S BY <1>1
  <2>2. /\ high \in Seq(S) /\ Len(high) = IF i + 1 <= n THEN n - (i + 1) + 1 ELSE 0
        /\ \A k \in 1 .. n - (i + 1) + 1 : high[k] = s[i + 1 + k - 1]
    BY <1>1, <2>1, SubSeqProperties
  <2>3. n - (i + 1) + 1 = n - i /\ \A k \in 1 .. n - i : i + 1 + k - 1 = i + k BY <1>1
  <2>4. Len(high) = n - i
    <3>1. n \in Nat /\ i \in 1 .. n BY <1>1
    <3> HIDE DEF high, n
    <3>2. CASE i + 1 <= n BY <2>2, <3>1, <3>2
    <3>3. CASE ~(i + 1 <= n) BY <2>2, <3>1, <3>3
    <3> QED BY <3>2, <3>3
  <2> HIDE DEF high, n
  <2> QED BY <2>2, <2>3, <2>4
<1>4. u = low \o high BY DEF RemoveAt
<1> HIDE DEF low, high, u
<1>5. /\ u \in Seq(S) /\ Len(u) = Len(low) + Len(high)
      /\ \A k \in 1 .. Len(low) + Len(high) :
           u[k] = IF k <= Len(low) THEN low[k] ELSE high[k - Len(low)]
  BY <1>2, <1>3, <1>4, ConcatProperties
<1>6. ASSUME NEW k \in 1 .. n - 1 PROVE u[k] = IF k < i THEN s[k] ELSE s[k + 1]
  <2>1. u[k] = IF k <= i - 1 THEN low[k] ELSE high[k - (i - 1)]
    <3>1. k \in 1 .. Len(low) + Len(high) BY <1>1, <1>2, <1>3
    <3> QED BY <1>2, <1>5, <3>1
  <2>2. CASE k < i BY <1>1, <1>2, <2>1, <2>2
  <2>3. CASE ~(k < i)
    <3>1. k - (i - 1) \in 1 .. n - i /\ i + (k - (i - 1)) = k + 1 BY <1>1, <2>3
    <3>2. high[k - (i - 1)] = s[k + 1] BY <1>3, <3>1
    <3> QED BY <1>1, <2>1, <2>3, <3>2
  <2> QED BY <2>2, <2>3
<1> QED BY <1>1, <1>2, <1>3, <1>5, <1>6 DEF u

LEMMA ChangeKeeps == FreeInv /\ ChangeTasks => FreeInv' /\ UNCHANGED now
<1> SUFFICES ASSUME FreeInv, ChangeTasks PROVE FreeInv' /\ UNCHANGED now
  OBVIOUS
<1>1. tasks \in Seq(Event) /\ DOMAIN tasks = 1 .. Len(tasks) /\ Len(tasks) \in Nat
  BY LenProperties DEF FreeInv
<1>2. CASE AddTask
  <2>1. PICK e \in Event, i \in 1 .. Len(tasks) + 1 : tasks' = InsertAt(tasks, i, e)
    BY <1>2 DEF AddTask
  <2>2. tasks' \in Seq(Event) BY <1>1, <2>1, InsertedTyped
  <2> QED BY <1>2, <2>2 DEF AddTask, FreeInv
<1>3. CASE RemoveTask
  <2>1. PICK i \in 1 .. Len(tasks) : tasks' = RemoveAt(tasks, i) BY <1>1, <1>3 DEF RemoveTask
  <2>2. /\ tasks' \in Seq(Event) /\ Len(tasks') = Len(tasks) - 1
        /\ \A k \in 1 .. Len(tasks) - 1 : tasks'[k] = IF k < i THEN tasks[k] ELSE tasks[k + 1]
    BY <1>1, <2>1, RemovedTyped
  <2>3. Ordered(tasks')
    <3> SUFFICES ASSUME NEW j \in DOMAIN tasks', NEW k \in DOMAIN tasks', j < k
                 PROVE  Before(tasks'[j], tasks'[k])
      BY DEF Ordered
    <3>1. j \in 1 .. Len(tasks) - 1 /\ k \in 1 .. Len(tasks) - 1 BY <1>1, <2>2, LenProperties
    <3> DEFINE a == IF j < i THEN j ELSE j + 1
               b == IF k < i THEN k ELSE k + 1
    <3>2. a \in DOMAIN tasks /\ b \in DOMAIN tasks /\ a < b BY <1>1, <3>1
    <3>3. tasks'[j] = tasks[a] /\ tasks'[k] = tasks[b] BY <2>2, <3>1
    <3> HIDE DEF a, b
    <3> QED BY <3>2, <3>3 DEF FreeInv, Ordered
  <2> QED BY <1>3, <2>2, <2>3 DEF RemoveTask, FreeInv
<1>4. CASE Mark
  <2>1. PICK i \in 1 .. Len(tasks), j \in 1 .. Len(tasks) :
          tasks' = InsertAt(RemoveAt(tasks, i), j, [tasks[i] EXCEPT !.done = ~@])
    BY <1>1, <1>4 DEF Mark
  <2>2. RemoveAt(tasks, i) \in Seq(Event) /\ Len(RemoveAt(tasks, i)) = Len(tasks) - 1
    BY <1>1, RemovedTyped
  <2>3. [tasks[i] EXCEPT !.done = ~@] \in Event BY <1>1, EventFields
  <2>4. j \in 1 .. Len(RemoveAt(tasks, i)) + 1 BY <1>1, <2>2
  <2>5. tasks' \in Seq(Event) BY <2>1, <2>2, <2>3, <2>4, InsertedTyped
  <2> QED BY <1>4, <2>5 DEF Mark, FreeInv
<1> QED BY <1>2, <1>3, <1>4 DEF ChangeTasks

-----------------------------------------------------------------------------
(* nextFreeTime(), event by event.  A stage says so far until when the user is
   busy, and whether the loop has been left.                               *)
Stage == [until : 0 .. MaxTime, left : BOOLEAN]

AtFirst == [until |-> now, left |-> FALSE]

LEMMA PassTyped ==
  ASSUME NEW so \in Stage, NEW e \in Event
  PROVE  /\ Pass(so, e) \in Stage
         /\ so.left \/ e.end < now => Pass(so, e) = so
         /\ ~so.left /\ ~(e.end < now) /\ e.begin <= so.until =>
              Pass(so, e).until = e.end /\ Pass(so, e).left = FALSE
         /\ ~so.left /\ ~(e.end < now) /\ ~(e.begin <= so.until) =>
              Pass(so, e).until = so.until /\ Pass(so, e).left = TRUE
<1>1. e.begin \in 0 .. MaxTime /\ e.end \in 0 .. MaxTime BY EventFields
<1>2. so.left \in BOOLEAN /\ so.until \in 0 .. MaxTime BY DEF Stage
<1>3. CASE so.left \/ e.end < now
  <2>1. Pass(so, e) = so BY <1>3 DEF Pass, IsOverdue
  <2> QED BY <1>3, <2>1
<1>4. CASE ~so.left /\ ~(e.end < now) /\ e.begin <= so.until
  <2>1. ~(e.begin > so.until) BY <1>1, <1>2, <1>4, BoundsAssumption
  <2>2. Pass(so, e) = [so EXCEPT !.until = e.end] BY <1>4, <2>1 DEF Pass, IsOverdue
  <2> QED BY <1>1, <1>2, <1>4, <2>2 DEF Stage
<1>5. CASE ~so.left /\ ~(e.end < now) /\ ~(e.begin <= so.until)
  <2>1. e.begin > so.until BY <1>1, <1>2, <1>5, BoundsAssumption
  <2>2. Pass(so, e) = [so EXCEPT !.left = TRUE] BY <1>5, <2>1 DEF Pass, IsOverdue
  <2> QED BY <1>1, <1>2, <1>5, <2>2 DEF Stage
<1> QED BY <1>3, <1>4, <1>5

(* The stages are there, one after each event. *)
Follows(f, m) == f[0] = AtFirst /\ \A i \in 1 .. m : f[i] = Pass(f[i - 1], tasks[i])

LEMMA PassedStages ==
  ASSUME FreeInv
  PROVE  Passed \in [0 .. Len(tasks) -> Stage] /\ Follows(Passed, Len(tasks))
<1> DEFINE n == Len(tasks)
           Bad == {m \in 0 .. n : \A f \in [0 .. m -> Stage] : ~Follows(f, m)}
<1>1. n \in Nat /\ DOMAIN tasks = 1 .. n /\ \A i \in 1 .. n : tasks[i] \in Event
  BY LenProperties DEF FreeInv
<1>2. AtFirst \in Stage BY DEF FreeInv, AtFirst, Stage
<1> HIDE DEF n
<1>3. Bad = {}
  <2> SUFFICES ASSUME Bad # {} PROVE FALSE
    OBVIOUS
  <2>1. Bad \in SUBSET Nat BY <1>1
  <2> HIDE DEF Bad
  <2>2. PICK m \in Bad : \A k \in Bad : m <= k BY <2>1, HasSmallest
  <2>3. m \in 0 .. n /\ \A f \in [0 .. m -> Stage] : ~Follows(f, m) BY <2>2 DEF Bad
  <2>4. CASE m = 0
    <3> DEFINE g == [i \in 0 .. 0 |-> AtFirst]
    <3>1. g \in [0 .. 0 -> Stage] /\ g[0] = AtFirst BY <1>2
    <3> HIDE DEF g
    <3>2. Follows(g, 0) BY <3>1 DEF Follows
    <3> QED BY <2>3, <2>4, <3>1, <3>2
  <2>5. CASE m # 0
    <3>1. m - 1 \in 0 .. n /\ ~(m <= m - 1) BY <1>1, <2>3, <2>5
    <3>2. m - 1 \notin Bad BY <2>2, <3>1
    <3>3. PICK f \in [0 .. m - 1 -> Stage] : Follows(f, m - 1) BY <3>1, <3>2 DEF Bad
    <3> DEFINE g == [i \in 0 .. m |-> IF i = m THEN Pass(f[m - 1], tasks[m]) ELSE f[i]]
    <3>4. Pass(f[m - 1], tasks[m]) \in Stage
      <4>1. f[m - 1] \in Stage /\ tasks[m] \in Event BY <1>1, <2>3, <2>5
      <4> QED BY <4>1, PassTyped
    <3>5. g \in [0 .. m -> Stage] BY <1>1, <2>3, <3>4
    <3>6. g[0] = AtFirst BY <1>1, <2>3, <2>5, <3>3 DEF Follows
    <3>7. ASSUME NEW i \in 1 .. m PROVE g[i] = Pass(g[i - 1], tasks[i])
      <4>1. CASE i = m
        <5>1. g[m] = Pass(f[m - 1], tasks[m]) BY <1>1, <2>3
        <5>2. g[m - 1] = f[m - 1] BY <1>1, <2>3, <2>5
        <5> QED BY <4>1, <5>1, <5>2
      <4>2. CASE i # m
        <5>1. g[i] = f[i] /\ g[i - 1] = f[i - 1] BY <1>1, <2>3, <4>2
        <5>2. i \in 1 .. m - 1 BY <1>1, <2>3, <4>2
        <5>3. f[i] = Pass(f[i - 1], tasks[i]) BY <3>3, <5>2 DEF Follows
        <5> QED BY <5>1, <5>3
      <4> QED BY <4>1, <4>2
    <3> HIDE DEF g
    <3>8. Follows(g, m) BY <3>6, <3>7 DEF Follows
    <3> QED BY <2>3, <3>5, <3>8
  <2> QED BY <2>4, <2>5
<1>4. n \in 0 .. n BY <1>1
<1>5. PICK f \in [0 .. n -> Stage] : Follows(f, n) BY <1>3, <1>4
<1> DEFINE Is(g) == g = [m \in 0 .. Len(tasks) |->
                          IF m = 0 THEN [until |-> now, left |-> FALSE]
                                   ELSE Pass(g[m - 1], tasks[m])]
           h == CHOOSE g : Is(g)
<1>6. Passed = h BY DEF Passed
<1>7. Is(f)
  <2>1. \A m \in 0 .. n : f[m] = IF m = 0 THEN [until |-> now, left |-> FALSE]
                                         ELSE Pass(f[m - 1], tasks[m])
    <3>1. \A m \in 0 .. n : m = 0 \/ m \in 1 .. n BY <1>1
    <3> QED BY <1>5, <3>1 DEF Follows, AtFirst
  <2> QED BY <1>1, <2>1 DEF n
<1>8. Is(h) BY <1>7
<1>9. h = [m \in 0 .. n |-> IF m = 0 THEN AtFirst ELSE Pass(h[m - 1], tasks[m])]
  BY <1>8 DEF n, AtFirst
<1> HIDE DEF h
<1> DEFINE Other == {i \in 0 .. n : h[i] # f[i]}
<1>10. Other = {}
  <2> SUFFICES ASSUME Other # {} PROVE FALSE
    OBVIOUS
  <2>1. Other \in SUBSET Nat BY <1>1
  <2> HIDE DEF Other
  <2>2. PICK m \in Other : \A k \in Other : m <= k BY <2>1, HasSmallest
  <2>3. m \in 0 .. n /\ h[m] # f[m] BY <2>2 DEF Other
  <2>4. h[m] = IF m = 0 THEN AtFirst ELSE Pass(h[m - 1], tasks[m]) BY <1>9, <2>3
  <2>5. m # 0 BY <1>5, <2>3, <2>4 DEF Follows
  <2>6. m - 1 \in 0 .. n /\ ~(m <= m - 1) BY <1>1, <2>3, <2>5
  <2>7. m - 1 \notin Other BY <2>2, <2>6
  <2>8. h[m - 1] = f[m - 1] BY <2>6, <2>7 DEF Other
  <2>9. m \in 1 .. n BY <1>1, <2>3, <2>5
  <2>10. f[m] = Pass(f[m - 1], tasks[m]) BY <1>5, <2>9 DEF Follows
  <2> QED BY <2>3, <2>4, <2>5, <2>8, <2>10
<1>11. h = f
  <2>1. \A i \in 0 .. n : h[i] = f[i] BY <1>10
  <2>2. DOMAIN h = 0 .. n /\ h = [i \in DOMAIN h |-> h[i]] BY <1>9
  <2> QED BY <2>1, <2>2
<1> QED BY <1>5, <1>6, <1>11 DEF n

(* So it starts from now, and what it makes of one event is a pass over it. *)
LEMMA StageByStage ==
  ASSUME FreeInv
  PROVE  /\ Len(tasks) \in Nat /\ DOMAIN tasks = 1 .. Len(tasks)
         /\ Passed[0].until = now /\ Passed[0].left = FALSE
         /\ \A m \in 0 .. Len(tasks) :
              /\ Passed[m].until \in 0 .. MaxTime /\ Passed[m].until \in Nat
              /\ Passed[m].left \in BOOLEAN
         /\ \A m \in 1 .. Len(tasks) :
              /\ tasks[m].begin \in Nat /\ tasks[m].end \in Nat
              /\ tasks[m].begin <= tasks[m].end
              /\ Passed[m - 1].left \/ tasks[m].end < now => Passed[m] = Passed[m - 1]
              /\ ~Passed[m - 1].left /\ tasks[m].end >= now
                   /\ tasks[m].begin <= Passed[m - 1].until =>
                     Passed[m].until = tasks[m].end /\ Passed[m].left = FALSE
              /\ ~Passed[m - 1].left /\ tasks[m].end >= now
                   /\ tasks[m].begin > Passed[m - 1].until =>
                     Passed[m].until = Passed[m - 1].until /\ Passed[m].left = TRUE
<1> DEFINE n == Len(tasks)
<1>1. n \in Nat /\ DOMAIN tasks = 1 .. n /\ tasks \in Seq(Event) BY LenProperties DEF FreeInv
<1>2. Passed \in [0 .. n -> Stage] /\ Follows(Passed, n) BY PassedStages
<1>3. now \in Nat /\ MaxTime \in Nat BY BoundsAssumption DEF FreeInv
<1>4. Passed[0].until = now /\ Passed[0].left = FALSE BY <1>2 DEF Follows, AtFirst
<1>5. ASSUME NEW m \in 0 .. n
      PROVE  /\ Passed[m].until \in 0 .. MaxTime /\ Passed[m].until \in Nat
             /\ Passed[m].left \in BOOLEAN
  <2>1. Passed[m].until \in 0 .. MaxTime /\ Passed[m].left \in BOOLEAN BY <1>2 DEF Stage
  <2> QED BY <1>3, <2>1
<1>6. ASSUME NEW m \in 1 .. n
      PROVE  /\ tasks[m].begin \in Nat /\ tasks[m].end \in Nat
             /\ tasks[m].begin <= tasks[m].end
             /\ Passed[m - 1].left \/ tasks[m].end < now => Passed[m] = Passed[m - 1]
             /\ ~Passed[m - 1].left /\ tasks[m].end >= now
                  /\ tasks[m].begin <= Passed[m - 1].until =>
                    Passed[m].until = tasks[m].end /\ Passed[m].left = FALSE
             /\ ~Passed[m - 1].left /\ tasks[m].end >= now
                  /\ tasks[m].begin > Passed[m - 1].until =>
                    Passed[m].until = Passed[m - 1].until /\ Passed[m].left = TRUE
  <2> DEFINE so == Passed[m - 1]
             e == tasks[m]
  <2>1. m - 1 \in 0 .. n BY <1>1
  <2>2. so \in Stage /\ e \in Event BY <1>1, <1>2, <2>1
  <2>3. Passed[m] = Pass(so, e) BY <1>2 DEF Follows
  <2>4. e.begin \in Nat /\ e.end \in Nat /\ e.begin <= e.end BY <2>2, EventFields
  <2>5. so.until \in 0 .. MaxTime BY <2>2 DEF Stage
  <2>6. e.end >= now <=> ~(e.end < now) BY <1>3, <2>4
  <2>7. e.begin > so.until <=> ~(e.begin <= so.until) BY <1>3, <2>4, <2>5
  <2> HIDE DEF so, e
  <2>8. so.left \/ e.end < now => Passed[m] = so BY <2>2, <2>3, PassTyped
  <2>9. ~so.left /\ e.end >= now /\ e.begin <= so.until =>
          Passed[m].until = e.end /\ Passed[m].left = FALSE
    BY <2>2, <2>3, <2>6, PassTyped
  <2>10. ~so.left /\ e.end >= now /\ e.begin > so.until =>
           Passed[m].until = so.until /\ Passed[m].left = TRUE
    BY <2>2, <2>3, <2>6, <2>7, PassTyped
  <2> QED BY <2>4, <2>8, <2>9, <2>10 DEF so, e
<1> QED BY <1>1, <1>4, <1>5, <1>6

(* In any order a stage is not in the past, and is now or the end of an event that
   is not over.                                                             *)
LEMMA StageOfEvent ==
  ASSUME FreeInv, NEW m \in 0 .. Len(tasks)
  PROVE  /\ Passed[m].until >= now
         /\ \/ Passed[m].until = now
            \/ \E i \in 1 .. m : tasks[i].end >= now /\ Passed[m].until = tasks[i].end
<1> DEFINE n == Len(tasks)
           Of(k) == \/ Passed[k].until = now
                    \/ \E i \in 1 .. k : tasks[i].end >= now /\ Passed[k].until = tasks[i].end
           Bad == {k \in 0 .. n : ~Of(k)}
<1>1. n \in Nat /\ now \in Nat /\ MaxTime \in Nat
  BY StageByStage, BoundsAssumption DEF FreeInv
<1>2. Bad = {}
  <2> SUFFICES ASSUME Bad # {} PROVE FALSE
    OBVIOUS
  <2> HIDE DEF Of
  <2>1. Bad \in SUBSET Nat BY <1>1
  <2> HIDE DEF Bad
  <2>2. PICK k \in Bad : \A j \in Bad : k <= j BY <2>1, HasSmallest
  <2>3. k \in 0 .. n /\ ~Of(k) BY <2>2 DEF Bad
  <2>4. k # 0 BY <2>3, StageByStage DEF Of
  <2>5. k - 1 \in 0 .. n /\ ~(k <= k - 1) /\ k \in 1 .. n BY <1>1, <2>3, <2>4
  <2>6. Of(k - 1) BY <2>2, <2>5 DEF Bad
  <2>7. tasks[k].end \in Nat /\ tasks[k].begin \in Nat /\ Passed[k - 1].until \in Nat
        /\ Passed[k - 1].left \in BOOLEAN
    BY <1>1, <2>5, StageByStage
  <2>8. CASE Passed[k].until = Passed[k - 1].until
    <3>1. \A i \in 1 .. k - 1 : i \in 1 .. k BY <1>1, <2>5
    <3> QED BY <2>3, <2>6, <2>8, <3>1 DEF Of
  <2>9. CASE tasks[k].end >= now /\ Passed[k].until = tasks[k].end
    <3>1. k \in 1 .. k BY <2>5
    <3> QED BY <2>3, <2>9, <3>1 DEF Of
  <2>10. \/ Passed[k].until = Passed[k - 1].until
         \/ tasks[k].end >= now /\ Passed[k].until = tasks[k].end
    <3>1. CASE Passed[k - 1].left \/ tasks[k].end < now BY <2>5, <3>1, StageByStage
    <3>2. CASE ~Passed[k - 1].left /\ ~(tasks[k].end < now)
      <4>1. tasks[k].end >= now BY <1>1, <2>7, <3>2
      <4>2. CASE tasks[k].begin <= Passed[k - 1].until BY <2>5, <3>2, <4>1, <4>2, StageByStage
      <4>3. CASE tasks[k].begin > Passed[k - 1].until BY <2>5, <3>2, <4>1, <4>3, StageByStage
      <4> QED BY <2>7, <4>2, <4>3
    <3> QED BY <3>1, <3>2
  <2> QED BY <2>8, <2>9, <2>10
<1>3. Of(m) BY <1>2
<1>4. Passed[m].until >= now
  <2>1. CASE Passed[m].until = now BY <1>1, <2>1
  <2>2. CASE \E i \in 1 .. m : tasks[i].end >= now /\ Passed[m].until = tasks[i].end
    BY <2>2
  <2> QED BY <1>3, <2>1, <2>2
<1> QED BY <1>3, <1>4

(* In the order of beginnings, so far: from now until the stage's end the user is
   busy; before the loop is left, no event passed goes on beyond it; after, none
   is on at it.                                                            *)
Merged(m) ==
  /\ \A time \in now .. Passed[m].until - 1 : Busy(time)
  /\ ~Passed[m].left => \A i \in 1 .. m : tasks[i].end <= Passed[m].until
  /\ Passed[m].left => ~Busy(Passed[m].until)

LEMMA MergesOne ==
  ASSUME FreeInv, InOrderOfBegin, NEW m \in 1 .. Len(tasks), Merged(m - 1)
  PROVE  Merged(m)
<1> DEFINE n == Len(tasks)
           u == Passed[m - 1].until
           e == tasks[m]
<1>1. n \in Nat /\ DOMAIN tasks = 1 .. n /\ now \in Nat /\ MaxTime \in Nat
  BY StageByStage, BoundsAssumption DEF FreeInv
<1>2. m - 1 \in 0 .. n /\ m \in Nat /\ \A i \in 1 .. m : i \in 1 .. m - 1 \/ i = m BY <1>1
<1>3. u \in Nat /\ u >= now /\ Passed[m - 1].left \in BOOLEAN
  BY <1>1, <1>2, StageByStage, StageOfEvent
<1>4. \A i \in 1 .. n : tasks[i].begin \in Nat /\ tasks[i].end \in Nat
                        /\ tasks[i].begin <= tasks[i].end
  BY <1>1, StageByStage
<1>5. \A i, j \in 1 .. n :
        i < j => tasks[i].begin <= tasks[j].begin /\ tasks[i].end <= tasks[j].end
  BY <1>1 DEF InOrderOfBegin
<1>6. CASE Passed[m - 1].left
  <2>1. Passed[m] = Passed[m - 1] BY <1>6, StageByStage
  <2> QED BY <1>6, <2>1 DEF Merged
<1>7. CASE ~Passed[m - 1].left /\ e.end < now
  <2>1. Passed[m] = Passed[m - 1] BY <1>7, StageByStage
  <2>2. e.end <= u BY <1>1, <1>3, <1>4, <1>7
  <2> QED BY <1>2, <1>7, <2>1, <2>2 DEF Merged
<1>8. CASE ~Passed[m - 1].left /\ e.end >= now /\ e.begin <= u
  <2>1. Passed[m].until = e.end /\ Passed[m].left = FALSE BY <1>8, StageByStage
  <2>2. ASSUME NEW i \in 1 .. m PROVE tasks[i].end <= e.end
    <3>1. i \in 1 .. n /\ (i < m \/ i = m) BY <1>1
    <3> QED BY <1>4, <1>5, <3>1
  <2>3. ASSUME NEW time \in now .. e.end - 1 PROVE Busy(time)
    <3>1. CASE time < u
      <4>1. time \in now .. u - 1 BY <1>1, <1>3, <3>1
      <4> QED BY <4>1 DEF Merged
    <3>2. CASE u <= time
      <4>1. e.begin <= time /\ time < e.end BY <1>1, <1>3, <1>4, <1>8, <3>2
      <4> QED BY <1>1, <4>1 DEF Busy
    <3> QED BY <1>1, <1>3, <3>1, <3>2
  <2> QED BY <2>1, <2>2, <2>3 DEF Merged
<1>9. CASE ~Passed[m - 1].left /\ e.end >= now /\ e.begin > u
  <2>1. Passed[m].until = u /\ Passed[m].left = TRUE BY <1>9, StageByStage
  <2>2. ~Busy(u)
    <3> SUFFICES ASSUME NEW i \in 1 .. n, tasks[i].begin <= u, u < tasks[i].end PROVE FALSE
      BY <1>1 DEF Busy
    <3>1. CASE i < m
      <4>1. i \in 1 .. m - 1 BY <1>1, <3>1
      <4>2. tasks[i].end <= u BY <1>9, <4>1 DEF Merged
      <4> QED BY <1>3, <1>4, <4>2
    <3>2. CASE i = m BY <1>3, <1>4, <1>9, <3>2
    <3>3. CASE m < i
      <4>1. e.begin <= tasks[i].begin BY <1>5, <3>3
      <4> QED BY <1>3, <1>4, <1>9, <4>1
    <3> QED BY <1>1, <3>1, <3>2, <3>3
  <2> QED BY <2>1, <2>2 DEF Merged
<1> QED
  <2>1. e.end < now \/ e.end >= now BY <1>1, <1>4
  <2>2. e.begin <= u \/ e.begin > u BY <1>3, <1>4
  <2> QED BY <1>6, <1>7, <1>8, <1>9, <2>1, <2>2

LEMMA MergesAll ==
  ASSUME FreeInv, InOrderOfBegin
  PROVE  Merged(Len(tasks))
<1> DEFINE n == Len(tasks)
           Bad == {k \in 0 .. n : ~Merged(k)}
<1>1. n \in Nat /\ now \in Nat BY StageByStage, BoundsAssumption DEF FreeInv
<1>2. Bad = {}
  <2> SUFFICES ASSUME Bad # {} PROVE FALSE
    OBVIOUS
  <2>1. Bad \in SUBSET Nat BY <1>1
  <2> HIDE DEF Bad
  <2>2. PICK k \in Bad : \A j \in Bad : k <= j BY <2>1, HasSmallest
  <2>3. k \in 0 .. n /\ ~Merged(k) BY <2>2 DEF Bad
  <2>4. k # 0
    <3>1. Passed[0].until = now /\ Passed[0].left = FALSE BY StageByStage
    <3>2. now .. now - 1 = {} BY <1>1
    <3>3. Merged(0) BY <3>1, <3>2 DEF Merged
    <3> QED BY <2>3, <3>3
  <2>5. k - 1 \in 0 .. n /\ ~(k <= k - 1) /\ k \in 1 .. n BY <1>1, <2>3, <2>4
  <2>6. Merged(k - 1) BY <2>2, <2>5 DEF Bad
  <2> QED BY <2>3, <2>5, <2>6, MergesOne
<1>3. n \in 0 .. n BY <1>1
<1> QED BY <1>2, <1>3

(* The answer of nextFreeTime(). *)
LEMMA FreeTimeFound == FreeInv => MergesEvents
<1> SUFFICES ASSUME FreeInv PROVE MergesEvents
  OBVIOUS
<1> DEFINE n == Len(tasks)
           u == Passed[n].until
           free == {time \in now .. MaxTime : ~Busy(time)}
<1>1. n \in 0 .. n /\ n \in Nat /\ DOMAIN tasks = 1 .. n /\ now \in Nat /\ MaxTime \in Nat
  BY StageByStage, BoundsAssumption DEF FreeInv
<1>2. u \in 0 .. MaxTime /\ u >= now BY <1>1, StageByStage, StageOfEvent
<1>3. NextFreeTime = u BY DEF NextFreeTime
<1>4. \/ u = now
      \/ \E i \in DOMAIN tasks : tasks[i].end >= now /\ u = tasks[i].end
  BY <1>1, StageOfEvent
<1>5. ASSUME InOrderOfBegin PROVE u = Min(free)
  <2>1. Merged(n) BY <1>5, MergesAll
  <2>2. ~Busy(u)
    <3>1. CASE Passed[n].left BY <2>1, <3>1 DEF Merged
    <3>2. CASE ~Passed[n].left
      <4>1. \A i \in 1 .. n : tasks[i].end <= u /\ tasks[i].end \in Nat
        BY <1>1, <2>1, <3>2, StageByStage DEF Merged
      <4> QED BY <1>1, <1>2, <4>1 DEF Busy
    <3> QED BY <3>1, <3>2
  <2>3. u \in free BY <1>1, <1>2, <2>2
  <2>4. \A time \in free : u <= time
    <3> SUFFICES ASSUME NEW time \in free, time < u PROVE FALSE
      BY <1>1, <1>2
    <3>1. time \in now .. u - 1 /\ ~Busy(time) BY <1>1, <1>2
    <3> QED BY <2>1, <3>1 DEF Merged
  <2>5. free \in SUBSET Nat BY <1>1
  <2> HIDE DEF free, u
  <2>6. Min(free) \in free /\ \A time \in free : Min(free) <= time BY <2>3, <2>5, MinIsSmallest
  <2>7. u \in Nat /\ Min(free) \in Nat /\ u <= Min(free) /\ Min(free) <= u
    BY <2>3, <2>4, <2>5, <2>6
  <2> QED BY <2>7
<1>6. InOrderOfBegin => NextFreeTime = FirstFree BY <1>3, <1>5 DEF FirstFree
<1> QED BY <1>3, <1>4, <1>6 DEF MergesEvents

-----------------------------------------------------------------------------
(* The interval of the timer. *)

(* The timer's number is in its range, and is what was meant if that fits. *)
LEMMA AsIntWraps ==
  ASSUME NEW n \in Int
  PROVE  /\ AsInt(n) \in -(TimerMax + 1) .. TimerMax
         /\ n \in 0 .. TimerMax => AsInt(n) = n
<1> DEFINE d == 2 * (TimerMax + 1)
<1>1. TimerMax \in Nat /\ d \in Nat /\ d > 0 BY NoticeAssumption
<1>2. AsInt(n) = IF (n % d) <= TimerMax THEN n % d ELSE (n % d) - d BY DEF AsInt
<1>3. d = 2 * (TimerMax + 1) OBVIOUS
<1> HIDE DEF d
<1>4. n % d \in 0 .. d - 1 BY <1>1
<1>5. n \in 0 .. TimerMax => n % d = n BY <1>1, <1>3
<1> QED BY <1>1, <1>2, <1>3, <1>4, <1>5

NotifyInv ==
  FreeInv /\ nextTask \in Event /\ interval \in -(TimerMax + 1) .. TimerMax

(* The task found is the first of those that have yet to begin. *)
LEMMA UpcomingFound ==
  ASSUME NEW list \in Seq(Event), HasUpcoming(list)
  PROVE  \E i \in DOMAIN list :
           /\ NextUpcoming(list) = list[i] /\ list[i].begin > now
           /\ \A j \in DOMAIN list : list[j].begin > now => i <= j
<1> DEFINE S == {i \in DOMAIN list : list[i].begin > now}
<1>1. DOMAIN list = 1 .. Len(list) /\ Len(list) \in Nat BY LenProperties
<1>2. S \in SUBSET Nat /\ S # {} BY <1>1 DEF HasUpcoming
<1>3. Min(S) \in S /\ \A j \in S : Min(S) <= j BY <1>2, MinIsSmallest
<1>4. NextUpcoming(list) = list[Min(S)] BY DEF NextUpcoming
<1> DEFINE i == Min(S)
<1>5. i \in DOMAIN list /\ list[i].begin > now BY <1>3
<1>6. \A j \in DOMAIN list : list[j].begin > now => i <= j BY <1>3
<1> HIDE DEF i
<1> QED BY <1>4, <1>5, <1>6 DEF i

LEMMA StepNotify == NotifyInv /\ [NotifyNext]_notifyVars => NotifyInv'
<1> SUFFICES ASSUME NotifyInv, [NotifyNext]_notifyVars PROVE NotifyInv'
  OBVIOUS
<1>1. CASE ChangeAndSave
  <2>1. FreeInv' /\ now' = now BY <1>1, ChangeKeeps DEF ChangeAndSave, NotifyInv
  <2>2. CASE HasUpcoming(tasks')
    <3>1. nextTask' = NextUpcoming(tasks') /\ interval' = AsInt(nextTask'.begin - now - Notice)
      BY <1>1, <2>2 DEF ChangeAndSave, Schedule
    <3>2. tasks' \in Seq(Event) BY <2>1 DEF FreeInv
    <3>3. \E i \in DOMAIN tasks' : NextUpcoming(tasks') = tasks'[i] BY <2>2, <3>2, UpcomingFound
    <3>4. nextTask' \in Event BY <3>1, <3>2, <3>3
    <3>5. nextTask'.begin \in Nat BY <3>4, EventFields
    <3>6. nextTask'.begin - now - Notice \in Int
      BY <3>5, NoticeAssumption, BoundsAssumption DEF NotifyInv, FreeInv
    <3> QED BY <2>1, <3>1, <3>4, <3>6, AsIntWraps DEF NotifyInv
  <2>3. CASE ~HasUpcoming(tasks')
    <3>1. nextTask' = nextTask /\ interval' = interval BY <1>1, <2>3 DEF ChangeAndSave, Schedule
    <3> QED BY <2>1, <3>1 DEF NotifyInv
  <2> QED BY <2>2, <2>3
<1>2. CASE Wait
  <2>1. tasks' = tasks /\ now' = now + 1 /\ now < MaxTime
        /\ nextTask' = nextTask /\ interval' = interval
    BY <1>2 DEF Wait, Tick
  <2>2. now' \in 0 .. MaxTime BY <2>1, BoundsAssumption DEF NotifyInv, FreeInv
  <2> QED BY <2>1, <2>2 DEF NotifyInv, FreeInv, Ordered
<1>3. CASE UNCHANGED notifyVars
  BY <1>3 DEF notifyVars, freeVars, NotifyInv, FreeInv, Ordered
<1> QED BY <1>1, <1>2, <1>3 DEF NotifyNext

LEMMA InitNotify == NotifyInit => NotifyInv
<1> SUFFICES ASSUME NotifyInit PROVE NotifyInv
  OBVIOUS
<1>1. tasks \in Seq(Event) /\ Ordered(tasks) /\ now \in 0 .. MaxTime
  BY DEF NotifyInit, FreeInit, Ordered
<1>2. NoEvent \in Event BY BoundsAssumption DEF NoEvent, Event
<1>3. 0 \in -(TimerMax + 1) .. TimerMax BY NoticeAssumption
<1> QED BY <1>1, <1>2, <1>3 DEF NotifyInit, NotifyInv, FreeInv

LEMMA Notifies == NotifySpec => []NotifyInv
<1> QED BY InitNotify, StepNotify, PTL DEF NotifySpec

(* The events keep their order, and what is scheduled its type, an int however
   the interval is worked out.                                             *)
THEOREM NotifyTyped == NotifySpec => []TypeOKNotify
<1>1. NotifyInv => TypeOKNotify
  BY LenProperties DEF NotifyInv, FreeInv, TypeOKNotify, TypeOKFree
<1> QED BY <1>1, Notifies, PTL

(* However many events there are and however they overlap, follow each other and
   are over, nextFreeTime() gives the first moment no event is on, if they are in
   order of beginning; in any order it gives now or the end of one not over. *)
THEOREM FreeTimeCorrect == NotifySpec => []MergesEvents
<1>1. NotifyInv => MergesEvents BY FreeTimeFound DEF NotifyInv
<1> QED BY <1>1, Notifies, PTL

(* After each change an event that has yet to begin is scheduled, if there is one;
   it is the first of them to begin, if the list is in that order; and unless it
   begins within the time of notice, or too late for an int, the interval is up
   when the notice is due.                                                 *)
THEOREM UpcomingCorrect == NotifySpec => UpcomingIsNext
<1>1. NotifyInv /\ [NotifyNext]_notifyVars =>
        (ChangeTasks =>
           LET upcoming == {i \in DOMAIN tasks' : tasks'[i].begin > now}
               due == nextTask'.begin - Notice
           IN  upcoming # {} =>
                 /\ \E i \in upcoming : tasks'[i] = nextTask'
                 /\ InOrderOfBegin' => \A i \in upcoming : nextTask'.begin <= tasks'[i].begin
                 /\ due \in now .. now + TimerMax => now + interval' = due)
         \/ UNCHANGED notifyVars
  <2> SUFFICES ASSUME NotifyInv, NotifyNext, ChangeTasks,
                      NEW k \in DOMAIN tasks', tasks'[k].begin > now
               PROVE  /\ \E i \in {i \in DOMAIN tasks' : tasks'[i].begin > now} :
                           tasks'[i] = nextTask'
                      /\ InOrderOfBegin' =>
                           \A i \in {i \in DOMAIN tasks' : tasks'[i].begin > now} :
                             nextTask'.begin <= tasks'[i].begin
                      /\ nextTask'.begin - Notice \in now .. now + TimerMax =>
                           now + interval' = nextTask'.begin - Notice
    OBVIOUS
  <2>1. FreeInv' /\ now' = now BY ChangeKeeps DEF NotifyInv
  <2>2. ChangeAndSave
    <3>1. now \in Int BY BoundsAssumption DEF NotifyInv, FreeInv
    <3> QED BY <2>1, <3>1 DEF NotifyNext, Wait, Tick
  <2>3. HasUpcoming(tasks') BY DEF HasUpcoming
  <2>4. nextTask' = NextUpcoming(tasks') /\ interval' = AsInt(nextTask'.begin - now - Notice)
    BY <2>2, <2>3 DEF ChangeAndSave, Schedule
  <2>5. tasks' \in Seq(Event) BY <2>1 DEF FreeInv
  <2>6. PICK i \in DOMAIN tasks' :
          /\ nextTask' = tasks'[i] /\ tasks'[i].begin > now
          /\ \A j \in DOMAIN tasks' : tasks'[j].begin > now => i <= j
    BY <2>3, <2>4, <2>5, UpcomingFound
  <2>7. \A j \in DOMAIN tasks' : tasks'[j].begin \in Nat /\ j \in Nat
    <3> SUFFICES ASSUME NEW j \in DOMAIN tasks' PROVE tasks'[j].begin \in Nat /\ j \in Nat
      OBVIOUS
    <3>1. DOMAIN tasks' = 1 .. Len(tasks') /\ Len(tasks') \in Nat /\ tasks'[j] \in Event
      BY <2>5, LenProperties
    <3>2. tasks'[j].begin \in 0 .. MaxTime BY <3>1, EventFields
    <3> QED BY <3>1, <3>2, BoundsAssumption
  <2>8. ASSUME InOrderOfBegin', NEW j \in DOMAIN tasks', tasks'[j].begin > now
        PROVE  nextTask'.begin <= tasks'[j].begin
    <3>1. i = j \/ i < j BY <2>6, <2>7, <2>8
    <3>2. i < j => tasks'[i].begin <= tasks'[j].begin BY <2>8 DEF InOrderOfBegin
    <3> QED BY <2>6, <2>7, <3>1, <3>2
  <2>9. ASSUME nextTask'.begin - Notice \in now .. now + TimerMax
        PROVE  now + interval' = nextTask'.begin - Notice
    <3>1. nextTask'.begin \in Nat /\ now \in Nat /\ Notice \in Nat /\ TimerMax \in Nat
      BY <2>6, <2>7, BoundsAssumption, NoticeAssumption DEF NotifyInv, FreeInv
    <3>2. nextTask'.begin - now - Notice \in 0 .. TimerMax BY <2>9, <3>1
    <3>3. interval' = nextTask'.begin - now - Notice BY <2>4, <3>2, AsIntWraps
    <3> QED BY <3>1, <3>3
  <2> QED BY <2>6, <2>8, <2>9
<1> QED BY <1>1, Notifies, PTL DEF UpcomingIsNext, NotifySpec
=============================================================================
