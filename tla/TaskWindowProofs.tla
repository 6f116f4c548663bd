------------------------- MODULE TaskWindowProofs -------------------------
(***************************************************************************)
(* Proofs about the list of tasks on the screen, however many tasks there  *)
(* are and however long a page is, and about the looks of the windows,     *)
(* whatever there is to choose from.                                       *)
(***************************************************************************)
EXTENDS MCTaskWindow, FiniteSetTheorems, SequenceTheorems, WellFoundedInduction, TLAPS

-----------------------------------------------------------------------------
(* Numbers *)

(* A set of numbers that is not empty has a smallest one. *)
LEMMA HasSmallest ==
  ASSUME NEW S \in SUBSET Nat, S # {}
  PROVE  \E m \in S : \A k \in S : m <= k
<1> DEFINE Less == OpToRel(<, Nat)
<1>1. IsWellFoundedOn(Less, Nat) BY NatLessThanWellFounded DEF OpToRel
<1>2. \A i, j \in Nat : i < j => <<i, j>> \in Less BY DEF OpToRel
<1> HIDE DEF Less
<1>3. PICK m \in S : \A k \in S : ~(<<k, m>> \in Less) BY <1>1, WFMin
<1>4. \A k \in S : ~(k < m) BY <1>2, <1>3
<1> QED BY <1>4

(* One that has a bound has a largest one. *)
LEMMA HasLargest ==
  ASSUME NEW S \in SUBSET Nat, S # {}, NEW n \in Nat, \A k \in S : k <= n
  PROVE  \E m \in S : \A k \in S : k <= m
<1> DEFINE R == {n - k : k \in S}
<1>1. R \in SUBSET Nat
  <2>1. \A k \in S : n - k \in Nat OBVIOUS
  <2> QED BY <2>1
<1>2. R # {} OBVIOUS
<1> HIDE DEF R
<1>3. PICK r \in R : \A k \in R : r <= k BY <1>1, <1>2, HasSmallest
<1>4. PICK m \in S : r = n - m BY <1>3 DEF R
<1>5. \A k \in S : n - m <= n - k BY <1>3, <1>4 DEF R
<1> QED BY <1>5

(* What Min picks of such a set. *)
LEMMA MinIsSmallest ==
  ASSUME NEW S \in SUBSET Nat, S # {}
  PROVE  Min(S) \in S /\ \A k \in S : Min(S) <= k
<1>1. \E m \in S : \A k \in S : m <= k BY HasSmallest
<1> QED BY <1>1 DEF Min

(* What Max picks of a set of numbers with a bound. *)
LEMMA MaxIsLargest ==
  ASSUME NEW S \in SUBSET Nat, S # {}, NEW n \in Nat, \A k \in S : k <= n
  PROVE  Max(S) \in S /\ \A k \in S : k <= Max(S)
<1>1. \E m \in S : \A k \in S : m >= k BY HasLargest
<1> QED BY <1>1 DEF Max

-----------------------------------------------------------------------------
(* Sequences *)

(* To flatten is to append one after the other: f[m] is what the first m make. *)
Appends(f, a, m) == f[1] = a[1] /\ \A i \in 2 .. m : f[i] = f[i - 1] \o a[i]

LEMMA FlattenSteps ==
  ASSUME NEW S, NEW n \in Nat \ {0}, NEW a \in [1 .. n -> Seq(S)]
  PROVE  \E f \in [1 .. n -> Seq(S)] : Appends(f, a, n) /\ FlattenSeq(a) = f[n]
<1> DEFINE Bad == {m \in 1 .. n : \A f \in [1 .. m -> Seq(S)] : ~Appends(f, a, m)}
<1>1. Bad = {}
  <2> SUFFICES ASSUME Bad # {} PROVE FALSE
    OBVIOUS
  <2>1. Bad \in SUBSET Nat OBVIOUS
  <2> HIDE DEF Bad
  <2>2. PICK m \in Bad : \A k \in Bad : m <= k BY <2>1, HasSmallest
  <2>3. m \in 1 .. n /\ \A f \in [1 .. m -> Seq(S)] : ~Appends(f, a, m) BY <2>2 DEF Bad
  <2>4. CASE m = 1
    <3>1. [i \in 1 .. 1 |-> a[1]] \in [1 .. 1 -> Seq(S)] OBVIOUS
    <3>2. Appends([i \in 1 .. 1 |-> a[1]], a, 1) BY DEF Appends
    <3> QED BY <2>3, <2>4, <3>1, <3>2
  <2>5. CASE m # 1
    <3>1. m - 1 \in 1 .. n /\ ~(m <= m - 1) BY <2>3, <2>5
    <3>2. m - 1 \notin Bad BY <2>2, <3>1
    <3>3. PICK f \in [1 .. m - 1 -> Seq(S)] : Appends(f, a, m - 1) BY <3>1, <3>2 DEF Bad
    <3> DEFINE g == [i \in 1 .. m |-> IF i = m THEN f[m - 1] \o a[m] ELSE f[i]]
    <3>4. f[m - 1] \o a[m] \in Seq(S)
      <4>1. f[m - 1] \in Seq(S) /\ a[m] \in Seq(S) BY <2>3, <2>5
      <4> QED BY <4>1, ConcatProperties
    <3>5. g \in [1 .. m -> Seq(S)] BY <3>4, <2>3
    <3>6. g[1] = a[1] BY <2>3, <2>5, <3>3 DEF Appends
    <3>7. ASSUME NEW i \in 2 .. m PROVE g[i] = g[i - 1] \o a[i]
      <4>1. CASE i = m
        <5>1. g[m] = f[m - 1] \o a[m] BY <2>3
        <5>2. g[m - 1] = f[m - 1] BY <2>3, <2>5
        <5> QED BY <4>1, <5>1, <5>2
      <4>2. CASE i # m
        <5>1. g[i] = f[i] /\ g[i - 1] = f[i - 1] BY <2>3, <4>2
        <5>2. i \in 2 .. m - 1 BY <2>3, <4>2
        <5>3. f[i] = f[i - 1] \o a[i] BY <3>3, <5>2 DEF Appends
        <5> QED BY <5>1, <5>3
      <4> QED BY <4>1, <4>2
    <3> HIDE DEF g
    <3>8. Appends(g, a, m) BY <3>6, <3>7 DEF Appends
    <3> QED BY <2>3, <3>5, <3>8
  <2> QED BY <2>4, <2>5
<1>2. PICK f \in [1 .. n -> Seq(S)] : Appends(f, a, n)
  <2>1. n \in 1 .. n OBVIOUS
  <2> QED BY <1>1, <2>1
<1>3. Len(a) = n /\ n # 0 BY LenProperties
<1> DEFINE Is(g) == g = [i \in 1 .. Len(a) |-> IF i = 1 THEN a[i] ELSE g[i - 1] \o a[i]]
           h == CHOOSE g : Is(g)
<1>4. FlattenSeq(a) = h[n] BY <1>3 DEF FlattenSeq
<1>5. Is(f)
  <2>1. \A i \in 1 .. n : f[i] = IF i = 1 THEN a[i] ELSE f[i - 1] \o a[i]
    <3>1. f[1] = a[1] /\ \A i \in 2 .. n : f[i] = f[i - 1] \o a[i] BY <1>2 DEF Appends
    <3>2. \A i \in 1 .. n : i = 1 \/ i \in 2 .. n OBVIOUS
    <3> QED BY <3>1, <3>2
  <2> QED BY <1>3, <2>1
<1>6. Is(h) BY <1>5
<1>7. h = [i \in 1 .. n |-> IF i = 1 THEN a[i] ELSE h[i - 1] \o a[i]] BY <1>3, <1>6
<1> HIDE DEF h
<1> DEFINE Other == {i \in 1 .. n : h[i] # f[i]}
<1>8. Other = {}
  <2> SUFFICES ASSUME Other # {} PROVE FALSE
    OBVIOUS
  <2>1. Other \in SUBSET Nat OBVIOUS
  <2> HIDE DEF Other
  <2>2. PICK m \in Other : \A k \in Other : m <= k BY <2>1, HasSmallest
  <2>3. m \in 1 .. n /\ h[m] # f[m] BY <2>2 DEF Other
  <2>4. h[m] = IF m = 1 THEN a[m] ELSE h[m - 1] \o a[m] BY <1>7, <2>3
  <2>5. m # 1 BY <1>2, <2>3, <2>4 DEF Appends
  <2>6. m - 1 \in 1 .. n /\ ~(m <= m - 1) BY <2>3, <2>5
  <2>7. m - 1 \notin Other BY <2>2, <2>6
  <2>8. h[m - 1] = f[m - 1] BY <2>6, <2>7 DEF Other
  <2>9. m \in 2 .. n BY <2>3, <2>5
  <2>10. f[m] = f[m - 1] \o a[m] BY <1>2, <2>9 DEF Appends
  <2> QED BY <2>3, <2>4, <2>5, <2>8, <2>10
<1>9. h[n] = f[n]
  <2>1. n \in 1 .. n OBVIOUS
  <2> QED BY <1>8, <2>1
<1> QED BY <1>2, <1>4, <1>9 DEF Appends

-----------------------------------------------------------------------------
(* Where the rows of a list stand. *)

Place(list, i) == GetTaskEntryRow(i, FirstOf(list))
Above(list, i) == {s \in Sections : FirstOf(list)[s] # NoTask /\ FirstOf(list)[s] <= i}
Leads(list, i) == FirstOf(list)[list[i]] = i

(* A list the window is given is a sequence of sections, and not too long. *)
LEMMA ListsAreSequences ==
  ASSUME NEW list \in Lists
  PROVE  list \in Seq(Sections) /\ Len(list) \in 0 .. MaxTasks
<1>1. list \in UNION {[1 .. m -> Sections] : m \in 0 .. MaxTasks} BY DEF Lists, SeqOf
<1>2. PICK m \in 0 .. MaxTasks : list \in [1 .. m -> Sections] BY <1>1
<1>3. list \in Seq(Sections) /\ Len(list) = m BY <1>2, MaxTasksAssumption
<1> QED BY <1>2, <1>3

(* The first task of a section is of it, and none before is. *)
LEMMA FirstIsFirst ==
  ASSUME NEW list \in Seq(Sections)
  PROVE  /\ FirstOf(list) \in [Sections -> 0 .. Len(list)]
         /\ \A s \in Sections : FirstOf(list)[s] # NoTask =>
              /\ FirstOf(list)[s] \in 1 .. Len(list) /\ list[FirstOf(list)[s]] = s
              /\ \A i \in 1 .. Len(list) : list[i] = s => FirstOf(list)[s] <= i
         /\ \A i \in 1 .. Len(list) : FirstOf(list)[list[i]] # NoTask
<1>1. Len(list) \in Nat /\ DOMAIN list = 1 .. Len(list) BY LenProperties
<1>2. ASSUME NEW s \in Sections, s \in ToSet(list)
      PROVE  /\ FirstOf(list)[s] \in 1 .. Len(list) /\ list[FirstOf(list)[s]] = s
             /\ \A i \in 1 .. Len(list) : list[i] = s => FirstOf(list)[s] <= i
  <2> DEFINE S == {i \in DOMAIN list : list[i] = s}
  <2>1. S \in SUBSET Nat BY <1>1
  <2>2. S # {} BY <1>2 DEF ToSet
  <2>3. FirstOf(list)[s] = Min(S) BY <1>2 DEF FirstOf
  <2>4. \A i \in S : i \in 1 .. Len(list) /\ list[i] = s BY <1>1
  <2>5. \A i \in 1 .. Len(list) : list[i] = s => i \in S BY <1>1
  <2> HIDE DEF S
  <2>6. Min(S) \in S /\ \A k \in S : Min(S) <= k BY <2>1, <2>2, MinIsSmallest
  <2> QED BY <2>3, <2>4, <2>5, <2>6
<1>3. \A s \in Sections : s \notin ToSet(list) => FirstOf(list)[s] = NoTask BY DEF FirstOf
<1>4. \A i \in 1 .. Len(list) : list[i] \in Sections /\ list[i] \in ToSet(list)
  BY <1>1 DEF ToSet
<1>5. \A s \in Sections : FirstOf(list)[s] \in 0 .. Len(list)
  <2> SUFFICES ASSUME NEW s \in Sections PROVE FirstOf(list)[s] \in 0 .. Len(list)
    OBVIOUS
  <2>1. CASE s \in ToSet(list) BY <1>1, <1>2, <2>1
  <2>2. CASE s \notin ToSet(list) BY <1>1, <1>3, <2>2 DEF NoTask
  <2> QED BY <2>1, <2>2
<1>6. FirstOf(list) \in [Sections -> 0 .. Len(list)] BY <1>5 DEF FirstOf
<1>7. \A i \in 1 .. Len(list) : FirstOf(list)[list[i]] # NoTask
  BY <1>1, <1>2, <1>4 DEF NoTask
<1> QED BY <1>2, <1>3, <1>6, <1>7

(* Above a task stand the tasks before it and the headings up to its own. *)
LEMMA PlaceIsSum ==
  ASSUME NEW list \in Seq(Sections), NEW i \in 0 .. Len(list)
  PROVE  /\ Place(list, i) = i + Cardinality(Above(list, i))
         /\ IsFiniteSet(Above(list, i)) /\ Cardinality(Above(list, i)) \in Nat
<1>1. IsFiniteSet(Sections)
  <2>1. IsFiniteSet(1 .. 4) BY FS_Interval, 1 \in Int, 4 \in Int
  <2> QED BY <2>1 DEF Sections
<1>2. IsFiniteSet(Above(list, i))
  <2>1. Above(list, i) \in SUBSET Sections BY DEF Above
  <2> QED BY <1>1, <2>1, FS_Subset
<1> QED BY <1>2, FS_CardinalityType DEF Place, GetTaskEntryRow, Above

(* From a task to the next it is one row, and two if a heading stands between.*)
LEMMA PlaceSteps ==
  ASSUME NEW list \in Seq(Sections)
  PROVE  /\ Place(list, 0) = 0
         /\ \A i \in 1 .. Len(list) :
              Place(list, i) = Place(list, i - 1) + IF Leads(list, i) THEN 2 ELSE 1
         /\ Len(list) > 0 => Leads(list, 1)
<1>1. Len(list) \in Nat /\ DOMAIN list = 1 .. Len(list) BY LenProperties
<1>2. FirstOf(list) \in [Sections -> 0 .. Len(list)] BY FirstIsFirst
<1>3. Place(list, 0) = 0
  <2>1. Above(list, 0) = {} BY <1>1, <1>2 DEF Above, NoTask
  <2> QED BY <1>1, <2>1, PlaceIsSum, FS_EmptySet
<1>4. ASSUME NEW i \in 1 .. Len(list)
      PROVE  Place(list, i) = Place(list, i - 1) + IF Leads(list, i) THEN 2 ELSE 1
  <2>1. i \in 0 .. Len(list) /\ i - 1 \in 0 .. Len(list) BY <1>1
  <2>2. list[i] \in Sections BY <1>1
  <2>3. CASE Leads(list, i)
    <3>1. list[i] \notin Above(list, i - 1) BY <1>1, <2>2, <2>3 DEF Above, Leads
    <3>2. list[i] \in Above(list, i) BY <1>1, <2>2, <2>3 DEF Above, Leads, NoTask
    <3>3. ASSUME NEW s \in Above(list, i), s \notin Above(list, i - 1) PROVE s = list[i]
      <4>1. s \in Sections /\ FirstOf(list)[s] # NoTask /\ FirstOf(list)[s] <= i
            /\ ~(FirstOf(list)[s] <= i - 1)
        BY <3>3 DEF Above
      <4>2. FirstOf(list)[s] \in 0 .. Len(list) BY <1>2, <4>1
      <4>3. FirstOf(list)[s] = i BY <1>1, <4>1, <4>2
      <4> QED BY <4>1, <4>3, FirstIsFirst
    <3>4. \A s \in Above(list, i - 1) : s \in Above(list, i) BY <1>1, <1>2 DEF Above
    <3>5. Above(list, i) = Above(list, i - 1) \cup {list[i]} BY <3>2, <3>3, <3>4
    <3>6. Cardinality(Above(list, i)) = Cardinality(Above(list, i - 1)) + 1
      BY <2>1, <3>1, <3>5, PlaceIsSum, FS_AddElement
    <3> QED BY <1>1, <2>1, <2>3, <3>6, PlaceIsSum
  <2>4. CASE ~Leads(list, i)
    <3>1. ASSUME NEW s \in Above(list, i) PROVE s \in Above(list, i - 1)
      <4>1. s \in Sections /\ FirstOf(list)[s] # NoTask /\ FirstOf(list)[s] <= i
        BY DEF Above
      <4>2. FirstOf(list)[s] \in 1 .. Len(list) /\ list[FirstOf(list)[s]] = s
        BY <4>1, FirstIsFirst
      <4>3. FirstOf(list)[s] # i BY <2>4, <4>2 DEF Leads
      <4>4. FirstOf(list)[s] <= i - 1 BY <1>1, <4>1, <4>2, <4>3
      <4> QED BY <4>1, <4>4 DEF Above
    <3>2. \A s \in Above(list, i - 1) : s \in Above(list, i) BY <1>1, <1>2 DEF Above
    <3>3. Above(list, i) = Above(list, i - 1) BY <3>1, <3>2
    <3>4. /\ Place(list, i) = i + Cardinality(Above(list, i))
          /\ Place(list, i - 1) = i - 1 + Cardinality(Above(list, i))
          /\ Cardinality(Above(list, i)) \in Nat
      BY <2>1, <3>3, PlaceIsSum
    <3> QED BY <1>1, <2>4, <3>4
  <2> QED BY <2>3, <2>4
<1>5. ASSUME Len(list) > 0 PROVE Leads(list, 1)
  <2>1. 1 \in 1 .. Len(list) /\ list[1] \in Sections BY <1>1, <1>5
  <2>2. /\ FirstOf(list)[list[1]] \in 1 .. Len(list)
        /\ FirstOf(list)[list[1]] <= 1
    BY <2>1, FirstIsFirst
  <2> QED BY <1>1, <2>2 DEF Leads
<1> QED BY <1>3, <1>4, <1>5

(* Rows of later tasks stand below. *)
LEMMA PlaceOrder ==
  ASSUME NEW list \in Seq(Sections), NEW i \in 0 .. Len(list), NEW j \in 0 .. Len(list)
  PROVE  i < j => Place(list, i) < Place(list, j)
<1> SUFFICES ASSUME i < j PROVE Place(list, i) < Place(list, j)
  OBVIOUS
<1>1. Len(list) \in Nat BY LenProperties
<1>2. FirstOf(list) \in [Sections -> 0 .. Len(list)] BY FirstIsFirst
<1>3. \A s \in Above(list, i) : s \in Above(list, j) BY <1>1, <1>2 DEF Above
<1>4. Cardinality(Above(list, i)) <= Cardinality(Above(list, j))
  BY <1>3, PlaceIsSum, FS_Subset
<1> QED BY <1>1, <1>4, PlaceIsSum

-----------------------------------------------------------------------------
(* The first n tasks of a list are on the screen, and only task `lit' may be lit:
   each is in its row, and any other row is the heading of the task below it. *)

Row == [heading : Sections \cup {0}, task : Nat, lit : BOOLEAN]

Shown(screen, list, n, lit) ==
  /\ screen \in Seq(Row) /\ Len(screen) = Place(list, n)
  /\ \A i \in 1 .. n :
       /\ Place(list, i) \in 1 .. Len(screen)
       /\ \/ screen[Place(list, i)] = TaskRow(i, FALSE)
          \/ i = lit /\ screen[Place(list, i)] = TaskRow(i, TRUE)
  /\ \A k \in 1 .. Len(screen) :
       \/ \E i \in 1 .. n : k = Place(list, i)
       \/ \E i \in 1 .. n :
            Leads(list, i) /\ k = Place(list, i) - 1 /\ screen[k] = HeadingRow(list[i])

(* Headings and tasks are rows. *)
LEMMA RowsTyped ==
  /\ \A s \in Sections : HeadingRow(s) \in Row
  /\ \A i \in Nat, lit \in BOOLEAN : TaskRow(i, lit) \in Row
BY DEF HeadingRow, TaskRow, Row, NoTask

(* So are those of a list. *)
LEMMA TaskRowsTyped ==
  ASSUME NEW list \in Seq(Sections), NEW i \in 1 .. Len(list)
  PROVE  /\ HeadingRow(list[i]) \in Row /\ TaskRow(i, FALSE) \in Row
         /\ <<HeadingRow(list[i]), TaskRow(i, FALSE)>> \in Seq(Row)
         /\ <<TaskRow(i, FALSE)>> \in Seq(Row)
<1>1. list[i] \in Sections /\ i \in Nat /\ FALSE \in BOOLEAN BY LenProperties
<1>2. HeadingRow(list[i]) \in Row /\ TaskRow(i, FALSE) \in Row BY <1>1, RowsTyped
<1>3. \A h, t \in Row : <<h, t>> \in Seq(Row) /\ <<t>> \in Seq(Row) OBVIOUS
<1> QED BY <1>2, <1>3

(* With the rows of one more task, and of its heading if it leads its section, one
   task more is shown.                                                  *)
LEMMA ShownTask ==
  ASSUME NEW list \in Seq(Sections), NEW n \in 1 .. Len(list), NEW screen,
         Shown(screen, list, n - 1, NoTask)
  PROVE  /\ Leads(list, n) =>
              Shown(screen \o <<HeadingRow(list[n]), TaskRow(n, FALSE)>>, list, n, NoTask)
         /\ ~Leads(list, n) => Shown(screen \o <<TaskRow(n, FALSE)>>, list, n, NoTask)
<1>1. Len(list) \in Nat /\ list[n] \in Sections BY LenProperties
<1>2. Len(screen) \in Nat /\ screen \in Seq(Row) /\ Len(screen) = Place(list, n - 1)
  BY LenProperties DEF Shown
<1>3. Place(list, n) = Len(screen) + IF Leads(list, n) THEN 2 ELSE 1
  BY <1>2, PlaceSteps
<1> DEFINE ends == IF Leads(list, n) THEN <<HeadingRow(list[n]), TaskRow(n, FALSE)>>
                                     ELSE <<TaskRow(n, FALSE)>>
           whole == screen \o ends
<1>4. ends \in Seq(Row) BY TaskRowsTyped
<1>5. /\ ends[Len(ends)] = TaskRow(n, FALSE)
      /\ Leads(list, n) => ends[1] = HeadingRow(list[n])
      /\ Len(ends) = IF Leads(list, n) THEN 2 ELSE 1
  <2>1. CASE Leads(list, n)
    <3>1. ends = <<HeadingRow(list[n]), TaskRow(n, FALSE)>> BY <2>1
    <3> HIDE DEF ends
    <3> QED BY <2>1, <3>1
  <2>2. CASE ~Leads(list, n)
    <3>1. ends = <<TaskRow(n, FALSE)>> BY <2>2
    <3> HIDE DEF ends
    <3> QED BY <2>2, <3>1
  <2> QED BY <2>1, <2>2
<1>6. Len(ends) = IF Leads(list, n) THEN 2 ELSE 1 BY <1>5
<1> HIDE DEF ends
<1>7. /\ whole \in Seq(Row) /\ Len(whole) = Place(list, n)
      /\ \A k \in 1 .. Len(screen) : whole[k] = screen[k]
      /\ \A k \in 1 .. Len(ends) : whole[Len(screen) + k] = ends[k]
  <2>1. /\ whole \in Seq(Row) /\ Len(whole) = Len(screen) + Len(ends)
        /\ \A k \in 1 .. Len(screen) + Len(ends) :
             whole[k] = IF k <= Len(screen) THEN screen[k] ELSE ends[k - Len(screen)]
    BY <1>2, <1>4, ConcatProperties
  <2> HIDE DEF whole
  <2>2. ASSUME NEW k \in 1 .. Len(screen) PROVE whole[k] = screen[k] BY <1>2, <1>6, <2>1
  <2>3. ASSUME NEW k \in 1 .. Len(ends) PROVE whole[Len(screen) + k] = ends[k]
    <3>1. Len(screen) + k \in 1 .. Len(screen) + Len(ends) /\ ~(Len(screen) + k <= Len(screen))
          /\ Len(screen) + k - Len(screen) = k
      BY <1>2, <1>6
    <3> QED BY <2>1, <3>1
  <2> QED BY <1>2, <1>3, <1>6, <2>1, <2>2, <2>3
<1> HIDE DEF whole
<1>8. ASSUME NEW i \in 1 .. n
      PROVE  /\ Place(list, i) \in 1 .. Len(whole)
             /\ \/ whole[Place(list, i)] = TaskRow(i, FALSE)
                \/ i = NoTask /\ whole[Place(list, i)] = TaskRow(i, TRUE)
  <2>1. CASE i = n
    <3>1. Len(ends) \in 1 .. Len(ends) /\ Len(screen) + Len(ends) = Place(list, n)
      BY <1>3, <1>6
    <3>2. whole[Len(screen) + Len(ends)] = ends[Len(ends)] BY <1>7, <3>1
    <3>3. whole[Place(list, n)] = TaskRow(n, FALSE) BY <1>5, <3>1, <3>2
    <3>4. Place(list, n) \in 1 .. Len(whole) BY <1>2, <1>3, <1>7
    <3> QED BY <2>1, <3>3, <3>4
  <2>2. CASE i # n
    <3>1. i \in 1 .. n - 1 BY <1>1, <2>2
    <3>2. /\ Place(list, i) \in 1 .. Len(screen)
          /\ \/ screen[Place(list, i)] = TaskRow(i, FALSE)
             \/ i = NoTask /\ screen[Place(list, i)] = TaskRow(i, TRUE)
      BY <3>1 DEF Shown
    <3>3. Place(list, i) \in 1 .. Len(whole) BY <1>2, <1>3, <1>7, <3>2
    <3> QED BY <1>7, <3>2, <3>3
  <2> QED BY <2>1, <2>2
<1>9. ASSUME NEW k \in 1 .. Len(whole)
      PROVE  \/ \E i \in 1 .. n : k = Place(list, i)
             \/ \E i \in 1 .. n : /\ Leads(list, i) /\ k = Place(list, i) - 1
                                  /\ whole[k] = HeadingRow(list[i])
  <2>1. CASE k \in 1 .. Len(screen)
    <3>1. CASE \E i \in 1 .. n - 1 : k = Place(list, i) BY <1>1, <3>1
    <3>2. CASE \E i \in 1 .. n - 1 : /\ Leads(list, i) /\ k = Place(list, i) - 1
                                     /\ screen[k] = HeadingRow(list[i])
      BY <1>1, <1>7, <2>1, <3>2
    <3> QED BY <2>1, <3>1, <3>2 DEF Shown
  <2>2. CASE k = Place(list, n)
    BY <1>1, <2>2
  <2>3. CASE k \notin 1 .. Len(screen) /\ k # Place(list, n)
    <3>1. Leads(list, n) /\ k = Len(screen) + 1 /\ k = Place(list, n) - 1
      <4>1. k \in 1 .. Place(list, n) BY <1>7
      <4>2. CASE Leads(list, n)
        <5>1. Place(list, n) = Len(screen) + 2 BY <1>3, <4>2
        <5> QED BY <1>2, <2>3, <4>1, <4>2, <5>1
      <4>3. CASE ~Leads(list, n)
        <5>1. Place(list, n) = Len(screen) + 1 BY <1>3, <4>3
        <5> QED BY <1>2, <2>3, <4>1, <5>1
      <4> QED BY <4>2, <4>3
    <3>2. whole[k] = ends[1] BY <1>6, <1>7, <3>1
    <3> QED BY <1>1, <1>5, <3>1, <3>2
  <2> QED BY <2>1, <2>2, <2>3
<1>10. Shown(whole, list, n, NoTask) BY <1>7, <1>8, <1>9 DEF Shown
<1> QED BY <1>10 DEF whole, ends

(* displayTaskList() puts all the tasks on the screen, and lights none. *)
LEMMA RowsShown ==
  ASSUME NEW list \in Seq(Sections)
  PROVE  Shown(RowsOf(list), list, Len(list), NoTask)
<1> DEFINE n == Len(list)
           a == [i \in DOMAIN list |->
                  IF FirstOf(list)[list[i]] = i THEN <<HeadingRow(list[i]), TaskRow(i, FALSE)>>
                                                ELSE <<TaskRow(i, FALSE)>>]
<1>1. n \in Nat /\ DOMAIN list = 1 .. n BY LenProperties
<1>2. RowsOf(list) = FlattenSeq(a) BY DEF RowsOf
<1>3. ASSUME NEW i \in 1 .. n
      PROVE  a[i] = IF Leads(list, i) THEN <<HeadingRow(list[i]), TaskRow(i, FALSE)>>
                                      ELSE <<TaskRow(i, FALSE)>>
  BY <1>1 DEF Leads
<1>4. a \in [1 .. n -> Seq(Row)]
  <2> SUFFICES ASSUME NEW i \in 1 .. n PROVE a[i] \in Seq(Row)
    BY <1>1
  <2> HIDE DEF a
  <2> QED BY <1>3, TaskRowsTyped
<1> HIDE DEF a
<1>5. Shown(<<>>, list, 0, NoTask) BY PlaceSteps DEF Shown
<1>6. CASE n = 0
  <2>1. a = <<>> /\ Len(a) = 0 BY <1>4, <1>6
  <2>2. FlattenSeq(a) = <<>> BY <2>1 DEF FlattenSeq
  <2> QED BY <1>2, <1>5, <1>6, <2>2
<1>7. CASE n # 0
  <2>1. n \in Nat \ {0} BY <1>1, <1>7
  <2> HIDE DEF n
  <2>2. PICK f \in [1 .. n -> Seq(Row)] : Appends(f, a, n) /\ FlattenSeq(a) = f[n]
    BY <1>4, <2>1, FlattenSteps
  <2> DEFINE Bad == {m \in 1 .. n : ~Shown(f[m], list, m, NoTask)}
  <2>3. Bad = {}
    <3> SUFFICES ASSUME Bad # {} PROVE FALSE
      OBVIOUS
    <3>1. Bad \in SUBSET Nat OBVIOUS
    <3> HIDE DEF Bad
    <3>2. PICK m \in Bad : \A k \in Bad : m <= k BY <3>1, HasSmallest
    <3>3. m \in 1 .. n /\ ~Shown(f[m], list, m, NoTask) BY <3>2 DEF Bad
    <3> DEFINE screen == IF m = 1 THEN <<>> ELSE f[m - 1]
    <3>4. Shown(screen, list, m - 1, NoTask)
      <4>1. CASE m = 1 BY <1>5, <4>1
      <4>2. CASE m # 1
        <5>1. m - 1 \in 1 .. n /\ ~(m <= m - 1) BY <2>1, <3>3, <4>2
        <5>2. m - 1 \notin Bad BY <3>2, <5>1
        <5> QED BY <4>2, <5>1, <5>2 DEF Bad
      <4> QED BY <4>1, <4>2
    <3>5. f[m] = screen \o a[m]
      <4>1. CASE m = 1
        <5>1. a[1] \in Seq(Row) BY <1>4, <2>1
        <5>2. <<>> \o a[1] = a[1] BY <5>1, ConcatEmptySeq
        <5> QED BY <2>2, <4>1, <5>2 DEF Appends
      <4>2. CASE m # 1
        <5>1. m \in 2 .. n BY <2>1, <3>3, <4>2
        <5> QED BY <2>2, <4>2, <5>1 DEF Appends
      <4> QED BY <4>1, <4>2
    <3> HIDE DEF screen
    <3>6. m \in 1 .. Len(list) BY <3>3 DEF n
    <3>7. Shown(screen \o a[m], list, m, NoTask)
      BY <1>3, <3>3, <3>4, <3>6, ShownTask
    <3> QED BY <3>3, <3>5, <3>7
  <2>4. n \in 1 .. n BY <2>1
  <2>5. Shown(f[n], list, n, NoTask) BY <2>3, <2>4
  <2> QED BY <1>2, <2>2, <2>5 DEF n
<1> QED BY <1>6, <1>7

-----------------------------------------------------------------------------
(* To insert a row and take away the one after it is to replace it. *)
LEMMA InsertedAndRemoved ==
  ASSUME NEW S, NEW s \in Seq(S), NEW r \in 1 .. Len(s), NEW x \in S
  PROVE  RemoveAt(InsertAt(s, r, x), r + 1) = [s EXCEPT ![r] = x]
<1>1. Len(s) \in Nat /\ DOMAIN s = 1 .. Len(s) BY LenProperties
<1> DEFINE n == Len(s)
           t == InsertAt(s, r, x)
           u == RemoveAt(t, r + 1)
<1>2. /\ t \in Seq(S) /\ Len(t) = n + 1
      /\ \A i \in 1 .. n + 1 : t[i] = IF i < r THEN s[i] ELSE IF i = r THEN x ELSE s[i - 1]
  BY <1>1 DEF InsertAt
<1> HIDE DEF t
<1>3. /\ u \in Seq(S) /\ Len(u) = n
      /\ \A i \in 1 .. n : u[i] = IF i <= r THEN t[i] ELSE t[i + 1]
  <2>1. r + 1 - 1 = r /\ r + 1 + 1 = r + 2 BY <1>1
  <2>2. u = SubSeq(t, 1, r) \o SubSeq(t, r + 2, n + 1) BY <1>2, <2>1 DEF RemoveAt
  <2>3. /\ SubSeq(t, 1, r) \in Seq(S) /\ Len(SubSeq(t, 1, r)) = r
        /\ \A i \in 1 .. r : SubSeq(t, 1, r)[i] = t[i]
    BY <1>1, <1>2
  <2>4. /\ SubSeq(t, r + 2, n + 1) \in Seq(S) /\ Len(SubSeq(t, r + 2, n + 1)) = n - r
        /\ \A i \in 1 .. n - r : SubSeq(t, r + 2, n + 1)[i] = t[r + 1 + i]
    <3>1. r + 2 \in 1 .. Len(t) + 1 /\ n + 1 \in r + 2 - 1 .. Len(t) BY <1>1, <1>2
    <3>2. /\ SubSeq(t, r + 2, n + 1) \in Seq(S)
          /\ Len(SubSeq(t, r + 2, n + 1)) = n + 1 - (r + 2) + 1
          /\ \A i \in 1 .. n + 1 - (r + 2) + 1 :
               SubSeq(t, r + 2, n + 1)[i] = t[r + 2 + i - 1]
      BY <1>2, <3>1, SubSeqProperties
    <3>3. n + 1 - (r + 2) + 1 = n - r /\ \A i \in 1 .. n - r : r + 2 + i - 1 = r + 1 + i
      BY <1>1
    <3> QED BY <3>2, <3>3
  <2> DEFINE low == SubSeq(t, 1, r)
             high == SubSeq(t, r + 2, n + 1)
  <2>5. u = low \o high BY <2>2
  <2>6. /\ low \in Seq(S) /\ Len(low) = r /\ \A i \in 1 .. r : low[i] = t[i]
        /\ high \in Seq(S) /\ Len(high) = n - r
        /\ \A i \in 1 .. n - r : high[i] = t[r + 1 + i]
    BY <2>3, <2>4
  <2> HIDE DEF low, high, u
  <2>7. /\ u \in Seq(S) /\ Len(u) = Len(low) + Len(high)
        /\ \A i \in 1 .. Len(low) + Len(high) :
             u[i] = IF i <= Len(low) THEN low[i] ELSE high[i - Len(low)]
    BY <2>5, <2>6, ConcatProperties
  <2>8. ASSUME NEW i \in 1 .. n PROVE u[i] = IF i <= r THEN t[i] ELSE t[i + 1]
    <3>1. u[i] = IF i <= r THEN low[i] ELSE high[i - r] BY <1>1, <2>6, <2>7
    <3>2. CASE i <= r BY <1>1, <2>6, <3>1, <3>2
    <3>3. CASE i > r
      <4>1. i - r \in 1 .. n - r /\ r + 1 + (i - r) = i + 1 BY <1>1, <3>3
      <4>2. high[i - r] = t[i + 1] BY <2>6, <4>1
      <4> QED BY <1>1, <3>1, <3>3, <4>2
    <3> QED BY <1>1, <3>2, <3>3
  <2> QED BY <1>1, <2>6, <2>7, <2>8
<1> HIDE DEF u
<1>4. ASSUME NEW i \in 1 .. n PROVE u[i] = [s EXCEPT ![r] = x][i]
  <2>1. i \in 1 .. n + 1 /\ i + 1 \in 1 .. n + 1 BY <1>1
  <2>2. CASE i < r BY <1>1, <1>2, <1>3, <2>1, <2>2
  <2>3. CASE i = r BY <1>1, <1>2, <1>3, <2>1, <2>3
  <2>4. CASE i > r
    <3>1. t[i + 1] = s[i] BY <1>1, <1>2, <2>1, <2>4
    <3> QED BY <1>1, <1>3, <2>4, <3>1
  <2> QED BY <1>1, <2>2, <2>3, <2>4
<1>5. [s EXCEPT ![r] = x] \in Seq(S) /\ Len([s EXCEPT ![r] = x]) = n BY ExceptSeq
<1>6. u = [s EXCEPT ![r] = x] BY <1>3, <1>4, <1>5, SeqEqual
<1> QED BY <1>6 DEF u, t

(* So to dress a task is to replace its row. *)
Relit(screen, list, i, lit) == [screen EXCEPT ![Place(list, i)] = TaskRow(i, lit)]

LEMMA DressedRow ==
  ASSUME NEW list \in Seq(Sections), NEW screen, NEW old \in Nat,
         Shown(screen, list, Len(list), old),
         NEW i \in 1 .. Len(list), NEW lit \in BOOLEAN
  PROVE  /\ Place(list, i) \in 1 .. Len(screen)
         /\ Dressed(screen, i, lit, list, FirstOf(list)) = Relit(screen, list, i, lit)
<1>1. Place(list, i) \in 1 .. Len(screen) /\ screen \in Seq(Row) BY DEF Shown
<1>2. TaskRow(i, lit) \in Row BY RowsTyped, LenProperties
<1>3. Dressed(screen, i, lit, list, FirstOf(list)) =
        RemoveAt(InsertAt(screen, Place(list, i), TaskRow(i, lit)), Place(list, i) + 1)
  BY DEF Dressed, IsInRange, Place
<1> QED BY <1>1, <1>2, <1>3, InsertedAndRemoved DEF Relit

(* A task dressed, no other may be lit than the one that might before. *)
LEMMA ReplacedShown ==
  ASSUME NEW list \in Seq(Sections), NEW screen, NEW old \in Nat,
         Shown(screen, list, Len(list), old),
         NEW i \in 1 .. Len(list), NEW lit \in BOOLEAN, NEW new \in Nat,
         lit => i = new,
         \A j \in 1 .. Len(list) : j = old => j = i \/ j = new
  PROVE  Shown(Relit(screen, list, i, lit), list, Len(list), new)
<1> DEFINE n == Len(list)
           then == Relit(screen, list, i, lit)
<1>1. n \in Nat /\ screen \in Seq(Row) /\ Len(screen) = Place(list, n)
  BY LenProperties DEF Shown
<1>2. Place(list, i) \in 1 .. Len(screen) BY DEF Shown
<1>3. TaskRow(i, lit) \in Row BY RowsTyped, LenProperties
<1>4. /\ then \in Seq(Row) /\ Len(then) = Len(screen)
      /\ then[Place(list, i)] = TaskRow(i, lit)
      /\ \A k \in 1 .. Len(screen) : k # Place(list, i) => then[k] = screen[k]
  BY <1>1, <1>2, <1>3, ExceptSeq, LenProperties DEF Relit
<1> HIDE DEF then
<1>5. ASSUME NEW j \in 1 .. n
      PROVE  /\ Place(list, j) \in 1 .. Len(then)
             /\ \/ then[Place(list, j)] = TaskRow(j, FALSE)
                \/ j = new /\ then[Place(list, j)] = TaskRow(j, TRUE)
  <2>1. /\ Place(list, j) \in 1 .. Len(screen)
        /\ \/ screen[Place(list, j)] = TaskRow(j, FALSE)
           \/ j = old /\ screen[Place(list, j)] = TaskRow(j, TRUE)
    BY DEF Shown
  <2>2. CASE j = i
    <3>1. lit = FALSE \/ (lit = TRUE /\ i = new) OBVIOUS
    <3> QED BY <1>2, <1>4, <2>2, <3>1
  <2>3. CASE j # i
    <3>1. Place(list, j) # Place(list, i)
      <4>1. i \in 0 .. n /\ j \in 0 .. n /\ (i < j \/ j < i) BY <1>1, <2>3
      <4>2. Place(list, i) \in Int /\ Place(list, j) \in Int BY <1>2, <2>1
      <4> QED BY <4>1, <4>2, PlaceOrder
    <3>2. then[Place(list, j)] = screen[Place(list, j)] BY <1>4, <2>1, <3>1
    <3> QED BY <1>4, <2>1, <2>3, <3>2
  <2> QED BY <2>2, <2>3
<1>6. ASSUME NEW k \in 1 .. Len(then)
      PROVE  \/ \E j \in 1 .. n : k = Place(list, j)
             \/ \E j \in 1 .. n : /\ Leads(list, j) /\ k = Place(list, j) - 1
                                  /\ then[k] = HeadingRow(list[j])
  <2>1. CASE k = Place(list, i) BY <2>1
  <2>2. CASE k # Place(list, i)
    <3>1. then[k] = screen[k] /\ k \in 1 .. Len(screen) BY <1>4, <2>2
    <3> QED BY <3>1 DEF Shown
  <2> QED BY <2>1, <2>2
<1>7. Shown(then, list, n, new) BY <1>1, <1>4, <1>5, <1>6 DEF Shown
<1> QED BY <1>7 DEF then

(* highlightCurrentlySelectedTask() leaves the task it lights, whether the one
   selected before is on the list or not, as the only one that may be lit, and
   lights it if it is on the list.                                         *)
LEMMA HighlightedShown ==
  ASSUME NEW list \in Seq(Sections), NEW screen, NEW old \in Nat, NEW new \in Nat,
         Shown(screen, list, Len(list), old)
  PROVE  /\ Shown(Highlighted(screen, old, new, list, FirstOf(list)), list, Len(list), new)
         /\ new \in 1 .. Len(list) =>
              \E k \in DOMAIN Highlighted(screen, old, new, list, FirstOf(list)) :
                Highlighted(screen, old, new, list, FirstOf(list))[k].lit
<1> DEFINE n == Len(list)
           dark == Dressed(screen, old, FALSE, list, FirstOf(list))
           then == Dressed(dark, new, TRUE, list, FirstOf(list))
<1>1. Highlighted(screen, old, new, list, FirstOf(list)) = then BY DEF Highlighted
<1>2. NoTask \in Nat BY DEF NoTask
<1>3. Shown(dark, list, n, NoTask)
  <2>1. CASE old \in 1 .. n
    <3>1. FALSE \in BOOLEAN /\ (FALSE => old = NoTask) OBVIOUS
    <3>2. dark = Relit(screen, list, old, FALSE)
      BY <2>1, <3>1, DressedRow
    <3>3. \A j \in 1 .. n : j = old => j = old \/ j = NoTask OBVIOUS
    <3>4. Shown(Relit(screen, list, old, FALSE), list, n, NoTask)
      BY <1>2, <2>1, <3>1, <3>3, ReplacedShown
    <3> QED BY <3>2, <3>4
  <2>2. CASE old \notin 1 .. n
    <3>1. dark = screen BY <2>2 DEF Dressed, IsInRange
    <3> QED BY <2>2, <3>1 DEF Shown
  <2> QED BY <2>1, <2>2
<1> HIDE DEF dark
<1>4. CASE new \in 1 .. n
  <2>1. /\ Place(list, new) \in 1 .. Len(dark)
        /\ then = Relit(dark, list, new, TRUE)
    <3>1. TRUE \in BOOLEAN OBVIOUS
    <3> QED BY <1>2, <1>3, <1>4, <3>1, DressedRow
  <2>2. \A j \in 1 .. n : j # NoTask BY DEF NoTask
  <2>3. Shown(then, list, n, new)
    <3>1. TRUE \in BOOLEAN /\ (TRUE => new = new) OBVIOUS
    <3>2. \A j \in 1 .. n : j = NoTask => j = new \/ j = new BY <2>2
    <3>3. Shown(Relit(dark, list, new, TRUE), list, n, new)
      BY <1>2, <1>3, <1>4, <3>1, <3>2, ReplacedShown
    <3> QED BY <2>1, <3>3
  <2>4. dark \in Seq(Row) BY <1>3 DEF Shown
  <2>5. Place(list, new) \in DOMAIN then /\ then[Place(list, new)] = TaskRow(new, TRUE)
    <3>1. Len(dark) \in Nat /\ DOMAIN dark = 1 .. Len(dark) BY <2>4, LenProperties
    <3> QED BY <2>1, <3>1 DEF Relit
  <2> HIDE DEF then
  <2>6. then[Place(list, new)].lit BY <2>5 DEF TaskRow
  <2> QED BY <1>1, <2>3, <2>5, <2>6
<1>5. CASE new \notin 1 .. n
  <2>1. then = dark BY <1>5 DEF Dressed, IsInRange
  <2>2. \A j \in 1 .. n : j # NoTask BY DEF NoTask
  <2>3. Shown(dark, list, n, new) BY <1>3, <2>2 DEF Shown
  <2> QED BY <1>1, <1>5, <2>1, <2>3
<1> QED BY <1>4, <1>5

-----------------------------------------------------------------------------
(* The invariant: the headings are noted where they stand, and the rows are those
   of the list, the selected one perhaps lit.  The selection may be out of range;
   so what is lit is said of the one task that is selected, if it is there. *)
WindowInv ==
  /\ tasks \in Lists /\ first = FirstOf(tasks)
  /\ selected \in 0 .. MaxTasks /\ previous \in 0 .. MaxTasks
  /\ Shown(rows, tasks, Len(tasks), selected)

(* The window may be given no task at all. *)
LEMMA EmptyListed == <<>> \in Lists
<1>1. <<>> \in SeqOf(Sections, MaxTasks)
  <2>1. 0 \in 0 .. MaxTasks /\ <<>> \in [1 .. 0 -> Sections] BY MaxTasksAssumption
  <2> QED BY <2>1 DEF SeqOf
<1>2. /\ 0 \in 0 .. Len(<<>>)
      /\ Ascending(SubSeq(<<>>, 1, 0)) /\ Ascending(SubSeq(<<>>, 0 + 1, Len(<<>>)))
  BY DEF Ascending
<1> QED BY <1>1, <1>2 DEF Lists

(* The window starts with no task. *)
LEMMA InitWindow == Init => WindowInv
<1> SUFFICES ASSUME Init PROVE WindowInv
  OBVIOUS
<1>1. tasks = <<>> /\ rows = <<>> /\ Len(tasks) = 0 /\ tasks \in Seq(Sections)
      /\ selected = NoTask /\ previous = NoTask
  BY DEF Init
<1>2. first = FirstOf(tasks) BY <1>1 DEF Init, FirstOf, ToSet
<1>3. Shown(rows, tasks, Len(tasks), selected)
  <2>1. Place(tasks, 0) = 0 BY <1>1, PlaceSteps
  <2> QED BY <1>1, <2>1 DEF Shown
<1>4. tasks \in Lists BY <1>1, EmptyListed
<1> QED BY <1>1, <1>2, <1>3, <1>4, MaxTasksAssumption DEF WindowInv, NoTask

(* A list displayed. *)
LEMMA DisplayKeeps ==
  ASSUME WindowInv, NEW list \in Lists, DisplayTaskList(list), UNCHANGED <<selected, previous>>
  PROVE  WindowInv'
<1>1. list \in Seq(Sections) BY ListsAreSequences
<1>2. Shown(RowsOf(list), list, Len(list), NoTask) BY <1>1, RowsShown
<1>3. \A j \in 1 .. Len(list) : j # NoTask BY DEF NoTask
<1>4. Shown(RowsOf(list), list, Len(list), selected) BY <1>2, <1>3 DEF Shown
<1>5. tasks' = list /\ first' = FirstOf(list) /\ rows' = RowsOf(list)
      /\ selected' = selected /\ previous' = previous
  BY DEF DisplayTaskList
<1>6. Shown(rows', tasks', Len(tasks'), selected') BY <1>4, <1>5
<1> QED
  BY <1>5, <1>6
  DEF WindowInv, Shown, Place, GetTaskEntryRow, FirstOf, Leads, TaskRow, HeadingRow

(* A jump to a task, which the code makes where it has checked the range itself. *)
LEMMA JumpKeeps ==
  ASSUME WindowInv, NEW i \in 0 .. MaxTasks, JumpTo(i)
  PROVE  /\ WindowInv'
         /\ i \in 1 .. Len(tasks) => \E k \in DOMAIN rows' : rows'[k].lit
<1>1. tasks \in Seq(Sections) /\ first = FirstOf(tasks) BY ListsAreSequences DEF WindowInv
<1>2. selected \in Nat /\ i \in Nat BY MaxTasksAssumption DEF WindowInv
<1>3. /\ tasks' = tasks /\ first' = first /\ selected' = i /\ previous' = selected
      /\ rows' = Highlighted(rows, selected, i, tasks, FirstOf(tasks))
  BY <1>1 DEF JumpTo
<1>4. Shown(rows, tasks, Len(tasks), selected) BY DEF WindowInv
<1>5. Shown(rows', tasks, Len(tasks), i) BY <1>1, <1>2, <1>3, <1>4, HighlightedShown
<1>6. i \in 1 .. Len(tasks) => \E k \in DOMAIN rows' : rows'[k].lit
  BY <1>1, <1>2, <1>3, <1>4, HighlightedShown
<1>7. Shown(rows', tasks', Len(tasks'), selected') BY <1>3, <1>5
<1>8. WindowInv'
  BY <1>1, <1>3, <1>7
  DEF WindowInv, Shown, Place, GetTaskEntryRow, FirstOf, Leads, TaskRow, HeadingRow
<1> QED BY <1>6, <1>8

(* The theme is loaded again: the first task is lit, on a list displayed anew. *)
LEMMA ReloadKeeps ==
  ASSUME WindowInv, ReloadTheme
  PROVE  WindowInv'
<1>1. PICK list \in Lists :
        IF list = <<>>
        THEN DisplayTaskList(list) /\ UNCHANGED <<selected, previous>>
        ELSE /\ tasks' = list /\ first' = FirstOf(list)
             /\ selected' = 1 /\ previous' = selected
             /\ rows' = Highlighted(RowsOf(list), selected, 1, list, first')
  BY DEF ReloadTheme, Later
<1>2. CASE list = <<>> BY <1>1, <1>2, DisplayKeeps
<1>3. CASE list # <<>>
  <2>1. list \in Seq(Sections) /\ Len(list) \in 0 .. MaxTasks BY ListsAreSequences
  <2>2. selected \in Nat /\ 1 \in Nat BY MaxTasksAssumption DEF WindowInv
  <2>3. /\ tasks' = list /\ first' = FirstOf(list) /\ selected' = 1 /\ previous' = selected
        /\ rows' = Highlighted(RowsOf(list), selected, 1, list, FirstOf(list))
    BY <1>1, <1>3
  <2>4. Shown(RowsOf(list), list, Len(list), NoTask) BY <2>1, RowsShown
  <2>5. \A j \in 1 .. Len(list) : j # NoTask BY DEF NoTask
  <2>6. Shown(RowsOf(list), list, Len(list), selected) BY <2>4, <2>5 DEF Shown
  <2>7. Shown(rows', list, Len(list), 1) BY <2>1, <2>2, <2>3, <2>6, HighlightedShown
  <2>8. Shown(rows', tasks', Len(tasks'), selected') BY <2>3, <2>7
  <2>9. 1 \in 0 .. MaxTasks BY <1>3, <2>1, MaxTasksAssumption
  <2> QED
    BY <2>3, <2>8, <2>9
    DEF WindowInv, Shown, Place, GetTaskEntryRow, FirstOf, Leads, TaskRow, HeadingRow
<1> QED BY <1>2, <1>3

(* Every key that moves the selection jumps, and to no task beyond the most there
   are, even from a selection that a longer list has left.                 *)
LEMMA KeyJumps ==
  ASSUME WindowInv, Key
  PROVE  UNCHANGED vars \/ \E i \in 0 .. MaxTasks : JumpTo(i)
<1>1. Len(tasks) \in 0 .. MaxTasks BY ListsAreSequences DEF WindowInv
<1>2. selected \in 0 .. MaxTasks BY DEF WindowInv
<1>3. \A i : HighlightTask(i) => UNCHANGED vars \/ \E j \in 0 .. MaxTasks : JumpTo(j)
  <2> SUFFICES ASSUME NEW i, HighlightTask(i)
               PROVE  UNCHANGED vars \/ \E j \in 0 .. MaxTasks : JumpTo(j)
    OBVIOUS
  <2>1. CASE IsInRange(i, tasks)
    <3>1. i \in 0 .. MaxTasks BY <1>1, <2>1, MaxTasksAssumption DEF IsInRange
    <3> QED BY <2>1, <3>1 DEF HighlightTask
  <2>2. CASE ~IsInRange(i, tasks) BY <2>2 DEF HighlightTask
  <2> QED BY <2>1, <2>2
<1>4. CASE ScrollUp
  <2>1. selected - 1 \in 0 .. MaxTasks BY <1>2, <1>4, MaxTasksAssumption DEF ScrollUp
  <2> QED BY <1>4, <2>1 DEF ScrollUp
<1>5. CASE ScrollDown
  <2>1. selected + 1 \in 0 .. MaxTasks
    BY <1>1, <1>2, <1>5, MaxTasksAssumption DEF ScrollDown
  <2> QED BY <1>5, <2>1 DEF ScrollDown
<1>6. CASE PageUp
  <2> DEFINE i == IF selected > TASKS_PER_PAGE THEN selected - TASKS_PER_PAGE ELSE 1
  <2>1. i \in 0 .. MaxTasks
    BY <1>2, <1>6, MaxTasksAssumption, PageAssumption DEF PageUp
  <2>2. JumpTo(i) BY <1>6 DEF PageUp
  <2> QED BY <2>1, <2>2
<1>7. CASE PageDown
  <2> DEFINE i == IF selected < Len(tasks) - TASKS_PER_PAGE
                  THEN selected + TASKS_PER_PAGE ELSE Len(tasks)
  <2>1. i \in 0 .. MaxTasks
    BY <1>1, <1>2, <1>7, MaxTasksAssumption, PageAssumption
  <2>2. JumpTo(i) BY <1>7 DEF PageDown
  <2> QED BY <2>1, <2>2
<1>8. CASE GotoPreviousSection BY <1>3, <1>8 DEF GotoPreviousSection
<1>9. CASE GotoNextSection BY <1>3, <1>9 DEF GotoNextSection
<1> QED BY <1>4, <1>5, <1>6, <1>7, <1>8, <1>9 DEF Key

(* Every step keeps the invariant. *)
LEMMA StepWindow == WindowInv /\ [Next]_vars => WindowInv'
<1> SUFFICES ASSUME WindowInv, [Next]_vars PROVE WindowInv'
  OBVIOUS
<1>1. CASE UNCHANGED vars
  <2>1. /\ tasks' = tasks /\ first' = first /\ rows' = rows
        /\ selected' = selected /\ previous' = previous
    BY <1>1 DEF vars
  <2>2. Shown(rows', tasks', Len(tasks'), selected') BY <2>1 DEF WindowInv
  <2> QED
    BY <2>1, <2>2
    DEF WindowInv, Shown, Place, GetTaskEntryRow, FirstOf, Leads, TaskRow, HeadingRow
<1>2. CASE ShowTasks
  <2>1. PICK list \in Lists : DisplayTaskList(list) BY <1>2 DEF ShowTasks
  <2> QED BY <1>2, <2>1, DisplayKeeps DEF ShowTasks
<1>3. CASE HighlightId
  <2>1. PICK id \in 1 .. MaxTasks : HighlightTask(id) BY <1>3 DEF HighlightId
  <2>2. CASE IsInRange(id, tasks)
    <3>1. id \in 0 .. MaxTasks BY MaxTasksAssumption
    <3> QED BY <2>1, <2>2, <3>1, JumpKeeps DEF HighlightTask
  <2>3. CASE ~IsInRange(id, tasks) BY <1>1, <2>1, <2>3 DEF HighlightTask
  <2> QED BY <2>2, <2>3
<1>4. CASE ChangeFont
  <2>1. PICK list \in Later(tasks) : DisplayTaskList(list) BY <1>4 DEF ChangeFont
  <2>2. list \in Lists BY DEF Later
  <2> QED BY <1>4, <2>1, <2>2, DisplayKeeps DEF ChangeFont
<1>5. CASE ReloadTheme BY <1>5, ReloadKeeps
<1>6. CASE Key
  <2>1. CASE \E i \in 0 .. MaxTasks : JumpTo(i) BY <2>1, JumpKeeps
  <2> QED BY <1>1, <1>6, <2>1, KeyJumps
<1> QED BY <1>1, <1>2, <1>3, <1>4, <1>5, <1>6 DEF Next

(* So it always holds. *)
LEMMA Windows == Spec => []WindowInv
<1> QED BY InitWindow, StepWindow, PTL DEF Spec

(* Variables have their types, however many tasks there are. *)
THEOREM WindowTyped == Spec => []TypeOK
<1>1. WindowInv => TypeOK
  <2> SUFFICES ASSUME WindowInv PROVE TypeOK
    OBVIOUS
  <2>1. tasks \in Seq(Sections) BY ListsAreSequences DEF WindowInv
  <2>2. first \in [Sections -> 0 .. Len(tasks)] BY <2>1, FirstIsFirst DEF WindowInv
  <2> QED BY <2>2 DEF WindowInv, TypeOK
<1> QED BY <1>1, Windows, PTL

(* At most one row is lit, that of the selected task. *)
THEOREM OneIsLitCorrect == Spec => []OneIsLit
<1>1. WindowInv => OneIsLit
  <2> SUFFICES ASSUME WindowInv, NEW k \in DOMAIN rows, rows[k].lit
               PROVE  rows[k].task = selected
    BY DEF OneIsLit
  <2>1. Shown(rows, tasks, Len(tasks), selected) BY DEF WindowInv
  <2>2. k \in 1 .. Len(rows) BY <2>1, LenProperties DEF Shown
  <2>3. ASSUME NEW i \in 1 .. Len(tasks), k = Place(tasks, i)
        PROVE  rows[k].task = selected
    <3>1. \/ rows[k] = TaskRow(i, FALSE)
          \/ i = selected /\ rows[k] = TaskRow(i, TRUE)
      BY <2>1, <2>3 DEF Shown
    <3> QED BY <3>1 DEF TaskRow
  <2>4. ASSUME NEW i \in 1 .. Len(tasks), rows[k] = HeadingRow(tasks[i]) PROVE FALSE
    BY <2>4 DEF HeadingRow
  <2> QED BY <2>1, <2>2, <2>3, <2>4 DEF Shown
<1> QED BY <1>1, Windows, PTL

(* However rows were inserted and taken away, those on the screen are all the
   tasks, each once and in order, and one subheading above the first task of
   each section.                                                           *)
THEOREM RowsMatchCorrect == Spec => []RowsMatch
<1>1. WindowInv => RowsMatch
  <2> SUFFICES ASSUME WindowInv PROVE RowsMatch
    OBVIOUS
  <2> DEFINE n == Len(tasks)
  <2>1. Shown(rows, tasks, n, selected) BY DEF WindowInv
  <2>2. tasks \in Seq(Sections) /\ n \in Nat /\ DOMAIN tasks = 1 .. n
    BY ListsAreSequences, LenProperties DEF WindowInv
  <2>3. rows \in Seq(Row) /\ Len(rows) = Place(tasks, n) /\ DOMAIN rows = 1 .. Len(rows)
        /\ Len(rows) \in Nat
    BY <2>1, LenProperties DEF Shown
  <2>4. ASSUME NEW i \in 1 .. n
        PROVE  /\ Place(tasks, i) \in DOMAIN rows /\ rows[Place(tasks, i)].task = i
               /\ rows[Place(tasks, i)].heading = 0
    <3>1. /\ Place(tasks, i) \in 1 .. Len(rows)
          /\ \/ rows[Place(tasks, i)] = TaskRow(i, FALSE)
             \/ rows[Place(tasks, i)] = TaskRow(i, TRUE)
      BY <2>1 DEF Shown
    <3> QED BY <2>3, <3>1 DEF TaskRow
  <2>5. ASSUME NEW k \in DOMAIN rows, rows[k].task # NoTask
        PROVE  \E i \in 1 .. n : k = Place(tasks, i) /\ rows[k].task = i
    <3>1. ~\E i \in 1 .. n : rows[k] = HeadingRow(tasks[i]) BY <2>5 DEF HeadingRow
    <3>2. \E i \in 1 .. n : k = Place(tasks, i) BY <2>1, <2>3, <3>1 DEF Shown
    <3> QED BY <2>4, <3>2
  <2>6. ASSUME NEW k \in DOMAIN rows, rows[k].heading # 0
        PROVE  \E i \in 1 .. n :
                 Leads(tasks, i) /\ k = Place(tasks, i) - 1 /\ rows[k].heading = tasks[i]
    <3>1. ~\E i \in 1 .. n : k = Place(tasks, i) BY <2>4, <2>6
    <3>2. \E i \in 1 .. n :
            Leads(tasks, i) /\ k = Place(tasks, i) - 1 /\ rows[k] = HeadingRow(tasks[i])
      BY <2>1, <2>3, <3>1 DEF Shown
    <3> QED BY <3>2 DEF HeadingRow
  <2> DEFINE ofTask == {k \in DOMAIN rows : rows[k].task # NoTask}
             Under(i) == {s \in Sections : s = tasks[i] /\ \A j \in 1 .. i - 1 : tasks[j] # s}
  <2>7. {rows[k].task : k \in ofTask} = DOMAIN tasks
    <3>1. \A i \in 1 .. n : i # NoTask BY DEF NoTask
    <3>2. \A i \in 1 .. n : Place(tasks, i) \in ofTask BY <2>4, <3>1
    <3>3. \A i \in 1 .. n : i \in {rows[k].task : k \in ofTask} BY <2>4, <3>2
    <3>4. \A k \in ofTask : rows[k].task \in 1 .. n BY <2>5
    <3> QED BY <2>2, <3>3, <3>4
  <2>8. ASSUME NEW k \in ofTask, NEW l \in ofTask, k < l PROVE rows[k].task < rows[l].task
    <3>1. PICK i \in 1 .. n : k = Place(tasks, i) /\ rows[k].task = i BY <2>5
    <3>2. PICK j \in 1 .. n : l = Place(tasks, j) /\ rows[l].task = j BY <2>5
    <3>3. i \in 0 .. n /\ j \in 0 .. n /\ k \in Int /\ l \in Int BY <2>2, <2>3
    <3>4. j < i => l < k BY <2>2, <3>1, <3>2, <3>3, PlaceOrder
    <3>5. i # j BY <2>3, <2>8, <3>1, <3>2
    <3> QED BY <2>3, <2>8, <3>1, <3>2, <3>3, <3>4, <3>5
  <2>9. Len(rows) = Len(tasks) + Cardinality(ToSet(tasks))
    <3>1. n \in 0 .. n BY <2>2
    <3>2. FirstOf(tasks) \in [Sections -> 0 .. n] BY <2>2, FirstIsFirst
    <3>3. ASSUME NEW s \in Above(tasks, n) PROVE s \in ToSet(tasks)
      <4>1. s \in Sections /\ FirstOf(tasks)[s] # NoTask BY DEF Above
      <4>2. FirstOf(tasks)[s] \in 1 .. n /\ tasks[FirstOf(tasks)[s]] = s
        BY <2>2, <4>1, FirstIsFirst
      <4> QED BY <2>2, <4>2 DEF ToSet
    <3>4. ASSUME NEW s \in ToSet(tasks) PROVE s \in Above(tasks, n)
      <4>1. PICK i \in 1 .. n : s = tasks[i] BY <2>2 DEF ToSet
      <4>2. s \in Sections BY <2>2, <4>1
      <4>3. FirstOf(tasks)[s] # NoTask BY <2>2, <4>1, FirstIsFirst
      <4>4. FirstOf(tasks)[s] <= n BY <2>2, <3>2, <4>2
      <4> QED BY <4>2, <4>3, <4>4 DEF Above
    <3>5. Above(tasks, n) = ToSet(tasks) BY <3>3, <3>4
    <3> QED BY <2>2, <2>3, <3>1, <3>5, PlaceIsSum
  <2>10. ASSUME NEW k \in DOMAIN rows, rows[k].heading # 0
         PROVE  /\ k < Len(rows) /\ rows[k + 1].task # NoTask
                /\ rows[k].heading \in Under(rows[k + 1].task)
    <3>1. PICK i \in 1 .. n :
            Leads(tasks, i) /\ k = Place(tasks, i) - 1 /\ rows[k].heading = tasks[i]
      BY <2>6, <2>10
    <3>2. Place(tasks, i) \in 1 .. Len(rows) /\ k + 1 = Place(tasks, i)
          /\ rows[k + 1].task = i
      BY <2>3, <2>4, <3>1
    <3>3. i # NoTask /\ tasks[i] \in Sections BY <2>2 DEF NoTask
    <3>4. \A j \in 1 .. i - 1 : tasks[j] # tasks[i]
      <4> SUFFICES ASSUME NEW j \in 1 .. i - 1, tasks[j] = tasks[i] PROVE FALSE
        OBVIOUS
      <4>1. j \in 1 .. n BY <2>2
      <4>2. FirstOf(tasks)[tasks[i]] <= j BY <2>2, <3>3, <4>1, FirstIsFirst
      <4> QED BY <2>2, <3>1, <4>2 DEF Leads
    <3> QED BY <2>3, <3>1, <3>2, <3>3, <3>4
  <2> HIDE DEF n
  <2> QED BY <2>7, <2>8, <2>9, <2>10 DEF RowsMatch
<1> QED BY <1>1, Windows, PTL

(* A key that moves the selection to a task lights it, whatever the selection was
   left at by a longer list.                                               *)
THEOREM KeyLightsCorrect == Spec => KeyLights
<1> DEFINE Lights ==
      Key /\ selected' # selected /\ selected' \in 1 .. Len(tasks)
        => \E k \in DOMAIN rows' : rows'[k].lit
<1>1. WindowInv /\ [Next]_vars => [Lights]_vars
  <2> SUFFICES ASSUME WindowInv, Key, selected' # selected, selected' \in 1 .. Len(tasks)
               PROVE  \E k \in DOMAIN rows' : rows'[k].lit
    OBVIOUS
  <2>1. ~UNCHANGED vars BY DEF vars
  <2>2. PICK i \in 0 .. MaxTasks : JumpTo(i) BY <2>1, KeyJumps
  <2>3. selected' = i BY <2>2 DEF JumpTo
  <2> QED BY <2>2, <2>3, JumpKeeps
<1>2. Spec => [][Lights]_vars BY <1>1, Windows, PTL DEF Spec
<1> QED BY <1>2 DEF KeyLights

-----------------------------------------------------------------------------
(* The keys that go from section to section. *)

(* In order of section a task stands before the first task of a section just if
   it is of one before.                                                     *)
LEMMA FirstInOrder ==
  ASSUME NEW list \in Seq(Sections), Ascending(list),
         NEW i \in 1 .. Len(list), NEW s \in Sections, FirstOf(list)[s] # NoTask
  PROVE  /\ s \in ToSet(list) /\ FirstOf(list)[s] = Min({j \in DOMAIN list : list[j] = s})
         /\ FirstOf(list)[s] \in 1 .. Len(list)
         /\ FirstOf(list)[s] <= i <=> s <= list[i]
<1>1. Len(list) \in Nat /\ DOMAIN list = 1 .. Len(list) /\ list[i] \in Sections
  BY LenProperties
<1>2. /\ FirstOf(list)[s] \in 1 .. Len(list) /\ list[FirstOf(list)[s]] = s
      /\ \A j \in 1 .. Len(list) : list[j] = s => FirstOf(list)[s] <= j
  BY FirstIsFirst
<1>3. s \in ToSet(list) BY <1>1, <1>2 DEF ToSet
<1>4. FirstOf(list)[s] = Min({j \in DOMAIN list : list[j] = s}) BY <1>3 DEF FirstOf
<1> DEFINE f == FirstOf(list)[s]
<1>5. ASSUME f <= i PROVE s <= list[i]
  <2>1. CASE f = i BY <1>1, <1>2, <2>1 DEF Sections
  <2>2. CASE f < i BY <1>1, <1>2, <2>2 DEF Ascending
  <2> QED BY <1>1, <1>2, <1>5, <2>1, <2>2
<1>6. ASSUME s <= list[i] PROVE f <= i
  <2>1. CASE s = list[i] BY <1>2, <2>1
  <2>2. CASE s # list[i]
    <3>1. ~(list[f] <= list[i]) => FALSE BY <1>1, <1>2, <1>6
    <3>2. ~(i < f)
      <4> SUFFICES ASSUME i < f PROVE FALSE
        OBVIOUS
      <4>1. list[i] <= list[f] BY <1>1, <1>2 DEF Ascending
      <4> QED BY <1>1, <1>2, <1>6, <2>2, <4>1 DEF Sections
    <3> QED BY <1>1, <1>2, <3>2
  <2> QED BY <2>1, <2>2
<1> QED BY <1>2, <1>3, <1>4, <1>5, <1>6

(* The sections on a list are those that have a first task. *)
LEMMA SectionsFound ==
  ASSUME NEW list \in Seq(Sections)
  PROVE  \A s \in Sections : s \in ToSet(list) <=> FirstOf(list)[s] # NoTask
<1>1. DOMAIN list = 1 .. Len(list) BY LenProperties
<1>2. ASSUME NEW s \in ToSet(list) PROVE FirstOf(list)[s] # NoTask
  <2>1. PICK i \in 1 .. Len(list) : s = list[i] BY <1>1 DEF ToSet
  <2> QED BY <2>1, FirstIsFirst
<1>3. ASSUME NEW s \in Sections, s \notin ToSet(list) PROVE FirstOf(list)[s] = NoTask
  BY <1>3 DEF FirstOf
<1> QED BY <1>2, <1>3

(* A set of sections has a first one and a last one. *)
LEMMA SectionsBounded ==
  ASSUME NEW S \in SUBSET Sections, S # {}
  PROVE  /\ Min(S) \in S /\ \A s \in S : Min(S) <= s
         /\ Max(S) \in S /\ \A s \in S : s <= Max(S)
<1>1. S \in SUBSET Nat /\ \A s \in S : s <= 4 BY DEF Sections
<1>2. Min(S) \in S /\ \A s \in S : Min(S) <= s BY <1>1, MinIsSmallest
<1>3. 4 \in Nat OBVIOUS
<1>4. Max(S) \in S /\ \A s \in S : s <= Max(S) BY <1>1, <1>3, MaxIsLargest
<1> QED BY <1>2, <1>4

(* In a list in order of section the section keys go to the first task of the
   section before, and of the section after, that of the selected task; at the
   ends to the first task and the last one.                                *)
THEOREM SectionKeysCorrect == Spec => SectionKeys
<1> DEFINE own == tasks[selected]
           At(s) == {i \in DOMAIN tasks : tasks[i] = s}
           sooner == {s \in ToSet(tasks) : s < own}
           beyond == {s \in ToSet(tasks) : s > own}
           Sound == Ascending(tasks) /\ IsInRange(selected, tasks) =>
             /\ GotoPreviousSection =>
                  selected' = IF sooner = {} THEN 1 ELSE Min(At(Max(sooner)))
             /\ GotoNextSection =>
                  selected' = IF beyond = {} THEN Len(tasks) ELSE Min(At(Min(beyond)))
<1>1. WindowInv => Sound
  <2> SUFFICES ASSUME WindowInv, Ascending(tasks), IsInRange(selected, tasks)
               PROVE  /\ GotoPreviousSection =>
                           selected' = IF sooner = {} THEN 1 ELSE Min(At(Max(sooner)))
                      /\ GotoNextSection =>
                           selected' = IF beyond = {} THEN Len(tasks) ELSE Min(At(Min(beyond)))
    OBVIOUS
  <2>1. tasks \in Seq(Sections) /\ first = FirstOf(tasks) BY ListsAreSequences DEF WindowInv
  <2>2. Len(tasks) \in Nat /\ selected \in 1 .. Len(tasks) /\ DOMAIN tasks = 1 .. Len(tasks)
    BY <2>1, LenProperties DEF IsInRange
  <2>3. own \in Sections BY <2>1, <2>2
  <2>4. \A s \in ToSet(tasks) : s \in Sections BY <2>1, <2>2 DEF ToSet
  <2>5. ASSUME NEW s \in ToSet(tasks)
        PROVE  /\ first[s] # NoTask /\ first[s] = Min(At(s)) /\ first[s] \in 1 .. Len(tasks)
               /\ first[s] <= selected <=> s <= own
    <3>1. s \in Sections /\ FirstOf(tasks)[s] # NoTask BY <2>1, <2>4, SectionsFound
    <3> QED BY <2>1, <2>2, <3>1, FirstInOrder
  <2>6. \A s \in Sections : first[s] # NoTask => s \in ToSet(tasks) BY <2>1, SectionsFound
  <2>7. \A i \in 1 .. Len(tasks) : HighlightTask(i) => selected' = i
    BY DEF HighlightTask, IsInRange, JumpTo
  <2> DEFINE begun == {s \in Sections : first[s] # NoTask /\ first[s] <= selected}
             after == {s \in Sections : first[s] # NoTask /\ first[s] > selected}
             before == begun \ {Max(begun)}
  <2>8. begun = {s \in ToSet(tasks) : s <= own} BY <2>4, <2>5, <2>6
  <2>9. after = beyond
    <3>1. \A s \in ToSet(tasks) : first[s] > selected <=> s > own
      <4> SUFFICES ASSUME NEW s \in ToSet(tasks) PROVE first[s] > selected <=> s > own
        OBVIOUS
      <4> DEFINE h == own
                 f == first[s]
      <4>1. s \in 1 .. 4 /\ h \in 1 .. 4 BY <2>3, <2>4 DEF Sections
      <4>2. f \in 1 .. Len(tasks) /\ (f <= selected <=> s <= h) BY <2>5
      <4> HIDE DEF f, h
      <4>3. f > selected <=> s > h BY <2>2, <4>1, <4>2
      <4> QED BY <4>3 DEF f, h
    <3> QED BY <2>4, <2>5, <2>6, <3>1
  <2>10. own \in begun BY <2>1, <2>2, <2>3, <2>8 DEF ToSet, Sections
  <2>11. Max(begun) = own
    <3>1. begun \in SUBSET Sections /\ begun # {} BY <2>10
    <3>2. \A s \in begun : s <= own BY <2>8
    <3> HIDE DEF begun
    <3>3. Max(begun) \in begun /\ \A s \in begun : s <= Max(begun) BY <3>1, SectionsBounded
    <3>4. Max(begun) \in Sections /\ Max(begun) <= own /\ own <= Max(begun)
      BY <2>10, <3>1, <3>2, <3>3
    <3> DEFINE m == Max(begun)
               h == own
    <3>5. m \in 1 .. 4 /\ h \in 1 .. 4 /\ m <= h /\ h <= m BY <2>3, <3>4 DEF Sections
    <3> HIDE DEF m, h
    <3>6. m = h BY <3>5
    <3> QED BY <3>6 DEF m, h
  <2>12. before = sooner
    <3>1. \A s \in ToSet(tasks) : s <= own /\ s # own <=> s < own BY <2>3, <2>4 DEF Sections
    <3> HIDE DEF begun
    <3> QED BY <2>8, <2>11, <3>1
  <2>13. sooner \in SUBSET Sections /\ beyond \in SUBSET Sections BY <2>4
  <2>14. ASSUME GotoPreviousSection
         PROVE  selected' = IF sooner = {} THEN 1 ELSE Min(At(Max(sooner)))
    <3>1. HighlightTask(IF begun = {} \/ before = {} THEN 1 ELSE first[Max(before)])
      BY <2>14 DEF GotoPreviousSection, Started
    <3>2. HighlightTask(IF sooner = {} THEN 1 ELSE first[Max(sooner)])
      <4>1. begun # {} BY <2>10
      <4> HIDE DEF begun, sooner
      <4> QED BY <2>12, <3>1, <4>1
    <3>3. CASE sooner = {}
      <4>1. 1 \in 1 .. Len(tasks) BY <2>2
      <4> QED BY <2>7, <3>2, <3>3, <4>1
    <3>4. CASE sooner # {}
      <4>1. Max(sooner) \in sooner BY <2>13, <3>4, SectionsBounded
      <4>2. first[Max(sooner)] = Min(At(Max(sooner))) /\ first[Max(sooner)] \in 1 .. Len(tasks)
        BY <2>5, <4>1
      <4> QED BY <2>7, <3>2, <3>4, <4>2
    <3> QED BY <3>3, <3>4
  <2>15. ASSUME GotoNextSection
         PROVE  selected' = IF beyond = {} THEN Len(tasks) ELSE Min(At(Min(beyond)))
    <3>1. HighlightTask(IF after = {} THEN Len(tasks) ELSE first[Min(after)])
      BY <2>15 DEF GotoNextSection, Started
    <3>2. HighlightTask(IF beyond = {} THEN Len(tasks) ELSE first[Min(beyond)])
      <4> HIDE DEF after, beyond
      <4> QED BY <2>9, <3>1
    <3>3. CASE beyond = {}
      <4>1. Len(tasks) \in 1 .. Len(tasks) BY <2>2
      <4> QED BY <2>7, <3>2, <3>3, <4>1
    <3>4. CASE beyond # {}
      <4>1. Min(beyond) \in beyond BY <2>13, <3>4, SectionsBounded
      <4>2. first[Min(beyond)] = Min(At(Min(beyond))) /\ first[Min(beyond)] \in 1 .. Len(tasks)
        BY <2>5, <4>1
      <4> QED BY <2>7, <3>2, <3>4, <4>2
    <3> QED BY <3>3, <3>4
  <2> QED BY <2>14, <2>15
<1>2. WindowInv =>
        (Ascending(tasks) /\ IsInRange(selected, tasks) =>
           LET here == tasks[selected]
               Of(s) == {i \in DOMAIN tasks : tasks[i] = s}
               lower == {s \in ToSet(tasks) : s < here}
               upper == {s \in ToSet(tasks) : s > here}
           IN  /\ GotoPreviousSection =>
                    selected' = IF lower = {} THEN 1 ELSE Min(Of(Max(lower)))
               /\ GotoNextSection =>
                    selected' = IF upper = {} THEN Len(tasks) ELSE Min(Of(Min(upper))))
  BY <1>1
<1> QED BY <1>2, Windows, PTL DEF SectionKeys

-----------------------------------------------------------------------------
(* Settings.  Each edit stores and tells in one, so that the looks are right at
   every stage of Apply, though the property asks it of its end only.        *)
SettingsInv ==
  /\ TypeOKSettings
  /\ looks.icons = stored.icons
  /\ looks.input = stored.theme /\ looks.list = stored.theme
  /\ looks.headings = {stored.theme} /\ looks.rows = {stored.font}
  /\ applied => looks.features = stored.features
  /\ stored.startup = "yes" => link

StoredTypes ==
  [features : BOOLEAN, font : Fonts, icons : IconSets,
   startup : {"unset", "yes", "no"}, theme : Themes]

LEMMA LoadedTyped == ASSUME NEW is \in StoredTypes PROVE Loaded(is) \in Selections
<1> DEFINE with(b) == [is EXCEPT !.startup = b]
<1>1. with(TRUE) \in Selections /\ with(FALSE) \in Selections
  BY DEF StoredTypes, Selections
<1>2. Loaded(is) = with(is.startup # "no") BY DEF Loaded
<1>3. CASE is.startup = "no"
  <2>1. (is.startup # "no") = FALSE BY <1>3
  <2> QED BY <1>1, <1>2, <2>1
<1>4. CASE is.startup # "no"
  <2>1. (is.startup # "no") = TRUE BY <1>4
  <2> QED BY <1>1, <1>2, <2>1
<1> QED BY <1>3, <1>4

(* New windows look as is stored, whatever features they come with. *)
LEMMA NewLooksRight ==
  ASSUME NEW is \in StoredTypes, NEW new \in NewLooks(is)
  PROVE  /\ new \in [features : BOOLEAN, icons : IconSets, input : Themes, list : Themes,
                     headings : SUBSET Themes, rows : SUBSET Fonts]
         /\ new.icons = is.icons /\ new.input = is.theme /\ new.list = is.theme
         /\ new.headings = {is.theme} /\ new.rows = {is.font}
  BY DEF StoredTypes, NewLooks

LEMMA InitSettings == SettingsInit => SettingsInv
<1> SUFFICES ASSUME SettingsInit PROVE SettingsInv
  OBVIOUS
<1>1. stored \in StoredTypes BY DefaultsAssumption DEF SettingsInit, StoredTypes
<1>2. boxes \in Selections BY <1>1, LoadedTyped DEF SettingsInit
<1>3. looks \in NewLooks(stored) BY DEF SettingsInit
<1>4. edit \in Edits /\ link \in BOOLEAN /\ applied = FALSE
  BY DEF SettingsInit, Edits, NoEdit
<1>5. stored.startup = "unset" BY DEF SettingsInit
<1> QED BY <1>1, <1>2, <1>3, <1>4, <1>5, NewLooksRight
  DEF SettingsInv, TypeOKSettings, StoredTypes

LEMMA StepSettings == SettingsInv /\ [SettingsNext]_settingsVars => SettingsInv'
<1> SUFFICES ASSUME SettingsInv, [SettingsNext]_settingsVars PROVE SettingsInv'
  OBVIOUS
<1>0. stored \in StoredTypes
  BY DEF SettingsInv, TypeOKSettings, StoredTypes
<1>13. Restart => /\ boxes' = Loaded(stored) /\ looks' \in NewLooks(stored)
                  /\ edit' = NoEdit /\ applied' = FALSE /\ UNCHANGED <<stored, link>>
  BY DEF Restart
<1> USE DEF SettingsInv, TypeOKSettings, Selections, Edits, NoEdit
<1>1. CASE ShowSettings BY <1>1, LoadedTyped DEF ShowSettings, StoredTypes
<1>2. CASE Choose BY <1>2 DEF Choose
<1>3. CASE HandleApplyButton BY <1>3 DEF HandleApplyButton
<1>4. CASE EditFeatures BY <1>4 DEF EditFeatures, Store
<1>5. CASE EditFont BY <1>5 DEF EditFont, Store
<1>6. CASE EditIcons BY <1>6 DEF EditIcons, Store
<1>7. CASE EditRunOnStartup BY <1>7 DEF EditRunOnStartup
<1>8. CASE EditTheme BY <1>8 DEF EditTheme, Store
<1>9. CASE ShowList BY <1>9 DEF ShowList
<1>10. CASE ReplaceRow BY <1>10 DEF ReplaceRow
<1>11. CASE Restart
  <2>1. boxes' \in Selections BY ONLY <1>0, <1>11, <1>13, LoadedTyped
  <2> QED BY <1>0, <1>11, <1>13, <2>1, NewLooksRight
<1>12. CASE UNCHANGED settingsVars BY <1>12 DEF settingsVars
<1> QED
  BY <1>1, <1>2, <1>3, <1>4, <1>5, <1>6, <1>7, <1>8, <1>9, <1>10, <1>11, <1>12
  DEF SettingsNext

(* Whatever is chosen, applied and cut short, no window looks other than stored. *)
THEOREM LooksCorrect == SettingsSpec => []LooksAsStored
<1>1. SettingsInv => LooksAsStored BY DEF SettingsInv, LooksAsStored
<1> QED BY <1>1, InitSettings, StepSettings, PTL DEF SettingsSpec

(* The variables of both have their types, whichever of the two takes steps. *)
THEOREM TypesCorrect == Spec /\ SettingsSpec => []TypesOK
<1>1. SettingsInv => TypeOKSettings BY DEF SettingsInv
<1>2. SettingsSpec => []TypeOKSettings
  BY <1>1, InitSettings, StepSettings, PTL DEF SettingsSpec
<1> QED BY <1>2, WindowTyped, PTL DEF TypesOK
=============================================================================
