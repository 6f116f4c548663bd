--------------------------- MODULE TimelineProofs ---------------------------
(***************************************************************************)
(* Theorems of TasukeTimeline, the first two while the clock stands still: *)
(*   HitsThePickedCorrect  SpecT => HitsThePicked                          *)
(*   TimelineImplemented   SpecStraight => ImplementsTimeline              *)
(*   UndoGivesBackCorrect  SpecT => UndoGivesBack                          *)
(* The invariant of the first is BatchInv: of a straight command being run *)
(* for the first time, the tasks it has still to reach are where they were *)
(* when it was given, for ids are sorted so that a part changes only what  *)
(* is behind them (a removal, a mark) or before them (an unmark).          *)
(* That of the second, which is also for contents the order tells apart    *)
(* (NoTies), is TimelineInv: every command of the histories leads from the *)
(* document before it to the one after it, part by part (Path), and the    *)
(* command in progress has come so far on its way.                         *)
(* That of the third is GivesInv: what the parts run so far have made of   *)
(* the list (Forth), what those undone so far have made of it (Back), and  *)
(* that a command is of one kind (Uniform), in the histories too.  It says *)
(* nothing of ids or of the order, so it needs no clock that stands still. *)
(***************************************************************************)
EXTENDS TasukeTimeline, TasukeProofs

(* Lists that are the one rearranged to the other hold the same tasks, each as
   often. *)
LEMMA RearrangedSame ==
  ASSUME NEW S, NEW ts \in Seq(S), NEW us \in Seq(S), Rearranged(ts, us)
  PROVE  SameTasks(ts, us)
<1> DEFINE n == Len(ts)
<1>1. n \in Nat /\ Len(us) = n /\ DOMAIN ts = 1 .. n /\ DOMAIN us = 1 .. n
  BY RearrangedBy
<1>0. PICK p \in Positions(n) : \A k \in 1 .. n : ts[k] = us[p[k]]
  BY RearrangedBy
<1> HIDE DEF n
<1>2. /\ p \in [1 .. n -> 1 .. n]
      /\ \A k, l \in 1 .. n : p[k] = p[l] => k = l
      /\ \A i \in 1 .. n : \E k \in 1 .. n : p[k] = i
  <2>1. p \in [1 .. n -> 1 .. n] BY <1>0, <1>1, PositionsOnto
  <2>2. \A k, l \in 1 .. n : p[k] = p[l] => k = l BY <1>0, <1>1, PositionsOnto
  <2>3. ASSUME NEW i \in 1 .. n PROVE \E k \in 1 .. n : p[k] = i
    BY <1>0, <1>1, EachIsTaken
  <2> QED BY <2>1, <2>2, <2>3
<1>3. ASSUME NEW t
      PROVE  Cardinality({i \in DOMAIN ts : ts[i] = t})
               = Cardinality({i \in DOMAIN us : us[i] = t})
  <2> DEFINE I == {i \in DOMAIN us : us[i] = t}
             K == {k \in DOMAIN ts : ts[k] = t}
             f == [k \in K |-> p[k]]
  <2>1. K \subseteq 1 .. n /\ IsFiniteSet(1 .. n)
    BY <1>1, FS_Interval
  <2>2. IsFiniteSet(K)
    BY <2>1, FS_Subset
  <2>3. \A k \in K : p[k] \in I
    BY <1>0, <1>1, <1>2
  <2>4. \A i \in I : \E k \in K : p[k] = i
    BY <1>0, <1>1, <1>2
  <2>5. \A k, l \in K : p[k] = p[l] => k = l
    BY <1>2, <2>1
  <2> HIDE DEF I, K
  <2>6. f \in Bijection(K, I)
    BY <2>3, <2>4, <2>5 DEF Bijection, Injection, Surjection, IsInjective
  <2>7. ExistsBijection(K, I)
    BY <2>6 DEF ExistsBijection
  <2>8. Cardinality(I) = Cardinality(K)
    BY <2>2, <2>7, FS_Bijection
  <2> QED BY <2>8 DEF I, K
<1> QED BY <1>1, <1>3 DEF SameTasks, n

-----------------------------------------------------------------------------
(* A list without some of its tasks, the first of which are where they were. *)
Left(base, gone) == (1 .. Len(base)) \ gone

TakenBy(f, ts, base, gone, same) ==
  /\ f \in [1 .. Len(ts) -> Left(base, gone)]
  /\ \A k, l \in 1 .. Len(ts) : f[k] = f[l] => k = l
  /\ \A i \in Left(base, gone) : \E k \in 1 .. Len(ts) : f[k] = i
  /\ \A k \in 1 .. Len(ts) : ts[k] = base[f[k]]
  /\ \A k \in 1 .. same : k \in 1 .. Len(ts) /\ f[k] = k

Taken(ts, base, gone, same) == \E f : TakenBy(f, ts, base, gone, same)

(* A list nothing is taken of is all where it was. *)
LEMMA NothingTaken ==
  ASSUME NEW ts \in Seq(Task), NEW same \in 0 .. Len(ts)
  PROVE  Taken(ts, ts, {}, same)
<1> DEFINE f == [k \in 1 .. Len(ts) |-> k]
<1>1. TakenBy(f, ts, ts, {}, same) BY DEF TakenBy, Left
<1> QED BY <1>1 DEF Taken

(* To remove a task of the part that is as it was leaves what is in front of it. *)
LEMMA TakeOne ==
  ASSUME NEW time \in Nat, NEW base \in Seq(Task), NEW ts \in Seq(Task), Tidy(ts, time),
         NEW gone, NEW id \in 1 .. Len(base), Taken(ts, base, gone, id),
         NEW same \in 0 .. id - 1
  PROVE  /\ IsId(ts, id) /\ ts[id] = base[id]
         /\ RemoveTask(ts, id, time) = RemoveAt(ts, id)
         /\ Taken(RemoveTask(ts, id, time), base, gone \cup {id}, same)
<1> DEFINE n == Len(ts)
           new == RemoveAt(ts, id)
<1>1. PICK f : TakenBy(f, ts, base, gone, id) BY DEF Taken
<1>2. n \in Nat /\ Len(base) \in Nat OBVIOUS
<1>3. id \in 1 .. n /\ f[id] = id /\ ts[id] = base[id]
  BY <1>1, <1>2 DEF TakenBy
<1>4. /\ new \in Seq(Task) /\ Len(new) = n - 1
      /\ \A k \in 1 .. n - 1 : new[k] = IF k < id THEN ts[k] ELSE ts[k + 1]
  BY <1>3, RemovedAt
<1>5. Tidy(new, time)
  <2> HIDE DEF new, n
  <2> SUFFICES ASSUME NEW k \in 1 .. n - 1, NEW l \in 1 .. n - 1, k < l
               PROVE  AtOrBefore(new[k], new[l], time)
    BY <1>4 DEF Tidy
  <2> DEFINE Skip(x) == IF x < id THEN x ELSE x + 1
  <2>1. Skip(k) \in 1 .. n /\ Skip(l) \in 1 .. n /\ Skip(k) < Skip(l) BY <1>2
  <2>2. new[k] = ts[Skip(k)] /\ new[l] = ts[Skip(l)] BY <1>4
  <2> QED BY <2>1, <2>2 DEF Tidy, n
<1>6. IsId(ts, id) /\ RemoveTask(ts, id, time) = new
  <2>1. IsId(ts, id) BY <1>3 DEF IsId
  <2> HIDE DEF new
  <2>2. Renumber(new, time) = new BY <1>4, <1>5, TidyStays
  <2> QED BY <2>1, <2>2 DEF RemoveTask, new
<1> DEFINE Skip(x) == IF x < id THEN x ELSE x + 1
           g == [k \in 1 .. n - 1 |-> f[Skip(k)]]
           R == Left(base, gone)
<1>7. /\ f \in [1 .. n -> R]
      /\ \A k, l \in 1 .. n : f[k] = f[l] => k = l
      /\ \A i \in R : \E k \in 1 .. n : f[k] = i
      /\ \A k \in 1 .. n : ts[k] = base[f[k]]
      /\ \A k \in 1 .. id : k \in 1 .. n /\ f[k] = k
  BY <1>1 DEF TakenBy
<1>8. Left(base, gone \cup {id}) = R \ {id} BY DEF Left
<1> HIDE DEF n, new, R
<1>9. \A k \in 1 .. n - 1 : Skip(k) \in 1 .. n /\ Skip(k) # id BY <1>2, <1>3
<1>10. \A k, l \in 1 .. n - 1 : Skip(k) = Skip(l) => k = l BY <1>2
<1>11. \A x \in 1 .. n : x # id => \E k \in 1 .. n - 1 : Skip(k) = x
  <2> SUFFICES ASSUME NEW x \in 1 .. n, x # id PROVE \E k \in 1 .. n - 1 : Skip(k) = x
    OBVIOUS
  <2>1. CASE x < id
    <3>1. x \in 1 .. n - 1 /\ Skip(x) = x BY <1>2, <1>3, <2>1
    <3> QED BY <3>1
  <2>2. CASE id < x
    <3>1. x - 1 \in 1 .. n - 1 /\ Skip(x - 1) = x BY <1>2, <1>3, <2>2
    <3> QED BY <3>1
  <2> QED BY <1>2, <1>3, <2>1, <2>2
<1>12. \A k \in 1 .. n - 1 : new[k] = ts[Skip(k)] BY <1>4
<1>13. ASSUME NEW k \in 1 .. same PROVE k \in 1 .. n - 1 /\ Skip(k) = k
  BY <1>2, <1>3
<1> HIDE DEF Skip
<1>14. g \in [1 .. n - 1 -> R \ {id}] BY <1>3, <1>7, <1>9
<1>15. \A k, l \in 1 .. n - 1 : g[k] = g[l] => k = l BY <1>7, <1>9, <1>10
<1>16. \A i \in R \ {id} : \E k \in 1 .. n - 1 : g[k] = i
  <2> SUFFICES ASSUME NEW i \in R, i # id PROVE \E k \in 1 .. n - 1 : g[k] = i
    OBVIOUS
  <2>1. PICK x \in 1 .. n : f[x] = i BY <1>7
  <2>2. x # id BY <1>3, <2>1
  <2>3. PICK k \in 1 .. n - 1 : Skip(k) = x BY <1>11, <2>2
  <2> QED BY <2>1, <2>3
<1>17. \A k \in 1 .. n - 1 : new[k] = base[g[k]] BY <1>7, <1>9, <1>12
<1>18. ASSUME NEW k \in 1 .. same PROVE k \in 1 .. n - 1 /\ g[k] = k
  <2>1. k \in 1 .. id OBVIOUS
  <2> QED BY <1>7, <1>13, <2>1
<1> HIDE DEF g
<1>19. TakenBy(g, new, base, gone \cup {id}, same)
  BY <1>4, <1>8, <1>14, <1>15, <1>16, <1>17, <1>18 DEF TakenBy
<1> QED BY <1>3, <1>6, <1>19 DEF Taken, new

(* A search that selects a set of positions has each of them once. *)
LEMMA EnumerationOneToOne ==
  ASSUME NEW n \in Nat, NEW P \in SUBSET (1 .. n)
  PROVE  /\ Cardinality(P) \in Nat
         /\ \A k \in 1 .. Cardinality(P) : Enumeration(P)[k] \in P
         /\ \A k, l \in 1 .. Cardinality(P) :
              Enumeration(P)[k] = Enumeration(P)[l] => k = l
<1>1. Cardinality(P) \in Nat BY FinitePositions
<1>2. ASSUME NEW k \in 1 .. Cardinality(P)
      PROVE  /\ Enumeration(P)[k] \in P
             /\ Cardinality({j \in P : j <= Enumeration(P)[k]}) = k
  <2>1. Enumeration(P)[k] \in P BY EnumerationOnto
  <2>2. \E i \in P : Cardinality({j \in P : j <= i}) = k BY EnumerationReached
  <2> QED BY <2>1, <2>2 DEF Enumeration
<1> QED BY <1>1, <1>2

(* A list without some of its tasks is the tasks left, in some order. *)
LEMMA TakenIsPicked ==
  ASSUME NEW base \in Seq(Task), NEW ts \in Seq(Task), NEW gone, NEW same,
         Taken(ts, base, gone, same)
  PROVE  LET left == Left(base, gone)
             picked == [k \in 1 .. Cardinality(left) |-> base[Enumeration(left)[k]]]
         IN  picked \in Seq(Task) /\ Rearranged(ts, picked)
<1> DEFINE left == Left(base, gone)
           c == Cardinality(left)
           picked == [k \in 1 .. c |-> base[Enumeration(left)[k]]]
           n == Len(ts)
<1>1. PICK f : TakenBy(f, ts, base, gone, same) BY DEF Taken
<1>2. n \in Nat /\ Len(base) \in Nat /\ left \in SUBSET (1 .. Len(base)) BY DEF Left
<1>3. /\ f \in [1 .. n -> left]
      /\ \A k, l \in 1 .. n : f[k] = f[l] => k = l
      /\ \A i \in left : \E k \in 1 .. n : f[k] = i
      /\ \A k \in 1 .. n : ts[k] = base[f[k]]
  BY <1>1 DEF TakenBy
<1> HIDE DEF left, n
<1>4. /\ c \in Nat
      /\ \A k \in 1 .. c : Enumeration(left)[k] \in left
      /\ \A k, l \in 1 .. c : Enumeration(left)[k] = Enumeration(left)[l] => k = l
  BY <1>2, EnumerationOneToOne
<1>5. picked \in Seq(Task) /\ Len(picked) = c
  <2>1. \A k \in 1 .. c : base[Enumeration(left)[k]] \in Task
    BY <1>2, <1>4, ElementOfSeq
  <2>2. picked \in [1 .. c -> Task] BY <2>1
  <2> HIDE DEF picked
  <2> QED BY <1>4, <2>2, SeqDef, LenProperties
<1>6. n = c
  <2>1. f \in Bijection(1 .. n, left)
    BY <1>3 DEF Bijection, Injection, Surjection, IsInjective
  <2>2. ExistsBijection(1 .. n, left) BY <2>1 DEF ExistsBijection
  <2>3. IsFiniteSet(1 .. n) /\ Cardinality(1 .. n) = n
    <3>1. 1 \in Int /\ n \in Int BY <1>2
    <3>2. Cardinality(1 .. n) = (IF 1 > n THEN 0 ELSE n - 1 + 1) /\ IsFiniteSet(1 .. n)
      BY <3>1, FS_Interval
    <3> QED BY <1>2, <3>2
  <2> QED BY <2>2, <2>3, FS_Bijection
<1> HIDE DEF c
<1> DEFINE p == [k \in 1 .. n |-> CHOOSE l \in 1 .. n : f[l] = Enumeration(left)[k]]
<1>7. ASSUME NEW k \in 1 .. n PROVE p[k] \in 1 .. n /\ f[p[k]] = Enumeration(left)[k]
  BY <1>3, <1>4, <1>6
<1> HIDE DEF p
<1>8. p \in [1 .. n -> 1 .. n] BY <1>7 DEF p
<1>9. \A k, l \in 1 .. n : p[k] = p[l] => k = l BY <1>4, <1>6, <1>7
<1>10. p \in Positions(n) BY <1>2, <1>8, <1>9, OneToOne
<1>11. \A k \in 1 .. n : picked[k] = ts[p[k]] BY <1>3, <1>6, <1>7
<1> HIDE DEF picked
<1>12. Rearranged(picked, ts) BY <1>5, <1>6, <1>10, <1>11 DEF Rearranged, n
<1>13. Rearranged(ts, picked) BY <1>5, <1>12, RearrangedBack
<1> QED BY <1>5, <1>13 DEF picked, c, left

-----------------------------------------------------------------------------
(* A list some tasks of which are marked, and where it is as it was. *)
Marked(t, flag) == [t EXCEPT !.done = flag]

MarkedAt(base, ids, flag) ==
  [i \in 1 .. Len(base) |-> IF i \in ids THEN Marked(base[i], flag) ELSE base[i]]

Untouched(ts, base, flag, id) ==
  \A k \in 1 .. Len(base) :
    (IF flag THEN k <= id ELSE id <= k) => ts[k] = base[k]

(* A mark changes nothing else of a task, and replaces the mark there was. *)
LEMMA MarkedFields ==
  ASSUME NEW t \in Task, NEW flag \in BOOLEAN
  PROVE  /\ Marked(t, flag) \in Task /\ Marked(t, flag).done = flag
         /\ Marked(t, flag).desc = t.desc /\ Marked(t, flag).end = t.end
         /\ Marked(t, flag).rest = t.rest
         /\ t.done = flag => Marked(t, flag) = t
         /\ \A b \in BOOLEAN : Marked(Marked(t, b), flag) = Marked(t, flag)
BY DEF Marked, Task

(* A list with marks is a list of tasks, of the same length. *)
LEMMA MarkedList ==
  ASSUME NEW base \in Seq(Task), NEW ids, NEW flag \in BOOLEAN
  PROVE  /\ MarkedAt(base, ids, flag) \in Seq(Task)
         /\ Len(MarkedAt(base, ids, flag)) = Len(base)
         /\ \A i \in 1 .. Len(base) :
              MarkedAt(base, ids, flag)[i]
                = IF i \in ids THEN Marked(base[i], flag) ELSE base[i]
<1>1. Len(base) \in Nat OBVIOUS
<1>2. \A i \in 1 .. Len(base) : base[i] \in Task /\ Marked(base[i], flag) \in Task
  BY ElementOfSeq, MarkedFields
<1>3. MarkedAt(base, ids, flag) \in [1 .. Len(base) -> Task] BY <1>2 DEF MarkedAt
<1>4. MarkedAt(base, ids, flag) \in Seq(Task) /\ Len(MarkedAt(base, ids, flag)) = Len(base)
  BY <1>1, <1>3, SeqDef, LenProperties
<1> QED BY <1>4 DEF MarkedAt

(* A list with no marks is the list. *)
LEMMA NothingMarked ==
  ASSUME NEW base \in Seq(Task), NEW flag \in BOOLEAN
  PROVE  MarkedAt(base, {}, flag) = base
<1>1. DOMAIN base = 1 .. Len(base) /\ base = [i \in DOMAIN base |-> base[i]] OBVIOUS
<1> QED BY <1>1 DEF MarkedAt

(* One more mark is one task replaced. *)
LEMMA MarkedMore ==
  ASSUME NEW base \in Seq(Task), NEW ids, NEW flag \in BOOLEAN,
         NEW id \in 1 .. Len(base), id \notin ids
  PROVE  MarkedAt(base, ids \cup {id}, flag)
           = Replaced(MarkedAt(base, ids, flag), id, Marked(base[id], flag))
BY DEF MarkedAt, Replaced

(* What is done now goes behind, and what is not any more to the front: to mark a
   task leaves those before it as they were, to unmark it those behind it. *)
LEMMA MarkOne ==
  ASSUME NEW time \in Nat, NEW base \in Seq(Task), NEW ts \in Seq(Task), Tidy(ts, time),
         NEW flag \in BOOLEAN, NEW ids, NEW id \in 1 .. Len(base), id \notin ids,
         base[id].done # flag,
         Rearranged(ts, MarkedAt(base, ids, flag)), Untouched(ts, base, flag, id)
  PROVE  /\ IsId(ts, id) /\ ts[id] = base[id]
         /\ Rearranged(EditTask(ts, id, Marked(ts[id], flag), time),
                       MarkedAt(base, ids \cup {id}, flag))
         /\ \A other \in 1 .. Len(base) :
              (IF flag THEN other < id ELSE id < other) =>
                Untouched(EditTask(ts, id, Marked(ts[id], flag), time), base, flag, other)
<1> DEFINE n == Len(ts)
           marked == MarkedAt(base, ids, flag)
           t == Marked(ts[id], flag)
           us == Replaced(ts, id, t)
           new == EditTask(ts, id, t, time)
<1>1. /\ n \in Nat /\ Len(base) = n /\ marked \in Seq(Task) /\ Len(marked) = n
      /\ marked[id] = base[id]
  BY MarkedList, RearrangedBy
<1>2. id \in 1 .. n /\ ts[id] = base[id] /\ ts[id] \in Task
  BY <1>1, ElementOfSeq DEF Untouched
<1>3. t \in Task /\ t.done = flag BY <1>2, MarkedFields
<1>4. /\ us \in Seq(Task) /\ Len(us) = n
      /\ \A k \in 1 .. n : us[k] = IF k = id THEN t ELSE ts[k]
  BY <1>2, <1>3, ExceptSeq DEF Replaced
<1>5. new = Renumber(us, time) BY DEF EditTask
<1>6. /\ new \in Seq(Task) /\ Len(new) = n
      /\ new = [k \in 1 .. n |-> us[Order(us, time)[k]]]
  <2> HIDE DEF us
  <2>1. /\ Renumber(us, time) = [k \in 1 .. Len(us) |-> us[Order(us, time)[k]]]
        /\ Renumber(us, time) \in Seq(Task) /\ Len(Renumber(us, time)) = Len(us)
    BY <1>4, RenumberKeepsTasks
  <2> HIDE DEF new, n
  <2> QED BY <1>4, <1>5, <2>1
<1>7. Rearranged(new, MarkedAt(base, ids \cup {id}, flag))
  <2>1. Rearranged(new, us) BY <1>4, <1>5, RenumberRearranges
  <2>2. Rearranged(us, Replaced(marked, id, t))
    BY <1>1, <1>2, <1>3, ReplacedBoth
  <2>3. Replaced(marked, id, t) = MarkedAt(base, ids \cup {id}, flag)
    BY <1>2, MarkedMore
  <2>4. MarkedAt(base, ids \cup {id}, flag) \in Seq(Task) BY MarkedList
  <2> HIDE DEF new, us, marked, t
  <2> QED BY <1>4, <1>6, <2>1, <2>2, <2>3, <2>4, RearrangedTwice
<1>8. \A k, l \in 1 .. n : k < l => AtOrBefore(ts[k], ts[l], time) BY DEF Tidy
<1>9. \A k \in 1 .. n : ts[k] \in Task /\ us[k] \in Task BY <1>4, ElementOfSeq
<1>10. CASE flag
  <2>1. AtOrBefore(ts[id], t, time)
    <3>1. ts[id].done = FALSE BY <1>2, <1>10, TaskFields
    <3> QED BY <1>2, <1>10, <3>1, MarkedComesLast DEF Marked
  <2> HIDE DEF us, t, n
  <2>2. ASSUME NEW k \in 1 .. n, NEW l \in 1 .. n, k < id, k < l
        PROVE  AtOrBefore(us[k], us[l], time)
    <3>1. us[k] = ts[k] BY <1>4, <2>2
    <3>2. CASE l = id
      <4>1. AtOrBefore(ts[k], ts[id], time) BY <1>2, <1>8, <2>2
      <4> QED BY <1>2, <1>3, <1>4, <1>9, <2>1, <3>1, <3>2, <4>1, OrderIsTransitive
    <3>3. CASE l # id
      BY <1>4, <1>8, <2>2, <3>1, <3>3
    <3> QED BY <3>2, <3>3
  <2>3. \A k \in 1 .. n : k < id => Order(us, time)[k] = k
    <3>1. Len(us) = n /\ id \in Nat BY <1>2, <1>4
    <3>2. \A k, l \in 1 .. Len(us) : k < id /\ k < l => AtOrBefore(us[k], us[l], time)
      BY <2>2, <3>1
    <3>3. \A k \in 1 .. Len(us) : k < id => Order(us, time)[k] = k
      BY <1>4, <3>1, <3>2, FrontStays
    <3> QED BY <3>1, <3>3
  <2>4. ASSUME NEW other \in 1 .. Len(base), other < id PROVE Untouched(new, base, flag, other)
    <3> SUFFICES ASSUME NEW k \in 1 .. n, k <= other PROVE new[k] = base[k]
      BY <1>1, <1>10 DEF Untouched
    <3>1. k < id BY <1>2, <2>4
    <3>2. new[k] = us[k] /\ us[k] = ts[k] BY <1>4, <1>6, <2>3, <3>1
    <3>3. ts[k] = base[k] BY <1>1, <1>2, <1>10, <3>1 DEF Untouched
    <3> QED BY <3>2, <3>3
  <2> HIDE DEF new
  <2> QED BY <1>2, <1>7, <1>10, <2>4 DEF IsId, n, new, t
<1>11. CASE ~flag
  <2>1. AtOrBefore(t, ts[id], time)
    <3>1. ts[id].done = TRUE /\ flag = FALSE BY <1>2, <1>11, TaskFields
    <3> QED BY <1>2, <3>1, UnmarkedComesFirst DEF Marked
  <2> HIDE DEF us, t, n
  <2>2. ASSUME NEW k \in 1 .. n, NEW l \in 1 .. n, l > id, k < l
        PROVE  AtOrBefore(us[k], us[l], time)
    <3>1. us[l] = ts[l] BY <1>2, <1>4, <2>2
    <3>2. CASE k = id
      <4>1. AtOrBefore(ts[id], ts[l], time) BY <1>2, <1>8, <2>2
      <4> QED BY <1>2, <1>3, <1>4, <1>9, <2>1, <3>1, <3>2, <4>1, OrderIsTransitive
    <3>3. CASE k # id
      BY <1>4, <1>8, <2>2, <3>1, <3>3
    <3> QED BY <3>2, <3>3
  <2>3. \A k \in 1 .. n : k > id => Order(us, time)[k] = k
    <3>1. Len(us) = n /\ id \in Nat BY <1>2, <1>4
    <3>2. \A k, l \in 1 .. Len(us) : l > id /\ k < l => AtOrBefore(us[k], us[l], time)
      BY <2>2, <3>1
    <3>3. \A k \in 1 .. Len(us) : k > id => Order(us, time)[k] = k
      BY <1>4, <3>1, <3>2, BackStays
    <3> QED BY <3>1, <3>3
  <2>4. ASSUME NEW other \in 1 .. Len(base), id < other PROVE Untouched(new, base, flag, other)
    <3> SUFFICES ASSUME NEW k \in 1 .. n, other <= k PROVE new[k] = base[k]
      BY <1>1, <1>11 DEF Untouched
    <3>1. k > id BY <1>1, <1>2, <2>4
    <3>2. new[k] = us[k] /\ us[k] = ts[k] BY <1>2, <1>4, <1>6, <2>3, <3>1
    <3>3. ts[k] = base[k] BY <1>1, <1>2, <1>11, <3>1 DEF Untouched
    <3> QED BY <3>2, <3>3
  <2> HIDE DEF new
  <2> QED BY <1>2, <1>7, <1>11, <2>4 DEF IsId, n, new, t
<1> QED BY <1>10, <1>11

-----------------------------------------------------------------------------
(* What the interpreter makes of a text. *)
Single(c) ==
  Len(c.parts) = 1 /\ c.parts[1].kind \in {"add", "edit", "clear"}

Removes(c, ts) ==
  /\ \A k \in 1 .. Len(c.parts) :
       /\ c.parts[k].kind = "remove"
       /\ c.parts[k].id \in 1 .. Len(ts)
       /\ c.parts[k].task = ts[c.parts[k].id]
  /\ \A k, l \in 1 .. Len(c.parts) : k < l => c.parts[k].id >= c.parts[l].id

Marks(c, flag) ==
  /\ \A k \in 1 .. Len(c.parts) : c.parts[k].kind = "done" /\ c.parts[k].flag = flag
  /\ \A k, l \in 1 .. Len(c.parts) :
       k < l => IF flag THEN c.parts[k].id >= c.parts[l].id
                        ELSE c.parts[k].id <= c.parts[l].id

Made(c, ts) == Single(c) \/ Removes(c, ts) \/ \E flag \in BOOLEAN : Marks(c, flag)

(* Ids are sorted from the highest down, or from the lowest up. *)
LEMMA SortedIds ==
  ASSUME NEW n \in Nat, NEW ids \in [1 .. n -> Nat]
  PROVE  /\ \A k, l \in 1 .. n : k < l => Descending(ids)[k] >= Descending(ids)[l]
         /\ \A k, l \in 1 .. n : k < l => Ascending(ids)[k] <= Ascending(ids)[l]
         /\ \A k \in 1 .. n : Descending(ids)[k] \in Nat /\ Ascending(ids)[k] \in Nat
<1>1. ids \in Seq(Nat) /\ Len(ids) = n BY SeqDef, LenProperties
<1> DEFINE down == [id \in Nat |-> -id]
           up == [id \in Nat |-> id]
<1>2. down \in [Nat -> Int] /\ up \in [Nat -> Int] OBVIOUS
<1>3. \A x \in Nat : down[x] = -x /\ up[x] = x OBVIOUS
<1>4. Descending(ids) = StableSort(ids, down) /\ Ascending(ids) = StableSort(ids, up)
  BY DEF Descending, Ascending
<1> HIDE DEF down, up
<1>5. ASSUME NEW key \in [Nat -> Int], NEW k \in 1 .. n, NEW l \in 1 .. n, k < l
      PROVE  key[StableSort(ids, key)[k]] <= key[StableSort(ids, key)[l]]
  <2>1. /\ From(ids, key, k) \in 1 .. n /\ From(ids, key, l) \in 1 .. n
        /\ StableSort(ids, key)[k] = ids[From(ids, key, k)]
        /\ StableSort(ids, key)[l] = ids[From(ids, key, l)]
    <3>1. /\ \A i \in 1 .. Len(ids) : From(ids, key, i) \in 1 .. Len(ids)
          /\ StableSort(ids, key) = [i \in 1 .. Len(ids) |-> ids[From(ids, key, i)]]
          /\ StableSort(ids, key) \in [1 .. Len(ids) -> Nat]
      BY <1>1, <1>5, SortRearranges, Zenon
    <3> QED BY <1>1, <3>1
  <2>2. key[ids[From(ids, key, k)]] < key[ids[From(ids, key, l)]]
        \/ key[ids[From(ids, key, k)]] = key[ids[From(ids, key, l)]]
    <3>1. k \in 1 .. Len(ids) /\ l \in 1 .. Len(ids) BY <1>1
    <3>2. /\ From(ids, key, k) # From(ids, key, l)
          /\ \/ key[ids[From(ids, key, k)]] < key[ids[From(ids, key, l)]]
             \/ /\ key[ids[From(ids, key, k)]] = key[ids[From(ids, key, l)]]
                /\ From(ids, key, k) < From(ids, key, l)
      BY <1>1, <1>5, <3>1, SortOrders, Zenon
    <3> QED BY <3>2, Zenon
  <2>3. key[ids[From(ids, key, k)]] \in Int /\ key[ids[From(ids, key, l)]] \in Int
    BY <2>1
  <2>4. key[ids[From(ids, key, k)]] <= key[ids[From(ids, key, l)]]
    <3> DEFINE a == key[ids[From(ids, key, k)]]
               b == key[ids[From(ids, key, l)]]
    <3>1. (a < b \/ a = b) /\ a \in Int /\ b \in Int BY <2>2, <2>3
    <3> HIDE DEF a, b
    <3>2. a <= b BY <3>1
    <3> QED BY <3>2 DEF a, b
  <2> QED BY <2>1, <2>4, Zenon
<1>6. \A k \in 1 .. n : StableSort(ids, down)[k] \in Nat /\ StableSort(ids, up)[k] \in Nat
  <2>1. Nat \in SUBSET Nat OBVIOUS
  <2> QED BY <1>2, <2>1, PickedIds
<1>7. ASSUME NEW k \in 1 .. n, NEW l \in 1 .. n, k < l
      PROVE  /\ StableSort(ids, down)[k] >= StableSort(ids, down)[l]
             /\ StableSort(ids, up)[k] <= StableSort(ids, up)[l]
  <2>1. /\ down[StableSort(ids, down)[k]] <= down[StableSort(ids, down)[l]]
        /\ up[StableSort(ids, up)[k]] <= up[StableSort(ids, up)[l]]
    BY <1>2, <1>5, <1>7
  <2>2. /\ -StableSort(ids, down)[k] <= -StableSort(ids, down)[l]
        /\ StableSort(ids, up)[k] <= StableSort(ids, up)[l]
    BY <1>3, <1>6, <2>1
  <2> QED BY <1>6, <2>2
<1> QED BY <1>4, <1>6, <1>7

(* A command is run with its parts as they were made. *)
LEMMA MadeRun ==
  ASSUME NEW parts, Run(parts)
  PROVE  /\ cmd'.parts = parts /\ cmd'.ran = TRUE /\ at' = 1 /\ job' = "run"
         /\ tasks' = tasks
BY DEF Run, NewCommand, storageVars

(* What a user submits is run as it was made, or is no new command. *)
LEMMA MadeCommand ==
  ASSUME TypeInv, Submit
  PROVE  \/ job' = "run" /\ at' = 1 /\ Made(cmd', tasks)
            /\ \A k \in 1 .. Len(cmd'.parts) : ~cmd'.parts[k].ran
         \/ SubmitUndo \/ SubmitRedo \/ Show \/ LastIsNoTask
<1>0. tasks \in Seq(Task) BY DEF TypeInv, TypeOK
<1> DEFINE Goal == job' = "run" /\ at' = 1 /\ Made(cmd', tasks)
                   /\ \A k \in 1 .. Len(cmd'.parts) : ~cmd'.parts[k].ran
<1>1. ASSUME NEW p, Run(<<p>>), p.kind \in {"add", "edit", "clear"}, ~p.ran PROVE Goal
  <2>1. cmd'.parts = <<p>> /\ at' = 1 /\ job' = "run" BY <1>1, MadeRun
  <2>2. Len(cmd'.parts) = 1 /\ cmd'.parts[1] = p BY <2>1
  <2>3. Single(cmd') BY <1>1, <2>2 DEF Single
  <2> QED BY <1>1, <2>1, <2>2, <2>3 DEF Made
<1>2. CASE SubmitAdd
  <2>1. PICK t \in NewTasks : Run(<<AddPart(t)>>) BY <1>2 DEF SubmitAdd
  <2>2. AddPart(t).kind = "add" /\ ~AddPart(t).ran BY DEF AddPart
  <2>3. Goal BY <1>1, <2>1, <2>2
  <2> QED BY <2>3
<1>3. CASE SubmitEdit
  <2>1. PICK id \in Ids, t \in NewTasks :
          Run(<<EditPart(id, [t EXCEPT !.done = tasks[id].done])>>)
    BY <1>3 DEF SubmitEdit
  <2>2. /\ EditPart(id, [t EXCEPT !.done = tasks[id].done]).kind = "edit"
        /\ ~EditPart(id, [t EXCEPT !.done = tasks[id].done]).ran
    BY DEF EditPart
  <2>3. Goal BY <1>1, <2>1, <2>2
  <2> QED BY <2>3
<1>4. CASE SubmitClear
  <2>1. Run(<<ClearPart>>) BY <1>4 DEF SubmitClear
  <2>2. ClearPart.kind = "clear" /\ ~ClearPart.ran BY DEF ClearPart
  <2>3. Goal BY <1>1, <2>1, <2>2
  <2> QED BY <2>3
<1>5. CASE SubmitRemove
  <2>1. PICK ids \in IdLists :
          /\ \A k \in DOMAIN ids : IsId(tasks, ids[k])
          /\ Run([k \in 1 .. Len(ids) |->
                    RemovePart(Descending(ids)[k], tasks[Descending(ids)[k]])])
    BY <1>5 DEF SubmitRemove
  <2>2. PICK n \in Nat : ids \in [1 .. n -> Nat] BY <2>1, IdListsTypes
  <2> DEFINE picked == Descending(ids)
             parts == [k \in 1 .. Len(ids) |-> RemovePart(picked[k], tasks[picked[k]])]
  <2>3. \A k, l \in 1 .. n : k < l => picked[k] >= picked[l] BY <2>2, SortedIds
  <2>4. Len(ids) = n /\ \A k \in 1 .. n : picked[k] \in 1 .. Len(tasks)
    <3>1. (1 .. Len(tasks)) \in SUBSET Nat /\ [id \in Nat |-> -id] \in [Nat -> Int]
      OBVIOUS
    <3>2. ids \in [1 .. n -> 1 .. Len(tasks)] BY <2>1, <2>2 DEF IsId
    <3> QED BY <2>2, <3>1, <3>2, PickedIds DEF Descending
  <2>5. Run(parts) BY <2>1
  <2> HIDE DEF picked
  <2>6. /\ parts = [k \in 1 .. n |-> RemovePart(picked[k], tasks[picked[k]])]
        /\ Len(parts) = n
    BY <2>2, <2>4, LenProperties
  <2>7. \A k \in 1 .. n : /\ parts[k].kind = "remove" /\ parts[k].id = picked[k]
                          /\ parts[k].task = tasks[picked[k]] /\ parts[k].ran = FALSE
    BY <2>6 DEF RemovePart
  <2> HIDE DEF parts
  <2>8. cmd'.parts = parts /\ at' = 1 /\ job' = "run" BY <2>5, MadeRun
  <2>9. Removes(cmd', tasks) BY <2>3, <2>4, <2>6, <2>7, <2>8 DEF Removes
  <2> QED BY <2>6, <2>7, <2>8, <2>9 DEF Made
<1>6. ASSUME NEW flag \in BOOLEAN, NEW ids \in IdLists, NEW picked, NEW n \in Nat,
             ids \in [1 .. n -> Nat],
             \A k, l \in 1 .. n : k < l => IF flag THEN picked[k] >= picked[l]
                                                   ELSE picked[k] <= picked[l],
             Run([k \in 1 .. Len(ids) |-> DonePart(picked[k], flag)])
      PROVE  Goal
  <2> DEFINE parts == [k \in 1 .. Len(ids) |-> DonePart(picked[k], flag)]
  <2>1. Len(ids) = n BY <1>6, LenProperties
  <2>2. parts = [k \in 1 .. n |-> DonePart(picked[k], flag)] /\ Len(parts) = n
    BY <2>1, LenProperties
  <2>3. \A k \in 1 .. n : /\ parts[k].kind = "done" /\ parts[k].id = picked[k]
                          /\ parts[k].flag = flag /\ parts[k].ran = FALSE
    BY <2>2 DEF DonePart
  <2>4. Run(parts) BY <1>6
  <2> HIDE DEF parts
  <2>5. cmd'.parts = parts /\ at' = 1 /\ job' = "run" BY <2>4, MadeRun
  <2>6. Marks(cmd', flag) BY <1>6, <2>2, <2>3, <2>5 DEF Marks
  <2> QED BY <2>2, <2>3, <2>5, <2>6 DEF Made
<1>7. CASE SubmitDone
  <2>1. PICK ids \in IdLists : Run([k \in 1 .. Len(ids) |-> DonePart(Descending(ids)[k], TRUE)])
    BY <1>7 DEF SubmitDone
  <2>2. PICK n \in Nat : ids \in [1 .. n -> Nat] BY <2>1, IdListsTypes
  <2>3. TRUE \in BOOLEAN
        /\ \A k, l \in 1 .. n : k < l => IF TRUE THEN Descending(ids)[k] >= Descending(ids)[l]
                                         ELSE Descending(ids)[k] <= Descending(ids)[l]
    BY <2>2, SortedIds
  <2>4. Goal BY <1>6, <2>1, <2>2, <2>3
  <2> QED BY <2>4
<1>8. CASE SubmitUndone
  <2>1. PICK ids \in IdLists : Run([k \in 1 .. Len(ids) |-> DonePart(Ascending(ids)[k], FALSE)])
    BY <1>8 DEF SubmitUndone
  <2>2. PICK n \in Nat : ids \in [1 .. n -> Nat] BY <2>1, IdListsTypes
  <2>3. FALSE \in BOOLEAN
        /\ \A k, l \in 1 .. n : k < l => IF FALSE THEN Ascending(ids)[k] >= Ascending(ids)[l]
                                         ELSE Ascending(ids)[k] <= Ascending(ids)[l]
    BY <2>2, SortedIds
  <2>4. Goal BY <1>6, <2>1, <2>2, <2>3
  <2> QED BY <2>4
<1> QED BY <1>2, <1>3, <1>4, <1>5, <1>7, <1>8 DEF Submit

-----------------------------------------------------------------------------
(* TasukeTimeline takes the steps of Tasuke. *)
LEMMA RecordedStep == [NextT]_allVars => [Next]_vars
<1> SUFFICES ASSUME [NextT]_allVars PROVE [Next]_vars
  OBVIOUS
<1>1. CASE RecordSubmit BY <1>1 DEF RecordSubmit, Next
<1>2. CASE RecordOther BY <1>2 DEF RecordOther, Next, Handler
<1>3. CASE RecordRestart BY <1>3 DEF RecordRestart, Next
<1>4. CASE RecordRun BY <1>4 DEF RecordRun, Next, Handler, Finish
<1>5. CASE RecordUndo BY <1>5 DEF RecordUndo, Next, Handler, Finish
<1>6. CASE RecordRedo BY <1>6 DEF RecordRedo, Next, Handler, Finish
<1>7. CASE UNCHANGED allVars BY <1>7 DEF allVars
<1> QED BY <1>1, <1>2, <1>3, <1>4, <1>5, <1>6, <1>7 DEF NextT

(* So every behaviour of it is one of Tasuke. *)
LEMMA RecordedSpec == SpecT => Spec
<1>1. InitT => Init BY DEF InitT
<1> QED BY <1>1, RecordedStep, PTL DEF SpecT, Spec

-----------------------------------------------------------------------------
(* A command being run for the first time. *)
Reached(c, k) == {c.parts[i].id : i \in 1 .. k}

NextId(c, k) == IF k <= Len(c.parts) THEN c.parts[k].id ELSE 0

Pending ==
  /\ Len(cmd.parts) = Len(given.parts)
  /\ \A k \in 1 .. Len(given.parts) :
       /\ cmd.parts[k].kind = given.parts[k].kind
       /\ cmd.parts[k].kind = "done" => cmd.parts[k].flag = given.parts[k].flag
       /\ k >= at => cmd.parts[k] = given.parts[k]

Removing ==
  Removes(given, doc) => Taken(tasks, doc, Reached(given, at - 1), NextId(given, at))

Marking ==
  \A flag \in BOOLEAN : Marks(given, flag) =>
    /\ Rearranged(tasks, MarkedAt(doc, Reached(given, at - 1), flag))
    /\ at <= Len(given.parts) => Untouched(tasks, doc, flag, given.parts[at].id)

FirstRun ==
  /\ Made(given, doc)
  /\ Pending
  /\ at = 1 => tasks = doc
  /\ Straight(given, doc) => Removing /\ Marking

BatchInv ==
  /\ doc \in Seq(Task) /\ given \in Command
  /\ Tidy(tasks, StartTime)
  /\ job = "none" => doc = tasks
  /\ job = "run" => FirstRun

(* What straight means, part by part. *)
LEMMA StraightParts ==
  ASSUME NEW c \in Command, NEW ts \in Seq(Task), Straight(c, ts)
  PROVE  /\ \A i, j \in 1 .. Len(c.parts) :
              c.parts[i].kind \in {"remove", "done"} /\ i # j
                => c.parts[i].id # c.parts[j].id
         /\ \A k \in 1 .. Len(c.parts) :
              c.parts[k].kind = "done"
                => c.parts[k].id \in 1 .. Len(ts) /\ ts[c.parts[k].id].done # c.parts[k].flag
         /\ \A k \in 1 .. Len(c.parts) :
              c.parts[k].kind = "clear" => Undone(ts) = 1 .. Len(ts)
<1>1. DOMAIN c.parts = 1 .. Len(c.parts) BY CommandFields
<1>2. \A k \in 1 .. Len(c.parts) :
        c.parts[k].kind = "clear" => "clear" \in {c.parts[j].kind : j \in DOMAIN c.parts}
  BY <1>1
<1> QED BY <1>1, <1>2 DEF Straight, IsId

(* A part that is run stays of its kind. *)
LEMMA RanPart ==
  ASSUME TypeInv, RunPart
  PROVE  /\ job \in {"run", "redo"} /\ job' = job
         /\ at \in 1 .. Len(cmd.parts) /\ at' = at + 1
         /\ \E q \in Part :
              /\ q.kind = part.kind
              /\ q.kind = "done" => q.flag = part.flag
              /\ cmd' = [cmd EXCEPT !.parts[at] = q]
<1>0. cmd \in Command BY DEF TypeInv, TypeOK
<1>1. ASSUME NEW q \in Part, Ran(q), q.kind = part.kind, q.kind = "done" => q.flag = part.flag
      PROVE  /\ job' = job /\ at' = at + 1
             /\ \E r \in Part : /\ r.kind = part.kind
                                /\ r.kind = "done" => r.flag = part.flag
                                /\ cmd' = [cmd EXCEPT !.parts[at] = r]
  <2> DEFINE r == [q EXCEPT !.ran = TRUE]
  <2>1. TRUE \in BOOLEAN OBVIOUS
  <2>2. r \in Part /\ r.kind = q.kind BY <2>1, PartUpdates
  <2>3. q.kind = "done" => r.flag = q.flag BY DEF Part
  <2>4. cmd' = [cmd EXCEPT !.parts[at] = r] /\ job' = job /\ at' = at + 1 BY <1>1 DEF Ran
  <2> HIDE DEF r
  <2> QED BY <1>1, <2>2, <2>3, <2>4
<1>2. CASE RunAdd
  <2>1. Running("add") /\ \E id \in Nat : Ran([part EXCEPT !.tid = id])
    <3>1. tasks \in Seq(Task) /\ now \in Nat BY NowIsNat DEF TypeInv, TypeOK
    <3>2. Running("add") /\ Ran([part EXCEPT !.tid = AddedId(tasks, part.task, now)])
      BY <1>2 DEF RunAdd
    <3>3. part \in Part /\ part.kind = "add" BY <3>2, RunningPart
    <3>4. part.task \in Task BY <3>3, PartFields
    <3>5. AddedId(tasks, part.task, now) \in Nat BY <3>1, <3>4, AddTaskResult
    <3> QED BY <3>2, <3>5
  <2>2. part \in Part /\ part.kind = "add" BY <2>1, RunningPart
  <2>3. PICK id \in Nat : Ran([part EXCEPT !.tid = id]) BY <2>1
  <2>4. [part EXCEPT !.tid = id] \in Part BY <2>2, PartUpdates
  <2>5. [part EXCEPT !.tid = id].kind = "add" BY <2>2 DEF Part
  <2> QED BY <1>1, <2>1, <2>2, <2>3, <2>4, <2>5, RunningPart
<1>3. CASE RunRemove
  <2>1. Running("remove") /\ Ran(part) BY <1>3 DEF RunRemove
  <2>2. part \in Part /\ part.kind = "remove" BY <2>1, RunningPart
  <2> QED BY <1>1, <2>1, <2>2, RunningPart
<1>4. CASE RunEdit
  <2> DEFINE id == EditedId(tasks, part.id, part.task, now)
             q == [part EXCEPT !.tid = id, !.old = tasks[part.id]]
  <2>1. Running("edit") /\ IsId(tasks, part.id) /\ Ran(q) BY <1>4 DEF RunEdit
  <2>2. part \in Part /\ part.kind = "edit" BY <2>1, RunningPart
  <2>3. tasks \in Seq(Task) /\ now \in Nat BY NowIsNat DEF TypeInv, TypeOK
  <2>4. id \in Nat /\ tasks[part.id] \in Task
    <3>1. part.task \in Task BY <2>2, PartFields
    <3>2. part.id \in 1 .. Len(tasks) BY <2>1 DEF IsId
    <3> QED BY <2>3, <3>1, <3>2, EditTaskResult, ElementOfSeq
  <2> HIDE DEF id
  <2>5. q \in Part BY <2>2, <2>4, PartUpdates
  <2>6. q.kind = "edit" BY <2>2 DEF Part
  <2> HIDE DEF q
  <2> QED BY <1>1, <2>1, <2>2, <2>5, <2>6, RunningPart
<1>5. CASE RunClear
  <2> DEFINE old == GetTasks(tasks)
             olds == [k \in 1 .. Len(old) |-> old[k].task]
             q == [part EXCEPT !.olds = olds]
  <2>1. Running("clear") /\ Ran(q) BY <1>5 DEF RunClear
  <2>2. part \in Part /\ part.kind = "clear" BY <2>1, RunningPart
  <2>3. olds \in Seq(Task)
    <3>1. Undone(tasks) \in SUBSET (1 .. Len(tasks)) /\ tasks \in Seq(Task)
      BY DEF Undone, TypeInv, TypeOK
    <3>2. old \in Seq(Entry) BY <3>1, SearchEntries DEF GetTasks
    <3> HIDE DEF old
    <3>3. Len(old) \in Nat /\ \A k \in 1 .. Len(old) : old[k].task \in Task
      <4>1. \A k \in 1 .. Len(old) : old[k] \in Entry BY <3>2, ElementOfSeq
      <4> QED BY <3>2, <4>1 DEF Entry
    <3>4. olds \in [1 .. Len(old) -> Task] BY <3>3
    <3> QED BY <3>3, <3>4, SeqDef
  <2> HIDE DEF olds
  <2>4. q \in Part BY <2>2, <2>3, PartUpdates
  <2>5. q.kind = "clear" BY <2>2 DEF Part
  <2> HIDE DEF q
  <2> QED BY <1>1, <2>1, <2>2, <2>4, <2>5, RunningPart
<1>6. CASE RunDone
  <2> DEFINE id == EditedId(tasks, part.id, Marked(tasks[part.id], part.flag), now)
             q == [part EXCEPT !.id = id]
  <2>1. Running("done") /\ IsId(tasks, part.id) /\ Ran(q)
    <3>1. Running("done") BY <1>6 DEF RunDone
    <3>2. job # "undo" BY <3>1 DEF Running
    <3> QED BY <1>6, <3>2 DEF RunDone, SetDone, Marked
  <2>2. part \in Part /\ part.kind = "done" BY <2>1, RunningPart
  <2>3. id \in Nat
    <3>1. tasks \in Seq(Task) /\ now \in Nat BY NowIsNat DEF TypeInv, TypeOK
    <3>2. part.id \in 1 .. Len(tasks) BY <2>1 DEF IsId
    <3>3. Marked(tasks[part.id], part.flag) \in Task
      BY <2>2, <3>1, <3>2, PartFields, ElementOfSeq, MarkedFields
    <3> QED BY <3>1, <3>2, <3>3, EditTaskResult
  <2> HIDE DEF id
  <2>4. q \in Part BY <2>2, <2>3, PartUpdates
  <2>5. q.kind = "done" /\ q.flag = part.flag BY <2>2 DEF Part
  <2> HIDE DEF q
  <2> QED BY <1>1, <2>1, <2>2, <2>4, <2>5, RunningPart
<1> QED BY <1>2, <1>3, <1>4, <1>5, <1>6 DEF RunPart

(* With a clock that stands still the present is the time the program started. *)
LEMMA ClockStands ==
  ASSUME StartTime = MaxNow, TypeInv
  PROVE  now = StartTime /\ now \in Nat
BY BoundsAssumption DEF TypeInv, TypeOK

(* Every step leaves the list in order. *)
LEMMA StepTidy ==
  ASSUME StartTime = MaxNow, TypeInv, Tidy(tasks, StartTime), [Next]_vars
  PROVE  Tidy(tasks', StartTime)
<1>1. ListStep BY StepTypes
<1>2. now = StartTime /\ now \in Nat BY ClockStands
<1>3. CASE Renumbered(tasks', now)
  BY <1>2, <1>3, RenumberTidies DEF Renumbered
<1>4. CASE tasks' = <<>>
  BY <1>4 DEF Tidy
<1> QED BY <1>1, <1>3, <1>4 DEF ListStep

(* A part is run as its kind says. *)
LEMMA RunsItsKind ==
  ASSUME RunPart
  PROVE  /\ part.kind = "add" => RunAdd
         /\ part.kind = "remove" => RunRemove
         /\ part.kind = "edit" => RunEdit
         /\ part.kind = "clear" => RunClear
         /\ part.kind = "done" => RunDone
<1>1. RunAdd => part.kind = "add" BY DEF RunAdd, Running, part
<1>2. RunRemove => part.kind = "remove" BY DEF RunRemove, Running, part
<1>3. RunEdit => part.kind = "edit" BY DEF RunEdit, Running, part
<1>4. RunClear => part.kind = "clear" BY DEF RunClear, Running, part
<1>5. RunDone => part.kind = "done" BY DEF RunDone, Running, part
<1> QED BY <1>1, <1>2, <1>3, <1>4, <1>5 DEF RunPart

(* The ids reached so far, and the next one. *)
LEMMA ReachedNext ==
  ASSUME NEW c, NEW k \in Nat, k >= 1
  PROVE  Reached(c, k) = Reached(c, k - 1) \cup {c.parts[k].id}
BY DEF Reached

(* A part that removes leaves the others as the invariant says. *)
LEMMA StepRemoving ==
  ASSUME StartTime = MaxNow, TypeInv, BatchInv, job = "run", RunPart,
         Straight(given, doc), Removes(given, doc), UNCHANGED <<doc, given>>
  PROVE  Removing'
<1> DEFINE n == Len(given.parts)
           id == given.parts[at].id
           gone == Reached(given, at - 1)
<1>1. /\ tasks \in Seq(Task) /\ doc \in Seq(Task) /\ given \in Command
      /\ Tidy(tasks, StartTime) /\ FirstRun
  BY DEF TypeInv, TypeOK, BatchInv
<1>2. n \in Nat /\ now = StartTime /\ now \in Nat BY <1>1, CommandFields, ClockStands
<1>3. at \in 1 .. n /\ at' = at + 1 /\ part = given.parts[at]
  <2>1. at \in 1 .. Len(cmd.parts) /\ at' = at + 1 BY RanPart
  <2>2. Len(cmd.parts) = n /\ \A k \in 1 .. n : k >= at => cmd.parts[k] = given.parts[k]
    BY <1>1 DEF FirstRun, Pending
  <2> QED BY <2>1, <2>2 DEF part
<1>4. part.kind = "remove" /\ part.id = id /\ id \in 1 .. Len(doc)
  BY <1>3 DEF Removes
<1>5. tasks' = RemoveTask(tasks, id, StartTime)
  BY <1>2, <1>4, RunsItsKind DEF RunRemove
<1>6. Taken(tasks, doc, gone, id)
  BY <1>1, <1>3 DEF FirstRun, Removing, NextId
<1>7. NextId(given, at + 1) \in 0 .. id - 1
  <2>1. CASE at + 1 <= n
    <3> DEFINE next == given.parts[at + 1].id
    <3>1. at + 1 \in 1 .. n /\ at < at + 1 BY <1>2, <1>3, <2>1
    <3>2. id >= next /\ next \in 1 .. Len(doc) BY <1>3, <3>1 DEF Removes
    <3>3. id # next
      <4>1. given.parts[at].kind = "remove" /\ at # at + 1 BY <1>3, <1>4
      <4> QED BY <1>1, <1>3, <3>1, <4>1, StraightParts
    <3>4. NextId(given, at + 1) = next BY <2>1 DEF NextId
    <3> QED BY <1>4, <3>2, <3>3, <3>4
  <2>2. CASE ~(at + 1 <= n)
    BY <1>4, <2>2 DEF NextId
  <2> QED BY <2>1, <2>2
<1>8. Reached(given, at) = gone \cup {id}
  BY <1>3, ReachedNext
<1> HIDE DEF gone, id
<1>9. Taken(tasks', doc, Reached(given, at), NextId(given, at + 1))
  BY <1>1, <1>2, <1>4, <1>5, <1>6, <1>7, <1>8, TakeOne
<1>10. at' - 1 = at BY <1>3
<1> QED BY <1>3, <1>9, <1>10 DEF Removing

(* So does a part that marks. *)
LEMMA StepMarking ==
  ASSUME StartTime = MaxNow, TypeInv, BatchInv, job = "run", RunPart,
         Straight(given, doc), NEW flag \in BOOLEAN, Marks(given, flag),
         UNCHANGED <<doc, given>>
  PROVE  /\ Rearranged(tasks', MarkedAt(doc, Reached(given, at' - 1), flag))
         /\ at' <= Len(given.parts) => Untouched(tasks', doc, flag, given.parts[at'].id)
<1> DEFINE n == Len(given.parts)
           id == given.parts[at].id
           ids == Reached(given, at - 1)
<1>1. /\ tasks \in Seq(Task) /\ doc \in Seq(Task) /\ given \in Command
      /\ Tidy(tasks, StartTime) /\ FirstRun
  BY DEF TypeInv, TypeOK, BatchInv
<1>2. n \in Nat /\ now = StartTime /\ now \in Nat BY <1>1, CommandFields, ClockStands
<1>3. at \in 1 .. n /\ at' = at + 1 /\ part = given.parts[at]
  <2>1. at \in 1 .. Len(cmd.parts) /\ at' = at + 1 BY RanPart
  <2>2. Len(cmd.parts) = n /\ \A k \in 1 .. n : k >= at => cmd.parts[k] = given.parts[k]
    BY <1>1 DEF FirstRun, Pending
  <2> QED BY <2>1, <2>2 DEF part
<1>4. part.kind = "done" /\ part.id = id /\ part.flag = flag
  BY <1>3 DEF Marks
<1>5. id \in 1 .. Len(doc) /\ doc[id].done # flag
  BY <1>1, <1>3, <1>4, StraightParts
<1>6. tasks' = EditTask(tasks, id, Marked(tasks[id], flag), StartTime)
  <2>1. RunDone BY <1>4, RunsItsKind
  <2>2. SetDone(flag) BY <1>4, <2>1 DEF RunDone
  <2> QED BY <1>2, <1>4, <2>2 DEF SetDone, Marked
<1>7. id \notin ids
  <2> SUFFICES ASSUME NEW k \in 1 .. at - 1 PROVE given.parts[k].id # id
    BY DEF Reached
  <2>1. k \in 1 .. n /\ k # at BY <1>2, <1>3
  <2>2. given.parts[k].kind = "done" BY <2>1 DEF Marks
  <2> QED BY <1>1, <1>3, <2>1, <2>2, StraightParts
<1>8. Rearranged(tasks, MarkedAt(doc, ids, flag)) /\ Untouched(tasks, doc, flag, id)
  BY <1>1, <1>3 DEF FirstRun, Marking
<1>9. Reached(given, at) = ids \cup {id}
  BY <1>3, ReachedNext
<1>10. at + 1 <= n => LET next == given.parts[at + 1].id
                      IN  next \in 1 .. Len(doc) /\ IF flag THEN next < id ELSE id < next
  <2> SUFFICES ASSUME at + 1 <= n
               PROVE  LET next == given.parts[at + 1].id
                      IN  next \in 1 .. Len(doc) /\ IF flag THEN next < id ELSE id < next
    OBVIOUS
  <2> DEFINE next == given.parts[at + 1].id
  <2>1. at + 1 \in 1 .. n /\ at < at + 1 /\ at # at + 1 BY <1>2, <1>3
  <2>2. IF flag THEN id >= next ELSE id <= next BY <1>3, <2>1 DEF Marks
  <2>3. given.parts[at + 1].kind = "done" BY <2>1 DEF Marks
  <2>4. next \in 1 .. Len(doc) BY <1>1, <2>1, <2>3, StraightParts
  <2>5. next # id BY <1>1, <1>3, <2>1, <2>3, StraightParts
  <2> QED BY <1>5, <2>2, <2>4, <2>5
<1> HIDE DEF ids, id
<1>11. /\ Rearranged(tasks', MarkedAt(doc, ids \cup {id}, flag))
       /\ \A other \in 1 .. Len(doc) :
            (IF flag THEN other < id ELSE id < other) =>
              Untouched(tasks', doc, flag, other)
  BY <1>1, <1>2, <1>5, <1>6, <1>7, <1>8, MarkOne
<1>12. at' - 1 = at BY <1>3
<1>13. at + 1 <= n => Untouched(tasks', doc, flag, given.parts[at + 1].id)
  BY <1>10, <1>11
<1> QED BY <1>3, <1>9, <1>11, <1>12, <1>13

(* What is left to run is as it was given. *)
LEMMA StepPending ==
  ASSUME TypeInv, Pending, RunPart, UNCHANGED given
  PROVE  Pending'
<1>1. cmd \in Command BY DEF TypeInv, TypeOK
<1>2. at \in 1 .. Len(cmd.parts) /\ at' = at + 1 BY RanPart
<1>3. PICK q \in Part : /\ q.kind = part.kind
                        /\ q.kind = "done" => q.flag = part.flag
                        /\ cmd' = [cmd EXCEPT !.parts[at] = q]
  BY RanPart
<1>4. /\ Len(cmd'.parts) = Len(cmd.parts)
      /\ \A j \in 1 .. Len(cmd.parts) :
           cmd'.parts[j] = IF j = at THEN q ELSE cmd.parts[j]
  BY <1>1, <1>2, <1>3, PartReplaced
<1>5. Len(cmd.parts) = Len(given.parts) BY DEF Pending
<1>6. ASSUME NEW k \in 1 .. Len(given.parts)
      PROVE  /\ cmd'.parts[k].kind = given.parts[k].kind
             /\ cmd'.parts[k].kind = "done" => cmd'.parts[k].flag = given.parts[k].flag
             /\ k >= at' => cmd'.parts[k] = given.parts[k]
  <2>1. /\ cmd.parts[k].kind = given.parts[k].kind
        /\ cmd.parts[k].kind = "done" => cmd.parts[k].flag = given.parts[k].flag
        /\ k >= at => cmd.parts[k] = given.parts[k]
    BY DEF Pending
  <2>2. CASE k = at
    BY <1>2, <1>3, <1>4, <1>5, <2>1, <2>2 DEF part
  <2>3. CASE k # at
    BY <1>2, <1>4, <1>5, <2>1, <2>3
  <2> QED BY <2>2, <2>3
<1> QED BY <1>4, <1>5, <1>6 DEF Pending

(* A part that is run keeps what is known of the command. *)
LEMMA StepFirstRun ==
  ASSUME StartTime = MaxNow, TypeInv, BatchInv, job = "run", RunPart,
         UNCHANGED <<doc, given>>
  PROVE  FirstRun'
<1>1. FirstRun /\ Pending /\ Made(given, doc) BY DEF BatchInv, FirstRun
<1>2. Pending' BY <1>1, StepPending
<1>3. Straight(given, doc) => Removing'
  BY StepRemoving DEF Removing
<1>4. Straight(given, doc) => Marking'
  <2> SUFFICES ASSUME Straight(given, doc), NEW flag \in BOOLEAN, Marks(given, flag)
               PROVE  /\ Rearranged(tasks', MarkedAt(doc, Reached(given, at' - 1), flag))
                      /\ at' <= Len(given.parts)
                           => Untouched(tasks', doc, flag, given.parts[at'].id)
    BY DEF Marking
  <2> QED BY StepMarking
<1>5. at' # 1
  <2>1. at \in 1 .. Len(cmd.parts) /\ at' = at + 1 BY RanPart
  <2> QED BY <2>1
<1> QED BY <1>1, <1>2, <1>3, <1>4, <1>5 DEF FirstRun

(* It is so when the command is made. *)
LEMMA BeginFirstRun ==
  ASSUME TypeInv, doc = tasks, doc' = doc, tasks' = tasks, given' = cmd',
         job' = "run", at' = 1, Made(cmd', tasks), cmd' \in Command
  PROVE  FirstRun'
<1>1. doc' \in Seq(Task) /\ tasks' = doc' /\ tasks' \in Seq(Task)
  BY DEF TypeInv, TypeOK
<1>2. Made(given', doc') OBVIOUS
<1>3. Pending' BY DEF Pending
<1>4. Reached(given', 0) = {} BY DEF Reached
<1>5. Removing'
  <2>1. ASSUME Removes(given', doc') PROVE NextId(given', 1) \in 0 .. Len(tasks')
    <3>1. CASE 1 <= Len(given'.parts)
      <4>1. 1 \in 1 .. Len(given'.parts) BY <3>1, CommandFields
      <4> QED BY <1>1, <2>1, <3>1, <4>1 DEF Removes, NextId
    <3>2. CASE ~(1 <= Len(given'.parts))
      BY <1>1, <3>2 DEF NextId
    <3> QED BY <3>1, <3>2
  <2>2. ASSUME Removes(given', doc') PROVE Taken(tasks', doc', {}, NextId(given', 1))
    BY <1>1, <2>1, <2>2, NothingTaken
  <2>3. at' - 1 = 0 OBVIOUS
  <2> QED BY <1>4, <2>2, <2>3 DEF Removing
<1>6. Marking'
  <2> SUFFICES ASSUME NEW flag \in BOOLEAN
               PROVE  /\ Rearranged(tasks', MarkedAt(doc', Reached(given', at' - 1), flag))
                      /\ Untouched(tasks', doc', flag, given'.parts[at'].id)
    BY DEF Marking
  <2>1. MarkedAt(doc', {}, flag) = doc' BY <1>1, NothingMarked
  <2>2. Rearranged(tasks', doc') BY <1>1, RearrangedSelf
  <2>3. at' - 1 = 0 OBVIOUS
  <2> QED BY <1>1, <1>4, <2>1, <2>2, <2>3 DEF Untouched
<1> QED BY <1>1, <1>2, <1>3, <1>5, <1>6 DEF FirstRun

(* A command is submitted when no handler is in progress. *)
LEMMA SubmitIdle ==
  ASSUME Submit
  PROVE  job = "none" /\ tasks' = tasks
<1>1. ASSUME NEW parts, Run(parts) PROVE tasks' = tasks BY <1>1, MadeRun
<1>2. CASE SubmitAdd
  <2>1. PICK t \in NewTasks : Run(<<AddPart(t)>>) BY <1>2 DEF SubmitAdd
  <2> QED BY <1>1, <1>2, <2>1 DEF SubmitAdd, MaySubmit, Idle
<1>3. CASE SubmitRemove
  <2>1. \E parts : Run(parts) BY <1>3 DEF SubmitRemove
  <2> QED BY <1>1, <1>3, <2>1 DEF SubmitRemove, MaySubmit, Idle
<1>4. CASE SubmitEdit
  <2>1. \E parts : Run(parts) BY <1>4 DEF SubmitEdit
  <2> QED BY <1>1, <1>4, <2>1 DEF SubmitEdit, MaySubmit, Idle
<1>5. CASE SubmitDone
  <2>1. \E parts : Run(parts) BY <1>5 DEF SubmitDone
  <2> QED BY <1>1, <1>5, <2>1 DEF SubmitDone, MaySubmit, Idle
<1>6. CASE SubmitUndone
  <2>1. \E parts : Run(parts) BY <1>6 DEF SubmitUndone
  <2> QED BY <1>1, <1>6, <2>1 DEF SubmitUndone, MaySubmit, Idle
<1>7. CASE SubmitClear
  BY <1>1, <1>7 DEF SubmitClear, MaySubmit, Idle
<1>8. CASE SubmitUndo \/ SubmitRedo \/ Show \/ LastIsNoTask
  BY <1>8 DEF SubmitUndo, SubmitRedo, Show, LastIsNoTask, Idle, storageVars
<1> QED BY <1>2, <1>3, <1>4, <1>5, <1>6, <1>7, <1>8 DEF Submit

(* What is known of a command is said of these variables alone. *)
LEMMA SameBatch ==
  ASSUME FirstRun, UNCHANGED <<tasks, cmd, at, doc, given>>
  PROVE  FirstRun'
BY DEF FirstRun, Pending, Removing, Marking

(* Every step keeps what is known of a command being run for the first time. *)
LEMMA StepBatch ==
  ASSUME StartTime = MaxNow, TypeInv, BatchInv, [NextT]_allVars
  PROVE  BatchInv'
<1>1. [Next]_vars BY RecordedStep
<1>2. Tidy(tasks', StartTime) BY <1>1, StepTidy DEF BatchInv
<1>3. /\ tasks' \in Seq(Task) /\ cmd' \in Command
  BY <1>1, StepTypes DEF TypeInv, TypeOK
<1>4. NoCommand \in Command
  <2>1. <<>> \in Seq(Part) BY EmptySeq
  <2> QED BY <2>1 DEF NoCommand, NewCommand, Command
<1>5. CASE RecordSubmit
  <2>1. /\ Submit /\ given' = cmd' /\ doc' = doc
    BY <1>5 DEF RecordSubmit, history
  <2>2. CASE job' = "run" /\ at' = 1 /\ Made(cmd', tasks)
    <3>1. tasks' = tasks /\ job = "none"
      BY <2>1, <2>2, SubmitIdle
    <3>2. doc = tasks BY <3>1 DEF BatchInv
    <3>3. FirstRun' BY <1>3, <2>1, <2>2, <3>1, <3>2, BeginFirstRun
    <3> QED BY <1>2, <1>3, <2>1, <2>2, <3>3 DEF BatchInv
  <2>3. CASE SubmitUndo \/ SubmitRedo \/ Show \/ LastIsNoTask
    <3>1. job' # "run" /\ tasks' = tasks /\ job = "none"
      BY <2>3 DEF SubmitUndo, SubmitRedo, Show, LastIsNoTask, BeginUndo, BeginRedo, Rest,
                  Idle, storageVars
    <3> QED BY <1>2, <1>3, <2>1, <3>1 DEF BatchInv
  <2> QED BY <2>1, <2>2, <2>3, MadeCommand
<1>6. CASE RecordOther
  <2>1. doc' = doc /\ given' = given BY <1>6 DEF RecordOther, history
  <2>2. CASE RunPart
    <3>1. job \in {"run", "redo"} /\ job' = job BY <2>2, RanPart
    <3>2. job = "run" => FirstRun' BY <2>1, <2>2, StepFirstRun
    <3> QED BY <1>2, <2>1, <3>1, <3>2 DEF BatchInv
  <2>3. CASE UndoPart
    <3>1. job' = "undo"
      BY <2>3 DEF UndoPart, UndoAdd, UndoRemove, UndoEdit, UndoDone, UndoClear, UndoClearAdd,
                  UndoClearShow, Undoing, Undid, SetDone
    <3> QED BY <1>2, <2>1, <3>1 DEF BatchInv
  <2>4. CASE NoSuchTask
    BY <1>2, <2>1, <2>4 DEF BatchInv, NoSuchTask
  <2>5. CASE Tick
    <3>1. UNCHANGED <<tasks, job, cmd, at>> BY <2>5 DEF Tick, storageVars
    <3> QED BY <1>2, <2>1, <3>1, SameBatch DEF BatchInv
  <2> QED BY <1>6, <2>2, <2>3, <2>4, <2>5 DEF RecordOther
<1>7. CASE RecordRestart
  BY <1>2, <1>3, <1>4, <1>7 DEF RecordRestart, Restart, Rest, BatchInv
<1>8. CASE RecordRun
  BY <1>2, <1>3, <1>4, <1>8 DEF RecordRun, FinishRun, Rest, BatchInv
<1>9. CASE RecordUndo
  <2>1. doc' = tasks /\ given' = given /\ tasks' = tasks /\ job' # "run"
    BY <1>9 DEF RecordUndo, FinishUndo, BeginUndo, Rest
  <2> QED BY <1>2, <1>3, <2>1 DEF BatchInv
<1>10. CASE RecordRedo
  <2>1. doc' = tasks /\ given' = given /\ tasks' = tasks /\ job' # "run"
    BY <1>10 DEF RecordRedo, FinishRedo, BeginRedo, Rest
  <2> QED BY <1>2, <1>3, <2>1 DEF BatchInv
<1>11. CASE UNCHANGED allVars
  <2>1. UNCHANGED <<tasks, job, cmd, at, doc, given>> BY <1>11 DEF allVars, vars, history
  <2> QED BY <1>2, <2>1, SameBatch DEF BatchInv
<1> QED BY <1>5, <1>6, <1>7, <1>8, <1>9, <1>10, <1>11 DEF NextT

(* It is so at the start, with nothing in the list. *)
LEMMA InitBatch == InitT => BatchInv
<1>1. ASSUME InitT PROVE BatchInv
  <2>1. <<>> \in Seq(Part) /\ <<>> \in Seq(Task) BY EmptySeq
  <2>2. NoCommand \in Command BY <2>1 DEF NoCommand, NewCommand, Command
  <2>3. Tidy(<<>>, StartTime) BY DEF Tidy
  <2> QED BY <1>1, <2>1, <2>2, <2>3 DEF InitT, Init, BatchInv
<1> QED BY <1>1

(* When all parts are run, the ids they had are the ones given. *)
LEMMA AllReached ==
  ASSUME NEW c \in Command, \A k \in 1 .. Len(c.parts) : c.parts[k].kind \in {"remove", "done"}
  PROVE  IdsOf(c) = Reached(c, Len(c.parts))
<1>1. DOMAIN c.parts = 1 .. Len(c.parts) BY CommandFields
<1> QED BY <1>1 DEF IdsOf, Reached

(* What a straight command leaves when it is done is what it should. *)
LEMMA PickedAreHit ==
  ASSUME StartTime = MaxNow, TypeInv, BatchInv, FinishRun, Straight(given, doc)
  PROVE  SameTasks(tasks, AfterPicks)
<1> DEFINE n == Len(given.parts)
<1>1. /\ tasks \in Seq(Task) /\ doc \in Seq(Task) /\ given \in Command /\ cmd \in Command
      /\ FirstRun /\ Removing /\ Marking
  BY DEF TypeInv, TypeOK, BatchInv, FinishRun, FirstRun
<1>2. /\ n \in Nat /\ Len(cmd.parts) = n /\ at = n + 1
      /\ \A k \in 1 .. n : /\ cmd.parts[k].kind = given.parts[k].kind
                           /\ cmd.parts[k].kind = "done"
                                => cmd.parts[k].flag = given.parts[k].flag
  <2>1. n \in Nat /\ Len(cmd.parts) = n BY <1>1, CommandFields DEF FirstRun, Pending
  <2>2. at = n + 1 BY <2>1 DEF FinishRun, TypeInv, TypeOK
  <2> QED BY <1>1, <2>1, <2>2 DEF FirstRun, Pending
<1>3. at - 1 = n /\ ~(at <= n) BY <1>2
<1>4. cmd.parts \in Seq(Part) BY <1>1, CommandFields
<1>5. CASE cmd.parts = <<>>
  <2>1. tasks = doc BY <1>1, <1>2, <1>5 DEF FirstRun
  <2>2. AfterPicks = doc BY <1>5 DEF AfterPicks
  <2>3. SameTasks(doc, doc) BY <1>1, RearrangedSelf, RearrangedSame
  <2> QED BY <2>1, <2>2, <2>3
<1>6. CASE cmd.parts # <<>>
  <2>1. n >= 1 /\ 1 \in 1 .. n BY <1>2, <1>4, <1>6, EmptySeq
  <2>2. CASE Single(given)
    <3>1. cmd.parts[1].kind \in {"add", "edit", "clear"} BY <1>2, <2>1, <2>2 DEF Single
    <3>2. AfterPicks = tasks BY <1>6, <3>1 DEF AfterPicks
    <3>3. SameTasks(tasks, tasks) BY <1>1, RearrangedSelf, RearrangedSame
    <3> QED BY <3>2, <3>3
  <2>3. CASE Removes(given, doc)
    <3>1. cmd.parts[1].kind = "remove" BY <1>2, <2>1, <2>3 DEF Removes
    <3>2. IdsOf(given) = Reached(given, n) BY <1>1, <2>3, AllReached DEF Removes
    <3>3. Taken(tasks, doc, IdsOf(given), NextId(given, at))
      BY <1>1, <1>3, <2>3, <3>2 DEF Removing
    <3>4. LET left == Left(doc, IdsOf(given))
              picked == [k \in 1 .. Cardinality(left) |-> doc[Enumeration(left)[k]]]
          IN  picked \in Seq(Task) /\ Rearranged(tasks, picked)
      BY <1>1, <3>3, TakenIsPicked
    <3>5. AfterPicks = LET left == Left(doc, IdsOf(given))
                       IN  [k \in 1 .. Cardinality(left) |-> doc[Enumeration(left)[k]]]
      BY <1>6, <3>1 DEF AfterPicks, Left
    <3>6. AfterPicks \in Seq(Task) /\ Rearranged(tasks, AfterPicks) BY <3>4, <3>5
    <3> QED BY <1>1, <3>6, RearrangedSame
  <2>4. ASSUME NEW flag \in BOOLEAN, Marks(given, flag) PROVE SameTasks(tasks, AfterPicks)
    <3>1. cmd.parts[1].kind = "done" /\ cmd.parts[1].flag = flag
      BY <1>2, <2>1, <2>4 DEF Marks
    <3>2. IdsOf(given) = Reached(given, n) BY <1>1, <2>4, AllReached DEF Marks
    <3>3. Rearranged(tasks, MarkedAt(doc, IdsOf(given), flag))
      BY <1>1, <1>3, <2>4, <3>2 DEF Marking
    <3>4. AfterPicks = MarkedAt(doc, IdsOf(given), flag)
      BY <1>6, <3>1 DEF AfterPicks, MarkedAt, Marked
    <3>5. MarkedAt(doc, IdsOf(given), flag) \in Seq(Task) BY <1>1, MarkedList
    <3> QED BY <1>1, <3>3, <3>4, <3>5, RearrangedSame
  <2> QED BY <1>1, <2>2, <2>3, <2>4 DEF FirstRun, Made
<1> QED BY <1>5, <1>6

(* While the clock stands still, a straight command for several numbers acts on
   the very tasks that had them when it was given: whatever the tasks are and
   however many it is given, although every one of its parts renumbers the
   list.                                                                   *)
THEOREM HitsThePickedCorrect ==
  ASSUME StartTime = MaxNow
  PROVE  SpecT => HitsThePicked
<1>1. InitT => TypeInv /\ BatchInv BY InitTypes, InitBatch DEF InitT
<1>2. TypeInv /\ BatchInv /\ [NextT]_allVars => TypeInv' /\ BatchInv'
  BY StepBatch, StepTypes, RecordedStep
<1>3. TypeInv /\ BatchInv /\ [NextT]_allVars
        => (FinishRun /\ Straight(given, doc) => SameTasks(tasks, AfterPicks))
  BY PickedAreHit
<1> QED BY <1>1, <1>2, <1>3, PTL DEF SpecT, HitsThePicked

-----------------------------------------------------------------------------
(* The tasks there can be: those asked for, done or not. *)
Contents == {[t EXCEPT !.done = b] : t \in NewTasks, b \in BOOLEAN}

(* No two of them that the order cannot tell apart. *)
NoTies == \A t, u \in NewTasks : t.desc = u.desc /\ t.end = u.end => t = u

Fine(ts) == ts \in Seq(Contents) /\ Tidy(ts, StartTime)

(* They are tasks, and stay so when they are marked. *)
LEMMA ContentsAreTasks ==
  /\ Contents \in SUBSET Task /\ Seq(Contents) \subseteq Seq(Task)
  /\ \A t \in Contents, flag \in BOOLEAN : Marked(t, flag) \in Contents
  /\ NewTasks \subseteq Contents
<1>1. \A t \in NewTasks : t \in Task /\ t.done = FALSE BY NewTasksAssumption
<1>2. \A t \in Task, b \in BOOLEAN : [t EXCEPT !.done = b] \in Task BY DEF Task
<1>3. Contents \in SUBSET Task BY <1>1, <1>2 DEF Contents
<1>4. ASSUME NEW t \in Contents, NEW flag \in BOOLEAN PROVE Marked(t, flag) \in Contents
  <2>1. PICK u \in NewTasks, b \in BOOLEAN : t = [u EXCEPT !.done = b] BY DEF Contents
  <2>2. Marked(t, flag) = [u EXCEPT !.done = flag] BY <1>1, <2>1 DEF Marked, Task
  <2> QED BY <2>2 DEF Contents
<1>5. ASSUME NEW t \in NewTasks PROVE t \in Contents
  <2>1. t = [t EXCEPT !.done = FALSE] BY <1>1 DEF Task
  <2>2. \A b \in BOOLEAN : [t EXCEPT !.done = b] \in Contents BY DEF Contents
  <2>3. FALSE \in BOOLEAN OBVIOUS
  <2>4. [t EXCEPT !.done = FALSE] \in Contents BY <2>2, <2>3
  <2> QED BY <2>1, <2>4
<1>6. Seq(Contents) \subseteq Seq(Task)
  <2> SUFFICES ASSUME NEW ts \in Seq(Contents) PROVE ts \in Seq(Task) OBVIOUS
  <2>1. Len(ts) \in Nat /\ DOMAIN ts = 1 .. Len(ts)
        /\ \A k \in 1 .. Len(ts) : ts[k] \in Contents
    BY ElementOfSeq
  <2>2. ts = [k \in 1 .. Len(ts) |-> ts[k]] BY <2>1
  <2>3. ts \in [1 .. Len(ts) -> Task] BY <1>3, <2>1, <2>2
  <2> QED BY <2>1, <2>3, SeqDef
<1> QED BY <1>3, <1>4, <1>5, <1>6

(* Then two of them neither of which comes behind the other are the same. *)
LEMMA OrderTells ==
  ASSUME NoTies
  PROVE  \A t, u \in Contents :
           AtOrBefore(t, u, StartTime) /\ AtOrBefore(u, t, StartTime) => t = u
<1> SUFFICES ASSUME NEW t \in Contents, NEW u \in Contents,
                    AtOrBefore(t, u, StartTime), AtOrBefore(u, t, StartTime)
             PROVE  t = u
  OBVIOUS
<1>1. t.done = u.done /\ t.end = u.end /\ t.desc = u.desc
  BY OrderOfTasks, ContentsAreTasks, BoundsAssumption
<1>2. PICK v \in NewTasks, b \in BOOLEAN : t = [v EXCEPT !.done = b] BY DEF Contents
<1>3. PICK w \in NewTasks, c \in BOOLEAN : u = [w EXCEPT !.done = c] BY DEF Contents
<1>4. v \in Task /\ w \in Task BY NewTasksAssumption
<1>5. v.desc = w.desc /\ v.end = w.end /\ b = c BY <1>1, <1>2, <1>3, <1>4 DEF Task
<1>6. v = w BY <1>5 DEF NoTies
<1> QED BY <1>2, <1>3, <1>5, <1>6

(* So there is one list of them in order. *)
LEMMA FineIsUnique ==
  ASSUME NoTies, NEW ts, NEW us, Fine(ts), Fine(us), Rearranged(ts, us)
  PROVE  ts = us
<1>1. StartTime \in Nat BY BoundsAssumption
<1>2. ts \in Seq(Contents) /\ us \in Seq(Contents)
      /\ Tidy(ts, StartTime) /\ Tidy(us, StartTime)
  BY DEF Fine
<1>3. Contents \in SUBSET Task BY ContentsAreTasks
<1> QED BY <1>1, <1>2, <1>3, OrderTells, TidyIsUnique

(* Which renumber() makes. *)
LEMMA RenumberedFine ==
  ASSUME NEW us \in Seq(Contents)
  PROVE  /\ Fine(Renumber(us, StartTime)) /\ Rearranged(Renumber(us, StartTime), us)
         /\ us \in Seq(Task)
<1>1. StartTime \in Nat BY BoundsAssumption
<1>2. us \in Seq(Task) BY ContentsAreTasks
<1> DEFINE new == Renumber(us, StartTime)
<1>3. /\ new \in Seq(Task) /\ Len(new) = Len(us) /\ Len(us) \in Nat
      /\ Order(us, StartTime) \in [1 .. Len(us) -> 1 .. Len(us)]
      /\ new = [k \in 1 .. Len(us) |-> us[Order(us, StartTime)[k]]]
  <2>1. /\ new = [k \in 1 .. Len(us) |-> us[Order(us, StartTime)[k]]]
        /\ new \in Seq(Task) /\ Len(new) = Len(us) /\ Len(us) \in Nat
    BY <1>1, <1>2, RenumberKeepsTasks
  <2>2. Order(us, StartTime) \in [1 .. Len(us) -> 1 .. Len(us)]
    BY <1>1, <1>2, OrderPrecedes DEF Positions
  <2> QED BY <2>1, <2>2
<1>4. \A k \in 1 .. Len(us) : us[k] \in Contents BY ElementOfSeq
<1>5. new \in [1 .. Len(us) -> Contents] BY <1>3, <1>4
<1>6. new \in Seq(Contents) BY <1>3, <1>5, SeqDef
<1>7. Tidy(new, StartTime) /\ Rearranged(new, us)
  BY <1>1, <1>2, RenumberTidies, RenumberRearranges
<1> QED BY <1>2, <1>6, <1>7 DEF Fine

(* A list of the same tasks in order is the one that renumber() makes. *)
LEMMA OnlyOneInOrder ==
  ASSUME NoTies, NEW us \in Seq(Contents), NEW M, Fine(M), Rearranged(M, us)
  PROVE  Renumber(us, StartTime) = M
<1> DEFINE new == Renumber(us, StartTime)
<1>1. Fine(new) /\ Rearranged(new, us) BY RenumberedFine
<1> HIDE DEF new
<1>2. new \in Seq(Contents) /\ M \in Seq(Contents) BY <1>1 DEF Fine
<1>3. Rearranged(us, M) BY <1>2, RearrangedBack
<1>4. Rearranged(new, M) BY <1>1, <1>2, <1>3, RearrangedTwice
<1>5. new = M BY <1>1, <1>4, FineIsUnique
<1> QED BY <1>5 DEF new

-----------------------------------------------------------------------------
(* What the operations make of lists in order, and what takes it back. *)
LEMMA AddJoins ==
  ASSUME NEW L, Fine(L), NEW t \in Contents
  PROVE  LET M == AddTask(L, t, StartTime)
             id == AddedId(L, t, StartTime)
         IN  /\ Fine(M) /\ Rearranged(M, Append(L, t))
             /\ id \in 1 .. Len(M) /\ M[id] = t
<1>1. StartTime \in Nat BY BoundsAssumption
<1>2. L \in Seq(Contents) /\ Append(L, t) \in Seq(Contents) BY AppendProperties DEF Fine
<1>3. L \in Seq(Task) /\ t \in Task BY <1>2, ContentsAreTasks
<1>4. AddTask(L, t, StartTime) = Renumber(Append(L, t), StartTime) BY DEF AddTask, Pushed
<1> QED BY <1>1, <1>2, <1>3, <1>4, RenumberedFine, AddTaskResult

(* To remove the task that was added takes it back. *)
LEMMA AddUndone ==
  ASSUME NoTies, NEW L, Fine(L), NEW M, Fine(M), NEW t \in Contents,
         Rearranged(M, Append(L, t)), NEW id \in 1 .. Len(M), M[id] = t
  PROVE  RemoveTask(M, id, StartTime) = L
<1> DEFINE more == Append(L, t)
           j == Len(L) + 1
           us == RemoveAt(M, id)
<1>1. /\ L \in Seq(Contents) /\ M \in Seq(Contents)
      /\ more \in Seq(Contents) /\ Len(more) = j /\ more[j] = t
  BY AppendProperties DEF Fine
<1>2. j \in 1 .. Len(more) BY <1>1
<1>3. us \in Seq(Contents) BY <1>1, RemovedAt
<1>4. RemoveAt(more, j) = L BY <1>1, RemovedAppended
<1>5. Rearranged(us, RemoveAt(more, j)) BY <1>1, <1>2, RemovedBoth
<1>6. Rearranged(L, us) BY <1>1, <1>3, <1>4, <1>5, RearrangedBack
<1>7. RemoveTask(M, id, StartTime) = Renumber(us, StartTime) BY DEF RemoveTask, IsId
<1> HIDE DEF us
<1> QED BY <1>3, <1>6, <1>7, OnlyOneInOrder

(* To remove a task leaves the others in order where they are. *)
LEMMA RemoveJoins ==
  ASSUME NEW L, Fine(L), NEW id \in 1 .. Len(L)
  PROVE  /\ RemoveTask(L, id, StartTime) = RemoveAt(L, id)
         /\ Fine(RemoveAt(L, id))
<1> DEFINE n == Len(L)
           us == RemoveAt(L, id)
<1>1. L \in Seq(Contents) /\ n \in Nat BY DEF Fine
<1>2. /\ us \in Seq(Contents) /\ Len(us) = n - 1
      /\ \A k \in 1 .. n - 1 : us[k] = IF k < id THEN L[k] ELSE L[k + 1]
  BY <1>1, RemovedAt
<1> HIDE DEF us
<1>3. Tidy(us, StartTime)
  <2> SUFFICES ASSUME NEW k \in 1 .. n - 1, NEW l \in 1 .. n - 1, k < l
               PROVE  AtOrBefore(us[k], us[l], StartTime)
    BY <1>2 DEF Tidy
  <2> DEFINE x == IF k < id THEN k ELSE k + 1
             y == IF l < id THEN l ELSE l + 1
  <2>1. x \in 1 .. n /\ y \in 1 .. n /\ x < y BY <1>1
  <2>2. us[k] = L[x] /\ us[l] = L[y] BY <1>2
  <2> HIDE DEF x, y
  <2> QED BY <2>1, <2>2 DEF Fine, Tidy
<1>4. Renumber(us, StartTime) = us
  <2>1. us \in Seq(Task) /\ StartTime \in Nat BY <1>2, ContentsAreTasks, BoundsAssumption
  <2> QED BY <1>3, <2>1, TidyStays
<1>5. RemoveTask(L, id, StartTime) = Renumber(us, StartTime) BY DEF RemoveTask, IsId, us
<1> QED BY <1>2, <1>3, <1>4, <1>5 DEF Fine, us

(* To add the task that was removed takes it back. *)
LEMMA RemoveUndone ==
  ASSUME NoTies, NEW L, Fine(L), NEW id \in 1 .. Len(L)
  PROVE  AddTask(RemoveAt(L, id), L[id], StartTime) = L
<1> DEFINE us == Append(RemoveAt(L, id), L[id])
<1>1. L \in Seq(Contents) BY DEF Fine
<1>2. L[id] \in Contents /\ RemoveAt(L, id) \in Seq(Contents) BY <1>1, ElementOfSeq, RemovedAt
<1>3. us \in Seq(Contents) BY <1>2, AppendProperties
<1>4. Rearranged(us, L) BY <1>1, AppendRemoved
<1>5. Rearranged(L, us) BY <1>1, <1>3, <1>4, RearrangedBack
<1>6. AddTask(RemoveAt(L, id), L[id], StartTime) = Renumber(us, StartTime)
  BY DEF AddTask, Pushed
<1> HIDE DEF us
<1> QED BY <1>3, <1>5, <1>6, OnlyOneInOrder

(* An edit replaces the task and puts it where it belongs, at the id that is returned. *)
LEMMA EditJoins ==
  ASSUME NEW L, Fine(L), NEW i \in 1 .. Len(L), NEW t \in Contents
  PROVE  LET M == EditTask(L, i, t, StartTime)
             id == EditedId(L, i, t, StartTime)
         IN  /\ Fine(M) /\ Rearranged(M, Replaced(L, i, t))
             /\ Len(M) = Len(L) /\ id \in 1 .. Len(M) /\ M[id] = t
<1>1. StartTime \in Nat BY BoundsAssumption
<1>2. L \in Seq(Contents) BY DEF Fine
<1>3. Replaced(L, i, t) \in Seq(Contents) BY <1>2, ExceptSeq DEF Replaced
<1>4. L \in Seq(Task) /\ t \in Task BY <1>2, ContentsAreTasks
<1>5. EditTask(L, i, t, StartTime) = Renumber(Replaced(L, i, t), StartTime) BY DEF EditTask
<1> QED BY <1>1, <1>3, <1>4, <1>5, RenumberedFine, EditTaskResult

(* To edit it back to what it was takes it back. *)
LEMMA EditUndone ==
  ASSUME NoTies, NEW L, Fine(L), NEW M, Fine(M), NEW i \in 1 .. Len(L), NEW t \in Contents,
         Rearranged(M, Replaced(L, i, t)), NEW id \in 1 .. Len(M), M[id] = t
  PROVE  EditTask(M, id, L[i], StartTime) = L
<1> DEFINE there == Replaced(L, i, t)
           us == Replaced(M, id, L[i])
<1>1. L \in Seq(Contents) /\ M \in Seq(Contents) BY DEF Fine
<1>2. L[i] \in Contents /\ Len(L) \in Nat BY <1>1, ElementOfSeq
<1>3. /\ there \in Seq(Contents) /\ Len(there) = Len(L)
      /\ \A k \in 1 .. Len(L) : there[k] = IF k = i THEN t ELSE L[k]
  BY <1>1, ExceptSeq DEF Replaced
<1>4. us \in Seq(Contents) BY <1>1, <1>2, ExceptSeq DEF Replaced
<1>5. i \in 1 .. Len(there) /\ there[i] = M[id] BY <1>3
<1> HIDE DEF there
<1>6. Replaced(there, i, L[i]) = L
  <2> DEFINE back == Replaced(there, i, L[i])
  <2>1. /\ back \in Seq(Contents) /\ Len(back) = Len(L)
        /\ \A k \in 1 .. Len(L) : back[k] = IF k = i THEN L[i] ELSE there[k]
    BY <1>2, <1>3, <1>5, ExceptSeq DEF Replaced
  <2> HIDE DEF back
  <2>2. \A k \in 1 .. Len(back) : back[k] = L[k] BY <1>3, <2>1
  <2>3. back = L BY <1>1, <2>1, <2>2, SeqEqual
  <2> QED BY <2>3 DEF back
<1>7. Rearranged(us, L)
  <2>1. Rearranged(M, there) BY DEF there
  <2>2. Rearranged(Replaced(M, id, L[i]), Replaced(there, i, L[i]))
    BY <1>1, <1>2, <1>3, <1>5, <2>1, ReplacedBoth
  <2> QED BY <1>6, <2>2
<1>8. Rearranged(L, us) BY <1>1, <1>4, <1>7, RearrangedBack
<1>9. EditTask(M, id, L[i], StartTime) = Renumber(us, StartTime) BY DEF EditTask
<1> HIDE DEF us
<1> QED BY <1>4, <1>8, <1>9, OnlyOneInOrder

(* To clear a list in which nothing is done copies all of it. *)
LEMMA ClearKeepsAll ==
  ASSUME NEW L \in Seq(Task), Undone(L) = 1 .. Len(L)
  PROVE  LET old == GetTasks(L) IN [k \in 1 .. Len(old) |-> old[k].task] = L
<1> DEFINE n == Len(L)
           old == GetTasks(L)
<1>1. n \in Nat /\ Cardinality(1 .. n) = n
  <2>1. n \in Nat /\ 1 \in Int OBVIOUS
  <2> QED BY <2>1, FS_Interval
<1>2. ASSUME NEW k \in 1 .. n PROVE Enumeration(1 .. n)[k] = k
  <2>1. PICK i \in 1 .. n : Enumeration(1 .. n)[k] = i
                            /\ Cardinality({j \in 1 .. n : j <= i}) = k
    <3>1. (1 .. n) \in SUBSET (1 .. n) /\ k \in 1 .. Cardinality(1 .. n) BY <1>1
    <3>2. \E i \in 1 .. n : Cardinality({j \in 1 .. n : j <= i}) = k
      BY <1>1, <3>1, EnumerationReached
    <3> QED BY <1>1, <3>2 DEF Enumeration
  <2>2. {j \in 1 .. n : j <= i} = 1 .. i BY <1>1
  <2>3. Cardinality(1 .. i) = i
    <3>1. i \in Int /\ 1 \in Int /\ i >= 1 BY <1>1
    <3> QED BY <3>1, FS_Interval
  <2> QED BY <2>1, <2>2, <2>3
<1>3. old = <<>> \o [k \in 1 .. n |-> [number |-> k, task |-> L[k]]]
  BY <1>1, <1>2 DEF GetTasks, Search
<1> DEFINE found == [k \in 1 .. n |-> [number |-> k, task |-> L[k]]]
           Found == [number : Nat, task : Task]
<1>4. found \in Seq(Found) /\ Len(found) = n
  <2>1. \A k \in 1 .. n : L[k] \in Task BY <1>1, ElementOfSeq
  <2>2. found \in [1 .. n -> Found] BY <1>1, <2>1
  <2> QED BY <1>1, <2>2, SeqDef, LenProperties
<1>5. \A k \in 1 .. n : found[k].task = L[k] OBVIOUS
<1> HIDE DEF found, Found
<1>6. old = found BY <1>3, <1>4, ConcatEmptySeq DEF found
<1>7. [k \in 1 .. Len(old) |-> old[k].task] = [k \in 1 .. n |-> L[k]] BY <1>4, <1>5, <1>6
<1>8. DOMAIN L = 1 .. n /\ L = [k \in DOMAIN L |-> L[k]] OBVIOUS
<1> QED BY <1>7, <1>8

-----------------------------------------------------------------------------
(* How a part of a command leads from one list to the next, whether it has run
   or not: what it remembers is what it needs to go on from where it is.   *)
Joins(p, L, M) ==
  /\ p.kind = "add" =>
       /\ p.task \in Contents /\ Rearranged(M, Append(L, p.task))
       /\ p.ran => p.tid \in 1 .. Len(M) /\ M[p.tid] = p.task
  /\ p.kind = "remove" =>
       /\ p.id \in 1 .. Len(L) /\ L[p.id] = p.task /\ M = RemoveAt(L, p.id)
  /\ p.kind = "edit" =>
       /\ p.task \in Contents /\ p.id \in 1 .. Len(L)
       /\ Rearranged(M, Replaced(L, p.id, p.task))
       /\ p.ran => p.tid \in 1 .. Len(M) /\ M[p.tid] = p.task /\ p.old = L[p.id]
  /\ p.kind = "clear" =>
       M = <<>> /\ Undone(L) = 1 .. Len(L) /\ (p.ran => p.olds = L)
  /\ p.kind = "done" =>
       \E i \in 1 .. Len(L) :
         /\ L[i].done # p.flag
         /\ Rearranged(M, Replaced(L, i, Marked(L[i], p.flag)))
         /\ IF p.ran THEN p.id \in 1 .. Len(M) /\ M[p.id] = Marked(L[i], p.flag)
                     ELSE p.id = i

(* What a part needs of a list to be run on it. *)
Ready(p, L) ==
  /\ p.kind \in {"add", "edit"} => p.task \in Contents
  /\ p.kind = "remove" => p.id \in 1 .. Len(L) /\ L[p.id] = p.task
  /\ p.kind = "clear" => Undone(L) = 1 .. Len(L)
  /\ p.kind = "done" /\ p.id \in 1 .. Len(L) => L[p.id].done # p.flag

(* A part that has not run is ready where it leads from. *)
LEMMA JoinsReady ==
  ASSUME NEW p, NEW L, NEW M, Joins(p, L, M), ~p.ran
  PROVE  Ready(p, L)
BY DEF Joins, Ready

(* To write a part of the command in progress. *)
LEMMA PartWritten ==
  ASSUME TypeInv, at \in 1 .. Len(cmd.parts), NEW q \in Part, NEW b \in BOOLEAN,
         cmd' = [cmd EXCEPT !.parts[at] = [q EXCEPT !.ran = b]]
  PROVE  /\ cmd'.parts[at] = [q EXCEPT !.ran = b] /\ cmd'.parts[at].ran = b
         /\ Len(cmd'.parts) = Len(cmd.parts)
         /\ \A k \in 1 .. Len(cmd.parts) : k # at => cmd'.parts[k] = cmd.parts[k]
<1> DEFINE r == [q EXCEPT !.ran = b]
<1>1. cmd \in Command BY DEF TypeInv, TypeOK
<1>2. r \in Part /\ r.ran = b BY PartUpdates
<1> HIDE DEF r
<1>3. cmd' = [cmd EXCEPT !.parts[at] = r] BY DEF r
<1>4. /\ Len(cmd'.parts) = Len(cmd.parts)
      /\ \A j \in 1 .. Len(cmd.parts) :
           cmd'.parts[j] = IF j = at THEN r ELSE cmd.parts[j]
  <2>1. /\ Len([cmd EXCEPT !.parts[at] = r].parts) = Len(cmd.parts)
        /\ \A j \in 1 .. Len(cmd.parts) :
             [cmd EXCEPT !.parts[at] = r].parts[j] = IF j = at THEN r ELSE cmd.parts[j]
    BY <1>1, <1>2, PartReplaced
  <2> QED BY <1>3, <2>1, Zenon
<1> QED BY <1>2, <1>4 DEF r

(* A part that is run leads to the list it leaves, and to no other. *)
RunsTo ==
  /\ Fine(tasks')
  /\ Joins(cmd'.parts[at], tasks, tasks')
  /\ Len(cmd'.parts) = Len(cmd.parts)
  /\ \A k \in 1 .. Len(cmd.parts) : k # at => cmd'.parts[k] = cmd.parts[k]
  /\ \A M : Fine(M) /\ ~part.ran /\ Joins(part, tasks, M) => M = tasks'

(* So does an add, in the order of the list. *)
LEMMA AddRuns ==
  ASSUME NoTies, StartTime = MaxNow, TypeInv, RunAdd, Fine(tasks), Ready(part, tasks)
  PROVE  RunsTo
<1> DEFINE L == tasks
           t == part.task
           id == AddedId(L, t, StartTime)
           q == [part EXCEPT !.tid = id]
           r == [q EXCEPT !.ran = TRUE]
<1>1. now = StartTime BY ClockStands
<1>2. at \in 1 .. Len(cmd.parts) /\ part \in Part /\ part.kind = "add"
  BY RunningPart DEF RunAdd
<1>3. t \in Contents BY <1>2 DEF Ready
<1>4. tasks' = AddTask(L, t, StartTime) /\ Ran(q) BY <1>1 DEF RunAdd
<1>5. /\ Fine(tasks') /\ Rearranged(tasks', Append(L, t))
      /\ id \in 1 .. Len(tasks') /\ tasks'[id] = t
  BY <1>3, <1>4, AddJoins
<1>6. q \in Part
  <2>1. id \in Nat BY <1>5
  <2> HIDE DEF id
  <2> QED BY <1>2, <2>1, PartUpdates
<1>7. /\ cmd'.parts[at] = r
      /\ Len(cmd'.parts) = Len(cmd.parts)
      /\ \A k \in 1 .. Len(cmd.parts) : k # at => cmd'.parts[k] = cmd.parts[k]
  <2>1. TRUE \in BOOLEAN OBVIOUS
  <2>2. cmd' = [cmd EXCEPT !.parts[at] = r] BY <1>4 DEF Ran
  <2> HIDE DEF q
  <2> QED BY <1>2, <1>6, <2>1, <2>2, PartWritten
<1> HIDE DEF id
<1>8. r.kind = "add" /\ r.task = t /\ r.tid = id BY <1>2 DEF Part
<1>9. Joins(cmd'.parts[at], L, tasks') BY <1>3, <1>5, <1>7, <1>8 DEF Joins
<1>10. ASSUME NEW M, Fine(M), Joins(part, L, M) PROVE M = tasks'
  <2>1. Rearranged(M, Append(L, t)) BY <1>2, <1>10 DEF Joins
  <2>2. Append(L, t) \in Seq(Contents) BY <1>3, AppendProperties DEF Fine
  <2>3. Renumber(Append(L, t), StartTime) = M BY <1>10, <2>1, <2>2, OnlyOneInOrder
  <2> QED BY <1>4, <2>3 DEF AddTask, Pushed
<1> QED BY <1>5, <1>7, <1>9, <1>10 DEF RunsTo

(* So does a removal of the task the command holds a copy of. *)
LEMMA RemoveRuns ==
  ASSUME StartTime = MaxNow, TypeInv, RunRemove, Fine(tasks), Ready(part, tasks)
  PROVE  RunsTo
<1> DEFINE L == tasks
           r == [part EXCEPT !.ran = TRUE]
<1>1. now = StartTime BY ClockStands
<1>2. at \in 1 .. Len(cmd.parts) /\ part \in Part /\ part.kind = "remove"
  BY RunningPart DEF RunRemove
<1>3. part.id \in 1 .. Len(L) /\ L[part.id] = part.task BY <1>2 DEF Ready
<1>4. tasks' = RemoveTask(L, part.id, StartTime) /\ Ran(part) BY <1>1 DEF RunRemove
<1>5. tasks' = RemoveAt(L, part.id) /\ Fine(tasks') BY <1>3, <1>4, RemoveJoins
<1>6. /\ cmd'.parts[at] = r
      /\ Len(cmd'.parts) = Len(cmd.parts)
      /\ \A k \in 1 .. Len(cmd.parts) : k # at => cmd'.parts[k] = cmd.parts[k]
  <2>1. TRUE \in BOOLEAN OBVIOUS
  <2>2. cmd' = [cmd EXCEPT !.parts[at] = r] BY <1>4 DEF Ran
  <2> QED BY <1>2, <2>1, <2>2, PartWritten
<1>7. r.kind = "remove" /\ r.task = part.task /\ r.id = part.id BY <1>2 DEF Part
<1>8. Joins(cmd'.parts[at], L, tasks') BY <1>3, <1>5, <1>6, <1>7 DEF Joins
<1>9. ASSUME NEW M, Joins(part, L, M) PROVE M = tasks' BY <1>2, <1>5, <1>9 DEF Joins
<1> QED BY <1>5, <1>6, <1>8, <1>9 DEF RunsTo

(* So does an edit, which remembers the task there was and the id of the new one. *)
LEMMA EditRuns ==
  ASSUME NoTies, StartTime = MaxNow, TypeInv, RunEdit, Fine(tasks), Ready(part, tasks)
  PROVE  RunsTo
<1> DEFINE L == tasks
           t == part.task
           i == part.id
           id == EditedId(L, i, t, StartTime)
           q == [part EXCEPT !.tid = id, !.old = L[i]]
           r == [q EXCEPT !.ran = TRUE]
<1>1. now = StartTime BY ClockStands
<1>2. at \in 1 .. Len(cmd.parts) /\ part \in Part /\ part.kind = "edit"
  BY RunningPart DEF RunEdit
<1>3. t \in Contents /\ i \in 1 .. Len(L) BY <1>2 DEF Ready, RunEdit, IsId
<1>4. tasks' = EditTask(L, i, t, StartTime) /\ Ran(q) BY <1>1 DEF RunEdit
<1>5. /\ Fine(tasks') /\ Rearranged(tasks', Replaced(L, i, t))
      /\ id \in 1 .. Len(tasks') /\ tasks'[id] = t
  BY <1>3, <1>4, EditJoins
<1>6. q \in Part
  <2>1. id \in Nat BY <1>5
  <2>2. L[i] \in Task
    <3>1. L \in Seq(Task) BY DEF TypeInv, TypeOK
    <3> QED BY <1>3, <3>1, ElementOfSeq
  <2> HIDE DEF id
  <2> QED BY <1>2, <2>1, <2>2, PartUpdates
<1>7. /\ cmd'.parts[at] = r
      /\ Len(cmd'.parts) = Len(cmd.parts)
      /\ \A k \in 1 .. Len(cmd.parts) : k # at => cmd'.parts[k] = cmd.parts[k]
  <2>1. TRUE \in BOOLEAN OBVIOUS
  <2>2. cmd' = [cmd EXCEPT !.parts[at] = r] BY <1>4 DEF Ran
  <2> HIDE DEF q
  <2> QED BY <1>2, <1>6, <2>1, <2>2, PartWritten
<1> HIDE DEF id
<1>8. r.kind = "edit" /\ r.task = t /\ r.id = i /\ r.tid = id /\ r.old = L[i]
  BY <1>2 DEF Part
<1>9. Joins(cmd'.parts[at], L, tasks') BY <1>3, <1>5, <1>7, <1>8 DEF Joins
<1>10. ASSUME NEW M, Fine(M), Joins(part, L, M) PROVE M = tasks'
  <2>1. Rearranged(M, Replaced(L, i, t)) BY <1>2, <1>10 DEF Joins
  <2>2. Replaced(L, i, t) \in Seq(Contents) BY <1>3, ExceptSeq DEF Fine, Replaced
  <2>3. Renumber(Replaced(L, i, t), StartTime) = M BY <1>10, <2>1, <2>2, OnlyOneInOrder
  <2> QED BY <1>4, <2>3 DEF EditTask
<1> QED BY <1>5, <1>7, <1>9, <1>10 DEF RunsTo

(* So does a clear, which remembers all tasks as none is done. *)
LEMMA ClearRuns ==
  ASSUME TypeInv, RunClear, Fine(tasks), Ready(part, tasks)
  PROVE  RunsTo
<1> DEFINE L == tasks
           q == [part EXCEPT !.olds = L]
           r == [q EXCEPT !.ran = TRUE]
<1>1. at \in 1 .. Len(cmd.parts) /\ part \in Part /\ part.kind = "clear"
  BY RunningPart DEF RunClear
<1>2. Undone(L) = 1 .. Len(L) BY <1>1 DEF Ready
<1>3. L \in Seq(Task) BY DEF TypeInv, TypeOK
<1>4. tasks' = <<>> /\ Ran(q)
  BY <1>2, <1>3, ClearKeepsAll DEF RunClear
<1>5. Fine(<<>>)
  <2>1. <<>> \in Seq(Contents) BY EmptySeq
  <2> QED BY <2>1 DEF Fine, Tidy
<1>6. q \in Part BY <1>1, <1>3, PartUpdates
<1>7. /\ cmd'.parts[at] = r
      /\ Len(cmd'.parts) = Len(cmd.parts)
      /\ \A k \in 1 .. Len(cmd.parts) : k # at => cmd'.parts[k] = cmd.parts[k]
  <2>1. TRUE \in BOOLEAN OBVIOUS
  <2>2. cmd' = [cmd EXCEPT !.parts[at] = r] BY <1>4 DEF Ran
  <2> HIDE DEF q
  <2> QED BY <1>1, <1>6, <2>1, <2>2, PartWritten
<1>8. r.kind = "clear" /\ r.olds = L BY <1>1 DEF Part
<1>9. Joins(cmd'.parts[at], L, tasks') BY <1>2, <1>4, <1>7, <1>8 DEF Joins
<1>10. ASSUME NEW M, Joins(part, L, M) PROVE M = tasks' BY <1>1, <1>4, <1>10 DEF Joins
<1> QED BY <1>4, <1>5, <1>7, <1>9, <1>10 DEF RunsTo

(* So does a mark, which remembers the id the task has then. *)
LEMMA DoneRuns ==
  ASSUME NoTies, StartTime = MaxNow, TypeInv, RunDone, Fine(tasks), Ready(part, tasks)
  PROVE  RunsTo
<1> DEFINE L == tasks
           i == part.id
           flag == part.flag
           t == Marked(L[i], flag)
           id == EditedId(L, i, t, StartTime)
           q == [part EXCEPT !.id = id]
           r == [q EXCEPT !.ran = TRUE]
<1>1. now = StartTime BY ClockStands
<1>2. /\ at \in 1 .. Len(cmd.parts) /\ part \in Part /\ part.kind = "done"
      /\ job \in {"run", "redo"}
  BY RunningPart DEF RunDone
<1>3. i \in 1 .. Len(L) /\ flag \in BOOLEAN BY <1>2, PartFields DEF RunDone, IsId
<1>4. L[i].done # flag BY <1>2, <1>3 DEF Ready
<1>5. t \in Contents
  <2>1. L[i] \in Contents BY <1>3, ElementOfSeq DEF Fine
  <2> QED BY <1>3, <2>1, ContentsAreTasks
<1>6. tasks' = EditTask(L, i, t, StartTime) /\ Ran(q)
  BY <1>1, <1>2 DEF RunDone, SetDone, Marked
<1>7. /\ Fine(tasks') /\ Rearranged(tasks', Replaced(L, i, t))
      /\ id \in 1 .. Len(tasks') /\ tasks'[id] = t
  BY <1>3, <1>5, <1>6, EditJoins
<1>8. q \in Part
  <2>1. id \in Nat BY <1>7
  <2> HIDE DEF id
  <2> QED BY <1>2, <2>1, PartUpdates
<1>9. /\ cmd'.parts[at] = r
      /\ Len(cmd'.parts) = Len(cmd.parts)
      /\ \A k \in 1 .. Len(cmd.parts) : k # at => cmd'.parts[k] = cmd.parts[k]
  <2>1. TRUE \in BOOLEAN OBVIOUS
  <2>2. cmd' = [cmd EXCEPT !.parts[at] = r] BY <1>6 DEF Ran
  <2> HIDE DEF q
  <2> QED BY <1>2, <1>8, <2>1, <2>2, PartWritten
<1> HIDE DEF id
<1>10. r.kind = "done" /\ r.flag = flag /\ r.id = id /\ r.ran = TRUE
  BY <1>2 DEF Part
<1>11. Joins(cmd'.parts[at], L, tasks')
  BY <1>3, <1>4, <1>7, <1>9, <1>10 DEF Joins
<1>12. ASSUME NEW M, Fine(M), ~part.ran, Joins(part, L, M) PROVE M = tasks'
  <2>1. Rearranged(M, Replaced(L, i, t)) BY <1>2, <1>12 DEF Joins
  <2>2. Replaced(L, i, t) \in Seq(Contents) BY <1>3, <1>5, ExceptSeq DEF Fine, Replaced
  <2>3. Renumber(Replaced(L, i, t), StartTime) = M BY <1>12, <2>1, <2>2, OnlyOneInOrder
  <2> QED BY <1>6, <2>3 DEF EditTask
<1> QED BY <1>7, <1>9, <1>11, <1>12 DEF RunsTo

(* So does every part. *)
LEMMA PartRuns ==
  ASSUME NoTies, StartTime = MaxNow, TypeInv, RunPart, Fine(tasks), Ready(part, tasks)
  PROVE  RunsTo
BY AddRuns, RemoveRuns, EditRuns, ClearRuns, DoneRuns DEF RunPart

-----------------------------------------------------------------------------
(* A part that is undone takes the list back, and is ready to run again. *)
UndoesTo(L) ==
  /\ tasks' = L
  /\ Joins(cmd'.parts[at], L, tasks)
  /\ Len(cmd'.parts) = Len(cmd.parts)
  /\ \A k \in 1 .. Len(cmd.parts) : k # at => cmd'.parts[k] = cmd.parts[k]

(* An add takes the task out that is at the id it remembers. *)
LEMMA AddUndoes ==
  ASSUME NoTies, StartTime = MaxNow, TypeInv, UndoAdd, Fine(tasks), part.ran,
         NEW L, Fine(L), Joins(part, L, tasks)
  PROVE  UndoesTo(L)
<1> DEFINE r == [part EXCEPT !.ran = FALSE]
<1>1. now = StartTime BY ClockStands
<1>2. at \in 1 .. Len(cmd.parts) /\ part \in Part /\ part.kind = "add"
  BY UndoingPart DEF UndoAdd
<1>3. /\ part.task \in Contents /\ Rearranged(tasks, Append(L, part.task))
      /\ part.tid \in 1 .. Len(tasks) /\ tasks[part.tid] = part.task
  BY <1>2 DEF Joins
<1>4. tasks' = RemoveTask(tasks, part.tid, StartTime) /\ Undid(part) BY <1>1 DEF UndoAdd
<1>5. tasks' = L BY <1>3, <1>4, AddUndone
<1>6. /\ cmd'.parts[at] = r /\ cmd'.parts[at].ran = FALSE
      /\ Len(cmd'.parts) = Len(cmd.parts)
      /\ \A k \in 1 .. Len(cmd.parts) : k # at => cmd'.parts[k] = cmd.parts[k]
  <2>1. FALSE \in BOOLEAN OBVIOUS
  <2>2. cmd' = [cmd EXCEPT !.parts[at] = r] BY <1>4 DEF Undid
  <2> QED BY <1>2, <2>1, <2>2, PartWritten
<1>7. r.kind = "add" /\ r.task = part.task BY <1>2 DEF Part
<1>8. Joins(cmd'.parts[at], L, tasks) BY <1>3, <1>6, <1>7 DEF Joins
<1> QED BY <1>5, <1>6, <1>8 DEF UndoesTo

(* A removal adds the copy it holds. *)
LEMMA RemoveUndoes ==
  ASSUME NoTies, StartTime = MaxNow, TypeInv, UndoRemove, Fine(tasks),
         NEW L, Fine(L), Joins(part, L, tasks)
  PROVE  UndoesTo(L)
<1> DEFINE r == [part EXCEPT !.ran = FALSE]
<1>1. now = StartTime BY ClockStands
<1>2. at \in 1 .. Len(cmd.parts) /\ part \in Part /\ part.kind = "remove"
  BY UndoingPart DEF UndoRemove
<1>3. part.id \in 1 .. Len(L) /\ L[part.id] = part.task /\ tasks = RemoveAt(L, part.id)
  BY <1>2 DEF Joins
<1>4. tasks' = AddTask(tasks, part.task, StartTime) /\ Undid(part) BY <1>1 DEF UndoRemove
<1>5. AddTask(RemoveAt(L, part.id), L[part.id], StartTime) = L BY <1>3, RemoveUndone
<1>6. tasks' = L BY <1>3, <1>4, <1>5
<1>7. /\ cmd'.parts[at] = r
      /\ Len(cmd'.parts) = Len(cmd.parts)
      /\ \A k \in 1 .. Len(cmd.parts) : k # at => cmd'.parts[k] = cmd.parts[k]
  <2>1. FALSE \in BOOLEAN OBVIOUS
  <2>2. cmd' = [cmd EXCEPT !.parts[at] = r] BY <1>4 DEF Undid
  <2> QED BY <1>2, <2>1, <2>2, PartWritten
<1>8. r.kind = "remove" /\ r.task = part.task /\ r.id = part.id BY <1>2 DEF Part
<1>9. Joins(cmd'.parts[at], L, tasks) BY <1>3, <1>7, <1>8 DEF Joins
<1> QED BY <1>6, <1>7, <1>9 DEF UndoesTo

(* An edit puts the task it remembers in the place of the one it made. *)
LEMMA EditUndoes ==
  ASSUME NoTies, StartTime = MaxNow, TypeInv, UndoEdit, Fine(tasks), part.ran,
         NEW L, Fine(L), Joins(part, L, tasks)
  PROVE  UndoesTo(L)
<1> DEFINE r == [part EXCEPT !.ran = FALSE]
<1>1. now = StartTime BY ClockStands
<1>2. at \in 1 .. Len(cmd.parts) /\ part \in Part /\ part.kind = "edit"
  BY UndoingPart DEF UndoEdit
<1>3. /\ part.task \in Contents /\ part.id \in 1 .. Len(L)
      /\ Rearranged(tasks, Replaced(L, part.id, part.task))
      /\ part.tid \in 1 .. Len(tasks) /\ tasks[part.tid] = part.task
      /\ part.old = L[part.id]
  BY <1>2 DEF Joins
<1>4. tasks' = EditTask(tasks, part.tid, part.old, StartTime) /\ Undid(part)
  BY <1>1 DEF UndoEdit
<1>5. EditTask(tasks, part.tid, L[part.id], StartTime) = L BY <1>3, EditUndone
<1>6. tasks' = L BY <1>3, <1>4, <1>5
<1>7. /\ cmd'.parts[at] = r /\ cmd'.parts[at].ran = FALSE
      /\ Len(cmd'.parts) = Len(cmd.parts)
      /\ \A k \in 1 .. Len(cmd.parts) : k # at => cmd'.parts[k] = cmd.parts[k]
  <2>1. FALSE \in BOOLEAN OBVIOUS
  <2>2. cmd' = [cmd EXCEPT !.parts[at] = r] BY <1>4 DEF Undid
  <2> QED BY <1>2, <2>1, <2>2, PartWritten
<1>8. r.kind = "edit" /\ r.task = part.task /\ r.id = part.id BY <1>2 DEF Part
<1>9. Joins(cmd'.parts[at], L, tasks) BY <1>3, <1>7, <1>8 DEF Joins
<1> QED BY <1>6, <1>7, <1>9 DEF UndoesTo

(* A mark is taken back where the task is, and the id it has then remembered. *)
LEMMA DoneUndoes ==
  ASSUME NoTies, StartTime = MaxNow, TypeInv, UndoDone, Fine(tasks), part.ran,
         NEW L, Fine(L), Joins(part, L, tasks)
  PROVE  UndoesTo(L)
<1> DEFINE flag == part.flag
           id == part.id
           old == Marked(tasks[id], ~flag)
           j == EditedId(tasks, id, old, StartTime)
           q == [part EXCEPT !.id = j]
           r == [q EXCEPT !.ran = FALSE]
<1>1. now = StartTime BY ClockStands
<1>2. /\ at \in 1 .. Len(cmd.parts) /\ part \in Part /\ part.kind = "done"
      /\ job = "undo"
  BY UndoingPart DEF UndoDone
<1>3. flag \in BOOLEAN BY <1>2, PartFields
<1>4. PICK i \in 1 .. Len(L) :
        /\ L[i].done # flag
        /\ Rearranged(tasks, Replaced(L, i, Marked(L[i], flag)))
        /\ id \in 1 .. Len(tasks) /\ tasks[id] = Marked(L[i], flag)
  BY <1>2 DEF Joins
<1>5. L \in Seq(Contents) /\ tasks \in Seq(Contents) BY DEF Fine
<1>6. L[i] \in Contents /\ L[i] \in Task /\ Marked(L[i], flag) \in Contents
  BY <1>3, <1>5, ContentsAreTasks, ElementOfSeq
<1>7. old = L[i]
  <2>1. (~flag) \in BOOLEAN /\ L[i].done = ~flag BY <1>3, <1>4, <1>6, TaskFields
  <2>2. Marked(L[i], ~flag) = L[i] BY <1>6, <2>1, MarkedFields
  <2>3. Marked(Marked(L[i], flag), ~flag) = Marked(L[i], ~flag)
    BY <1>6 DEF Marked, Task
  <2> QED BY <1>4, <2>2, <2>3
<1>8. tasks' = EditTask(tasks, id, old, StartTime) /\ Undid(q)
  BY <1>1, <1>2 DEF UndoDone, SetDone, Marked
<1>9. tasks' = L BY <1>4, <1>6, <1>7, <1>8, EditUndone
<1>10. j \in 1 .. Len(L) /\ L[j] = L[i]
  <2>1. j \in 1 .. Len(tasks') /\ tasks'[j] = old
    <3>1. old \in Contents BY <1>6, <1>7
    <3> HIDE DEF old
    <3> QED BY <1>4, <1>8, <3>1, EditJoins
  <2> HIDE DEF j, old
  <2> QED BY <1>7, <1>9, <2>1
<1>11. q \in Part
  <2>1. j \in Nat BY <1>10
  <2> HIDE DEF j
  <2> QED BY <1>2, <2>1, PartUpdates
<1>12. /\ cmd'.parts[at] = r
       /\ Len(cmd'.parts) = Len(cmd.parts)
       /\ \A k \in 1 .. Len(cmd.parts) : k # at => cmd'.parts[k] = cmd.parts[k]
  <2>1. FALSE \in BOOLEAN OBVIOUS
  <2>2. cmd' = [cmd EXCEPT !.parts[at] = r] BY <1>8 DEF Undid
  <2> HIDE DEF q
  <2> QED BY <1>2, <1>11, <2>1, <2>2, PartWritten
<1> HIDE DEF j
<1>13. r.kind = "done" /\ r.flag = flag /\ r.id = j /\ r.ran = FALSE BY <1>2 DEF Part
<1>14. Rearranged(tasks, Replaced(L, j, Marked(L[j], flag)))
  <2> DEFINE t == Marked(L[i], flag)
  <2>1. Rearranged(L, L) BY <1>5, RearrangedSelf
  <2>2. t \in Contents /\ Rearranged(tasks, Replaced(L, i, t)) BY <1>4, <1>6
  <2> HIDE DEF t
  <2>3. Rearranged(Replaced(L, i, t), Replaced(L, j, t))
    BY <1>4, <1>5, <1>10, <2>1, <2>2, ReplacedBoth
  <2>4. Replaced(L, i, t) \in Seq(Contents) /\ Replaced(L, j, t) \in Seq(Contents)
    BY <1>4, <1>5, <1>10, <2>2, ExceptSeq DEF Replaced
  <2>5. Rearranged(tasks, Replaced(L, j, t)) BY <1>5, <2>2, <2>3, <2>4, RearrangedTwice
  <2> QED BY <1>10, <2>5 DEF t
<1>15. Joins(cmd'.parts[at], L, tasks)
  BY <1>4, <1>10, <1>12, <1>13, <1>14 DEF Joins
<1> QED BY <1>9, <1>12, <1>15 DEF UndoesTo

(* A clear is undone by adding again what there was, one task after the other. *)
Readding(L) ==
  /\ Fine(tasks) /\ readd \in Seq(Contents) /\ Rearranged(tasks \o readd, L)

(* The undo of a clear begins with all there was still to add. *)
LEMMA ClearUndoes ==
  ASSUME StartTime = MaxNow, TypeInv, UndoClear, Fine(tasks),
         NEW L, Fine(L), Joins(part, L, tasks)
  PROVE  /\ tasks' = tasks /\ at' = at /\ ~cmd'.parts[at].ran
         /\ cmd'.parts[at].kind = "clear"
         /\ Rearranged(tasks \o readd', L) /\ readd' \in Seq(Contents)
         /\ Joins(cmd'.parts[at], L, <<>>)
         /\ Len(cmd'.parts) = Len(cmd.parts)
         /\ \A k \in 1 .. Len(cmd.parts) : k # at => cmd'.parts[k] = cmd.parts[k]
<1> DEFINE r == [part EXCEPT !.ran = FALSE]
<1>1. at \in 1 .. Len(cmd.parts) /\ part \in Part /\ part.kind = "clear"
  BY UndoingPart DEF UndoClear
<1>2. part.ran /\ readd' = part.olds /\ tasks' = tasks /\ at' = at
  BY DEF UndoClear, storageVars
<1>3. tasks = <<>> /\ Undone(L) = 1 .. Len(L) /\ part.olds = L
  BY <1>1, <1>2 DEF Joins
<1>4. L \in Seq(Contents) BY DEF Fine
<1>5. tasks \o readd' = L BY <1>2, <1>3, <1>4, ConcatEmptySeq
<1>6. Rearranged(L, L) BY <1>4, RearrangedSelf
<1>7. /\ cmd'.parts[at] = r /\ cmd'.parts[at].ran = FALSE
      /\ Len(cmd'.parts) = Len(cmd.parts)
      /\ \A k \in 1 .. Len(cmd.parts) : k # at => cmd'.parts[k] = cmd.parts[k]
  <2>1. FALSE \in BOOLEAN OBVIOUS
  <2>2. cmd' = [cmd EXCEPT !.parts[at].ran = FALSE] BY DEF UndoClear
  <2>3. cmd \in Command BY DEF TypeInv, TypeOK
  <2>4. cmd' = [cmd EXCEPT !.parts[at] = r] BY <1>1, <2>2, <2>3 DEF part, Command
  <2> QED BY <1>1, <2>1, <2>4, PartWritten
<1>8. r.kind = "clear" BY <1>1 DEF Part
<1>9. Joins(cmd'.parts[at], L, <<>>) BY <1>3, <1>7, <1>8 DEF Joins
<1> QED BY <1>2, <1>3, <1>4, <1>5, <1>6, <1>7, <1>8, <1>9

(* One task is taken from what is still to add and added. *)
LEMMA ClearReadds ==
  ASSUME StartTime = MaxNow, TypeInv, UndoClearAdd, NEW L, Fine(L), Readding(L)
  PROVE  Fine(tasks') /\ readd' \in Seq(Contents) /\ Rearranged(tasks' \o readd', L)
<1> DEFINE t == Head(readd)
           rest == Tail(readd)
           more == Append(tasks, t)
<1>1. now = StartTime BY ClockStands
<1>2. /\ tasks \in Seq(Contents) /\ readd \in Seq(Contents) /\ L \in Seq(Contents)
      /\ readd # <<>> /\ Rearranged(tasks \o readd, L)
  BY DEF Fine, Readding, UndoClearAdd
<1>3. t \in Contents /\ rest \in Seq(Contents) /\ more \in Seq(Contents)
  BY <1>2, HeadTailProperties, AppendProperties
<1>4. tasks' = AddTask(tasks, t, StartTime) /\ readd' = rest
  BY <1>1 DEF UndoClearAdd
<1>5. tasks' = Renumber(more, StartTime) BY <1>4 DEF AddTask, Pushed
<1>6. more \o rest = tasks \o readd
  <2>1. Len(tasks) \in Nat /\ Len(readd) \in Nat /\ Len(readd) >= 1
    BY <1>2, EmptySeq
  <2> QED BY <1>2, <2>1
<1> HIDE DEF t, rest, more
<1>7. Fine(tasks') /\ Rearranged(tasks', more) BY <1>3, <1>5, RenumberedFine
<1>8. tasks' \in Seq(Contents) BY <1>7 DEF Fine
<1>9. Rearranged(tasks' \o rest, more \o rest) BY <1>3, <1>7, <1>8, ConcatBoth
<1>10. tasks' \o rest \in Seq(Contents) /\ more \o rest \in Seq(Contents)
  BY <1>3, <1>8, ConcatProperties
<1>11. Rearranged(tasks' \o rest, L)
  BY <1>2, <1>6, <1>9, <1>10, RearrangedTwice
<1> QED BY <1>3, <1>4, <1>7, <1>11

(* When none is left to add, all there was is back. *)
LEMMA ClearIsUndone ==
  ASSUME NoTies, StartTime = MaxNow, TypeInv, UndoClearShow, NEW L, Fine(L), Readding(L),
         Joins(part, L, <<>>)
  PROVE  /\ tasks' = tasks /\ tasks = L
         /\ Joins(cmd'.parts[at], L, <<>>)
         /\ Len(cmd'.parts) = Len(cmd.parts)
         /\ \A k \in 1 .. Len(cmd.parts) : k # at => cmd'.parts[k] = cmd.parts[k]
<1> DEFINE r == [part EXCEPT !.ran = FALSE]
<1>1. at \in 1 .. Len(cmd.parts) /\ part \in Part /\ part.kind = "clear"
  BY UndoingPart DEF UndoClearShow
<1>2. /\ tasks \in Seq(Contents) /\ readd = <<>> /\ Rearranged(tasks \o readd, L)
      /\ tasks' = tasks /\ ~part.ran /\ Undid(part)
  BY DEF Fine, Readding, UndoClearShow
<1>3. Rearranged(tasks, L) BY <1>2, ConcatEmptySeq
<1>4. tasks = L BY <1>3, FineIsUnique DEF Readding
<1>5. /\ cmd'.parts[at] = r /\ cmd'.parts[at].ran = FALSE
      /\ Len(cmd'.parts) = Len(cmd.parts)
      /\ \A k \in 1 .. Len(cmd.parts) : k # at => cmd'.parts[k] = cmd.parts[k]
  <2>1. FALSE \in BOOLEAN OBVIOUS
  <2>2. cmd' = [cmd EXCEPT !.parts[at] = r] BY <1>2 DEF Undid
  <2> QED BY <1>1, <2>1, <2>2, PartWritten
<1>6. r.kind = "clear" BY <1>1 DEF Part
<1>7. Joins(cmd'.parts[at], L, <<>>) BY <1>1, <1>5, <1>6 DEF Joins
<1> QED BY <1>2, <1>4, <1>5, <1>7

-----------------------------------------------------------------------------
(* The lists between the parts of a command. *)
Path(S, ps, n) ==
  /\ \A k \in 0 .. n : Fine(S[k])
  /\ \A k \in 1 .. n : Joins(ps[k], S[k - 1], S[k])

Leads(ps, L, M) ==
  \E S : Path(S, ps, Len(ps)) /\ S[0] = L /\ S[Len(ps)] = M

(* A part more makes the path longer. *)
LEMMA PathExtends ==
  ASSUME NEW n \in Nat, NEW ps, NEW S, Path(S, ps, n), NEW qs,
         \A k \in 1 .. n : qs[k] = ps[k],
         NEW M, Fine(M), Joins(qs[n + 1], S[n], M)
  PROVE  \E R : Path(R, qs, n + 1) /\ R[0] = S[0] /\ R[n + 1] = M
<1> DEFINE R == [k \in 0 .. n + 1 |-> IF k <= n THEN S[k] ELSE M]
<1>1. R[0] = S[0] /\ R[n] = S[n] /\ R[n + 1] = M OBVIOUS
<1>2. ASSUME NEW k \in 0 .. n PROVE R[k] = S[k] OBVIOUS
<1> HIDE DEF R
<1>3. ASSUME NEW k \in 0 .. n + 1 PROVE Fine(R[k])
  <2>1. CASE k = n + 1 BY <1>1, <2>1
  <2>2. CASE k # n + 1
    <3>1. k \in 0 .. n BY <2>2
    <3>2. Fine(S[k]) BY <3>1 DEF Path
    <3> QED BY <1>2, <3>1, <3>2
  <2> QED BY <2>1, <2>2
<1>4. ASSUME NEW k \in 1 .. n + 1 PROVE Joins(qs[k], R[k - 1], R[k])
  <2>1. CASE k = n + 1
    <3>1. k - 1 = n BY <2>1
    <3> QED BY <1>1, <2>1, <3>1
  <2>2. CASE k # n + 1
    <3>1. k \in 1 .. n /\ k \in 0 .. n /\ k - 1 \in 0 .. n BY <2>2
    <3>2. Joins(ps[k], S[k - 1], S[k]) BY <3>1 DEF Path
    <3>3. R[k - 1] = S[k - 1] /\ R[k] = S[k] /\ qs[k] = ps[k] BY <1>2, <3>1
    <3> QED BY <3>2, <3>3
  <2> QED BY <2>1, <2>2
<1>5. Path(R, qs, n + 1) BY <1>3, <1>4 DEF Path
<1> QED BY <1>1, <1>5

(* A part that goes the same way as before leaves the path. *)
LEMMA PathStands ==
  ASSUME NEW n \in Nat, NEW ps, NEW S, Path(S, ps, n), NEW qs, NEW i \in 1 .. n,
         \A k \in 1 .. n : k # i => qs[k] = ps[k],
         Joins(qs[i], S[i - 1], S[i])
  PROVE  Path(S, qs, n)
<1>1. ASSUME NEW k \in 1 .. n PROVE Joins(qs[k], S[k - 1], S[k])
  <2>1. CASE k = i BY <2>1
  <2>2. CASE k # i BY <2>2 DEF Path
  <2> QED BY <2>1, <2>2
<1> QED BY <1>1 DEF Path

-----------------------------------------------------------------------------
(* The documents on either side of each command of a history: those of the past
   each lead on to the next, those of the future come of the next.         *)
After(ds, d, k) == IF k < Len(ds) THEN ds[k + 1] ELSE d

UndoChain(ds, h, d) == \A k \in 1 .. Len(h) : Leads(h[k].parts, ds[k], After(ds, d, k))

RedoChain(ds, h, d) == \A k \in 1 .. Len(h) : Leads(h[k].parts, After(ds, d, k), ds[k])

(* A sequence with one element more. *)
LEMMA Appended ==
  ASSUME NEW S, NEW s \in Seq(S), NEW e \in S
  PROVE  /\ Append(s, e) \in Seq(S) /\ Len(Append(s, e)) = Len(s) + 1
         /\ Append(s, e)[Len(s) + 1] = e
         /\ \A k \in 1 .. Len(s) : Append(s, e)[k] = s[k]
BY AppendProperties

(* A sequence without its last element. *)
LEMMA Front1Of ==
  ASSUME NEW S, NEW s \in Seq(S), Len(s) >= 1
  PROVE  /\ Front1(s) \in Seq(S) /\ Len(Front1(s)) = Len(s) - 1
         /\ \A k \in 1 .. Len(s) - 1 : Front1(s)[k] = s[k]
<1>1. Len(s) \in Nat /\ 1 \in Int /\ Len(s) - 1 \in Int OBVIOUS
<1>2. \A k \in 1 .. Len(s) - 1 : s[k] \in S BY <1>1, ElementOfSeq
<1>3. /\ Front1(s) \in Seq(S)
      /\ Len(Front1(s)) = IF 1 <= Len(s) - 1 THEN Len(s) - 1 - 1 + 1 ELSE 0
      /\ \A k \in 1 .. Len(s) - 1 - 1 + 1 : Front1(s)[k] = s[1 + k - 1]
  BY <1>1, <1>2, SubSeqProperties DEF Front1
<1>4. Len(s) - 1 - 1 + 1 = Len(s) - 1 BY <1>1
<1>5. Len(Front1(s)) = Len(s) - 1
  <2> DEFINE n == Len(s)
             m == Len(Front1(s))
  <2>1. n \in Nat /\ n >= 1 /\ m = IF 1 <= n - 1 THEN n - 1 - 1 + 1 ELSE 0 BY <1>1, <1>3
  <2> HIDE DEF n, m
  <2>2. m = n - 1 BY <2>1
  <2> QED BY <2>2 DEF n, m
<1>6. ASSUME NEW k \in 1 .. Len(s) - 1 PROVE Front1(s)[k] = s[k]
  <2>1. 1 + k - 1 = k /\ k \in 1 .. Len(s) - 1 - 1 + 1 BY <1>1, <1>4
  <2>2. Front1(s)[k] = s[1 + k - 1] BY <1>3, <2>1
  <2> QED BY <2>1, <2>2
<1> QED BY <1>3, <1>5, <1>6

(* A history without what is older than the limit. *)
LEMMA LimitedOf ==
  ASSUME NEW S, NEW s \in Seq(S)
  PROVE  LET d == IF Len(s) <= UNDO_LIMIT THEN 0 ELSE Len(s) - UNDO_LIMIT
         IN  /\ Limited(s) \in Seq(S) /\ Len(Limited(s)) = Len(s) - d
             /\ \A k \in 1 .. Len(s) - d : k + d \in 1 .. Len(s) /\ Limited(s)[k] = s[k + d]
             /\ d \in 0 .. Len(s)
<1> DEFINE n == Len(s)
<1>1. n \in Nat /\ UNDO_LIMIT \in Nat /\ UNDO_LIMIT # 0 BY UndoLimitAssumption
<1>2. CASE n <= UNDO_LIMIT
  BY <1>1, <1>2 DEF Limited
<1>3. CASE ~(n <= UNDO_LIMIT)
  <2> DEFINE d == n - UNDO_LIMIT
  <2>1. d \in Nat /\ d + 1 \in Int /\ n \in Int /\ d + 1 <= n /\ n - d = UNDO_LIMIT
    BY <1>1, <1>3
  <2>2. \A k \in d + 1 .. n : s[k] \in S BY <1>1, <2>1, ElementOfSeq
  <2>3. Limited(s) = SubSeq(s, d + 1, n) BY <1>3 DEF Limited
  <2> HIDE DEF d, n
  <2>4. /\ Limited(s) \in Seq(S)
        /\ Len(Limited(s)) = IF d + 1 <= n THEN n - (d + 1) + 1 ELSE 0
        /\ \A k \in 1 .. n - (d + 1) + 1 : Limited(s)[k] = s[d + 1 + k - 1]
    BY <2>1, <2>2, <2>3, SubSeqProperties
  <2>5. n - (d + 1) + 1 = n - d BY <2>1
  <2>6. ASSUME NEW k \in 1 .. n - d PROVE k + d \in 1 .. n /\ Limited(s)[k] = s[k + d]
    <3>1. k + d \in 1 .. n /\ d + 1 + k - 1 = k + d BY <2>1
    <3>2. k \in 1 .. n - (d + 1) + 1 BY <2>5
    <3>3. Limited(s)[k] = s[d + 1 + k - 1] BY <2>4, <3>2
    <3> QED BY <3>1, <3>3
  <2>7. Len(Limited(s)) = n - d BY <2>1, <2>4, <2>5
  <2>8. d \in 0 .. n BY <1>1, <2>1
  <2> QED BY <1>3, <2>4, <2>6, <2>7, <2>8 DEF d, n
<1> QED BY <1>2, <1>3 DEF n

(* A command more at the end of a history. *)
LEMMA ChainAppended ==
  ASSUME NEW D, NEW ds \in Seq(D), NEW h \in Seq(Command), Len(ds) = Len(h),
         NEW d \in D, NEW e, NEW c \in Command
  PROVE  /\ UndoChain(ds, h, d) /\ Leads(c.parts, d, e)
              => UndoChain(Append(ds, d), Append(h, c), e)
         /\ RedoChain(ds, h, d) /\ Leads(c.parts, e, d)
              => RedoChain(Append(ds, d), Append(h, c), e)
<1> DEFINE n == Len(h)
           es == Append(ds, d)
           g == Append(h, c)
<1>1. /\ n \in Nat /\ Len(es) = n + 1 /\ Len(g) = n + 1 /\ es[n + 1] = d /\ g[n + 1] = c
      /\ \A k \in 1 .. n : es[k] = ds[k] /\ g[k] = h[k]
      /\ Len(ds) = n
  BY Appended
<1> HIDE DEF n, es, g
<1>2. ASSUME NEW k \in 1 .. n PROVE After(es, e, k) = After(ds, d, k)
  <2>1. CASE k = n
    <3>1. k < n + 1 /\ k + 1 = n + 1 /\ ~(k < n) BY <1>1, <2>1
    <3> QED BY <1>1, <3>1 DEF After
  <2>2. CASE k # n
    <3>1. k < n + 1 /\ k < n /\ k + 1 \in 1 .. n BY <1>1, <2>2
    <3> QED BY <1>1, <3>1 DEF After
  <2> QED BY <2>1, <2>2
<1>3. After(es, e, n + 1) = e BY <1>1 DEF After
<1>4. ASSUME UndoChain(ds, h, d), Leads(c.parts, d, e)
      PROVE  UndoChain(es, g, e)
  <2> SUFFICES ASSUME NEW k \in 1 .. n + 1 PROVE Leads(g[k].parts, es[k], After(es, e, k))
    BY <1>1 DEF UndoChain
  <2>1. CASE k = n + 1 BY <1>1, <1>3, <1>4, <2>1
  <2>2. CASE k # n + 1
    <3>1. k \in 1 .. n BY <1>1, <2>2
    <3>2. Leads(h[k].parts, ds[k], After(ds, d, k)) BY <1>4, <3>1 DEF UndoChain, n
    <3> QED BY <1>1, <1>2, <3>1, <3>2
  <2> QED BY <2>1, <2>2
<1>5. ASSUME RedoChain(ds, h, d), Leads(c.parts, e, d)
      PROVE  RedoChain(es, g, e)
  <2> SUFFICES ASSUME NEW k \in 1 .. n + 1 PROVE Leads(g[k].parts, After(es, e, k), es[k])
    BY <1>1 DEF RedoChain
  <2>1. CASE k = n + 1 BY <1>1, <1>3, <1>5, <2>1
  <2>2. CASE k # n + 1
    <3>1. k \in 1 .. n BY <1>1, <2>2
    <3>2. Leads(h[k].parts, After(ds, d, k), ds[k]) BY <1>5, <3>1 DEF RedoChain, n
    <3> QED BY <1>1, <1>2, <3>1, <3>2
  <2> QED BY <2>1, <2>2
<1> QED BY <1>4, <1>5 DEF es, g

(* The present is the last document, when that is taken from those of the past or
   of the future. *)
LEMMA ChainFront ==
  ASSUME NEW D, NEW ds \in Seq(D), NEW h \in Seq(Command), Len(ds) = Len(h) + 1, NEW e
  PROVE  /\ UndoChain(ds, h, e) => UndoChain(Front1(ds), h, ds[Len(ds)])
         /\ RedoChain(ds, h, e) => RedoChain(Front1(ds), h, ds[Len(ds)])
<1> DEFINE n == Len(h)
           d == ds[Len(ds)]
           es == Front1(ds)
<1>1. n \in Nat /\ Len(ds) = n + 1 /\ Len(ds) >= 1 /\ d = ds[n + 1] OBVIOUS
<1>2. Len(es) = n /\ \A k \in 1 .. n : es[k] = ds[k]
  <2>1. Len(ds) - 1 = n BY <1>1
  <2> QED BY <1>1, <2>1, Front1Of
<1> HIDE DEF n, d, es
<1>3. ASSUME NEW k \in 1 .. n PROVE After(es, d, k) = After(ds, e, k)
  <2>1. CASE k = n
    <3>1. k < n + 1 /\ k + 1 = n + 1 /\ ~(k < n) BY <1>1, <2>1
    <3> QED BY <1>1, <1>2, <3>1 DEF After
  <2>2. CASE k # n
    <3>1. k < n + 1 /\ k < n /\ k + 1 \in 1 .. n BY <1>1, <2>2
    <3> QED BY <1>1, <1>2, <3>1 DEF After
  <2> QED BY <2>1, <2>2
<1>4. ASSUME UndoChain(ds, h, e) PROVE UndoChain(es, h, d)
  <2> SUFFICES ASSUME NEW k \in 1 .. n PROVE Leads(h[k].parts, es[k], After(es, d, k))
    BY DEF UndoChain, n
  <2>1. Leads(h[k].parts, ds[k], After(ds, e, k)) BY <1>4 DEF UndoChain, n
  <2> QED BY <1>2, <1>3, <2>1
<1>5. ASSUME RedoChain(ds, h, e) PROVE RedoChain(es, h, d)
  <2> SUFFICES ASSUME NEW k \in 1 .. n PROVE Leads(h[k].parts, After(es, d, k), es[k])
    BY DEF RedoChain, n
  <2>1. Leads(h[k].parts, After(ds, e, k), ds[k]) BY <1>5 DEF RedoChain, n
  <2> QED BY <1>2, <1>3, <2>1
<1> QED BY <1>4, <1>5 DEF es, d

(* The oldest commands and documents are dropped together. *)
LEMMA ChainLimited ==
  ASSUME NEW D, NEW ds \in Seq(D), NEW h \in Seq(Command), Len(ds) = Len(h), NEW e,
         UndoChain(ds, h, e)
  PROVE  UndoChain(Limited(ds), Limited(h), e) /\ Len(Limited(ds)) = Len(Limited(h))
<1> DEFINE n == Len(h)
           d == IF n <= UNDO_LIMIT THEN 0 ELSE n - UNDO_LIMIT
           es == Limited(ds)
           g == Limited(h)
<1>1. /\ n \in Nat /\ d \in 0 .. n /\ Len(ds) = n
      /\ Len(es) = n - d /\ Len(g) = n - d
      /\ \A k \in 1 .. n - d : k + d \in 1 .. n /\ es[k] = ds[k + d] /\ g[k] = h[k + d]
  BY LimitedOf
<1> HIDE DEF n, d, es, g
<1>2. ASSUME NEW k \in 1 .. n - d PROVE After(es, e, k) = After(ds, e, k + d)
  <2>1. CASE k = n - d
    <3>1. ~(k < n - d) /\ ~(k + d < n) BY <1>1, <2>1
    <3> QED BY <1>1, <3>1 DEF After
  <2>2. CASE k # n - d
    <3>1. k < n - d /\ k + d < n /\ k + 1 \in 1 .. n - d /\ (k + 1) + d = (k + d) + 1
      BY <1>1, <2>2
    <3>2. es[k + 1] = ds[(k + 1) + d] BY <1>1, <3>1
    <3> QED BY <1>1, <3>1, <3>2 DEF After
  <2> QED BY <2>1, <2>2
<1>3. ASSUME NEW k \in 1 .. n - d PROVE Leads(g[k].parts, es[k], After(es, e, k))
  <2>1. k + d \in 1 .. n /\ es[k] = ds[k + d] /\ g[k] = h[k + d] BY <1>1
  <2>2. Leads(h[k + d].parts, ds[k + d], After(ds, e, k + d)) BY <2>1 DEF UndoChain, n
  <2> QED BY <1>2, <2>1, <2>2
<1>4. UndoChain(es, g, e) BY <1>1, <1>3 DEF UndoChain
<1> QED BY <1>1, <1>4 DEF es, g

-----------------------------------------------------------------------------
(* What is known of the documents, of the commands between them, and of how far
   the command in progress has led from the one to the next.               *)
Contained(c) ==
  \A k \in 1 .. Len(c.parts) :
    c.parts[k].kind \in {"add", "edit"} => c.parts[k].task \in Contents

HistoriesInv ==
  /\ Fine(doc) /\ file = doc
  /\ past \in Seq(Seq(Contents)) /\ future \in Seq(Seq(Contents))
  /\ job # "lost" =>
       /\ Len(past) = Len(undoHistory) + IF job = "undo" THEN 1 ELSE 0
       /\ Len(future) = Len(redoHistory) + IF job = "redo" THEN 1 ELSE 0
       /\ UndoChain(past, undoHistory, doc)
       /\ RedoChain(future, redoHistory, doc)

RunInv ==
  /\ Straight(given, doc) /\ Contained(given)
  /\ \E S : Path(S, cmd.parts, at - 1) /\ S[0] = doc /\ S[at - 1] = tasks

UndoInv ==
  \E S : /\ Path(S, cmd.parts, Len(cmd.parts))
         /\ S[0] = past[Len(past)] /\ S[Len(cmd.parts)] = doc
         /\ IF ClearBeingUndone THEN Readding(S[at - 1]) ELSE S[at] = tasks

RedoInv ==
  \E S : /\ Path(S, cmd.parts, Len(cmd.parts))
         /\ S[0] = doc /\ S[Len(cmd.parts)] = future[Len(future)]
         /\ S[at - 1] = tasks

TimelineInv ==
  /\ HistoriesInv
  /\ job = "run" => RunInv
  /\ job = "undo" => UndoInv
  /\ job = "redo" => RedoInv

(* What is no further than the place the next task has to go from is there. *)
LEMMA TakenIsThere ==
  ASSUME NEW ts, NEW base, NEW gone, NEW same \in Nat \ {0}, Taken(ts, base, gone, same)
  PROVE  same \in 1 .. Len(ts) /\ ts[same] = base[same]
<1>1. PICK f : TakenBy(f, ts, base, gone, same) BY DEF Taken
<1>2. same \in 1 .. same OBVIOUS
<1>3. same \in 1 .. Len(ts) /\ f[same] = same BY <1>1, <1>2, Zenon DEF TakenBy
<1>4. ts[same] = base[f[same]] BY <1>1, <1>3, Zenon DEF TakenBy
<1> QED BY <1>3, <1>4

(* A part of a straight command is ready when it is reached. *)
LEMMA FirstReady ==
  ASSUME StartTime = MaxNow, TypeInv, BatchInv, job = "run", RunPart,
         Straight(given, doc), Contained(given)
  PROVE  Ready(part, tasks)
<1> DEFINE n == Len(given.parts)
           id == given.parts[at].id
<1>1. /\ tasks \in Seq(Task) /\ doc \in Seq(Task) /\ given \in Command
      /\ Tidy(tasks, StartTime) /\ FirstRun
  BY DEF TypeInv, TypeOK, BatchInv
<1>2. n \in Nat /\ StartTime \in Nat BY <1>1, CommandFields, BoundsAssumption
<1>3. at \in 1 .. n /\ part = given.parts[at]
  <2>1. at \in 1 .. Len(cmd.parts) BY RanPart
  <2>2. Len(cmd.parts) = n /\ \A k \in 1 .. n : k >= at => cmd.parts[k] = given.parts[k]
    BY <1>1 DEF FirstRun, Pending
  <2> QED BY <2>1, <2>2 DEF part
<1>4. CASE Single(given)
  <2>1. at = 1 /\ part.kind \in {"add", "edit", "clear"} BY <1>3, <1>4 DEF Single
  <2>2. tasks = doc BY <1>1, <2>1 DEF FirstRun
  <2>3. part.kind \in {"add", "edit"} => part.task \in Contents
    BY <1>3 DEF Contained
  <2>4. part.kind = "clear" => Undone(tasks) = 1 .. Len(tasks)
    BY <1>1, <1>3, <2>2, StraightParts
  <2> QED BY <2>1, <2>3, <2>4 DEF Ready
<1>5. CASE Removes(given, doc)
  <2>1. part.kind = "remove" /\ part.id = id /\ id \in 1 .. Len(doc) /\ part.task = doc[id]
    BY <1>3, <1>5 DEF Removes
  <2>2. Taken(tasks, doc, Reached(given, at - 1), id)
    BY <1>1, <1>3, <1>5 DEF FirstRun, Removing, NextId
  <2>3. IsId(tasks, id) /\ tasks[id] = doc[id]
    <3> DEFINE gone == Reached(given, at - 1)
    <3>1. Len(tasks) \in Nat /\ id \in Nat \ {0} BY <1>1, <2>1
    <3>2. Taken(tasks, doc, gone, id) BY <2>2
    <3> HIDE DEF id, gone
    <3> QED BY <3>1, <3>2, TakenIsThere DEF IsId
  <2> QED BY <2>1, <2>3 DEF Ready, IsId
<1>6. ASSUME NEW flag \in BOOLEAN, Marks(given, flag) PROVE Ready(part, tasks)
  <2>1. part.kind = "done" /\ part.id = id /\ part.flag = flag BY <1>3, <1>6 DEF Marks
  <2>2. id \in 1 .. Len(doc) /\ doc[id].done # flag BY <1>1, <1>3, <2>1, StraightParts
  <2>3. Untouched(tasks, doc, flag, id) BY <1>1, <1>3, <1>6 DEF FirstRun, Marking
  <2>4. tasks[id] = doc[id] BY <2>2, <2>3 DEF Untouched
  <2> QED BY <2>1, <2>2, <2>4 DEF Ready
<1> QED BY <1>1, <1>4, <1>5, <1>6 DEF FirstRun, Made

(* What is submitted names contents there can be. *)
LEMMA SubmitContained ==
  ASSUME TypeInv, Submit, NewRun
  PROVE  Contained(cmd')
<1>0. tasks \in Seq(Task) /\ job' = "run" BY MadeRun DEF TypeInv, TypeOK, NewRun
<1>1. ASSUME NEW p, Run(<<p>>), p.kind \in {"add", "edit"} => p.task \in Contents
      PROVE  Contained(cmd')
  <2>1. cmd'.parts = <<p>> BY <1>1, MadeRun
  <2>2. Len(cmd'.parts) = 1 /\ cmd'.parts[1] = p BY <2>1
  <2> QED BY <1>1, <2>2 DEF Contained
<1>2. CASE SubmitAdd
  <2>1. PICK t \in NewTasks : Run(<<AddPart(t)>>) BY <1>2 DEF SubmitAdd
  <2>2. AddPart(t).task \in Contents BY ContentsAreTasks DEF AddPart
  <2> QED BY <1>1, <2>1, <2>2
<1>3. CASE SubmitEdit
  <2>1. PICK id \in Ids, t \in NewTasks :
          IsId(tasks, id) /\ Run(<<EditPart(id, [t EXCEPT !.done = tasks[id].done])>>)
    BY <1>3 DEF SubmitEdit
  <2> DEFINE u == [t EXCEPT !.done = tasks[id].done]
  <2>2. tasks[id].done \in BOOLEAN
    <3>1. tasks[id] \in Task BY <1>0, <2>1, ElementOfSeq DEF IsId
    <3> QED BY <3>1, TaskFields
  <2>3. u = Marked(t, tasks[id].done) BY DEF Marked
  <2>4. u \in Contents BY <2>2, <2>3, ContentsAreTasks
  <2>5. EditPart(id, u).task = u /\ Run(<<EditPart(id, u)>>) BY <2>1 DEF EditPart
  <2> HIDE DEF u
  <2> QED BY <1>1, <2>4, <2>5
<1>4. CASE SubmitClear
  <2>1. Run(<<ClearPart>>) BY <1>4 DEF SubmitClear
  <2>2. ClearPart.kind = "clear" BY DEF ClearPart
  <2> QED BY <1>1, <2>1, <2>2
<1>5. CASE SubmitRemove \/ SubmitDone \/ SubmitUndone
  <2>0. PICK ids \in IdLists :
          \E picked, flag :
            \/ Run([k \in 1 .. Len(ids) |-> RemovePart(picked[k], tasks[picked[k]])])
            \/ Run([k \in 1 .. Len(ids) |-> DonePart(picked[k], flag)])
    BY <1>5 DEF SubmitRemove, SubmitDone, SubmitUndone
  <2>1. PICK picked, flag :
          \/ Run([k \in 1 .. Len(ids) |-> RemovePart(picked[k], tasks[picked[k]])])
          \/ Run([k \in 1 .. Len(ids) |-> DonePart(picked[k], flag)])
    BY <2>0
  <2> DEFINE n == Len(ids)
             removes == [k \in 1 .. n |-> RemovePart(picked[k], tasks[picked[k]])]
             marks == [k \in 1 .. n |-> DonePart(picked[k], flag)]
  <2>2. n \in Nat
    <3>1. PICK m \in Nat : ids \in [1 .. m -> Nat] BY IdListsTypes
    <3> QED BY <3>1, LenProperties
  <2>3. Run(removes) \/ Run(marks) BY <2>1
  <2> HIDE DEF n
  <2>4. /\ Len(removes) = n /\ \A k \in 1 .. n : removes[k].kind = "remove"
        /\ Len(marks) = n /\ \A k \in 1 .. n : marks[k].kind = "done"
    BY <2>2, LenProperties DEF RemovePart, DonePart
  <2> HIDE DEF removes, marks
  <2>5. cmd'.parts = removes \/ cmd'.parts = marks BY <2>3, MadeRun
  <2> QED BY <2>4, <2>5 DEF Contained
<1>6. CASE SubmitUndo \/ SubmitRedo \/ Show \/ LastIsNoTask
  <2>1. job' # "run"
    BY <1>6 DEF SubmitUndo, SubmitRedo, Show, LastIsNoTask, BeginUndo, BeginRedo, Rest, Idle
  <2> QED BY <1>0, <2>1
<1> QED BY <1>2, <1>3, <1>4, <1>5, <1>6 DEF Submit

-----------------------------------------------------------------------------
(* A history without its newest command has the documents it had. *)
LEMMA ChainShorter ==
  ASSUME NEW ds, NEW d, NEW h \in Seq(Command), h # <<>>
  PROVE  LET g == SubSeq(h, 1, Len(h) - 1)
         IN  /\ UndoChain(ds, h, d) => UndoChain(ds, g, d)
             /\ RedoChain(ds, h, d) => RedoChain(ds, g, d)
<1> DEFINE n == Len(h)
           g == SubSeq(h, 1, n - 1)
<1>1. n \in Nat /\ Len(g) = n - 1 /\ \A k \in 1 .. n - 1 : g[k] = h[k]
  BY Shortened
<1> HIDE DEF n, g
<1>2. \A k \in 1 .. Len(g) : k \in 1 .. n /\ g[k] = h[k] BY <1>1
<1>3. UndoChain(ds, h, d) => UndoChain(ds, g, d) BY <1>2 DEF UndoChain, n
<1>4. RedoChain(ds, h, d) => RedoChain(ds, g, d) BY <1>2 DEF RedoChain, n
<1> QED BY <1>3, <1>4 DEF g, n

(* To begin an undo takes the newest command, which leads from the newest document
   of the past to the present one.                                         *)
LEMMA UndoBegins ==
  ASSUME undoHistory \in Seq(Command), NEW n, BeginUndo(n),
         Len(past') = Len(undoHistory), UndoChain(past', undoHistory, doc'),
         \A k \in DOMAIN undoHistory : AllRan(undoHistory[k]),
         tasks' = doc'
  PROVE  /\ job' \in {"none", "undo"}
         /\ Len(past') = Len(undoHistory') + IF job' = "undo" THEN 1 ELSE 0
         /\ UndoChain(past', undoHistory', doc')
         /\ job' = "undo" => UndoInv'
<1>1. CASE n = 0 \/ undoHistory = <<>>
  <2>1. job' = "none" /\ undoHistory' = undoHistory BY <1>1 DEF BeginUndo, Rest
  <2> QED BY <2>1
<1>2. CASE n # 0 /\ undoHistory # <<>>
  <2> DEFINE m == Len(undoHistory)
             c == undoHistory[m]
  <2>1. /\ job' = "undo" /\ cmd' = [c EXCEPT !.ran = FALSE] /\ at' = Len(c.parts)
        /\ undoHistory' = SubSeq(undoHistory, 1, m - 1)
    BY <1>2 DEF BeginUndo
  <2>2. m \in Nat \ {0} /\ c \in Command /\ Len(undoHistory') = m - 1
    BY <1>2, <2>1, Shortened
  <2>3. UndoChain(past', undoHistory', doc') BY <1>2, <2>1, ChainShorter
  <2>4. Leads(c.parts, past'[m], doc')
    <3>1. m \in 1 .. m /\ ~(m < Len(past')) BY <2>2
    <3> QED BY <3>1 DEF UndoChain, After
  <2>5. AllRan(c)
    <3>1. m \in DOMAIN undoHistory BY <2>2
    <3> QED BY <3>1
  <2> HIDE DEF c
  <2>6. cmd'.parts = c.parts /\ Len(c.parts) \in Nat /\ DOMAIN c.parts = 1 .. Len(c.parts)
    <3>1. FALSE \in BOOLEAN OBVIOUS
    <3> QED BY <2>1, <2>2, <3>1, CommandFields
  <2>7. ~ClearBeingUndone'
    <3>1. ASSUME at' >= 1 PROVE cmd'.parts[at'].ran
      BY <2>1, <2>5, <2>6, <3>1 DEF AllRan
    <3> QED BY <3>1 DEF ClearBeingUndone, Undoing, part
  <2>8. PICK S : Path(S, c.parts, Len(c.parts)) /\ S[0] = past'[m] /\ S[Len(c.parts)] = doc'
    BY <2>4 DEF Leads
  <2>9. UndoInv' BY <2>1, <2>6, <2>7, <2>8 DEF UndoInv
  <2> QED BY <2>1, <2>2, <2>3, <2>9
<1> QED BY <1>1, <1>2

(* To begin a redo takes the command that leads from the present document to the
   newest one of the future.                                               *)
LEMMA RedoBegins ==
  ASSUME redoHistory \in Seq(Command), NEW n, BeginRedo(n),
         Len(future') = Len(redoHistory), RedoChain(future', redoHistory, doc'),
         tasks' = doc'
  PROVE  /\ job' \in {"none", "redo"}
         /\ Len(future') = Len(redoHistory') + IF job' = "redo" THEN 1 ELSE 0
         /\ RedoChain(future', redoHistory', doc')
         /\ job' = "redo" => RedoInv'
<1>1. CASE n = 0 \/ redoHistory = <<>>
  <2>1. job' = "none" /\ redoHistory' = redoHistory BY <1>1 DEF BeginRedo, Rest
  <2> QED BY <2>1
<1>2. CASE n # 0 /\ redoHistory # <<>>
  <2> DEFINE m == Len(redoHistory)
             c == redoHistory[m]
  <2>1. /\ job' = "redo" /\ cmd' = [c EXCEPT !.ran = TRUE] /\ at' = 1
        /\ redoHistory' = SubSeq(redoHistory, 1, m - 1)
    BY <1>2 DEF BeginRedo
  <2>2. m \in Nat \ {0} /\ c \in Command /\ Len(redoHistory') = m - 1
    BY <1>2, <2>1, Shortened
  <2>3. RedoChain(future', redoHistory', doc') BY <1>2, <2>1, ChainShorter
  <2>4. Leads(c.parts, doc', future'[m])
    <3>1. m \in 1 .. m /\ ~(m < Len(future')) BY <2>2
    <3> QED BY <3>1 DEF RedoChain, After
  <2> HIDE DEF c
  <2>5. cmd'.parts = c.parts
    <3>1. TRUE \in BOOLEAN OBVIOUS
    <3> QED BY <2>1, <2>2, <3>1, CommandFields
  <2>6. PICK S : Path(S, c.parts, Len(c.parts)) /\ S[0] = doc' /\ S[Len(c.parts)] = future'[m]
    BY <2>4 DEF Leads
  <2>7. at' - 1 = 0 BY <2>1
  <2>8. RedoInv' BY <2>1, <2>5, <2>6, <2>7 DEF RedoInv
  <2> QED BY <2>1, <2>2, <2>3, <2>8
<1> QED BY <1>1, <1>2

-----------------------------------------------------------------------------
(* A part that is run changes the list, the command and what is on display. *)
LEMMA PartRan ==
  ASSUME RunPart, TypeInv
  PROVE  /\ UNCHANGED <<historyVars, file, job>>
         /\ at' = at + 1 /\ at \in 1 .. Len(cmd.parts) /\ job \in {"run", "redo"}
<1>1. \E q \in Part : Ran(q) BY RunPartTypes
<1> QED BY <1>1, RanPart DEF Ran

(* A command that is run for the first time goes on from list to list. *)
LEMMA RunGoesOn ==
  ASSUME NoTies, StartTime = MaxNow, TypeInv, BatchInv, RunInv, job = "run", RunPart,
         UNCHANGED <<doc, given>>
  PROVE  RunInv'
<1>1. at' = at + 1 /\ at \in 1 .. Len(cmd.parts) /\ Len(cmd.parts) \in Nat
  BY PartRan, CommandFields DEF TypeInv, TypeOK
<1>2. PICK S : Path(S, cmd.parts, at - 1) /\ S[0] = doc /\ S[at - 1] = tasks BY DEF RunInv
<1>3. Fine(tasks)
  <2>1. at - 1 \in 0 .. at - 1 BY <1>1
  <2> QED BY <1>2, <2>1 DEF Path
<1>4. Ready(part, tasks) BY FirstReady DEF RunInv
<1>5. RunsTo BY <1>3, <1>4, PartRuns
<1>6. /\ at - 1 \in Nat /\ (at - 1) + 1 = at
      /\ \A k \in 1 .. at - 1 : cmd'.parts[k] = cmd.parts[k]
  <2>1. \A k \in 1 .. at - 1 : k \in 1 .. Len(cmd.parts) /\ k # at BY <1>1
  <2> QED BY <1>1, <1>5, <2>1 DEF RunsTo
<1>7. \E R : Path(R, cmd'.parts, (at - 1) + 1) /\ R[0] = S[0] /\ R[(at - 1) + 1] = tasks'
  <2>1. Joins(cmd'.parts[(at - 1) + 1], S[at - 1], tasks') /\ Fine(tasks')
    BY <1>2, <1>5, <1>6 DEF RunsTo
  <2> QED BY <1>2, <1>6, <2>1, PathExtends
<1>8. \E R : Path(R, cmd'.parts, at' - 1) /\ R[0] = doc' /\ R[at' - 1] = tasks'
  <2>1. at' - 1 = (at - 1) + 1 BY <1>1
  <2> QED BY <1>2, <1>7, <2>1
<1> QED BY <1>8 DEF RunInv, Straight, Contained

(* One that is redone goes the way it went before. *)
LEMMA RedoGoesOn ==
  ASSUME NoTies, StartTime = MaxNow, TypeInv, HistoryFlags, RedoInv, job = "redo", RunPart,
         UNCHANGED <<doc, future>>
  PROVE  RedoInv'
<1> DEFINE n == Len(cmd.parts)
<1>1. /\ at' = at + 1 /\ at \in 1 .. n /\ n \in Nat /\ DOMAIN cmd.parts = 1 .. n
  BY PartRan, CommandFields DEF TypeInv, TypeOK
<1>2. PICK S : /\ Path(S, cmd.parts, n)
               /\ S[0] = doc /\ S[n] = future[Len(future)] /\ S[at - 1] = tasks
  BY DEF RedoInv
<1>3. Fine(tasks) /\ Fine(S[at]) /\ Joins(part, tasks, S[at])
  <2>1. at - 1 \in 0 .. n /\ at \in 0 .. n BY <1>1
  <2> QED BY <1>1, <1>2, <2>1 DEF Path, part
<1>4. ~part.ran
  <2>1. ~(at < at) BY <1>1
  <2> QED BY <1>1, <2>1 DEF HistoryFlags, part
<1>5. Ready(part, tasks) BY <1>3, <1>4, JoinsReady
<1>6. RunsTo BY <1>3, <1>5, PartRuns
<1>7. tasks' = S[at] BY <1>3, <1>4, <1>6 DEF RunsTo
<1>8. Path(S, cmd'.parts, n)
  <2>1. /\ Joins(cmd'.parts[at], S[at - 1], S[at])
        /\ \A k \in 1 .. n : k # at => cmd'.parts[k] = cmd.parts[k]
    BY <1>2, <1>6, <1>7 DEF RunsTo
  <2> QED BY <1>1, <1>2, <2>1, PathStands
<1>9. Len(cmd'.parts) = n /\ at' - 1 = at BY <1>1, <1>6 DEF RunsTo
<1> QED BY <1>2, <1>7, <1>8, <1>9 DEF RedoInv

(* So does a part that is undone. *)
LEMMA PartUndone ==
  ASSUME UndoPart, TypeInv
  PROVE  /\ UNCHANGED <<historyVars, file, job>> /\ job = "undo"
         /\ at \in 1 .. Len(cmd.parts)
<1>1. job = "undo" /\ at \in 1 .. Len(cmd.parts)
  BY UndoingPart
  DEF UndoPart, UndoAdd, UndoRemove, UndoEdit, UndoDone, UndoClear,
      UndoClearAdd, UndoClearShow
<1> QED BY <1>1
        DEF UndoPart, UndoAdd, UndoRemove, UndoEdit, UndoDone, UndoClear,
            UndoClearAdd, UndoClearShow, SetDone, Undid, storageVars

(* One that is undone goes back part by part, and over a clear task by task. *)
LEMMA UndoGoesBack ==
  ASSUME NoTies, StartTime = MaxNow, TypeInv, HistoryFlags, UndoInv, UndoPart,
         UNCHANGED <<doc, past>>
  PROVE  UndoInv'
<1> DEFINE n == Len(cmd.parts)
<1>1. /\ job = "undo" /\ job' = "undo" /\ at \in 1 .. n /\ n \in Nat
      /\ DOMAIN cmd.parts = 1 .. n
  BY PartUndone, CommandFields DEF TypeInv, TypeOK
<1>2. PICK S : /\ Path(S, cmd.parts, n)
               /\ S[0] = past[Len(past)] /\ S[n] = doc
               /\ IF ClearBeingUndone THEN Readding(S[at - 1]) ELSE S[at] = tasks
  BY DEF UndoInv
<1> DEFINE L == S[at - 1]
<1>3. Fine(L) /\ Fine(S[at]) /\ Joins(part, L, S[at])
  <2>1. at - 1 \in 0 .. n /\ at \in 0 .. n BY <1>1
  <2> QED BY <1>1, <1>2, <2>1 DEF Path, part
<1>4. ~part.ran => part.kind = "clear" BY <1>1 DEF HistoryFlags, part
(* At the part before, with the list there was before this one. *)
<1>5. ASSUME tasks' = L, at' = at - 1, Joins(cmd'.parts[at], L, S[at]),
             Len(cmd'.parts) = n, \A k \in 1 .. n : k # at => cmd'.parts[k] = cmd.parts[k]
      PROVE  UndoInv'
  <2>1. Path(S, cmd'.parts, n) BY <1>1, <1>2, <1>5, PathStands
  <2>2. ~ClearBeingUndone'
    <3> SUFFICES ASSUME at' >= 1 PROVE cmd'.parts[at'].ran
      BY DEF ClearBeingUndone, Undoing, part
    <3>1. at - 1 \in 1 .. n /\ at - 1 # at /\ at - 1 < at BY <1>1, <1>5
    <3>2. cmd.parts[at - 1].ran BY <1>1, <3>1 DEF HistoryFlags
    <3> QED BY <1>5, <3>1, <3>2
  <2> QED BY <1>2, <1>5, <2>1, <2>2 DEF UndoInv
<1>6. CASE UndoAdd \/ UndoRemove \/ UndoEdit \/ UndoDone
  <2>1. part.kind # "clear" /\ at' = at - 1
    BY <1>6 DEF UndoAdd, UndoRemove, UndoEdit, UndoDone, Undoing, part, SetDone, Undid
  <2>2. ~ClearBeingUndone BY <2>1 DEF ClearBeingUndone, Undoing, part
  <2>3. part.ran /\ tasks = S[at] BY <1>2, <1>4, <2>1, <2>2
  <2>4. UndoesTo(L)
    <3>1. Fine(tasks) /\ Joins(part, L, tasks) BY <1>3, <2>3
    <3> HIDE DEF L
    <3> QED BY <1>3, <1>6, <2>3, <3>1, AddUndoes, RemoveUndoes, EditUndoes, DoneUndoes
  <2> QED BY <1>5, <2>1, <2>3, <2>4 DEF UndoesTo
<1>7. CASE UndoClear
  <2>1. part.ran BY <1>7 DEF UndoClear
  <2>2. tasks = S[at] BY <1>2, <2>1 DEF ClearBeingUndone
  <2>3. Fine(tasks) /\ Joins(part, L, tasks) BY <1>3, <2>2
  <2>4. tasks = <<>>
    <3>1. part.kind = "clear" BY <1>7 DEF UndoClear, Undoing, part
    <3> QED BY <2>3, <3>1 DEF Joins
  <2> HIDE DEF L
  <2>5. /\ tasks' = tasks /\ at' = at /\ ~cmd'.parts[at].ran
        /\ cmd'.parts[at].kind = "clear"
        /\ Rearranged(tasks \o readd', L) /\ readd' \in Seq(Contents)
        /\ Joins(cmd'.parts[at], L, <<>>)
        /\ Len(cmd'.parts) = Len(cmd.parts)
        /\ \A k \in 1 .. Len(cmd.parts) : k # at => cmd'.parts[k] = cmd.parts[k]
    BY <1>3, <1>7, <2>3, ClearUndoes
  <2>6. Path(S, cmd'.parts, n)
    <3>1. Joins(cmd'.parts[at], S[at - 1], S[at]) BY <2>2, <2>4, <2>5 DEF L
    <3> QED BY <1>1, <1>2, <2>5, <3>1, PathStands
  <2>7. ClearBeingUndone'
    BY <1>1, <2>5 DEF ClearBeingUndone, Undoing, part
  <2>8. Readding(L)' BY <2>3, <2>5 DEF Readding, L
  <2> QED BY <1>2, <2>5, <2>6, <2>7, <2>8 DEF UndoInv, L
<1>8. CASE UndoClearAdd
  <2>1. ClearBeingUndone /\ UNCHANGED <<job, cmd, at>>
    BY <1>8 DEF UndoClearAdd, ClearBeingUndone
  <2>2. Readding(L) BY <1>2, <2>1
  <2>3. ClearBeingUndone' BY <2>1 DEF ClearBeingUndone, Undoing, part
  <2> HIDE DEF L
  <2>4. Fine(tasks') /\ readd' \in Seq(Contents) /\ Rearranged(tasks' \o readd', L)
    BY <1>3, <1>8, <2>2, ClearReadds
  <2>5. Readding(S[at - 1])' BY <2>1, <2>4 DEF Readding, L
  <2> QED BY <1>2, <2>1, <2>3, <2>5 DEF UndoInv
<1>9. CASE UndoClearShow
  <2>1. ClearBeingUndone /\ part.kind = "clear" /\ at' = at - 1
    BY <1>9 DEF UndoClearShow, ClearBeingUndone, Undoing, part, Undid
  <2>2. Readding(L) BY <1>2, <2>1
  <2>3. S[at] = <<>> BY <1>3, <2>1 DEF Joins
  <2>4. Joins(part, L, <<>>) BY <1>3, <2>3
  <2> HIDE DEF L
  <2>5. /\ tasks' = tasks /\ tasks = L
        /\ Joins(cmd'.parts[at], L, <<>>)
        /\ Len(cmd'.parts) = Len(cmd.parts)
        /\ \A k \in 1 .. Len(cmd.parts) : k # at => cmd'.parts[k] = cmd.parts[k]
    BY <1>3, <1>9, <2>2, <2>4, ClearIsUndone
  <2> QED BY <1>5, <2>1, <2>3, <2>5
<1> QED BY <1>6, <1>7, <1>8, <1>9 DEF UndoPart

-----------------------------------------------------------------------------
(* What every step may rely on. *)
Known == TypeInv /\ BatchInv /\ HistoryFlags /\ HistoryBound /\ TimelineInv

(* A handler that leaves the histories, the file and the documents alone. *)
LEMMA HistoriesStay ==
  ASSUME HistoriesInv, UNCHANGED <<historyVars, file, history>>,
         job' # "lost" => /\ job # "lost"
                          /\ job' = "undo" <=> job = "undo"
                          /\ job' = "redo" <=> job = "redo"
  PROVE  HistoriesInv'
<1>1. UNCHANGED <<undoHistory, redoHistory, file, doc, past, future>>
  BY DEF historyVars, history
<1> QED BY <1>1 DEF HistoriesInv, UndoChain, RedoChain, After, Fine

(* The document is as it was. *)
Stutters == UNCHANGED <<doc, past, future>>

(* A command that is submitted starts from the present document. *)
LEMMA SubmitTimeline ==
  ASSUME NoTies, StartTime = MaxNow, Known, RecordSubmit, NextStraight
  PROVE  TimelineInv' /\ Stutters
<1>0. /\ Submit /\ given' = cmd' /\ UNCHANGED <<doc, past, future>> /\ UNCHANGED history
  BY DEF RecordSubmit, history
<1>1. TypeInv /\ BatchInv /\ HistoryFlags /\ HistoriesInv BY DEF Known, TimelineInv
<1>2. job = "none" /\ tasks' = tasks /\ doc = tasks
  BY <1>0, <1>1, SubmitIdle DEF BatchInv
<1>3. /\ undoHistory \in Seq(Command) /\ redoHistory \in Seq(Command)
      /\ Fine(doc) /\ file = doc
      /\ past \in Seq(Seq(Contents)) /\ future \in Seq(Seq(Contents))
      /\ Len(past) = Len(undoHistory) /\ Len(future) = Len(redoHistory)
      /\ UndoChain(past, undoHistory, doc) /\ RedoChain(future, redoHistory, doc)
  <2>1. Len(undoHistory) \in Nat /\ Len(redoHistory) \in Nat
        /\ undoHistory \in Seq(Command) /\ redoHistory \in Seq(Command)
    BY <1>1 DEF TypeInv, TypeOK
  <2> QED BY <1>1, <1>2, <2>1 DEF HistoriesInv
<1>4. CASE NewRun
  <2>1. PICK parts : Run(parts) BY <1>4 DEF NewRun
  <2>2. /\ job' = "run" /\ at' = 1 /\ UNCHANGED <<historyVars, file>>
    BY <2>1 DEF Run, storageVars
  <2>3. HistoriesInv' BY <1>0, <1>1, <1>2, <2>2, HistoriesStay
  <2>4. Straight(given', doc') /\ Contained(given')
    BY <1>0, <1>1, <1>2, <1>4, <2>2, SubmitContained DEF NextStraight, Idle
  <2>5. \E S : Path(S, cmd'.parts, at' - 1) /\ S[0] = doc' /\ S[at' - 1] = tasks'
    <3> DEFINE S == [k \in 0 .. 0 |-> doc]
    <3>1. at' - 1 = 0 /\ S[0] = doc BY <2>2
    <3> HIDE DEF S
    <3>2. Path(S, cmd'.parts, 0) BY <1>3, <3>1 DEF Path
    <3> QED BY <1>0, <1>2, <3>1, <3>2
  <2>6. RunInv' BY <2>4, <2>5 DEF RunInv
  <2> QED BY <1>0, <2>2, <2>3, <2>6 DEF TimelineInv, Stutters
<1>5. CASE SubmitUndo
  <2>1. PICK n : BeginUndo(n) BY <1>5 DEF SubmitUndo
  <2>2. redoHistory' = redoHistory /\ file' = file BY <1>5 DEF SubmitUndo, storageVars
  <2>3. \A k \in DOMAIN undoHistory : AllRan(undoHistory[k]) BY <1>1 DEF HistoryFlags
  <2>4. Len(past') = Len(undoHistory) /\ UndoChain(past', undoHistory, doc') /\ tasks' = doc'
    BY <1>0, <1>2, <1>3
  <2>5. /\ job' \in {"none", "undo"}
        /\ Len(past') = Len(undoHistory') + IF job' = "undo" THEN 1 ELSE 0
        /\ UndoChain(past', undoHistory', doc')
        /\ job' = "undo" => UndoInv'
    BY <1>3, <2>1, <2>3, <2>4, UndoBegins
  <2>6. /\ Len(future') = Len(redoHistory') + IF job' = "redo" THEN 1 ELSE 0
        /\ RedoChain(future', redoHistory', doc')
    BY <1>0, <1>3, <2>2, <2>5
  <2>7. Fine(doc') /\ file' = doc' /\ past' \in Seq(Seq(Contents)) /\ future' \in Seq(Seq(Contents))
    BY <1>0, <1>3, <2>2
  <2>8. HistoriesInv' BY <2>5, <2>6, <2>7 DEF HistoriesInv, Fine
  <2> QED BY <1>0, <2>5, <2>8 DEF TimelineInv, Stutters
<1>6. CASE SubmitRedo
  <2>1. PICK n : BeginRedo(n) BY <1>6 DEF SubmitRedo
  <2>2. undoHistory' = undoHistory /\ file' = file BY <1>6 DEF SubmitRedo, storageVars
  <2>4. Len(future') = Len(redoHistory) /\ RedoChain(future', redoHistory, doc') /\ tasks' = doc'
    BY <1>0, <1>2, <1>3
  <2>5. /\ job' \in {"none", "redo"}
        /\ Len(future') = Len(redoHistory') + IF job' = "redo" THEN 1 ELSE 0
        /\ RedoChain(future', redoHistory', doc')
        /\ job' = "redo" => RedoInv'
    BY <1>3, <2>1, <2>4, RedoBegins
  <2>6. /\ Len(past') = Len(undoHistory') + IF job' = "undo" THEN 1 ELSE 0
        /\ UndoChain(past', undoHistory', doc')
    BY <1>0, <1>3, <2>2, <2>5
  <2>7. Fine(doc') /\ file' = doc' /\ past' \in Seq(Seq(Contents)) /\ future' \in Seq(Seq(Contents))
    BY <1>0, <1>3, <2>2
  <2>8. HistoriesInv' BY <2>5, <2>6, <2>7 DEF HistoriesInv, Fine
  <2> QED BY <1>0, <2>5, <2>8 DEF TimelineInv, Stutters
<1>7. CASE Show \/ LastIsNoTask
  <2>1. job' \in {"none", "lost"} /\ UNCHANGED <<historyVars, file>>
    BY <1>2, <1>7 DEF Show, LastIsNoTask, storageVars
  <2>2. HistoriesInv' BY <1>0, <1>1, <1>2, <2>1, HistoriesStay
  <2> QED BY <1>0, <2>1, <2>2 DEF TimelineInv, Stutters
<1> QED BY <1>0, <1>1, <1>4, <1>5, <1>6, <1>7, SubmitTypes

(* A part that is run or undone goes on as the invariant says. *)
LEMMA OtherTimeline ==
  ASSUME NoTies, StartTime = MaxNow, Known, RecordOther
  PROVE  TimelineInv' /\ Stutters
<1>0. UNCHANGED history /\ UNCHANGED <<doc, past, future, given>>
  BY DEF RecordOther, history
<1>1. TypeInv /\ BatchInv /\ HistoryFlags /\ HistoriesInv BY DEF Known, TimelineInv
<1>2. CASE RunPart
  <2>1. UNCHANGED <<historyVars, file, job>> /\ job \in {"run", "redo"}
    BY <1>1, <1>2, PartRan
  <2>2. HistoriesInv' BY <1>0, <1>1, <2>1, HistoriesStay
  <2>3. job = "run" => RunInv' BY <1>0, <1>1, <1>2, RunGoesOn DEF Known, TimelineInv
  <2>4. job = "redo" => RedoInv' BY <1>0, <1>1, <1>2, RedoGoesOn DEF Known, TimelineInv
  <2> QED BY <1>0, <2>1, <2>2, <2>3, <2>4 DEF TimelineInv, Stutters
<1>3. CASE UndoPart
  <2>1. UNCHANGED <<historyVars, file, job>> /\ job = "undo"
    BY <1>1, <1>3, PartUndone
  <2>2. HistoriesInv' BY <1>0, <1>1, <2>1, HistoriesStay
  <2>3. UndoInv' BY <1>0, <1>1, <1>3, <2>1, UndoGoesBack DEF Known, TimelineInv
  <2> QED BY <1>0, <2>1, <2>2, <2>3 DEF TimelineInv, Stutters
<1>4. CASE NoSuchTask
  <2>1. job' = "lost" /\ UNCHANGED <<historyVars, file>>
    BY <1>4 DEF NoSuchTask, storageVars
  <2>2. HistoriesInv' BY <1>0, <1>1, <2>1, HistoriesStay
  <2> QED BY <1>0, <2>1, <2>2 DEF TimelineInv, Stutters
<1>5. ~Tick
  <2>1. now = StartTime /\ now \in Nat BY <1>1, ClockStands
  <2> QED BY <2>1 DEF Tick
<1> QED BY <1>2, <1>3, <1>4, <1>5 DEF RecordOther

(* A restart reopens the present document, which is saved and in order. *)
LEMMA RestartTimeline ==
  ASSUME NoTies, StartTime = MaxNow, Known, RecordRestart
  PROVE  TimelineInv' /\ Timeline!Reopen
<1>1. TypeInv /\ Fine(doc) /\ file = doc BY DEF Known, TimelineInv, HistoriesInv
<1>2. /\ past' = <<>> /\ future' = <<>> /\ doc' = tasks' /\ tasks' = Renumber(file, now)
      /\ undoHistory' = <<>> /\ redoHistory' = <<>> /\ job' = "none" /\ file' = file
  BY DEF RecordRestart, Restart, Rest
<1>3. Renumber(doc, StartTime) = doc
  <2>1. doc \in Seq(Task) /\ StartTime \in Nat
    BY <1>1, ContentsAreTasks, BoundsAssumption DEF Fine
  <2> QED BY <1>1, <2>1, TidyStays DEF Fine
<1>4. doc' = doc BY <1>1, <1>2, <1>3, ClockStands
<1>5. <<>> \in Seq(Seq(Contents)) /\ Len(<<>>) = 0 BY EmptySeq
<1>6. HistoriesInv'
  BY <1>1, <1>2, <1>4, <1>5 DEF HistoriesInv, Fine, UndoChain, RedoChain
<1>7. TimelineInv' BY <1>2, <1>6 DEF TimelineInv
<1> QED BY <1>2, <1>4, <1>7 DEF Timeline!Reopen

(* What the histories of documents are when a command is between two of them. *)
LEMMA KnownHistories ==
  ASSUME Known, job \in {"run", "undo", "redo"}
  PROVE  /\ undoHistory \in Seq(Command) /\ redoHistory \in Seq(Command)
         /\ cmd \in Command /\ Len(cmd.parts) \in Nat
         /\ tasks \in Seq(Task)
         /\ Fine(doc) /\ doc \in Seq(Contents)
         /\ past \in Seq(Seq(Contents)) /\ future \in Seq(Seq(Contents))
         /\ Len(past) = Len(undoHistory) + IF job = "undo" THEN 1 ELSE 0
         /\ Len(future) = Len(redoHistory) + IF job = "redo" THEN 1 ELSE 0
         /\ UndoChain(past, undoHistory, doc)
         /\ RedoChain(future, redoHistory, doc)
         /\ Len(undoHistory) \in Nat /\ Len(redoHistory) \in Nat
         /\ UNDO_LIMIT \in Nat
<1>1. TypeOK /\ HistoriesInv BY DEF Known, TypeInv, TimelineInv
<1>2. /\ undoHistory \in Seq(Command) /\ redoHistory \in Seq(Command)
      /\ cmd \in Command /\ tasks \in Seq(Task)
  BY <1>1 DEF TypeOK
<1>3. /\ Len(cmd.parts) \in Nat /\ Len(undoHistory) \in Nat /\ Len(redoHistory) \in Nat
      /\ UNDO_LIMIT \in Nat
  BY <1>2, CommandFields, UndoLimitAssumption
<1>4. job # "lost" /\ doc \in Seq(Contents) BY <1>1 DEF HistoriesInv, Fine
<1> QED BY <1>1, <1>2, <1>3, <1>4 DEF HistoriesInv

(* A command that is done leads from the document before it to the list there is,
   which is put in front of what is kept of the past.                      *)
LEMMA RunTimeline ==
  ASSUME NoTies, StartTime = MaxNow, Known, RecordRun
  PROVE  TimelineInv' /\ Timeline!Do
<1> DEFINE ds == Append(past, doc)
           h == Append(undoHistory, cmd)
<1>0. /\ FinishRun /\ job = "run"
      /\ past' = Limited(ds) /\ doc' = tasks /\ future' = <<>>
      /\ undoHistory' = Limited(h) /\ redoHistory' = <<>> /\ file' = tasks
      /\ tasks' = tasks /\ job' = "none"
  BY DEF RecordRun, FinishRun, Rest
<1>1. /\ undoHistory \in Seq(Command) /\ cmd \in Command /\ Len(cmd.parts) \in Nat
      /\ Fine(doc) /\ doc \in Seq(Contents) /\ past \in Seq(Seq(Contents))
      /\ Len(past) = Len(undoHistory) /\ UndoChain(past, undoHistory, doc)
      /\ tasks \in Seq(Task)
  BY <1>0, KnownHistories
<1>2. at - 1 = Len(cmd.parts)
  <2>1. at \in 0 .. Len(cmd.parts) + 1 BY DEF Known, TypeInv, TypeOK
  <2>2. at > Len(cmd.parts) BY <1>0 DEF FinishRun
  <2> QED BY <1>1, <2>1, <2>2
<1>3. PICK S : Path(S, cmd.parts, Len(cmd.parts)) /\ S[0] = doc /\ S[Len(cmd.parts)] = tasks
  BY <1>0, <1>2 DEF Known, TimelineInv, RunInv
<1>4. Fine(tasks) /\ Leads(cmd.parts, doc, tasks)
  <2>1. Len(cmd.parts) \in 0 .. Len(cmd.parts) BY <1>1
  <2> QED BY <1>3, <2>1 DEF Path, Leads
<1>5. UndoChain(ds, h, tasks) BY <1>1, <1>4, ChainAppended
<1>6. ds \in Seq(Seq(Contents)) /\ h \in Seq(Command) /\ Len(ds) = Len(h)
  BY <1>1, Appended
<1> HIDE DEF ds, h
<1>7. UndoChain(Limited(ds), Limited(h), tasks) /\ Len(Limited(ds)) = Len(Limited(h))
  BY <1>5, <1>6, ChainLimited
<1>8. Limited(ds) \in Seq(Seq(Contents)) /\ Len(Limited(h)) \in Nat
  <2>1. Limited(h) \in Seq(Command) BY <1>6, LimitedOf
  <2> QED BY <1>6, <2>1, LimitedOf
<1>9. <<>> \in Seq(Seq(Contents)) /\ Len(<<>>) = 0 BY EmptySeq
<1>10. /\ Fine(doc') /\ file' = doc' /\ past' \in Seq(Seq(Contents))
       /\ future' \in Seq(Seq(Contents))
       /\ Len(past') = Len(undoHistory') + IF job' = "undo" THEN 1 ELSE 0
       /\ Len(future') = Len(redoHistory') + IF job' = "redo" THEN 1 ELSE 0
       /\ UndoChain(past', undoHistory', doc')
       /\ RedoChain(future', redoHistory', doc')
  <2>1. RedoChain(<<>>, <<>>, tasks) BY <1>9 DEF RedoChain
  <2> QED BY <1>0, <1>4, <1>7, <1>8, <1>9, <2>1
<1>11. HistoriesInv' BY <1>10 DEF HistoriesInv, Fine
<1>12. TimelineInv' BY <1>0, <1>11 DEF TimelineInv
<1>13. Timeline!Do
  <2>1. Timeline!Kept(ds) = Limited(ds) BY DEF Timeline!Kept, Limited
  <2> QED BY <1>0, <1>1, <2>1 DEF Timeline!Do, ds
<1> QED BY <1>12, <1>13

(* An undo that is done is back at the newest document of the past. *)
LEMMA UndoTimeline ==
  ASSUME NoTies, StartTime = MaxNow, Known, RecordUndo
  PROVE  TimelineInv' /\ Timeline!Undo
<1> DEFINE d == past[Len(past)]
           h == Append(redoHistory, cmd)
<1>0. /\ FinishUndo /\ job = "undo" /\ at = 0
      /\ past' = Front1(past) /\ doc' = tasks /\ future' = Append(future, doc)
      /\ redoHistory' = Limited(h) /\ file' = tasks
      /\ BeginUndo(times - 1) /\ tasks' = tasks
  BY DEF RecordUndo, FinishUndo
<1>1. /\ undoHistory \in Seq(Command) /\ redoHistory \in Seq(Command)
      /\ cmd \in Command /\ Len(cmd.parts) \in Nat
      /\ Fine(doc) /\ doc \in Seq(Contents)
      /\ past \in Seq(Seq(Contents)) /\ future \in Seq(Seq(Contents))
      /\ Len(past) = Len(undoHistory) + 1 /\ Len(future) = Len(redoHistory)
      /\ UndoChain(past, undoHistory, doc) /\ RedoChain(future, redoHistory, doc)
      /\ Len(undoHistory) \in Nat /\ Len(redoHistory) \in Nat /\ UNDO_LIMIT \in Nat
      /\ tasks \in Seq(Task)
  BY <1>0, KnownHistories
<1>2. PICK S : /\ Path(S, cmd.parts, Len(cmd.parts)) /\ S[0] = d
               /\ S[Len(cmd.parts)] = doc /\ S[0] = tasks
  <2>1. UndoInv BY <1>0 DEF Known, TimelineInv
  <2>2. ~ClearBeingUndone BY <1>0 DEF ClearBeingUndone, Undoing
  <2> QED BY <1>0, <2>1, <2>2 DEF UndoInv
<1>3. Fine(tasks) /\ Leads(cmd.parts, tasks, doc) /\ tasks = d
  <2>1. 0 \in 0 .. Len(cmd.parts) BY <1>1
  <2> QED BY <1>2, <2>1 DEF Path, Leads
<1>4. /\ Front1(past) \in Seq(Seq(Contents)) /\ Len(Front1(past)) = Len(undoHistory)
      /\ UndoChain(Front1(past), undoHistory, d)
  <2>1. Len(past) >= 1 /\ Len(past) - 1 = Len(undoHistory) BY <1>1
  <2>2. Front1(past) \in Seq(Seq(Contents)) /\ Len(Front1(past)) = Len(past) - 1
    BY <1>1, <2>1, Front1Of
  <2>3. UndoChain(Front1(past), undoHistory, d) BY <1>1, ChainFront
  <2> QED BY <2>1, <2>2, <2>3
<1>5. /\ Append(future, doc) \in Seq(Seq(Contents)) /\ h \in Seq(Command)
      /\ Len(Append(future, doc)) = Len(h) /\ Len(h) = Len(redoHistory) + 1
  BY <1>1, Appended
<1>6. RedoChain(Append(future, doc), h, tasks)
  BY <1>1, <1>3, ChainAppended
<1>7. Limited(h) = h
  <2>1. Len(undoHistory) + Len(redoHistory) + 1 <= UNDO_LIMIT
    BY <1>0 DEF Known, HistoryBound, InTransit
  <2>2. Len(h) <= UNDO_LIMIT BY <1>1, <1>5, <2>1
  <2> QED BY <2>2 DEF Limited
<1>8. \A k \in DOMAIN undoHistory : AllRan(undoHistory[k]) BY DEF Known, HistoryFlags
<1> HIDE DEF d, h
<1>9. /\ job' \in {"none", "undo"}
      /\ Len(past') = Len(undoHistory') + IF job' = "undo" THEN 1 ELSE 0
      /\ UndoChain(past', undoHistory', doc')
      /\ job' = "undo" => UndoInv'
  BY <1>0, <1>1, <1>3, <1>4, <1>8, UndoBegins
<1>10. /\ Fine(doc') /\ file' = doc' /\ past' \in Seq(Seq(Contents))
       /\ future' \in Seq(Seq(Contents))
       /\ Len(future') = Len(redoHistory') + IF job' = "redo" THEN 1 ELSE 0
       /\ RedoChain(future', redoHistory', doc')
  <2>1. job' # "redo" /\ Len(h) \in Nat BY <1>5, <1>9
  <2> QED BY <1>0, <1>3, <1>4, <1>5, <1>6, <1>7, <2>1
<1>11. HistoriesInv' BY <1>9, <1>10 DEF HistoriesInv, Fine
<1>12. TimelineInv' BY <1>9, <1>11 DEF TimelineInv
<1>13. Timeline!Undo
  <2>1. past # <<>> BY <1>1
  <2> QED BY <1>0, <1>3, <2>1 DEF Timeline!Undo, Timeline!Newest, Timeline!AllButNewest, Front1, d
<1> QED BY <1>12, <1>13

(* A redo that is done is at the newest document of the future. *)
LEMMA RedoTimeline ==
  ASSUME NoTies, StartTime = MaxNow, Known, RecordRedo
  PROVE  TimelineInv' /\ Timeline!Redo
<1> DEFINE d == future[Len(future)]
           h == Append(undoHistory, cmd)
           ds == Append(past, doc)
<1>0. /\ FinishRedo /\ job = "redo" /\ at > Len(cmd.parts)
      /\ past' = Limited(ds) /\ doc' = tasks /\ future' = Front1(future)
      /\ undoHistory' = Limited(h) /\ file' = tasks
      /\ BeginRedo(times - 1) /\ tasks' = tasks
  BY DEF RecordRedo, FinishRedo
<1>1. /\ undoHistory \in Seq(Command) /\ redoHistory \in Seq(Command)
      /\ cmd \in Command /\ Len(cmd.parts) \in Nat
      /\ Fine(doc) /\ doc \in Seq(Contents)
      /\ past \in Seq(Seq(Contents)) /\ future \in Seq(Seq(Contents))
      /\ Len(past) = Len(undoHistory) /\ Len(future) = Len(redoHistory) + 1
      /\ UndoChain(past, undoHistory, doc) /\ RedoChain(future, redoHistory, doc)
      /\ Len(undoHistory) \in Nat /\ Len(redoHistory) \in Nat /\ UNDO_LIMIT \in Nat
      /\ tasks \in Seq(Task)
  BY <1>0, KnownHistories
<1>2. at - 1 = Len(cmd.parts)
  <2>1. at \in 0 .. Len(cmd.parts) + 1 BY DEF Known, TypeInv, TypeOK
  <2> QED BY <1>0, <1>1, <2>1
<1>3. PICK S : /\ Path(S, cmd.parts, Len(cmd.parts)) /\ S[0] = doc
               /\ S[Len(cmd.parts)] = d /\ S[Len(cmd.parts)] = tasks
  BY <1>0, <1>2 DEF Known, TimelineInv, RedoInv
<1>4. Fine(tasks) /\ Leads(cmd.parts, doc, tasks) /\ tasks = d
  <2>1. Len(cmd.parts) \in 0 .. Len(cmd.parts) BY <1>1
  <2> QED BY <1>3, <2>1 DEF Path, Leads
<1>5. /\ Front1(future) \in Seq(Seq(Contents)) /\ Len(Front1(future)) = Len(redoHistory)
      /\ RedoChain(Front1(future), redoHistory, d)
  <2>1. Len(future) >= 1 /\ Len(future) - 1 = Len(redoHistory) BY <1>1
  <2>2. Front1(future) \in Seq(Seq(Contents)) /\ Len(Front1(future)) = Len(future) - 1
    BY <1>1, <2>1, Front1Of
  <2>3. RedoChain(Front1(future), redoHistory, d) BY <1>1, ChainFront
  <2> QED BY <2>1, <2>2, <2>3
<1>6. /\ ds \in Seq(Seq(Contents)) /\ h \in Seq(Command)
      /\ Len(ds) = Len(h) /\ Len(h) = Len(undoHistory) + 1
  BY <1>1, Appended
<1>7. UndoChain(ds, h, tasks)
  BY <1>1, <1>4, ChainAppended
<1>8. Limited(h) = h /\ Limited(ds) = ds
  <2>1. Len(undoHistory) + Len(redoHistory) + 1 <= UNDO_LIMIT
    BY <1>0 DEF Known, HistoryBound, InTransit
  <2>2. Len(h) <= UNDO_LIMIT /\ Len(ds) <= UNDO_LIMIT BY <1>1, <1>6, <2>1
  <2> QED BY <2>2 DEF Limited
<1> HIDE DEF d, h
<1>9. /\ job' \in {"none", "redo"}
      /\ Len(future') = Len(redoHistory') + IF job' = "redo" THEN 1 ELSE 0
      /\ RedoChain(future', redoHistory', doc')
      /\ job' = "redo" => RedoInv'
  BY <1>0, <1>1, <1>4, <1>5, RedoBegins
<1>10. /\ Fine(doc') /\ file' = doc' /\ past' \in Seq(Seq(Contents))
       /\ future' \in Seq(Seq(Contents))
       /\ Len(past') = Len(undoHistory') + IF job' = "undo" THEN 1 ELSE 0
       /\ UndoChain(past', undoHistory', doc')
  <2>1. job' # "undo" /\ Len(h) \in Nat BY <1>6, <1>9
  <2> HIDE DEF ds
  <2> QED BY <1>0, <1>4, <1>5, <1>6, <1>7, <1>8, <2>1
<1>11. HistoriesInv' BY <1>9, <1>10 DEF HistoriesInv, Fine
<1>12. TimelineInv' BY <1>9, <1>11 DEF TimelineInv
<1>13. Timeline!Redo
  <2>1. future # <<>> BY <1>1
  <2> QED BY <1>0, <1>4, <1>8, <2>1
          DEF Timeline!Redo, Timeline!Newest, Timeline!AllButNewest, Front1, d
<1> QED BY <1>12, <1>13

-----------------------------------------------------------------------------
(* Every step keeps the invariant, and is one of the abstract undo and redo or
   leaves its documents as they are.                                       *)
LEMMA StepTimeline ==
  ASSUME NoTies, StartTime = MaxNow, Known, [NextStraight]_allVars
  PROVE  Known' /\ [Timeline!Next]_(Timeline!timeline)
<1>1. [NextT]_allVars /\ [Next]_vars BY RecordedStep DEF NextStraight
<1>2. TypeInv' /\ BatchInv' /\ HistoryFlags' /\ HistoryBound'
  BY <1>1, StepTypes, StepBatch, StepFlags, StepBound DEF Known
<1>3. TimelineInv' /\ (Stutters \/ Timeline!Next)
  <2>1. CASE RecordSubmit /\ NextStraight BY <2>1, SubmitTimeline
  <2>2. CASE RecordOther BY <2>2, OtherTimeline
  <2>3. CASE RecordRestart BY <2>3, RestartTimeline DEF Timeline!Next
  <2>4. CASE RecordRun BY <2>4, RunTimeline DEF Timeline!Next
  <2>5. CASE RecordUndo BY <2>5, UndoTimeline DEF Timeline!Next
  <2>6. CASE RecordRedo BY <2>6, RedoTimeline DEF Timeline!Next
  <2>7. CASE UNCHANGED allVars
    <3>1. /\ UNCHANGED <<tasks, undoHistory, redoHistory, file, job, cmd, at, readd>>
          /\ UNCHANGED <<doc, past, future, given>>
      BY <2>7 DEF allVars, vars, history
    <3>2. HistoriesInv'
      BY <3>1 DEF Known, TimelineInv, HistoriesInv, Fine, UndoChain, RedoChain, After
    <3>3. ClearBeingUndone' = ClearBeingUndone BY <3>1 DEF ClearBeingUndone, Undoing, part
    <3>4. job = "run" => RunInv' BY <3>1 DEF Known, TimelineInv, RunInv, Straight, Contained
    <3>5. job = "undo" => UndoInv'
      BY <3>1, <3>3 DEF Known, TimelineInv, UndoInv, Readding, Fine
    <3>6. job = "redo" => RedoInv' BY <3>1 DEF Known, TimelineInv, RedoInv
    <3> QED BY <3>1, <3>2, <3>4, <3>5, <3>6 DEF TimelineInv, Stutters
  <2> QED BY <2>1, <2>2, <2>3, <2>4, <2>5, <2>6, <2>7 DEF NextStraight, NextT
<1> QED BY <1>2, <1>3 DEF Known, Stutters, Timeline!timeline

(* With nothing in the list there is nothing behind it or ahead. *)
LEMMA InitTimeline == InitT => Known /\ Timeline!Init
<1> SUFFICES ASSUME InitT PROVE Known /\ Timeline!Init
  OBVIOUS
<1>1. Init /\ doc = <<>> /\ past = <<>> /\ future = <<>> BY DEF InitT
<1>2. TypeInv /\ BatchInv BY <1>1, InitTypes, InitBatch
<1>3. HistoryFlags BY <1>1 DEF Init, HistoryFlags
<1>4. HistoryBound BY <1>1, UndoLimitAssumption DEF Init, HistoryBound, InTransit
<1>5. <<>> \in Seq(Seq(Contents)) /\ <<>> \in Seq(Contents) /\ <<>> \in Seq(Task)
      /\ Len(<<>>) = 0
  BY EmptySeq
<1>6. HistoriesInv
  BY <1>1, <1>5 DEF Init, HistoriesInv, Fine, Tidy, UndoChain, RedoChain
<1>7. TimelineInv BY <1>1, <1>6 DEF Init, TimelineInv
<1> QED BY <1>1, <1>2, <1>3, <1>4, <1>5, <1>7 DEF Known, Timeline!Init

(* The program is the abstract undo and redo: while commands are straight, the
   order tells all contents apart and the clock stands still, every undo gives
   back exactly the list there was before the command, every redo the one after
   it, in any order and number and whatever the tasks, the limit and the numbers
   are, and a restart in the middle of a command the list before it.       *)
THEOREM TimelineImplemented ==
  ASSUME NoTies, StartTime = MaxNow
  PROVE  SpecStraight => ImplementsTimeline
<1>1. InitT => Known /\ Timeline!Init BY InitTimeline
<1>2. Known /\ [NextStraight]_allVars => Known' /\ [Timeline!Next]_(Timeline!timeline)
  BY StepTimeline
<1> QED BY <1>1, <1>2, PTL DEF SpecStraight, ImplementsTimeline, Timeline!Spec
-----------------------------------------------------------------------------
(* How often a list has a value up to a place. *)
Met(f, v, n) == Cardinality({k \in 1 .. n : f[k] = v})

(* One place more is one value more to meet, or none. *)
LEMMA MetMore ==
  ASSUME NEW f, NEW v, NEW n \in Nat
  PROVE  /\ Met(f, v, n) \in Nat /\ Met(f, v, 0) = 0
         /\ f[n + 1] = v => Met(f, v, n + 1) = Met(f, v, n) + 1
         /\ f[n + 1] # v => Met(f, v, n + 1) = Met(f, v, n)
<1> DEFINE M(m) == {k \in 1 .. m : f[k] = v}
<1>1. M(n) \in SUBSET (1 .. n) OBVIOUS
<1>2. IsFiniteSet(M(n)) /\ Cardinality(M(n)) \in Nat BY <1>1, FinitePositions
<1>3. M(0) = {} OBVIOUS
<1>4. Cardinality(M(0)) = 0 BY <1>3, FS_EmptySet
<1>5. n + 1 \notin M(n) OBVIOUS
<1>6. CASE f[n + 1] = v
  <2>1. M(n + 1) = M(n) \cup {n + 1} BY <1>6
  <2> HIDE DEF M
  <2>2. Cardinality(M(n + 1)) = Cardinality(M(n)) + 1 BY <1>2, <1>5, <2>1, FS_AddElement
  <2> QED BY <1>2, <1>4, <1>6, <2>2 DEF M, Met
<1>7. CASE f[n + 1] # v
  <2>1. M(n + 1) = M(n) BY <1>7
  <2> HIDE DEF M
  <2> QED BY <1>2, <1>4, <1>7, <2>1 DEF M, Met
<1> QED BY <1>6, <1>7

(* The copies a list has of a task are those met up to its end. *)
LEMMA CopiesMet ==
  ASSUME NEW S, NEW ts \in Seq(S), NEW t
  PROVE  Copies(t, ts) = Met(ts, t, Len(ts)) /\ Copies(t, ts) \in Nat
<1>1. DOMAIN ts = 1 .. Len(ts) /\ Len(ts) \in Nat OBVIOUS
<1>2. Met(ts, t, Len(ts)) \in Nat BY <1>1, MetMore, Zenon
<1> QED BY <1>1, <1>2 DEF Copies, Met

(* A list with a task more has a copy more of that task. *)
LEMMA CopiesAppend ==
  ASSUME NEW S, NEW ts \in Seq(S), NEW u \in S, NEW t
  PROVE  Copies(t, Append(ts, u)) = Copies(t, ts) + IF u = t THEN 1 ELSE 0
<1> DEFINE us == Append(ts, u)
           n == Len(ts)
<1>1. /\ us \in Seq(S) /\ Len(us) = n + 1 /\ us[n + 1] = u /\ n \in Nat
      /\ \A k \in 1 .. n : us[k] = ts[k]
  BY Appended
<1> HIDE DEF us, n
<1>2. {k \in 1 .. n : us[k] = t} = {k \in 1 .. n : ts[k] = t} BY <1>1
<1>3. Met(us, t, n) = Met(ts, t, n) BY <1>2 DEF Met
<1>4. /\ us[n + 1] = t => Met(us, t, n + 1) = Met(us, t, n) + 1
      /\ us[n + 1] # t => Met(us, t, n + 1) = Met(us, t, n)
      /\ Met(us, t, n) \in Nat
  <2>1. n \in Nat BY <1>1
  <2> QED BY <2>1, MetMore, Zenon
<1>5. Copies(t, us) = Met(us, t, n + 1) BY <1>1, CopiesMet
<1>6. Copies(t, ts) = Met(ts, t, n) BY CopiesMet DEF n
<1> QED BY <1>1, <1>3, <1>4, <1>5, <1>6 DEF us

(* Lists that are the one rearranged to the other have the same copies. *)
LEMMA RearrangedCopies ==
  ASSUME NEW S, NEW ts \in Seq(S), NEW us \in Seq(S), Rearranged(ts, us), NEW t
  PROVE  Copies(t, ts) = Copies(t, us)
<1>1. CASE t \in ToSet(ts)
  BY <1>1, RearrangedSame DEF SameTasks, Copies
<1>2. CASE t \in ToSet(us)
  BY <1>2, RearrangedBack, RearrangedSame DEF SameTasks, Copies
<1>3. CASE t \notin ToSet(ts) /\ t \notin ToSet(us)
  <2>1. {i \in DOMAIN ts : ts[i] = t} = {} /\ {i \in DOMAIN us : us[i] = t} = {}
    BY <1>3 DEF ToSet
  <2> QED BY <2>1 DEF Copies
<1> QED BY <1>1, <1>2, <1>3

(* What is added to a list is once more in it. *)
LEMMA CopiesAdded ==
  ASSUME NEW ts \in Seq(Task), NEW u \in Task, NEW time \in Nat, NEW t
  PROVE  Copies(t, AddTask(ts, u, time)) = Copies(t, ts) + IF u = t THEN 1 ELSE 0
<1> DEFINE us == Append(ts, u)
<1>1. us \in Seq(Task) OBVIOUS
<1>2. Copies(t, us) = Copies(t, ts) + IF u = t THEN 1 ELSE 0 BY CopiesAppend
<1> HIDE DEF us
<1>3. Rearranged(Renumber(us, time), us) /\ Renumber(us, time) \in Seq(Task)
  BY <1>1, RenumberRearranges, RenumberKeepsTasks
<1>4. Copies(t, Renumber(us, time)) = Copies(t, us) BY <1>1, <1>3, RearrangedCopies
<1> QED BY <1>2, <1>4 DEF us, AddTask, Pushed

(* A list with no task marked is a list of as many tasks. *)
LEMMA UnmarkedList ==
  ASSUME NEW ts \in Seq(Task)
  PROVE  /\ Unmarked(ts) \in Seq(Task) /\ Len(Unmarked(ts)) = Len(ts)
         /\ \A i \in 1 .. Len(ts) : Unmarked(ts)[i] = Marked(ts[i], FALSE)
<1>1. Len(ts) \in Nat /\ \A i \in 1 .. Len(ts) : ts[i] \in Task BY ElementOfSeq
<1>2. \A i \in 1 .. Len(ts) : Marked(ts[i], FALSE) \in Task BY <1>1, MarkedFields
<1>3. Unmarked(ts) = [i \in 1 .. Len(ts) |-> Marked(ts[i], FALSE)] BY DEF Unmarked, Marked
<1>4. Unmarked(ts) \in [1 .. Len(ts) -> Task] BY <1>2, <1>3
<1>5. \A i \in 1 .. Len(ts) : Unmarked(ts)[i] = Marked(ts[i], FALSE) BY <1>3
<1>6. Unmarked(ts) \in Seq(Task) /\ Len(Unmarked(ts)) = Len(ts)
  <2>1. Unmarked(ts) \in Seq(Task) BY <1>1, <1>4, SeqDef
  <2> QED BY <1>1, <1>4, <2>1, LenProperties
<1> QED BY <1>5, <1>6

(* Lists that are the one rearranged to the other are so without their marks. *)
LEMMA UnmarkedRearranged ==
  ASSUME NEW ts \in Seq(Task), NEW us \in Seq(Task), Rearranged(ts, us)
  PROVE  Rearranged(Unmarked(ts), Unmarked(us))
<1>1. PICK p \in Positions(Len(ts)) : \A k \in 1 .. Len(ts) : ts[k] = us[p[k]]
  BY RearrangedBy
<1>2. Len(us) = Len(ts) /\ Len(ts) \in Nat BY RearrangedBy
<1>3. \A k \in 1 .. Len(ts) : p[k] \in 1 .. Len(us) BY <1>1, <1>2, PositionsOnto
<1>4. ASSUME NEW k \in 1 .. Len(ts) PROVE Unmarked(ts)[k] = Unmarked(us)[p[k]]
  <2>1. p[k] \in 1 .. Len(us) /\ ts[k] = us[p[k]] BY <1>1, <1>3
  <2>2. Unmarked(ts)[k] = Marked(ts[k], FALSE) BY UnmarkedList
  <2>3. Unmarked(us)[p[k]] = Marked(us[p[k]], FALSE) BY <2>1, UnmarkedList
  <2> QED BY <2>1, <2>2, <2>3
<1>5. Len(Unmarked(ts)) = Len(ts) /\ Len(Unmarked(us)) = Len(us) BY UnmarkedList
<1> QED BY <1>1, <1>2, <1>4, <1>5 DEF Rearranged

(* A mark set or taken away is no difference without the marks. *)
LEMMA UnmarkedReplaced ==
  ASSUME NEW ts \in Seq(Task), NEW id \in 1 .. Len(ts), NEW flag \in BOOLEAN
  PROVE  Unmarked(Replaced(ts, id, Marked(ts[id], flag))) = Unmarked(ts)
<1> DEFINE us == Replaced(ts, id, Marked(ts[id], flag))
<1>1. Len(ts) \in Nat /\ \A i \in 1 .. Len(ts) : ts[i] \in Task BY ElementOfSeq
<1>2. Marked(ts[id], flag) \in Task BY <1>1, MarkedFields
<1>3. /\ us \in Seq(Task) /\ Len(us) = Len(ts)
      /\ \A i \in 1 .. Len(ts) : us[i] = IF i = id THEN Marked(ts[id], flag) ELSE ts[i]
  BY <1>2, ExceptSeq DEF Replaced
<1> HIDE DEF us
<1>4. ASSUME NEW i \in 1 .. Len(ts) PROVE Marked(us[i], FALSE) = Marked(ts[i], FALSE)
  <2>1. ts[i] \in Task BY <1>1
  <2>2. FALSE \in BOOLEAN OBVIOUS
  <2>3. Marked(Marked(ts[i], flag), FALSE) = Marked(ts[i], FALSE)
    BY <2>1, <2>2 DEF Marked, Task
  <2> QED BY <1>3, <2>3
<1>5. [i \in 1 .. Len(us) |-> Marked(us[i], FALSE)] = [i \in 1 .. Len(ts) |-> Marked(ts[i], FALSE)]
  BY <1>3, <1>4
<1> QED BY <1>5 DEF Unmarked, Marked, us

(* Marking a task leaves all but the marks. *)
LEMMA MarkingKeeps ==
  ASSUME NEW ts \in Seq(Task), NEW id \in 1 .. Len(ts), NEW flag \in BOOLEAN,
         NEW time \in Nat
  PROVE  Rearranged(Unmarked(EditTask(ts, id, Marked(ts[id], flag), time)), Unmarked(ts))
<1> DEFINE us == Replaced(ts, id, Marked(ts[id], flag))
<1>1. ts[id] \in Task BY ElementOfSeq
<1>2. Marked(ts[id], flag) \in Task BY <1>1, MarkedFields
<1>3. us \in Seq(Task) BY <1>2, ExceptSeq DEF Replaced
<1>4. Unmarked(us) = Unmarked(ts) BY UnmarkedReplaced
<1> HIDE DEF us
<1>5. Rearranged(Renumber(us, time), us) /\ Renumber(us, time) \in Seq(Task)
  BY <1>3, RenumberRearranges, RenumberKeepsTasks
<1>6. Rearranged(Unmarked(Renumber(us, time)), Unmarked(us)) BY <1>3, <1>5, UnmarkedRearranged
<1> QED BY <1>4, <1>6 DEF EditTask, us

(* A removal takes no more than one task. *)
LEMMA RemovedLength ==
  ASSUME NEW ts \in Seq(Task), NEW id \in Nat, NEW time \in Nat
  PROVE  Len(ts) <= Len(RemoveTask(ts, id, time)) + 1
<1> DEFINE us == IF IsId(ts, id) THEN RemoveAt(ts, id) ELSE ts
<1>1. us \in Seq(Task) /\ Len(ts) <= Len(us) + 1
  <2>1. CASE IsId(ts, id)
    <3>1. RemoveAt(ts, id) \in Seq(Task) /\ Len(RemoveAt(ts, id)) = Len(ts) - 1
      BY <2>1, RemovedAt DEF IsId
    <3>2. Len(ts) \in Nat OBVIOUS
    <3> QED BY <2>1, <3>1, <3>2
  <2>2. CASE ~IsId(ts, id)
    <3>1. Len(ts) \in Nat OBVIOUS
    <3> QED BY <2>2, <3>1
  <2> QED BY <2>1, <2>2
<1> HIDE DEF us
<1>2. Len(Renumber(us, time)) = Len(us) BY <1>1, RenumberKeepsTasks
<1> QED BY <1>1, <1>2 DEF RemoveTask, us
(* A search has every position it selects. *)
LEMMA EnumerationMeetsAll ==
  ASSUME NEW n \in Nat, NEW P \in SUBSET (1 .. n)
  PROVE  \A i \in P : \E k \in 1 .. Cardinality(P) : Enumeration(P)[k] = i
<1> DEFINE c == Cardinality(P)
           f == [k \in 1 .. c |-> Enumeration(P)[k]]
<1>1. /\ c \in Nat /\ \A k \in 1 .. c : Enumeration(P)[k] \in P
      /\ \A k, l \in 1 .. c : Enumeration(P)[k] = Enumeration(P)[l] => k = l
  BY EnumerationOneToOne
<1>2. IsFiniteSet(P) BY FinitePositions
<1> HIDE DEF c
<1>3. Cardinality(1 .. c) = c
  <2>1. 1 \in Int /\ c \in Int BY <1>1
  <2>2. Cardinality(1 .. c) = IF 1 > c THEN 0 ELSE c - 1 + 1 BY <2>1, FS_Interval
  <2> QED BY <1>1, <2>2
<1>4. f \in Injection(1 .. c, P) BY <1>1 DEF Injection, IsInjective
<1>5. f \in Surjection(1 .. c, P) BY <1>2, <1>3, <1>4, FS_Injection DEF c
<1> QED BY <1>5 DEF Surjection, c

(* What a clear keeps is each task that is not done as often as it was there. *)
LEMMA ClearKeepsUndone ==
  ASSUME NEW L \in Seq(Task)
  PROVE  LET old == GetTasks(L)
             olds == [k \in 1 .. Len(old) |-> old[k].task]
         IN  /\ olds \in Seq(Task)
             /\ \A t \in Task : Copies(t, olds) = IF t.done THEN 0 ELSE Copies(t, L)
<1> DEFINE n == Len(L)
           P == Undone(L)
           c == Cardinality(P)
           E == Enumeration(P)
           found == [k \in 1 .. c |-> [number |-> E[k], task |-> L[E[k]]]]
           Found == [number : 1 .. n, task : Task]
           old == GetTasks(L)
           olds == [k \in 1 .. Len(old) |-> old[k].task]
<1>1. /\ n \in Nat /\ P \in SUBSET (1 .. n) /\ \A i \in 1 .. n : L[i] \in Task
      /\ \A i \in 1 .. n : i \in P <=> ~L[i].done
  BY ElementOfSeq DEF Undone
<1>2. old = <<>> \o found BY DEF GetTasks, Search
<1>3. DOMAIN L = 1 .. n OBVIOUS
<1> HIDE DEF P, n
<1>4. /\ c \in Nat /\ \A k \in 1 .. c : E[k] \in P
      /\ \A k, l \in 1 .. c : E[k] = E[l] => k = l
  BY <1>1, EnumerationOneToOne
<1>5. \A i \in P : \E k \in 1 .. c : E[k] = i BY <1>1, EnumerationMeetsAll
<1> HIDE DEF c, E
<1>6. found \in Seq(Found) /\ Len(found) = c
  <2>1. found \in [1 .. c -> Found] BY <1>1, <1>4
  <2> HIDE DEF found, Found
  <2>2. found \in Seq(Found) BY <1>4, <2>1, SeqDef
  <2> QED BY <1>4, <2>1, <2>2, LenProperties
<1>7. \A k \in 1 .. c : found[k].task = L[E[k]] OBVIOUS
<1> HIDE DEF found, Found
<1>8. old = found BY <1>2, <1>6, ConcatEmptySeq
<1> HIDE DEF old
<1>9. olds = [k \in 1 .. c |-> L[E[k]]] BY <1>6, <1>7, <1>8
<1>10. olds \in Seq(Task) /\ DOMAIN olds = 1 .. c /\ \A k \in 1 .. c : olds[k] = L[E[k]]
  <2>1. olds \in [1 .. c -> Task] BY <1>1, <1>4, <1>9
  <2>2. \A k \in 1 .. c : olds[k] = L[E[k]] BY <1>9
  <2>3. DOMAIN olds = 1 .. c BY <1>9
  <2> HIDE DEF olds
  <2> QED BY <1>4, <2>1, <2>2, <2>3, SeqDef
<1> HIDE DEF olds
<1>11. ASSUME NEW t \in Task PROVE Copies(t, olds) = IF t.done THEN 0 ELSE Copies(t, L)
  <2> DEFINE K == {k \in 1 .. c : olds[k] = t}
             I == {i \in 1 .. n : L[i] = t}
             f == [k \in K |-> E[k]]
  <2>1. Copies(t, olds) = Cardinality(K) /\ Copies(t, L) = Cardinality(I)
    BY <1>3, <1>10 DEF Copies
  <2>2. CASE t.done
    <3>1. ASSUME NEW k \in 1 .. c PROVE olds[k] # t
      <4>1. E[k] \in P /\ olds[k] = L[E[k]] BY <1>4, <1>10
      <4>2. ~L[E[k]].done BY <1>1, <4>1
      <4> QED BY <2>2, <4>1, <4>2
    <3>2. K = {} BY <3>1
    <3> HIDE DEF K
    <3> QED BY <2>1, <2>2, <3>2, FS_EmptySet
  <2>3. CASE ~t.done
    <3>1. \A k \in K : E[k] \in I BY <1>1, <1>4, <1>10
    <3>2. \A i \in I : \E k \in K : E[k] = i
      <4>1. ASSUME NEW i \in I PROVE \E k \in K : E[k] = i
        <5>1. i \in P /\ L[i] = t BY <1>1, <2>3
        <5>2. PICK k \in 1 .. c : E[k] = i BY <1>5, <5>1
        <5>3. k \in K BY <1>10, <5>1, <5>2
        <5> QED BY <5>2, <5>3
      <4> QED BY <4>1
    <3>3. \A k, l \in K : E[k] = E[l] => k = l BY <1>4
    <3>4. K \subseteq 1 .. c OBVIOUS
    <3>5. IsFiniteSet(K) BY <1>4, <3>4, FinitePositions
    <3> HIDE DEF K, I
    <3>6. f \in Bijection(K, I)
      BY <3>1, <3>2, <3>3 DEF Bijection, Injection, Surjection, IsInjective
    <3>7. ExistsBijection(K, I) BY <3>6 DEF ExistsBijection
    <3>8. Cardinality(I) = Cardinality(K) BY <3>5, <3>7, FS_Bijection
    <3> QED BY <2>1, <2>3, <3>8
  <2> QED BY <2>2, <2>3
<1> QED BY <1>10, <1>11 DEF olds, old

-----------------------------------------------------------------------------
(* How many of the first n parts were made for a task: one more or none. *)
LEMMA NamedMore ==
  ASSUME NEW t, NEW ps, NEW n \in Nat
  PROVE  /\ Named(t, ps, n) \in Nat /\ Named(t, ps, 0) = 0
         /\ n > 0 => Named(t, ps, n) = Named(t, ps, n - 1) + IF ps[n].task = t THEN 1 ELSE 0
<1> DEFINE Is(m) == Named(t, ps, m)
<1>1. \A m \in Nat : IsFiniteSet({k \in 1 .. m : ps[k].task = t}) /\ Is(m) \in Nat
  BY FinitePositions DEF Named
<1>2. {k \in 1 .. 0 : ps[k].task = t} = {} OBVIOUS
<1>3. Is(0) = 0 BY <1>2, FS_EmptySet DEF Named
<1>4. ASSUME n > 0 PROVE Is(n) = Is(n - 1) + IF ps[n].task = t THEN 1 ELSE 0
  <2> DEFINE K == {k \in 1 .. n - 1 : ps[k].task = t}
             J == {k \in 1 .. n : ps[k].task = t}
  <2>1. n - 1 \in Nat /\ n \notin K BY <1>4
  <2>2. IsFiniteSet(K) /\ Cardinality(K) \in Nat
    BY <1>1, <2>1 DEF Named
  <2>3. J = IF ps[n].task = t THEN K \cup {n} ELSE K BY <1>4
  <2>4. Is(n) = Cardinality(J) /\ Is(n - 1) = Cardinality(K) BY DEF Named
  <2> HIDE DEF K, J, Is
  <2>5. Cardinality(K \cup {n}) = Cardinality(K) + 1 BY <2>1, <2>2, FS_AddElement
  <2> QED BY <2>2, <2>3, <2>4, <2>5
<1> QED BY <1>1, <1>3, <1>4

(* It is their tasks alone that count. *)
LEMMA NamedSame ==
  ASSUME NEW t, NEW ps, NEW qs, NEW n \in Nat, \A k \in 1 .. n : qs[k].task = ps[k].task
  PROVE  Named(t, qs, n) = Named(t, ps, n)
<1>1. {k \in 1 .. n : qs[k].task = t} = {k \in 1 .. n : ps[k].task = t} OBVIOUS
<1> QED BY <1>1 DEF Named
-----------------------------------------------------------------------------
(* A command is of one kind, and a clear is one part. *)
Has(ps, kind) == \E k \in 1 .. Len(ps) : ps[k].kind = kind

Uniform(ps) ==
  /\ \A k, l \in 1 .. Len(ps) : ps[k].kind = ps[l].kind
  /\ Has(ps, "clear") => Len(ps) = 1

Keeps(olds, before) ==
  \A t \in Task : Copies(t, olds) = IF t.done THEN 0 ELSE Copies(t, before)

(* What the first n parts of a command have made of a list when they ran. *)
Forth(ps, n, before, after) ==
  /\ before \in Seq(Task) /\ after \in Seq(Task)
  /\ Has(ps, "remove") => Len(before) <= Len(after) + n
  /\ Has(ps, "done") => Rearranged(Unmarked(after), Unmarked(before))
  /\ Has(ps, "clear") => IF n = 0 THEN after = before
                         ELSE after = <<>> /\ Keeps(ps[1].olds, before)

(* And what undoing all but the first n of them has, when some tasks are still to
   be added. *)
Back(ps, n, from, to, rest) ==
  /\ from \in Seq(Task) /\ to \in Seq(Task)
  /\ Has(ps, "remove") =>
       /\ Len(to) + n = Len(from) + Len(ps)
       /\ \A t \in Task : Copies(t, to) + Named(t, ps, n)
                            = Copies(t, from) + Named(t, ps, Len(ps))
  /\ Has(ps, "done") => Rearranged(Unmarked(to), Unmarked(from))
  /\ Has(ps, "clear") =>
       IF ps[1].ran THEN to = from
       ELSE Rearranged(to \o rest, from \o ps[1].olds) /\ (n = 0 => rest = <<>>)

(* Parts that are of the same kinds one by one. *)
Alike(ps, qs) ==
  /\ Len(qs) = Len(ps)
  /\ \A k \in 1 .. Len(ps) : qs[k].kind = ps[k].kind

(* Such parts are of one kind together, or not. *)
LEMMA AlikeKinds ==
  ASSUME NEW ps, NEW qs, Alike(ps, qs)
  PROVE  /\ \A kind : Has(qs, kind) <=> Has(ps, kind)
         /\ Uniform(ps) => Uniform(qs)
BY DEF Alike, Has, Uniform

(* A list of parts of a kind is all of that kind. *)
LEMMA OfOneKind ==
  ASSUME NEW ps, Uniform(ps), NEW k \in 1 .. Len(ps), NEW kind
  PROVE  /\ Has(ps, kind) <=> ps[k].kind = kind
         /\ ps[k].kind = "clear" => k = 1 /\ Len(ps) = 1
BY DEF Has, Uniform

(* What is made at the keyboard is of one kind. *)
LEMMA MadeUniform ==
  ASSUME NEW c, NEW ts, Made(c, ts)
  PROVE  Uniform(c.parts)
<1>1. CASE Single(c) BY <1>1 DEF Single, Uniform, Has
<1>2. CASE Removes(c, ts) BY <1>2 DEF Removes, Uniform, Has
<1>3. ASSUME NEW flag \in BOOLEAN, Marks(c, flag) PROVE Uniform(c.parts)
  BY <1>3 DEF Marks, Uniform, Has
<1> QED BY <1>1, <1>2, <1>3 DEF Made

(* A part is replaced by one of its kind. *)
LEMMA PartAlike ==
  ASSUME NEW c \in Command, NEW i \in 1 .. Len(c.parts), NEW q \in Part,
         q.kind = c.parts[i].kind
  PROVE  LET ps == [c EXCEPT !.parts[i] = q].parts
         IN  /\ Alike(c.parts, ps) /\ ps[i] = q /\ Len(ps) = Len(c.parts)
             /\ \A k \in 1 .. Len(c.parts) : k # i => ps[k] = c.parts[k]
BY PartReplaced DEF Alike

(* A part that is run takes the command one part further. *)
LEMMA ForthRan ==
  ASSUME TypeInv, RunPart, Uniform(cmd.parts), Forth(cmd.parts, at - 1, doc, tasks),
         UNCHANGED doc
  PROVE  Uniform(cmd'.parts) /\ Forth(cmd'.parts, at' - 1, doc', tasks')
<1>1. /\ at \in 1 .. Len(cmd.parts) /\ at' = at + 1 /\ cmd \in Command
      /\ Len(cmd.parts) \in Nat /\ tasks \in Seq(Task) /\ now \in Nat /\ doc \in Seq(Task)
  BY PartRan, CommandFields, NowIsNat DEF TypeInv, TypeOK, Forth
<1>2. PICK q \in Part : q.kind = part.kind /\ cmd' = [cmd EXCEPT !.parts[at] = q]
  BY RanPart
<1> DEFINE ps == cmd.parts
           qs == cmd'.parts
<1>3. Alike(ps, qs) /\ qs[at] = q /\ Len(qs) = Len(ps)
  BY <1>1, <1>2, PartAlike DEF part
<1>4. /\ \A kind : Has(qs, kind) <=> Has(ps, kind)
      /\ Uniform(qs)
  BY <1>3, AlikeKinds
<1>5. tasks' \in Seq(Task) BY RunPartTypes DEF ListOK
<1>6. /\ \A kind : Has(ps, kind) <=> part.kind = kind
      /\ part.kind = "clear" => at = 1 /\ Len(ps) = 1
  BY <1>1, OfOneKind DEF part
<1>7. /\ at' - 1 = (at - 1) + 1 /\ at' - 1 # 0 /\ doc' = doc BY <1>1
<1>8. ASSUME Has(qs, "remove") PROVE Len(doc) <= Len(tasks') + (at' - 1)
  <2>1. RunRemove /\ part.kind = "remove" BY <1>4, <1>6, <1>8, RunsItsKind
  <2>2. part.id \in Nat
    <3>1. part \in Part BY <2>1, RunningPart DEF RunRemove
    <3> QED BY <2>1, <3>1, PartFields
  <2>3. tasks' = RemoveTask(tasks, part.id, now) BY <2>1 DEF RunRemove
  <2>4. Len(tasks) <= Len(tasks') + 1 BY <1>1, <2>2, <2>3, RemovedLength
  <2>5. Len(doc) <= Len(tasks) + (at - 1) BY <1>4, <1>8 DEF Forth
  <2>6. Len(doc) \in Nat /\ Len(tasks) \in Nat /\ Len(tasks') \in Nat BY <1>1, <1>5
  <2> QED BY <1>1, <2>4, <2>5, <2>6
<1>9. ASSUME Has(qs, "done") PROVE Rearranged(Unmarked(tasks'), Unmarked(doc))
  <2>1. RunDone /\ part.kind = "done" BY <1>4, <1>6, <1>9, RunsItsKind
  <2>2. part \in Part /\ part.flag \in BOOLEAN
    <3>1. part \in Part BY <2>1, RunningPart DEF RunDone
    <3> QED BY <2>1, <3>1, PartFields
  <2>3. part.id \in 1 .. Len(tasks) BY <2>1 DEF RunDone, IsId
  <2>4. tasks' = EditTask(tasks, part.id, Marked(tasks[part.id], part.flag), now)
    BY <2>1 DEF RunDone, SetDone, Marked
  <2>5. Rearranged(Unmarked(tasks'), Unmarked(tasks)) BY <1>1, <2>2, <2>3, <2>4, MarkingKeeps
  <2>6. Rearranged(Unmarked(tasks), Unmarked(doc)) BY <1>4, <1>9 DEF Forth
  <2> QED BY <1>1, <1>5, <2>5, <2>6, UnmarkedList, RearrangedTwice
<1>10. ASSUME Has(qs, "clear") PROVE tasks' = <<>> /\ Keeps(qs[1].olds, doc)
  <2>1. RunClear /\ part.kind = "clear" BY <1>4, <1>6, <1>10, RunsItsKind
  <2>2. tasks = doc BY <1>1, <1>4, <1>6, <1>10, <2>1 DEF Forth
  <2> DEFINE old == GetTasks(tasks)
             olds == [k \in 1 .. Len(old) |-> old[k].task]
  <2>3. Ran([part EXCEPT !.olds = olds]) /\ tasks' = <<>> BY <2>1 DEF RunClear
  <2>4. olds \in Seq(Task) /\ Keeps(olds, tasks) BY <1>1, ClearKeepsUndone DEF Keeps
  <2> HIDE DEF olds
  <2>5. part \in Part BY <2>1, RunningPart DEF RunClear
  <2>6. qs[at].olds = olds
    <3>1. [part EXCEPT !.olds = olds].olds = olds BY <2>1, <2>5 DEF Part
    <3>2. [part EXCEPT !.olds = olds] \in Part BY <2>1, <2>4, <2>5, PartUpdates
    <3> DEFINE r == [part EXCEPT !.olds = olds]
    <3>3. r.kind = "clear" BY <2>1, <2>5 DEF Part
    <3> HIDE DEF r
    <3>4. cmd' = [cmd EXCEPT !.parts[at] = [r EXCEPT !.ran = TRUE]] BY <2>3 DEF Ran, r
    <3>5. [r EXCEPT !.ran = TRUE] \in Part /\ [r EXCEPT !.ran = TRUE].olds = r.olds
      BY <3>2, <3>3, PartUpdates DEF r, Part
    <3>6. qs[at] = [r EXCEPT !.ran = TRUE] BY <1>1, <3>4, <3>5, PartReplaced
    <3> QED BY <3>1, <3>5, <3>6 DEF r
  <2> QED BY <1>6, <2>1, <2>2, <2>3, <2>4, <2>6
<1>11. Forth(qs, at' - 1, doc, tasks')
  BY <1>1, <1>5, <1>7, <1>8, <1>9, <1>10 DEF Forth
<1> QED BY <1>4, <1>7, <1>11
(* A part that is undone is put back of its kind, with the task it was made for
   and the tasks it keeps. *)
LEMMA UndonePart ==
  ASSUME TypeInv, UndoPart
  PROVE  \E q \in Part :
           /\ q.kind = part.kind
           /\ q.kind = "remove" => q.task = part.task
           /\ q.kind = "clear" => q.olds = part.olds
           /\ cmd' = [cmd EXCEPT !.parts[at] = q]
<1>0. cmd \in Command /\ at \in 1 .. Len(cmd.parts) BY PartUndone DEF TypeInv, TypeOK
<1>1. ASSUME NEW p \in Part, Undid(p), p.kind = part.kind,
             p.kind = "remove" => p.task = part.task,
             p.kind = "clear" => p.olds = part.olds
      PROVE  \E q \in Part :
               /\ q.kind = part.kind
               /\ q.kind = "remove" => q.task = part.task
               /\ q.kind = "clear" => q.olds = part.olds
               /\ cmd' = [cmd EXCEPT !.parts[at] = q]
  <2> DEFINE q == [p EXCEPT !.ran = FALSE]
  <2>1. FALSE \in BOOLEAN OBVIOUS
  <2>2. q \in Part /\ q.kind = p.kind BY <2>1, PartUpdates
  <2>3. /\ q.kind = "remove" => q.task = p.task
        /\ q.kind = "clear" => q.olds = p.olds
    BY DEF Part
  <2>4. cmd' = [cmd EXCEPT !.parts[at] = q] BY <1>1 DEF Undid
  <2> HIDE DEF q
  <2> QED BY <1>1, <2>2, <2>3, <2>4
<1>2. ASSUME NEW kind, Undoing(kind) PROVE part \in Part /\ part.kind = kind
  BY <1>2, UndoingPart
<1>3. CASE UndoAdd \/ UndoRemove \/ UndoEdit \/ UndoClearShow
  <2>1. part \in Part /\ Undid(part)
    BY <1>2, <1>3 DEF UndoAdd, UndoRemove, UndoEdit, UndoClearShow
  <2> QED BY <1>1, <2>1
<1>4. CASE UndoDone
  <2> DEFINE id == EditedId(tasks, part.id, Marked(tasks[part.id], ~part.flag), now)
             p == [part EXCEPT !.id = id]
  <2>1. Undoing("done") /\ IsId(tasks, part.id) BY <1>4 DEF UndoDone
  <2>2. Undid(p)
    <3>1. job = "undo" BY <2>1 DEF Undoing
    <3> QED BY <1>4, <3>1 DEF UndoDone, SetDone, Marked
  <2>3. part \in Part /\ part.kind = "done" BY <1>2, <2>1
  <2>4. id \in Nat
    <3>1. tasks \in Seq(Task) /\ now \in Nat BY NowIsNat DEF TypeInv, TypeOK
    <3>2. part.id \in 1 .. Len(tasks) BY <2>1 DEF IsId
    <3>3. tasks[part.id] \in Task /\ (~part.flag) \in BOOLEAN
      BY <2>3, <3>1, <3>2, PartFields, ElementOfSeq
    <3>4. Marked(tasks[part.id], ~part.flag) \in Task BY <3>3, MarkedFields
    <3> QED BY <3>1, <3>2, <3>4, EditTaskResult
  <2> HIDE DEF id
  <2>5. p \in Part BY <2>3, <2>4, PartUpdates
  <2>6. p.kind = "done" BY <2>3 DEF Part
  <2> HIDE DEF p
  <2> QED BY <1>1, <2>2, <2>3, <2>5, <2>6
<1>5. CASE UndoClear
  <2> DEFINE q == [part EXCEPT !.ran = FALSE]
  <2>1. part \in Part /\ part.kind = "clear" BY <1>2, <1>5 DEF UndoClear
  <2>2. cmd' = [cmd EXCEPT !.parts[at].ran = FALSE] BY <1>5 DEF UndoClear
  <2>3. cmd' = [cmd EXCEPT !.parts[at] = q] BY <1>0, <2>2 DEF part, Command
  <2>4. FALSE \in BOOLEAN OBVIOUS
  <2>5. q \in Part /\ q.kind = "clear" BY <2>1, <2>4, PartUpdates
  <2>6. q.olds = part.olds BY <2>1 DEF Part
  <2> HIDE DEF q
  <2> QED BY <2>1, <2>3, <2>5, <2>6
<1>6. CASE UndoClearAdd
  <2>1. part \in Part /\ part.kind = "clear" /\ cmd' = cmd
    BY <1>2, <1>6 DEF UndoClearAdd
  <2>2. cmd' = [cmd EXCEPT !.parts[at] = part] BY <1>0, <2>1 DEF part, Command
  <2> QED BY <2>1, <2>2
<1> QED BY <1>3, <1>4, <1>5, <1>6 DEF UndoPart

(* What a command has done to a list is not told otherwise while it is undone. *)
LEMMA ForthAlike ==
  ASSUME NEW ps, NEW qs, Alike(ps, qs), Has(ps, "clear") => qs[1].olds = ps[1].olds,
         NEW n, NEW before, NEW after, Forth(ps, n, before, after)
  PROVE  Forth(qs, n, before, after)
BY AlikeKinds DEF Forth

(* The first task of what is to come is the last of what there is. *)
LEMMA HeadMoved ==
  ASSUME NEW S, NEW ts \in Seq(S), NEW us \in Seq(S), us # <<>>
  PROVE  Append(ts, Head(us)) \o Tail(us) = ts \o us
<1>1. Len(ts) \in Nat /\ Len(us) \in Nat /\ Len(us) >= 1 BY EmptySeq
<1> QED BY <1>1

(* The undo of a clear: the tasks to add are those it kept, one is added after
   the other, and when none is left it is done. *)
LEMMA BackCleared ==
  ASSUME TypeInv, UndoPart, Uniform(cmd.parts), Has(cmd.parts, "clear"),
         Back(cmd.parts, at, doc, tasks, readd),
         NEW q \in Part, cmd' = [cmd EXCEPT !.parts[at] = q], q.kind = "clear",
         q.olds = part.olds
  PROVE  IF cmd'.parts[1].ran THEN tasks' = doc
         ELSE /\ Rearranged(tasks' \o readd', doc \o cmd'.parts[1].olds)
              /\ at' = 0 => readd' = <<>>
<1>1. /\ cmd \in Command /\ at \in 1 .. Len(cmd.parts) /\ tasks \in Seq(Task)
      /\ readd \in Seq(Task) /\ now \in Nat /\ doc \in Seq(Task) /\ Len(cmd.parts) \in Nat
  BY PartUndone, NowIsNat, CommandFields DEF TypeInv, TypeOK, Back
<1>2. part.kind = "clear" /\ at = 1
  BY <1>1, OfOneKind DEF part
<1>3. part \in Part /\ part.olds \in Seq(Task) /\ part = cmd.parts[1]
  BY <1>1, <1>2, CommandFields, PartFields DEF part
<1>4. cmd'.parts[1] = q BY <1>1, <1>2, PartReplaced
<1>5. IF part.ran THEN tasks = doc ELSE Rearranged(tasks \o readd, doc \o part.olds)
  BY <1>3 DEF Back
<1>6. doc \o part.olds \in Seq(Task) BY <1>1, <1>3, ConcatProperties
<1>7. UndoClear \/ UndoClearAdd \/ UndoClearShow
  <2>1. ASSUME NEW kind, Undoing(kind) PROVE kind = "clear"
    BY <1>2, <2>1 DEF Undoing, part
  <2> QED BY <2>1 DEF UndoPart, UndoAdd, UndoRemove, UndoEdit, UndoDone
<1>8. CASE UndoClear
  <2>1. part.ran /\ readd' = part.olds /\ tasks' = tasks /\ at' = at
    BY <1>8 DEF UndoClear, storageVars
  <2>2. Rearranged(tasks \o part.olds, doc \o part.olds)
    BY <1>5, <1>6, <2>1, RearrangedSelf
  <2>3. ~q.ran
    <3>1. cmd' = [cmd EXCEPT !.parts[at].ran = FALSE] BY <1>8 DEF UndoClear
    <3>2. cmd'.parts[1].ran = FALSE BY <1>1, <1>2, <1>3, <3>1 DEF Command, Part
    <3> QED BY <1>4, <3>2
  <2> QED BY <1>2, <1>4, <2>1, <2>2, <2>3
<1>9. CASE UndoClearAdd
  <2> DEFINE t == Head(readd)
             rest == Tail(readd)
             more == Append(tasks, t)
  <2>1. /\ ~part.ran /\ readd # <<>> /\ readd' = rest /\ cmd' = cmd /\ at' = at
        /\ tasks' = Renumber(more, now)
    BY <1>9 DEF UndoClearAdd, AddTask, Pushed
  <2>2. t \in Task /\ rest \in Seq(Task) /\ more \in Seq(Task)
    BY <1>1, <2>1, HeadTailProperties, AppendProperties
  <2>3. more \o rest = tasks \o readd BY <1>1, <2>1, HeadMoved
  <2> HIDE DEF t, rest, more
  <2>4. Rearranged(tasks', more) /\ tasks' \in Seq(Task)
    BY <1>1, <2>1, <2>2, RenumberRearranges, RenumberKeepsTasks
  <2>5. Rearranged(tasks' \o rest, more \o rest) BY <2>2, <2>4, ConcatBoth
  <2>6. tasks' \o rest \in Seq(Task) /\ more \o rest \in Seq(Task)
    BY <2>2, <2>4, ConcatProperties
  <2>7. Rearranged(tasks' \o rest, doc \o part.olds)
    BY <1>5, <1>6, <2>1, <2>3, <2>5, <2>6, RearrangedTwice
  <2>8. cmd'.parts[1] = part /\ at' # 0
    <3>1. cmd'.parts[1] = cmd.parts[1] BY <2>1
    <3> QED BY <1>2, <1>3, <2>1, <3>1
  <2> QED BY <2>1, <2>7, <2>8
<1>10. CASE UndoClearShow
  <2>1. /\ ~part.ran /\ readd = <<>> /\ readd' = readd /\ tasks' = tasks /\ Undid(part)
    BY <1>10 DEF UndoClearShow
  <2>2. ~q.ran
    <3>1. cmd' = [cmd EXCEPT !.parts[at] = [part EXCEPT !.ran = FALSE]] BY <2>1 DEF Undid
    <3>2. cmd'.parts[1].ran = FALSE BY <1>1, <1>2, <1>3, <3>1 DEF Command, Part
    <3> QED BY <1>4, <3>2
  <2> QED BY <1>4, <1>5, <2>1, <2>2
<1> QED BY <1>7, <1>8, <1>9, <1>10

(* A part that is undone takes the command one part back. *)
LEMMA BackUndone ==
  ASSUME TypeInv, UndoPart, Uniform(cmd.parts), Back(cmd.parts, at, doc, tasks, readd),
         UNCHANGED doc
  PROVE  /\ Uniform(cmd'.parts) /\ Back(cmd'.parts, at', doc', tasks', readd')
         /\ Len(cmd'.parts) = Len(cmd.parts)
         /\ \A before, after : Forth(cmd.parts, Len(cmd.parts), before, after)
                                 => Forth(cmd'.parts, Len(cmd.parts), before, after)
<1>1. /\ at \in 1 .. Len(cmd.parts) /\ cmd \in Command /\ job = "undo"
      /\ Len(cmd.parts) \in Nat /\ tasks \in Seq(Task) /\ now \in Nat /\ doc \in Seq(Task)
  BY PartUndone, CommandFields, NowIsNat DEF TypeInv, TypeOK, Back
<1>2. PICK q \in Part : /\ q.kind = part.kind
                        /\ q.kind = "remove" => q.task = part.task
                        /\ q.kind = "clear" => q.olds = part.olds
                        /\ cmd' = [cmd EXCEPT !.parts[at] = q]
  BY UndonePart
<1> DEFINE ps == cmd.parts
           qs == cmd'.parts
<1>3. /\ Alike(ps, qs) /\ qs[at] = q /\ Len(qs) = Len(ps)
      /\ \A k \in 1 .. Len(ps) : k # at => qs[k] = ps[k]
  BY <1>1, <1>2, PartAlike DEF part
<1>4. /\ \A kind : Has(qs, kind) <=> Has(ps, kind)
      /\ Uniform(qs)
  BY <1>3, AlikeKinds
<1>5. tasks' \in Seq(Task) BY UndoPartTypes DEF ListOK
<1>6. /\ \A kind : Has(ps, kind) <=> part.kind = kind
      /\ part.kind = "clear" => at = 1 /\ Len(ps) = 1
  BY <1>1, OfOneKind DEF part
<1>7. ASSUME NEW kind, Undoing(kind) PROVE kind = part.kind
  BY <1>7 DEF Undoing, part
<1>8. ASSUME Has(qs, "remove")
      PROVE  /\ Len(tasks') + at' = Len(doc) + Len(qs)
             /\ \A t \in Task : Copies(t, tasks') + Named(t, qs, at')
                                  = Copies(t, doc) + Named(t, qs, Len(qs))
  <2>1. UndoRemove /\ part.kind = "remove"
    BY <1>4, <1>6, <1>7, <1>8
    DEF UndoPart, UndoAdd, UndoEdit, UndoDone, UndoClear, UndoClearAdd, UndoClearShow
  <2>2. part.task \in Task
    <3>1. part \in Part BY <2>1, UndoingPart DEF UndoRemove
    <3> QED BY <2>1, <3>1, PartFields
  <2>3. tasks' = AddTask(tasks, part.task, now) /\ at' = at - 1
    BY <2>1 DEF UndoRemove, Undid
  <2>4. Len(tasks') = Len(tasks) + 1 BY <1>1, <2>2, <2>3, AddTaskResult
  <2>5. /\ Len(tasks) + at = Len(doc) + Len(ps)
        /\ \A t \in Task : Copies(t, tasks) + Named(t, ps, at)
                             = Copies(t, doc) + Named(t, ps, Len(ps))
    BY <1>4, <1>8 DEF Back
  <2>6. ASSUME NEW t \in Task
        PROVE  Copies(t, tasks') + Named(t, qs, at') = Copies(t, doc) + Named(t, qs, Len(qs))
    <3>1. Copies(t, tasks') = Copies(t, tasks) + IF part.task = t THEN 1 ELSE 0
      BY <1>1, <2>2, <2>3, CopiesAdded
    <3>2. \A k \in 1 .. Len(ps) : qs[k].task = ps[k].task
      BY <1>2, <1>3, <2>1 DEF part
    <3>3. Named(t, qs, Len(qs)) = Named(t, ps, Len(ps))
      BY <1>1, <1>3, <3>2, NamedSame
    <3>4. Named(t, qs, at - 1) = Named(t, ps, at - 1)
      <4>1. at - 1 \in Nat /\ \A k \in 1 .. at - 1 : qs[k].task = ps[k].task
        BY <1>1, <3>2
      <4> HIDE DEF ps, qs
      <4> QED BY <4>1, NamedSame
    <3>5. Named(t, ps, at) = Named(t, ps, at - 1) + IF part.task = t THEN 1 ELSE 0
      <4>1. at \in Nat /\ at > 0 BY <1>1
      <4> QED BY <4>1, NamedMore DEF part
    <3>6. /\ Named(t, ps, at - 1) \in Nat /\ Copies(t, tasks) \in Nat /\ Copies(t, doc) \in Nat
          /\ Named(t, ps, Len(ps)) \in Nat
      <4>1. at - 1 \in Nat BY <1>1
      <4> QED BY <1>1, <4>1, NamedMore, CopiesMet
    <3>7. Copies(t, tasks) + Named(t, ps, at) = Copies(t, doc) + Named(t, ps, Len(ps))
      BY <2>5
    <3> HIDE DEF ps, qs
    <3> QED BY <2>3, <3>1, <3>3, <3>4, <3>5, <3>6, <3>7
  <2>7. Len(tasks) \in Nat /\ Len(doc) \in Nat BY <1>1
  <2>8. Len(tasks') + at' = Len(doc) + Len(qs)
    <3>1. Len(qs) = Len(ps) /\ Len(ps) \in Nat /\ at \in Nat BY <1>1, <1>3
    <3> DEFINE a == Len(tasks')
               b == Len(tasks)
    <3>2. a = b + 1 /\ b + at = Len(doc) + Len(ps) /\ b \in Nat /\ at' = at - 1
      BY <2>3, <2>4, <2>5, <2>7
    <3> HIDE DEF ps, qs, a, b
    <3>3. a + at' = Len(doc) + Len(qs) BY <2>7, <3>1, <3>2
    <3> QED BY <3>3 DEF a
  <2> QED BY <2>6, <2>8
<1>9. ASSUME Has(qs, "done") PROVE Rearranged(Unmarked(tasks'), Unmarked(doc))
  <2>1. UndoDone /\ part.kind = "done"
    BY <1>4, <1>6, <1>7, <1>9
    DEF UndoPart, UndoAdd, UndoRemove, UndoEdit, UndoClear, UndoClearAdd, UndoClearShow
  <2>2. part \in Part /\ (~part.flag) \in BOOLEAN
    <3>1. part \in Part BY <2>1, UndoingPart DEF UndoDone
    <3> QED BY <2>1, <3>1, PartFields
  <2>3. part.id \in 1 .. Len(tasks) BY <2>1 DEF UndoDone, IsId
  <2>4. tasks' = EditTask(tasks, part.id, Marked(tasks[part.id], ~part.flag), now)
    BY <2>1 DEF UndoDone, SetDone, Marked
  <2>5. Rearranged(Unmarked(tasks'), Unmarked(tasks)) BY <1>1, <2>2, <2>3, <2>4, MarkingKeeps
  <2>6. Rearranged(Unmarked(tasks), Unmarked(doc)) BY <1>4, <1>9 DEF Back
  <2> QED BY <1>1, <1>5, <2>5, <2>6, UnmarkedList, RearrangedTwice
<1>10. ASSUME Has(qs, "clear")
       PROVE  /\ IF qs[1].ran THEN tasks' = doc
                 ELSE /\ Rearranged(tasks' \o readd', doc \o qs[1].olds)
                      /\ at' = 0 => readd' = <<>>
              /\ qs[1].olds = ps[1].olds
  <2>1. part.kind = "clear" /\ at = 1 BY <1>4, <1>6, <1>10
  <2>2. qs[1].olds = ps[1].olds BY <1>2, <1>3, <2>1 DEF part
  <2> QED BY <1>2, <1>4, <1>10, <2>1, <2>2, BackCleared
<1>11. Back(qs, at', doc, tasks', readd')
  BY <1>1, <1>5, <1>8, <1>9, <1>10 DEF Back
<1>12. \A before, after : Forth(ps, Len(ps), before, after) => Forth(qs, Len(ps), before, after)
  BY <1>3, <1>4, <1>10, ForthAlike
<1> QED BY <1>3, <1>4, <1>11, <1>12
-----------------------------------------------------------------------------
AllUniform(h) == \A k \in 1 .. Len(h) : Uniform(h[k].parts)

(* The command that was the last to run, when nothing has been undone since. *)
LedHere(ps) == Forth(ps, Len(ps), past[Len(past)], doc)

GivesInv ==
  /\ doc \in Seq(Task) /\ past \in Seq(Seq(Task)) /\ future \in Seq(Seq(Task))
  /\ AllUniform(undoHistory) /\ AllUniform(redoHistory) /\ Uniform(cmd.parts)
  /\ job = "none" =>
       /\ doc = tasks
       /\ undoHistory # <<>> /\ future = <<>> =>
            LedHere(undoHistory[Len(undoHistory)].parts)
  /\ job \in {"run", "redo"} => Forth(cmd.parts, at - 1, doc, tasks)
  /\ job = "undo" =>
       /\ Back(cmd.parts, at, doc, tasks, readd)
       /\ future = <<>> => LedHere(cmd.parts)

(* A history with a command of one kind in front. *)
LEMMA UniformAppended ==
  ASSUME NEW h \in Seq(Command), AllUniform(h), NEW c \in Command, Uniform(c.parts)
  PROVE  AllUniform(Limited(Append(h, c)))
BY LimitedAppend DEF AllUniform

(* The newest command of a history, and the history without it. *)
LEMMA UniformShorter ==
  ASSUME NEW h \in Seq(Command), h # <<>>, AllUniform(h)
  PROVE  /\ AllUniform(SubSeq(h, 1, Len(h) - 1)) /\ Uniform(h[Len(h)].parts)
         /\ h[Len(h)] \in Command
<1>1. /\ Len(h) \in Nat \ {0} /\ h[Len(h)] \in Command
      /\ Len(SubSeq(h, 1, Len(h) - 1)) = Len(h) - 1
      /\ \A k \in 1 .. Len(h) - 1 : SubSeq(h, 1, Len(h) - 1)[k] = h[k]
  BY Shortened
<1>2. Len(h) \in 1 .. Len(h) /\ \A k \in 1 .. Len(h) - 1 : k \in 1 .. Len(h) BY <1>1
<1> QED BY <1>1, <1>2 DEF AllUniform

(* The newest of a history is what was put in front of it. *)
LEMMA NewestLimited ==
  ASSUME NEW S, NEW s \in Seq(S), NEW e \in S
  PROVE  /\ Limited(Append(s, e)) \in Seq(S)
         /\ Limited(Append(s, e))[Len(Limited(Append(s, e)))] = e
<1> DEFINE l == Append(s, e)
           d == IF Len(l) <= UNDO_LIMIT THEN 0 ELSE Len(l) - UNDO_LIMIT
<1>1. l \in Seq(S) /\ Len(l) = Len(s) + 1 /\ l[Len(l)] = e /\ Len(s) \in Nat BY Appended
<1>2. d \in Nat /\ d < Len(l) /\ Len(l) \in Nat BY <1>1, UndoLimitAssumption
<1> HIDE DEF l
<1>3. /\ Limited(l) \in Seq(S) /\ Len(Limited(l)) = Len(l) - d
      /\ \A k \in 1 .. Len(l) - d : Limited(l)[k] = l[k + d]
  BY <1>1, LimitedOf
<1> HIDE DEF d
<1>4. Len(l) - d \in 1 .. Len(l) - d /\ (Len(l) - d) + d = Len(l) BY <1>2
<1>5. Limited(l)[Len(Limited(l))] = l[(Len(l) - d) + d] BY <1>3, <1>4
<1>6. Limited(l)[Len(Limited(l))] = e BY <1>1, <1>4, <1>5
<1> QED BY <1>3, <1>6 DEF l

(* An undo begins with all parts of the newest command still to undo. *)
LEMMA BackBegins ==
  ASSUME undoHistory \in Seq(Command), AllUniform(undoHistory),
         \A k \in DOMAIN undoHistory : AllRan(undoHistory[k]),
         NEW n, BeginUndo(n), doc' \in Seq(Task), tasks' = doc',
         NEW ok, undoHistory # <<>> /\ ok =>
           LET c == undoHistory[Len(undoHistory)]
           IN  Forth(c.parts, Len(c.parts), past'[Len(past')], doc')
  PROVE  /\ job' \in {"none", "undo"}
         /\ AllUniform(undoHistory') /\ Uniform(cmd'.parts)
         /\ job' = "none" => undoHistory' = undoHistory
         /\ job' = "undo" =>
              /\ Back(cmd'.parts, at', doc', tasks', readd')
              /\ ok => Forth(cmd'.parts, Len(cmd'.parts), past'[Len(past')], doc')
<1>1. CASE n = 0 \/ undoHistory = <<>>
  <2>1. job' = "none" /\ undoHistory' = undoHistory /\ cmd'.parts = <<>>
    BY <1>1 DEF BeginUndo, Rest, NoCommand, NewCommand
  <2>2. Uniform(<<>>) BY DEF Uniform, Has
  <2> QED BY <2>1, <2>2
<1>2. CASE n # 0 /\ undoHistory # <<>>
  <2> DEFINE m == Len(undoHistory)
             c == undoHistory[m]
  <2>1. /\ job' = "undo" /\ cmd' = [c EXCEPT !.ran = FALSE] /\ at' = Len(c.parts)
        /\ undoHistory' = SubSeq(undoHistory, 1, m - 1)
    BY <1>2 DEF BeginUndo
  <2>2. c \in Command /\ AllUniform(undoHistory') /\ Uniform(c.parts)
    BY <1>2, <2>1, UniformShorter
  <2>3. AllRan(c)
    <3>1. m \in DOMAIN undoHistory BY <1>2, Shortened
    <3> QED BY <3>1
  <2>4. ok => Forth(c.parts, Len(c.parts), past'[Len(past')], doc') BY <1>2
  <2> HIDE DEF c
  <2>5. /\ cmd'.parts = c.parts /\ Len(c.parts) \in Nat
        /\ DOMAIN c.parts = 1 .. Len(c.parts)
    <3>1. FALSE \in BOOLEAN OBVIOUS
    <3> QED BY <2>1, <2>2, <3>1, CommandFields
  <2>6. Has(c.parts, "clear") => c.parts[1].ran
    <3>1. ASSUME Has(c.parts, "clear") PROVE c.parts[1].ran
      <4>1. Len(c.parts) = 1 BY <2>2, <3>1 DEF Uniform
      <4>2. 1 \in DOMAIN c.parts BY <2>5, <4>1
      <4> QED BY <2>3, <4>2 DEF AllRan
    <3> QED BY <3>1
  <2>7. Rearranged(Unmarked(doc'), Unmarked(doc')) BY UnmarkedList, RearrangedSelf
  <2>8. Back(c.parts, Len(c.parts), doc', doc', readd') BY <2>6, <2>7 DEF Back
  <2> QED BY <2>1, <2>2, <2>4, <2>5, <2>8
<1> QED BY <1>1, <1>2

(* A command no part of which has run has changed nothing. *)
LEMMA ForthBegins ==
  ASSUME NEW ps, NEW ts \in Seq(Task)
  PROVE  Forth(ps, 0, ts, ts)
<1>1. Len(ts) <= Len(ts) + 0
  <2>1. Len(ts) \in Nat OBVIOUS
  <2> QED BY <2>1
<1>2. Rearranged(Unmarked(ts), Unmarked(ts)) BY UnmarkedList, RearrangedSelf
<1> QED BY <1>1, <1>2 DEF Forth

(* A redo begins with no part of the newest command run. *)
LEMMA RedoneBegins ==
  ASSUME redoHistory \in Seq(Command), AllUniform(redoHistory),
         NEW n, BeginRedo(n), doc' \in Seq(Task), tasks' = doc'
  PROVE  /\ job' \in {"none", "redo"}
         /\ AllUniform(redoHistory') /\ Uniform(cmd'.parts)
         /\ job' = "redo" => Forth(cmd'.parts, at' - 1, doc', tasks')
<1>1. CASE n = 0 \/ redoHistory = <<>>
  <2>1. job' = "none" /\ redoHistory' = redoHistory /\ cmd'.parts = <<>>
    BY <1>1 DEF BeginRedo, Rest, NoCommand, NewCommand
  <2>2. Uniform(<<>>) BY DEF Uniform, Has
  <2> QED BY <2>1, <2>2
<1>2. CASE n # 0 /\ redoHistory # <<>>
  <2> DEFINE m == Len(redoHistory)
             c == redoHistory[m]
  <2>1. /\ job' = "redo" /\ cmd' = [c EXCEPT !.ran = TRUE] /\ at' = 1
        /\ redoHistory' = SubSeq(redoHistory, 1, m - 1)
    BY <1>2 DEF BeginRedo
  <2>2. c \in Command /\ AllUniform(redoHistory') /\ Uniform(c.parts)
    BY <1>2, <2>1, UniformShorter
  <2> HIDE DEF c
  <2>3. cmd'.parts = c.parts
    <3>1. TRUE \in BOOLEAN OBVIOUS
    <3> QED BY <2>1, <2>2, <3>1, CommandFields
  <2>4. at' - 1 = 0 BY <2>1
  <2>5. Forth(cmd'.parts, at' - 1, doc', tasks') BY <2>4, ForthBegins
  <2> QED BY <2>1, <2>2, <2>3, <2>5
<1> QED BY <1>1, <1>2

-----------------------------------------------------------------------------
(* A command that is submitted starts from the list there is. *)
LEMMA SubmitGives ==
  ASSUME TypeInv, HistoryFlags, GivesInv, RecordSubmit
  PROVE  GivesInv'
<1>0. /\ Submit /\ UNCHANGED <<doc, past, future>> /\ job = "none" /\ tasks' = tasks
      /\ doc = tasks /\ doc' \in Seq(Task) /\ tasks' = doc'
      /\ past' \in Seq(Seq(Task)) /\ future' \in Seq(Seq(Task))
      /\ AllUniform(undoHistory) /\ AllUniform(redoHistory) /\ Uniform(cmd.parts)
      /\ undoHistory \in Seq(Command) /\ redoHistory \in Seq(Command)
  BY SubmitIdle DEF RecordSubmit, history, GivesInv, TypeInv, TypeOK
<1>1. CASE NewRun /\ Made(cmd', tasks)
  <2>1. PICK parts : Run(parts) BY <1>1 DEF NewRun
  <2>2. job' = "run" /\ at' = 1 /\ UNCHANGED historyVars BY <2>1 DEF Run
  <2>3. Uniform(cmd'.parts) BY <1>1, MadeUniform
  <2>4. at' - 1 = 0 BY <2>2
  <2>5. Forth(cmd'.parts, at' - 1, doc', tasks') BY <1>0, <2>4, ForthBegins
  <2>6. undoHistory' = undoHistory /\ redoHistory' = redoHistory BY <2>2 DEF historyVars
  <2> QED BY <1>0, <2>2, <2>3, <2>5, <2>6 DEF GivesInv
<1>2. CASE SubmitUndo
  <2>1. PICK n : BeginUndo(n) BY <1>2 DEF SubmitUndo
  <2>2. redoHistory' = redoHistory BY <1>2 DEF SubmitUndo
  <2>3. \A k \in DOMAIN undoHistory : AllRan(undoHistory[k]) BY DEF HistoryFlags
  <2>4. undoHistory # <<>> /\ future' = <<>> =>
          LET c == undoHistory[Len(undoHistory)]
          IN  Forth(c.parts, Len(c.parts), past'[Len(past')], doc')
    BY <1>0 DEF GivesInv, LedHere
  <2>5. /\ job' \in {"none", "undo"}
        /\ AllUniform(undoHistory') /\ Uniform(cmd'.parts)
        /\ job' = "none" => undoHistory' = undoHistory
        /\ job' = "undo" =>
             /\ Back(cmd'.parts, at', doc', tasks', readd')
             /\ future' = <<>> => Forth(cmd'.parts, Len(cmd'.parts), past'[Len(past')], doc')
    BY <1>0, <2>1, <2>3, <2>4, BackBegins
  <2> QED BY <1>0, <2>2, <2>4, <2>5 DEF GivesInv, LedHere
<1>3. CASE SubmitRedo
  <2>1. PICK n : BeginRedo(n) BY <1>3 DEF SubmitRedo
  <2>2. undoHistory' = undoHistory BY <1>3 DEF SubmitRedo
  <2>3. /\ job' \in {"none", "redo"}
        /\ AllUniform(redoHistory') /\ Uniform(cmd'.parts)
        /\ job' = "redo" => Forth(cmd'.parts, at' - 1, doc', tasks')
    BY <1>0, <2>1, RedoneBegins
  <2>4. undoHistory' # <<>> /\ future' = <<>> => LedHere(undoHistory[Len(undoHistory)].parts)'
    BY <1>0, <2>2 DEF GivesInv, LedHere
  <2> QED BY <1>0, <2>2, <2>3, <2>4 DEF GivesInv
<1>4. CASE Show \/ LastIsNoTask
  <2>1. /\ job' \in {"none", "lost"} /\ cmd' = cmd
        /\ undoHistory' = undoHistory /\ redoHistory' = redoHistory
    BY <1>0, <1>4 DEF Show, LastIsNoTask, historyVars
  <2> QED BY <1>0, <2>1 DEF GivesInv, LedHere
<1>5. (NewRun /\ Made(cmd', tasks)) \/ SubmitUndo \/ SubmitRedo \/ Show \/ LastIsNoTask
  BY <1>0, MadeCommand, SubmitTypes
<1> QED BY <1>1, <1>2, <1>3, <1>4, <1>5

(* A part that is run or undone takes its command further. *)
LEMMA OtherGives ==
  ASSUME TypeInv, GivesInv, RecordOther
  PROVE  GivesInv'
<1>0. /\ UNCHANGED <<doc, past, future>> /\ Len(cmd.parts) \in Nat
  BY CommandFields DEF RecordOther, history, TypeInv, TypeOK
<1>1. CASE RunPart
  <2>1. UNCHANGED <<undoHistory, redoHistory, job>> /\ job \in {"run", "redo"}
    BY <1>1, PartRan DEF historyVars
  <2>2. Uniform(cmd'.parts) /\ Forth(cmd'.parts, at' - 1, doc', tasks')
    BY <1>0, <1>1, <2>1, ForthRan DEF GivesInv
  <2> QED BY <1>0, <2>1, <2>2 DEF GivesInv
<1>2. CASE UndoPart
  <2>1. UNCHANGED <<undoHistory, redoHistory, job>> /\ job = "undo"
    BY <1>2, PartUndone DEF historyVars
  <2>2. /\ Uniform(cmd'.parts) /\ Back(cmd'.parts, at', doc', tasks', readd')
        /\ Len(cmd'.parts) = Len(cmd.parts)
        /\ \A before, after : Forth(cmd.parts, Len(cmd.parts), before, after)
                                => Forth(cmd'.parts, Len(cmd.parts), before, after)
    BY <1>0, <1>2, <2>1, BackUndone DEF GivesInv
  <2>3. future' = <<>> => LedHere(cmd.parts)'
    BY <1>0, <2>1, <2>2 DEF GivesInv, LedHere
  <2> QED BY <1>0, <2>1, <2>2, <2>3 DEF GivesInv
<1>3. CASE NoSuchTask
  <2>1. job' = "lost" /\ cmd' = cmd /\ UNCHANGED <<undoHistory, redoHistory>>
    BY <1>3 DEF NoSuchTask, historyVars
  <2> QED BY <1>0, <2>1 DEF GivesInv
<1>4. CASE Tick
  <2>1. UNCHANGED <<tasks, undoHistory, redoHistory, job, cmd, at, readd>>
    BY <1>4 DEF Tick, storageVars, historyVars
  <2> QED BY <1>0, <2>1 DEF GivesInv, LedHere
<1> QED BY <1>1, <1>2, <1>3, <1>4 DEF RecordOther

(* After a run or a redo the command that has run led to the present list. *)
LEMMA RanGives ==
  ASSUME TypeInv, GivesInv, RecordRun \/ RecordRedo
  PROVE  GivesInv'
<1>0. /\ doc \in Seq(Task) /\ past \in Seq(Seq(Task)) /\ future \in Seq(Seq(Task))
      /\ AllUniform(undoHistory) /\ AllUniform(redoHistory) /\ Uniform(cmd.parts)
      /\ undoHistory \in Seq(Command) /\ redoHistory \in Seq(Command) /\ cmd \in Command
      /\ tasks \in Seq(Task)
  BY DEF GivesInv, TypeInv, TypeOK
<1>1. /\ job \in {"run", "redo"} /\ at > Len(cmd.parts)
      /\ undoHistory' = Limited(Append(undoHistory, cmd))
      /\ past' = Limited(Append(past, doc)) /\ doc' = tasks /\ tasks' = tasks
  BY DEF RecordRun, RecordRedo, FinishRun, FinishRedo
<1>2. at - 1 = Len(cmd.parts)
  <2>1. at \in 0 .. Len(cmd.parts) + 1 /\ Len(cmd.parts) \in Nat
    BY <1>0, CommandFields DEF TypeInv, TypeOK
  <2> QED BY <1>1, <2>1
<1>3. Forth(cmd.parts, Len(cmd.parts), doc, tasks) BY <1>1, <1>2 DEF GivesInv
<1>4. /\ past' \in Seq(Seq(Task)) /\ past'[Len(past')] = doc
      /\ undoHistory'[Len(undoHistory')] = cmd
  BY <1>0, <1>1, NewestLimited
<1>5. AllUniform(undoHistory') BY <1>0, <1>1, UniformAppended
<1>6. LedHere(undoHistory[Len(undoHistory)].parts)' BY <1>1, <1>3, <1>4 DEF LedHere
<1>7. CASE RecordRun
  <2>1. /\ future' = <<>> /\ redoHistory' = <<>> /\ job' = "none" /\ cmd'.parts = <<>>
    BY <1>7 DEF RecordRun, FinishRun, Rest, NoCommand, NewCommand
  <2>2. Uniform(<<>>) /\ AllUniform(<<>>) /\ <<>> \in Seq(Seq(Task))
    BY EmptySeq DEF Uniform, Has, AllUniform
  <2> QED BY <1>0, <1>1, <1>4, <1>5, <1>6, <2>1, <2>2 DEF GivesInv
<1>8. CASE RecordRedo
  <2>1. BeginRedo(times - 1) /\ future' = Front1(future)
    BY <1>8 DEF RecordRedo, FinishRedo
  <2>2. /\ job' \in {"none", "redo"}
        /\ AllUniform(redoHistory') /\ Uniform(cmd'.parts)
        /\ job' = "redo" => Forth(cmd'.parts, at' - 1, doc', tasks')
    BY <1>0, <1>1, <2>1, RedoneBegins
  <2>3. future' \in Seq(Seq(Task))
    <3>1. CASE Len(future) >= 1 BY <1>0, <2>1, <3>1, Front1Of
    <3>2. CASE future = <<>>
      <4>1. Front1(<<>>) = <<>> BY DEF Front1
      <4> QED BY <2>1, <3>2, <4>1, EmptySeq
    <3>3. Len(future) >= 1 \/ future = <<>> BY <1>0, EmptySeq
    <3> QED BY <3>1, <3>2, <3>3
  <2> QED BY <1>0, <1>1, <1>4, <1>5, <1>6, <2>2, <2>3 DEF GivesInv
<1> QED BY <1>7, <1>8

(* After an undo there is something ahead. *)
LEMMA UndoneGives ==
  ASSUME TypeInv, HistoryFlags, GivesInv, RecordUndo
  PROVE  GivesInv'
<1>0. /\ doc \in Seq(Task) /\ past \in Seq(Seq(Task)) /\ future \in Seq(Seq(Task))
      /\ AllUniform(undoHistory) /\ AllUniform(redoHistory) /\ Uniform(cmd.parts)
      /\ undoHistory \in Seq(Command) /\ redoHistory \in Seq(Command) /\ cmd \in Command
      /\ tasks \in Seq(Task)
      /\ \A k \in DOMAIN undoHistory : AllRan(undoHistory[k])
  BY DEF GivesInv, TypeInv, TypeOK, HistoryFlags
<1>1. /\ BeginUndo(times - 1) /\ redoHistory' = Limited(Append(redoHistory, cmd))
      /\ past' = Front1(past) /\ future' = Append(future, doc)
      /\ doc' = tasks /\ tasks' = tasks
  BY DEF RecordUndo, FinishUndo
<1>2. future' \in Seq(Seq(Task)) /\ future' # <<>>
  <2>1. future' \in Seq(Seq(Task)) /\ Len(future') = Len(future) + 1 BY <1>0, <1>1, Appended
  <2>2. Len(future) \in Nat BY <1>0
  <2> QED BY <2>1, <2>2, EmptySeq
<1>3. past' \in Seq(Seq(Task))
  <2>1. CASE Len(past) >= 1 BY <1>0, <1>1, <2>1, Front1Of
  <2>2. CASE past = <<>>
    <3>1. Front1(<<>>) = <<>> BY DEF Front1
    <3> QED BY <1>1, <2>2, <3>1, EmptySeq
  <2>3. Len(past) >= 1 \/ past = <<>> BY <1>0, EmptySeq
  <2> QED BY <2>1, <2>2, <2>3
<1>4. AllUniform(redoHistory') BY <1>0, <1>1, UniformAppended
<1>5. /\ job' \in {"none", "undo"}
      /\ AllUniform(undoHistory') /\ Uniform(cmd'.parts)
      /\ job' = "undo" => Back(cmd'.parts, at', doc', tasks', readd')
  <2>1. undoHistory # <<>> /\ FALSE =>
          LET c == undoHistory[Len(undoHistory)]
          IN  Forth(c.parts, Len(c.parts), past'[Len(past')], doc')
    OBVIOUS
  <2>2. doc' \in Seq(Task) /\ tasks' = doc' BY <1>0, <1>1
  <2> QED BY <1>0, <1>1, <2>1, <2>2, BackBegins
<1> QED BY <1>0, <1>1, <1>2, <1>3, <1>4, <1>5 DEF GivesInv

(* A restart leaves no history. *)
LEMMA RestartGives ==
  ASSUME TypeInv, RecordRestart
  PROVE  GivesInv'
<1>1. /\ past' = <<>> /\ future' = <<>> /\ doc' = tasks' /\ undoHistory' = <<>>
      /\ redoHistory' = <<>> /\ job' = "none" /\ cmd'.parts = <<>>
      /\ tasks' = Renumber(file, now)
  BY DEF RecordRestart, Restart, Rest, NoCommand, NewCommand
<1>2. tasks' \in Seq(Task) BY <1>1, NowIsNat, RenumberKeepsTasks DEF TypeInv, TypeOK
<1>3. Uniform(<<>>) /\ AllUniform(<<>>) /\ <<>> \in Seq(Seq(Task))
  BY EmptySeq DEF Uniform, Has, AllUniform
<1> QED BY <1>1, <1>2, <1>3 DEF GivesInv

(* Every step keeps the invariant. *)
LEMMA StepGives ==
  ASSUME TypeInv, HistoryFlags, GivesInv, [NextT]_allVars
  PROVE  GivesInv'
<1>1. CASE UNCHANGED allVars
  <2>1. UNCHANGED <<tasks, undoHistory, redoHistory, job, cmd, at, readd, doc, past, future>>
    BY <1>1 DEF allVars, vars, history
  <2> QED BY <2>1 DEF GivesInv, LedHere
<1> QED
  BY <1>1, SubmitGives, OtherGives, RanGives, UndoneGives, RestartGives DEF NextT

(* At the start there is no history. *)
LEMMA InitGives == InitT => GivesInv
<1> SUFFICES ASSUME InitT PROVE GivesInv
  OBVIOUS
<1>1. /\ doc = <<>> /\ past = <<>> /\ future = <<>> /\ tasks = <<>> /\ undoHistory = <<>>
      /\ redoHistory = <<>> /\ job = "none" /\ cmd.parts = <<>>
  BY DEF InitT, Init, NoCommand, NewCommand
<1>2. /\ Uniform(<<>>) /\ AllUniform(<<>>) /\ <<>> \in Seq(Seq(Task)) /\ <<>> \in Seq(Task)
  BY EmptySeq DEF Uniform, Has, AllUniform
<1> QED BY <1>1, <1>2 DEF GivesInv

(* When all parts are undone, what there is is what is promised. *)
LEMMA UndoneIsGivenBack ==
  ASSUME TypeInv, HistoryFlags, GivesInv, FinishUndo
  PROVE  LET kinds == {cmd.parts[k].kind : k \in DOMAIN cmd.parts}
             before == past[Len(past)]
         IN  /\ "remove" \in kinds =>
                  \A t \in Task :
                    Copies(t, tasks) = Copies(t, doc) + Named(t, cmd.parts, Len(cmd.parts))
             /\ future = <<>> =>
                  /\ "remove" \in kinds => Len(tasks) >= Len(before)
                  /\ "done" \in kinds => SameTasks(Unmarked(tasks), Unmarked(before))
                  /\ "clear" \in kinds =>
                       \A t \in Task :
                         Copies(t, tasks) = IF t.done THEN 0 ELSE Copies(t, before)
<1> DEFINE ps == cmd.parts
           before == past[Len(past)]
<1>1. /\ job = "undo" /\ at = 0 /\ cmd \in Command /\ Len(ps) \in Nat
      /\ DOMAIN ps = 1 .. Len(ps)
  BY CommandFields DEF FinishUndo, TypeInv, TypeOK
<1>2. \A kind : kind \in {ps[k].kind : k \in DOMAIN ps} => Has(ps, kind)
  BY <1>1 DEF Has
<1>3. Back(ps, 0, doc, tasks, readd) /\ doc \in Seq(Task) /\ tasks \in Seq(Task)
  BY <1>1 DEF GivesInv, Back
<1>4. future = <<>> => Forth(ps, Len(ps), before, doc) /\ before \in Seq(Task)
  BY <1>1 DEF GivesInv, LedHere, Forth
<1> HIDE DEF before, ps
<1>5. ASSUME Has(ps, "remove")
      PROVE  /\ \A t \in Task : Copies(t, tasks) = Copies(t, doc) + Named(t, ps, Len(ps))
             /\ future = <<>> => Len(tasks) >= Len(before)
  <2>1. ASSUME NEW t \in Task
        PROVE  Copies(t, tasks) = Copies(t, doc) + Named(t, ps, Len(ps))
    <3>1. Copies(t, tasks) + Named(t, ps, 0) = Copies(t, doc) + Named(t, ps, Len(ps))
      BY <1>3, <1>5 DEF Back
    <3>2. Named(t, ps, 0) = 0 /\ Copies(t, tasks) \in Nat
      <4>1. 0 \in Nat OBVIOUS
      <4> QED BY <1>3, <4>1, NamedMore, CopiesMet
    <3> QED BY <3>1, <3>2
  <2>2. ASSUME future = <<>> PROVE Len(tasks) >= Len(before)
    <3>1. Len(tasks) + 0 = Len(doc) + Len(ps) BY <1>3, <1>5 DEF Back
    <3>2. Len(before) <= Len(doc) + Len(ps) BY <1>4, <1>5, <2>2 DEF Forth
    <3>3. Len(tasks) \in Nat /\ Len(doc) \in Nat /\ Len(before) \in Nat BY <1>3, <1>4, <2>2
    <3> QED BY <1>1, <3>1, <3>2, <3>3
  <2> QED BY <2>1, <2>2
<1>6. ASSUME Has(ps, "done"), future = <<>>
      PROVE  SameTasks(Unmarked(tasks), Unmarked(before))
  <2>1. /\ Rearranged(Unmarked(tasks), Unmarked(doc))
        /\ Rearranged(Unmarked(doc), Unmarked(before))
    BY <1>3, <1>4, <1>6 DEF Back, Forth
  <2>2. Unmarked(tasks) \in Seq(Task) /\ Unmarked(doc) \in Seq(Task)
        /\ Unmarked(before) \in Seq(Task)
    BY <1>3, <1>4, <1>6, UnmarkedList
  <2>3. Rearranged(Unmarked(tasks), Unmarked(before)) BY <2>1, <2>2, RearrangedTwice
  <2> QED BY <2>2, <2>3, RearrangedSame
<1>7. ASSUME Has(ps, "clear"), future = <<>>, NEW t \in Task
      PROVE  Copies(t, tasks) = IF t.done THEN 0 ELSE Copies(t, before)
  <2>1. Len(ps) = 1 /\ ps[1].kind = "clear"
    <3>1. Uniform(ps) BY DEF GivesInv, ps
    <3>2. PICK k \in 1 .. Len(ps) : ps[k].kind = "clear" BY <1>7 DEF Has
    <3> QED BY <3>1, <3>2, OfOneKind
  <2>2. ps[1].olds \in Seq(Task)
    <3>1. ps[1] \in Part BY <1>1, <2>1, CommandFields DEF ps
    <3> QED BY <2>1, <3>1, PartFields
  <2>3. doc = <<>> /\ Keeps(ps[1].olds, before)
    <3>1. Len(ps) # 0 BY <2>1
    <3> QED BY <1>4, <1>7, <3>1 DEF Forth
  <2>4. ~ps[1].ran
    <3>1. 1 \in DOMAIN ps /\ 1 > at BY <1>1, <2>1
    <3> QED BY <1>1, <3>1 DEF HistoryFlags, ps
  <2>5. Rearranged(tasks \o readd, doc \o ps[1].olds) /\ readd = <<>>
    BY <1>3, <1>7, <2>4 DEF Back
  <2>6. Rearranged(tasks, ps[1].olds) BY <1>3, <2>2, <2>3, <2>5, ConcatEmptySeq
  <2>7. Copies(t, tasks) = Copies(t, ps[1].olds) BY <1>3, <2>2, <2>6, RearrangedCopies
  <2> QED BY <2>3, <2>7 DEF Keeps
<1> QED BY <1>2, <1>5, <1>6, <1>7 DEF ps, before

(* Whatever the commands are, how often the user goes back and forth, how far the
   clock moves meanwhile and how many commands are kept: the undo of a removal
   adds each task as often as it was named, and when nothing has been undone
   since the command ran the list is no shorter than the one it found, of which
   a done or an undone has changed marks alone, and of which a clear that is
   undone brings back exactly what was not done.                           *)
THEOREM UndoGivesBackCorrect == SpecT => UndoGivesBack
<1>1. InitT => TypeInv /\ HistoryFlags /\ GivesInv
  <2>1. InitT => TypeInv /\ GivesInv BY InitTypes, InitGives DEF InitT
  <2>2. InitT => HistoryFlags BY DEF InitT, Init, HistoryFlags
  <2> QED BY <2>1, <2>2
<1>2. TypeInv /\ HistoryFlags /\ GivesInv /\ [NextT]_allVars
        => TypeInv' /\ HistoryFlags' /\ GivesInv'
  BY StepTypes, StepFlags, StepGives, RecordedStep
<1>3. TypeInv /\ HistoryFlags /\ GivesInv /\ [NextT]_allVars
        => (FinishUndo =>
              LET kinds == {cmd.parts[k].kind : k \in DOMAIN cmd.parts}
                  before == past[Len(past)]
              IN  /\ "remove" \in kinds =>
                       \A t \in Task :
                         Copies(t, tasks) = Copies(t, doc) + Named(t, cmd.parts, Len(cmd.parts))
                  /\ future = <<>> =>
                       /\ "remove" \in kinds => Len(tasks) >= Len(before)
                       /\ "done" \in kinds => SameTasks(Unmarked(tasks), Unmarked(before))
                       /\ "clear" \in kinds =>
                            \A t \in Task :
                              Copies(t, tasks) = IF t.done THEN 0 ELSE Copies(t, before))
  BY UndoneIsGivenBack
<1> QED BY <1>1, <1>2, <1>3, PTL DEF SpecT, UndoGivesBack
=============================================================================
