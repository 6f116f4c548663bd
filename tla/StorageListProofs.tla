------------------------- MODULE StorageListProofs -------------------------
(***************************************************************************)
(* What the storage's operations do, for every list of tasks.  First what  *)
(* renumber() achieves: it loses, duplicates and changes no task, and      *)
(* leaves them in the order of their sections.  The argument is one lemma  *)
(* about a stable sort (sorting by a key keeps, among equal keys, whatever *)
(* order there was), used once for each of the sorts.  Then what each      *)
(* operation that modifies the list and renumbers it returns.  Last, that  *)
(* this order is one of the tasks themselves (AtOrBefore): a list in order *)
(* (Tidy) is left as it is, and two lists in order of the same tasks are   *)
(* the same but for tasks with the same description and end.               *)
(***************************************************************************)
EXTENDS StorageList, FiniteSetTheorems, SequenceTheorems, WellFoundedInduction, TLAPS

-----------------------------------------------------------------------------
(* The places of a stable sort are the positions of the list. *)
LEMMA AheadFinite ==
  ASSUME NEW S, NEW s \in Seq(S), NEW key \in [S -> Int], NEW i \in 1 .. Len(s)
  PROVE  /\ Ahead(s, key, i) \subseteq 1 .. Len(s)
         /\ IsFiniteSet(Ahead(s, key, i))
         /\ i \in Ahead(s, key, i)
<1>1. DOMAIN s = 1 .. Len(s) /\ Len(s) \in Nat
  OBVIOUS
<1>2. Ahead(s, key, i) \subseteq 1 .. Len(s)
  BY <1>1 DEF Ahead
<1>3. IsFiniteSet(1 .. Len(s))
  BY <1>1, FS_Interval
<1>4. IsFiniteSet(Ahead(s, key, i))
  BY <1>2, <1>3, FS_Subset
<1>5. i \in Ahead(s, key, i)
  BY <1>1 DEF Ahead
<1> QED BY <1>2, <1>4, <1>5

(* The place of an element is a position of the list. *)
LEMMA PlaceInRange ==
  ASSUME NEW S, NEW s \in Seq(S), NEW key \in [S -> Int], NEW i \in 1 .. Len(s)
  PROVE  Place(s, key, i) \in 1 .. Len(s)
<1>1. Len(s) \in Nat
  OBVIOUS
<1>2. IsFiniteSet(1 .. Len(s)) /\ Cardinality(1 .. Len(s)) = Len(s)
  <2> DEFINE n == Len(s)
  <2>1. n \in Nat
    BY <1>1
  <2> HIDE DEF n
  <2>2. /\ IsFiniteSet(1 .. n)
        /\ Cardinality(1 .. n) = IF 1 > n THEN 0 ELSE n - 1 + 1
    BY <2>1, FS_Interval
  <2>3. (IF 1 > n THEN 0 ELSE n - 1 + 1) = n
    BY <2>1
  <2> QED BY <2>2, <2>3 DEF n
<1>3. Cardinality(Ahead(s, key, i)) <= Len(s)
  <2> DEFINE a == Ahead(s, key, i)
  <2>1. a \subseteq 1 .. Len(s)
    BY AheadFinite
  <2> HIDE DEF a
  <2>2. Cardinality(a) <= Cardinality(1 .. Len(s))
    BY <1>2, <2>1, FS_Subset
  <2> QED BY <1>2, <2>2 DEF a
<1>4. Cardinality(Ahead(s, key, i)) \in Nat
  BY AheadFinite, FS_CardinalityType
<1>5. Cardinality(Ahead(s, key, i)) # 0
  BY AheadFinite, FS_EmptySet
<1> QED BY <1>1, <1>3, <1>4, <1>5 DEF Place

(* An element that is ahead of another has the lower place. *)
LEMMA PlaceOrder ==
  ASSUME NEW S, NEW s \in Seq(S), NEW key \in [S -> Int],
         NEW i \in 1 .. Len(s), NEW j \in 1 .. Len(s), i # j,
         i \in Ahead(s, key, j)
  PROVE  Place(s, key, i) < Place(s, key, j)
<1>1. DOMAIN s = 1 .. Len(s) /\ Len(s) \in Nat
  OBVIOUS
<1>2. \A k \in 1 .. Len(s) : key[s[k]] \in Int
  BY <1>1
<1>3. Ahead(s, key, i) \subseteq Ahead(s, key, j)
  BY <1>1, <1>2 DEF Ahead
<1>4. j \notin Ahead(s, key, i)
  BY <1>1, <1>2 DEF Ahead
<1>5. Ahead(s, key, i) # Ahead(s, key, j)
  BY <1>4, AheadFinite
<1>6. /\ Cardinality(Ahead(s, key, i)) \in Nat
      /\ Cardinality(Ahead(s, key, j)) \in Nat
  BY AheadFinite, FS_CardinalityType
<1>7. /\ Cardinality(Ahead(s, key, i)) <= Cardinality(Ahead(s, key, j))
      /\ Cardinality(Ahead(s, key, i)) # Cardinality(Ahead(s, key, j))
  BY <1>3, <1>5, AheadFinite, FS_Subset
<1> QED BY <1>6, <1>7 DEF Place

(* Of two elements one is ahead of the other. *)
LEMMA AheadTotal ==
  ASSUME NEW S, NEW s \in Seq(S), NEW key \in [S -> Int],
         NEW i \in 1 .. Len(s), NEW j \in 1 .. Len(s), i # j
  PROVE  i \in Ahead(s, key, j) \/ j \in Ahead(s, key, i)
<1>1. DOMAIN s = 1 .. Len(s) /\ Len(s) \in Nat
  OBVIOUS
<1>2. \A k \in 1 .. Len(s) : key[s[k]] \in Int
  BY <1>1
<1> QED BY <1>1, <1>2 DEF Ahead

(* Every position of the sorted list is the place of one element. *)
LEMMA PlaceOnto ==
  ASSUME NEW S, NEW s \in Seq(S), NEW key \in [S -> Int], NEW k \in 1 .. Len(s)
  PROVE  \E i \in 1 .. Len(s) : Place(s, key, i) = k
<1> DEFINE places == [i \in 1 .. Len(s) |-> Place(s, key, i)]
<1>1. places \in [1 .. Len(s) -> 1 .. Len(s)]
  BY PlaceInRange
<1>2. \A i, j \in 1 .. Len(s) : places[i] = places[j] => i = j
  <2> SUFFICES ASSUME NEW i \in 1 .. Len(s), NEW j \in 1 .. Len(s), i # j
               PROVE  Place(s, key, i) # Place(s, key, j)
    OBVIOUS
  <2>1. Place(s, key, i) \in Int /\ Place(s, key, j) \in Int
    BY PlaceInRange
  <2>2. CASE i \in Ahead(s, key, j)
    BY <2>1, <2>2, PlaceOrder
  <2>3. CASE j \in Ahead(s, key, i)
    BY <2>1, <2>3, PlaceOrder
  <2> QED BY <2>2, <2>3, AheadTotal
<1>3. places \in Injection(1 .. Len(s), 1 .. Len(s))
  BY <1>1, <1>2 DEF Injection, IsInjective
<1>4. IsFiniteSet(1 .. Len(s))
  BY FS_Interval
<1>5. places \in Surjection(1 .. Len(s), 1 .. Len(s))
  BY <1>3, <1>4, FS_Injection
<1> QED BY <1>5 DEF Surjection

-----------------------------------------------------------------------------
(* A stable sort rearranges: what it puts at position k comes from position
   From(s, key, k), in the order of the keys and, where they are equal, in the
   order there was.                                                        *)
From(s, key, k) == CHOOSE i \in 1 .. Len(s) : Place(s, key, i) = k

(* A sort moves every element to exactly one place. *)
LEMMA SortRearranges ==
  ASSUME NEW S, NEW s \in Seq(S), NEW key \in [S -> Int]
  PROVE  /\ \A k \in 1 .. Len(s) : From(s, key, k) \in 1 .. Len(s)
         /\ StableSort(s, key) = [k \in 1 .. Len(s) |-> s[From(s, key, k)]]
         /\ StableSort(s, key) \in [1 .. Len(s) -> S]
<1>1. \A k \in 1 .. Len(s) : From(s, key, k) \in 1 .. Len(s)
  <2> SUFFICES ASSUME NEW k \in 1 .. Len(s)
               PROVE  From(s, key, k) \in 1 .. Len(s)
    OBVIOUS
  <2>1. \E i \in 1 .. Len(s) : Place(s, key, i) = k
    BY PlaceOnto
  <2> QED BY <2>1 DEF From
<1>2. Sorted(s, key) = [k \in 1 .. Len(s) |-> s[From(s, key, k)]]
  BY DEF Sorted, From
<1>3. \A k \in 1 .. Len(s) : s[From(s, key, k)] \in S
  BY <1>1, ElementOfSeq
<1>4. Sorted(s, key) \in [1 .. Len(s) -> S]
  BY <1>2, <1>3
<1>5. Sorted(s, key) \in Seq(S)
  BY <1>4, SeqDef, LenProperties
<1>6. StableSort(s, key) = Sorted(s, key)
  BY <1>5, ConcatEmptySeq DEF StableSort
<1> QED BY <1>1, <1>2, <1>4, <1>6

(* The element that is at a place of the sorted list has that place. *)
LEMMA FromPlace ==
  ASSUME NEW S, NEW s \in Seq(S), NEW key \in [S -> Int], NEW k \in 1 .. Len(s)
  PROVE  From(s, key, k) \in 1 .. Len(s) /\ Place(s, key, From(s, key, k)) = k
<1> DEFINE at(i) == Place(s, key, i) = k
<1>1. \E i \in 1 .. Len(s) : at(i)
  BY PlaceOnto
<1>2. From(s, key, k) = CHOOSE i \in 1 .. Len(s) : at(i)
  BY DEF From
<1> HIDE DEF at
<1>3. From(s, key, k) \in 1 .. Len(s) /\ at(From(s, key, k))
  BY <1>1, <1>2
<1> QED BY <1>3 DEF at

(* A sorted list is in order of its keys, and where they are equal in its
   former order. *)
LEMMA SortOrders ==
  ASSUME NEW S, NEW s \in Seq(S), NEW key \in [S -> Int],
         NEW k \in 1 .. Len(s), NEW l \in 1 .. Len(s), k < l
  PROVE  /\ From(s, key, k) # From(s, key, l)
         /\ \/ key[s[From(s, key, k)]] < key[s[From(s, key, l)]]
            \/ /\ key[s[From(s, key, k)]] = key[s[From(s, key, l)]]
               /\ From(s, key, k) < From(s, key, l)
<1> DEFINE i == From(s, key, k)
           j == From(s, key, l)
<1>1. i \in 1 .. Len(s) /\ Place(s, key, i) = k
  BY FromPlace
<1>2. j \in 1 .. Len(s) /\ Place(s, key, j) = l
  BY FromPlace
<1> HIDE DEF i, j
<1>3. i # j /\ k \in Int /\ l \in Int
  BY <1>1, <1>2
<1>4. j \notin Ahead(s, key, i)
  BY <1>1, <1>2, <1>3, PlaceOrder
<1>5. i \in Ahead(s, key, j)
  BY <1>1, <1>2, <1>3, <1>4, AheadTotal
<1>6. key[s[i]] < key[s[j]] \/ (key[s[i]] = key[s[j]] /\ i <= j)
  BY <1>5 DEF Ahead
<1>7. i \in Int /\ j \in Int
  BY <1>1, <1>2
<1>8. i <= j => i < j
  BY <1>3, <1>7
<1> QED BY <1>3, <1>6, <1>8 DEF i, j

(* Sorting positions.  A list of all positions stays one, and what an earlier
   sort established of any two of them still holds of those with equal keys. *)
Positions(n) ==
  {p \in [1 .. n -> 1 .. n] : \A i, j \in 1 .. n : i < j => p[i] # p[j]}

Stronger(key, n, R) ==
  {x \in (1 .. n) \X (1 .. n) :
     key[x[1]] < key[x[2]] \/ (key[x[1]] = key[x[2]] /\ x \in R)}

InOrder(p, n, R) == \A i, j \in 1 .. n : i < j => <<p[i], p[j]>> \in R

(* A bijection of the positions is a sequence of positions. *)
LEMMA PositionsAreSequences ==
  ASSUME NEW n \in Nat, NEW p \in Positions(n)
  PROVE  p \in Seq(1 .. n) /\ Len(p) = n
<1>1. p \in [1 .. n -> 1 .. n]
  BY DEF Positions
<1>2. p \in Seq(1 .. n)
  BY <1>1, SeqDef
<1> QED BY <1>1, <1>2, LenProperties

(* A sort of positions, each once, has each of them once again. *)
LEMMA SortPositions ==
  ASSUME NEW n \in Nat, NEW s \in Positions(n), NEW key \in [1 .. n -> Int],
         NEW R, InOrder(s, n, R)
  PROVE  /\ StableSort(s, key) \in Positions(n)
         /\ InOrder(StableSort(s, key), n, Stronger(key, n, R))
<1>1. s \in Seq(1 .. n) /\ Len(s) = n
  BY PositionsAreSequences
<1> DEFINE r == StableSort(s, key)
           i(k) == From(s, key, k)
<1>2. /\ \A k \in 1 .. n : i(k) \in 1 .. n
      /\ r = [k \in 1 .. n |-> s[i(k)]]
      /\ r \in [1 .. n -> 1 .. n]
  <2>1. /\ \A k \in 1 .. Len(s) : i(k) \in 1 .. Len(s)
        /\ r = [k \in 1 .. Len(s) |-> s[i(k)]]
        /\ r \in [1 .. Len(s) -> 1 .. n]
    BY <1>1, SortRearranges, Zenon
  <2> QED BY <1>1, <2>1, Zenon
<1>3. ASSUME NEW k \in 1 .. n, NEW l \in 1 .. n, k < l
      PROVE  /\ i(k) # i(l)
             /\ \/ key[s[i(k)]] < key[s[i(l)]]
                \/ key[s[i(k)]] = key[s[i(l)]] /\ i(k) < i(l)
  BY <1>1, <1>3, SortOrders
<1> HIDE DEF r, i
<1>4. ASSUME NEW k \in 1 .. n, NEW l \in 1 .. n, k < l
      PROVE  /\ r[k] # r[l]
             /\ \/ key[r[k]] < key[r[l]]
                \/ key[r[k]] = key[r[l]] /\ <<r[k], r[l]>> \in R
  <2>1. i(k) \in 1 .. n /\ i(l) \in 1 .. n
    BY <1>2
  <2>2. r[k] = s[i(k)] /\ r[l] = s[i(l)]
    BY <1>2
  <2>3. /\ i(k) # i(l)
        /\ \/ key[s[i(k)]] < key[s[i(l)]]
           \/ key[s[i(k)]] = key[s[i(l)]] /\ i(k) < i(l)
    BY <1>3, <1>4
  <2>4. i(k) < i(l) \/ i(l) < i(k)
    BY <2>1, <2>3
  <2>5. r[k] # r[l]
    BY <2>1, <2>2, <2>4 DEF Positions
  <2>6. i(k) < i(l) => <<s[i(k)], s[i(l)]>> \in R
    BY <2>1 DEF InOrder
  <2> QED BY <2>2, <2>3, <2>5, <2>6
<1>5. r \in Positions(n)
  <2>1. \A k, l \in 1 .. n : k < l => r[k] # r[l]
    BY <1>4
  <2> QED BY <1>2, <2>1 DEF Positions
<1>6. \A k \in 1 .. n : r[k] \in 1 .. n
  BY <1>2
<1> QED BY <1>4, <1>5, <1>6 DEF InOrder, Stronger, r

-----------------------------------------------------------------------------
(* renumber(). *)
LEMMA TaskFields ==
  ASSUME NEW t \in Task
  PROVE  /\ t.desc \in Int
         /\ t.end \in Int
         /\ t.done \in BOOLEAN
         /\ HasEndDate(t) => t.end \in Nat
<1>1. t.desc \in Descs /\ t.end \in Ends \cup {NoTime} /\ t.done \in BOOLEAN
  BY DEF Task
<1>2. t.desc \in Int
  BY <1>1, DescsAssumption
<1>3. t.end \in Nat \/ t.end = -1
  BY <1>1, EndsAssumption DEF NoTime
<1>4. HasEndDate(t) => t.end \in Nat
  BY <1>3 DEF HasEndDate, NoTime
<1> QED BY <1>1, <1>2, <1>3, <1>4

(* The keys of renumber() are numbers, one for every position. *)
LEMMA SortKeys ==
  ASSUME NEW ts \in Seq(Task), NEW now \in Nat
  PROVE  /\ ByDescription(ts) \in [1 .. Len(ts) -> Int]
         /\ ByEndDate(ts) \in [1 .. Len(ts) -> Int]
         /\ ByIsDueToday(ts, now) \in [1 .. Len(ts) -> Int]
         /\ ByOverdue(ts, now) \in [1 .. Len(ts) -> Int]
         /\ ByHasEndDate(ts) \in [1 .. Len(ts) -> Int]
         /\ ByDone(ts) \in [1 .. Len(ts) -> Int]
<1>1. DOMAIN ts = 1 .. Len(ts)
  OBVIOUS
<1>2. \A i \in 1 .. Len(ts) : ts[i].desc \in Int /\ ts[i].end \in Int
  BY ElementOfSeq, TaskFields
<1>3. ByDescription(ts) \in [1 .. Len(ts) -> Int] /\ ByEndDate(ts) \in [1 .. Len(ts) -> Int]
  BY <1>1, <1>2 DEF ByDescription, ByEndDate
<1>4. /\ ByIsDueToday(ts, now) \in [1 .. Len(ts) -> Int]
      /\ ByOverdue(ts, now) \in [1 .. Len(ts) -> Int]
  BY <1>1 DEF ByIsDueToday, ByOverdue, First
<1>5. /\ ByHasEndDate(ts) \in [1 .. Len(ts) -> Int]
      /\ ByDone(ts) \in [1 .. Len(ts) -> Int]
  BY <1>1 DEF ByHasEndDate, ByDone, First
<1> QED BY <1>3, <1>4, <1>5

(* Of two tasks the last key they differ in decides, and if there is none, who
   was in front.                                                           *)
Forward(n) == {x \in (1 .. n) \X (1 .. n) : x[1] < x[2]}

Precedes(ts, now) ==
  LET n == Len(ts)
  IN  Stronger(ByDone(ts), n,
        Stronger(ByHasEndDate(ts), n,
          Stronger(ByOverdue(ts, now), n,
            Stronger(ByIsDueToday(ts, now), n,
              Stronger(ByEndDate(ts), n,
                Stronger(ByDescription(ts), n, Forward(n)))))))

(* Of two tasks the first different key, from the last sort to the first,
   decides. *)
LEMMA OrderPrecedes ==
  ASSUME NEW ts \in Seq(Task), NEW now \in Nat
  PROVE  /\ Order(ts, now) \in Positions(Len(ts))
         /\ InOrder(Order(ts, now), Len(ts), Precedes(ts, now))
<1> DEFINE n  == Len(ts)
           s0 == [i \in 1 .. n |-> i]
           s1 == StableSort(s0, ByDescription(ts))
           s2 == StableSort(s1, ByEndDate(ts))
           s3 == StableSort(s2, ByIsDueToday(ts, now))
           s4 == StableSort(s3, ByOverdue(ts, now))
           s5 == StableSort(s4, ByHasEndDate(ts))
           s6 == StableSort(s5, ByDone(ts))
           R0 == Forward(n)
           R1 == Stronger(ByDescription(ts), n, R0)
           R2 == Stronger(ByEndDate(ts), n, R1)
           R3 == Stronger(ByIsDueToday(ts, now), n, R2)
           R4 == Stronger(ByOverdue(ts, now), n, R3)
           R5 == Stronger(ByHasEndDate(ts), n, R4)
           R6 == Stronger(ByDone(ts), n, R5)
<1>1. Order(ts, now) = s6 /\ Precedes(ts, now) = R6
  BY DEF Order, Precedes
<1>2. n \in Nat
  OBVIOUS
<1>3. s0 \in Positions(n) /\ InOrder(s0, n, R0)
  BY DEF Positions, InOrder, Forward
<1> HIDE DEF n, s0, s1, s2, s3, s4, s5, s6, R0, R1, R2, R3, R4, R5, R6
<1>4. s1 \in Positions(n) /\ InOrder(s1, n, R1)
  BY <1>2, <1>3, SortKeys, SortPositions DEF s1, R1, n
<1>5. s2 \in Positions(n) /\ InOrder(s2, n, R2)
  BY <1>2, <1>4, SortKeys, SortPositions DEF s2, R2, n
<1>6. s3 \in Positions(n) /\ InOrder(s3, n, R3)
  BY <1>2, <1>5, SortKeys, SortPositions DEF s3, R3, n
<1>7. s4 \in Positions(n) /\ InOrder(s4, n, R4)
  BY <1>2, <1>6, SortKeys, SortPositions DEF s4, R4, n
<1>8. s5 \in Positions(n) /\ InOrder(s5, n, R5)
  BY <1>2, <1>7, SortKeys, SortPositions DEF s5, R5, n
<1>9. s6 \in Positions(n) /\ InOrder(s6, n, R6)
  BY <1>2, <1>8, SortKeys, SortPositions DEF s6, R6, n
<1> QED BY <1>1, <1>9 DEF n

(* renumber() keeps the tasks: the new list is the old one, every position of
   it exactly once.                                                        *)
THEOREM RenumberKeepsTasks ==
  ASSUME NEW ts \in Seq(Task), NEW now \in Nat
  PROVE  /\ Order(ts, now) \in Bijection(1 .. Len(ts), 1 .. Len(ts))
         /\ Renumber(ts, now) = [k \in 1 .. Len(ts) |-> ts[Order(ts, now)[k]]]
         /\ Renumber(ts, now) \in Seq(Task)
         /\ Len(Renumber(ts, now)) = Len(ts)
<1> DEFINE n == Len(ts)
           order == Order(ts, now)
           new == [k \in 1 .. n |-> ts[order[k]]]
<1>1. n \in Nat /\ order \in Positions(n)
  BY OrderPrecedes
<1> HIDE DEF order
<1>2. order \in [1 .. n -> 1 .. n]
  BY <1>1 DEF Positions
<1>3. \A i, j \in 1 .. n : order[i] = order[j] => i = j
  <2> SUFFICES ASSUME NEW i \in 1 .. n, NEW j \in 1 .. n, i # j
               PROVE  order[i] # order[j]
    OBVIOUS
  <2>1. i < j \/ j < i
    OBVIOUS
  <2> QED BY <1>1, <2>1 DEF Positions
<1>4. order \in Injection(1 .. n, 1 .. n)
  BY <1>2, <1>3 DEF Injection, IsInjective
<1>5. order \in Surjection(1 .. n, 1 .. n)
  BY <1>4, FS_Interval, FS_Injection
<1>6. order \in Bijection(1 .. n, 1 .. n)
  BY <1>4, <1>5 DEF Bijection
<1>7. \A k \in 1 .. n : ts[order[k]] \in Task
  BY <1>2, ElementOfSeq
<1>8. new \in [1 .. n -> Task]
  BY <1>7
<1>9. new \in Seq(Task)
  BY <1>1, <1>8, SeqDef
<1>10. Renumber(ts, now) = new
  BY <1>9, ConcatEmptySeq DEF Renumber, Arranged, order
<1>11. Len(new) = n
  BY <1>1
<1> QED BY <1>6, <1>9, <1>10, <1>11 DEF order

(* The id renumber() leaves a task with is the position the task is at. *)
THEOREM IdAfterFindsTask ==
  ASSUME NEW ts \in Seq(Task), NEW now \in Nat, NEW i \in 1 .. Len(ts)
  PROVE  /\ IdAfter(ts, now, i) \in 1 .. Len(ts)
         /\ Renumber(ts, now)[IdAfter(ts, now, i)] = ts[i]
<1>1. Order(ts, now) \in Surjection(1 .. Len(ts), 1 .. Len(ts))
  BY RenumberKeepsTasks DEF Bijection
<1>2. \E k \in 1 .. Len(ts) : Order(ts, now)[k] = i
  BY <1>1 DEF Surjection
<1>3. /\ IdAfter(ts, now, i) \in 1 .. Len(ts)
      /\ Order(ts, now)[IdAfter(ts, now, i)] = i
  BY <1>2 DEF IdAfter
<1> QED BY <1>3, RenumberKeepsTasks

-----------------------------------------------------------------------------
(* The sections. *)
LEMMA SectionsExclude ==
  ASSUME NEW t \in Task, NEW now \in Nat
  PROVE  /\ Section(t, now) = 1 <=> IsOverdue(t, now)
         /\ Section(t, now) = 2 <=> ~IsOverdue(t, now) /\ IsDueToday(t, now)
         /\ Section(t, now) = 3 <=>
              HasEndDate(t) /\ ~IsOverdue(t, now) /\ ~IsDueToday(t, now)
         /\ Section(t, now) = 4 <=> ~HasEndDate(t)
         /\ Section(t, now) \in 1 .. 4
<1>1. IsOverdue(t, now) => HasEndDate(t)
  BY DEF IsOverdue
<1>2. IsDueToday(t, now) => HasEndDate(t)
  BY DEF IsDueToday
<1>3. CASE IsOverdue(t, now)
  <2>1. Section(t, now) = 1
    BY <1>1, <1>3 DEF Section
  <2> QED BY <1>1, <1>3, <2>1
<1>4. CASE ~IsOverdue(t, now) /\ IsDueToday(t, now)
  <2>1. Section(t, now) = 2
    BY <1>2, <1>4 DEF Section
  <2> QED BY <1>2, <1>4, <2>1
<1>5. CASE HasEndDate(t) /\ ~IsOverdue(t, now) /\ ~IsDueToday(t, now)
  <2>1. Section(t, now) = 3
    BY <1>5 DEF Section
  <2> QED BY <1>5, <2>1
<1>6. CASE ~HasEndDate(t)
  <2>1. Section(t, now) = 4
    BY <1>1, <1>2, <1>6 DEF Section
  <2> QED BY <1>1, <1>2, <1>6, <2>1
<1> QED BY <1>3, <1>4, <1>5, <1>6

(* Two tasks in the order of the keys are in the order of the sections. *)
LEMMA PrecedesSections ==
  ASSUME NEW ts \in Seq(Task), NEW now \in Nat,
         NEW i \in 1 .. Len(ts), NEW j \in 1 .. Len(ts),
         <<i, j>> \in Precedes(ts, now)
  PROVE  /\ ts[i].done => ts[j].done
         /\ ts[i].done = ts[j].done =>
              /\ Section(ts[i], now) <= Section(ts[j], now)
              /\ Section(ts[i], now) = Section(ts[j], now) /\ Section(ts[i], now) # 1
                   => ByDateThenName(ts[i], ts[j])
<1> DEFINE t == ts[i]
           u == ts[j]
<1>1. t \in Task /\ u \in Task
  BY ElementOfSeq
<1>2. DOMAIN ts = 1 .. Len(ts)
  OBVIOUS
<1>3. \/ First(~t.done) < First(~u.done)
      \/ /\ First(~t.done) = First(~u.done)
         /\ \/ First(HasEndDate(t)) < First(HasEndDate(u))
            \/ /\ First(HasEndDate(t)) = First(HasEndDate(u))
               /\ \/ First(IsOverdue(t, now)) < First(IsOverdue(u, now))
                  \/ /\ First(IsOverdue(t, now)) = First(IsOverdue(u, now))
                     /\ \/ First(IsDueToday(t, now)) < First(IsDueToday(u, now))
                        \/ /\ First(IsDueToday(t, now)) = First(IsDueToday(u, now))
                           /\ \/ t.end < u.end
                              \/ t.end = u.end /\ (t.desc < u.desc \/ t.desc = u.desc)
  BY <1>2 DEF Precedes, Stronger, ByDone, ByHasEndDate, ByOverdue, ByIsDueToday,
              ByEndDate, ByDescription
<1> HIDE DEF t, u
<1>4. \/ ~t.done /\ u.done
      \/ /\ t.done <=> u.done
         /\ \/ HasEndDate(t) /\ ~HasEndDate(u)
            \/ /\ HasEndDate(t) <=> HasEndDate(u)
               /\ \/ IsOverdue(t, now) /\ ~IsOverdue(u, now)
                  \/ /\ IsOverdue(t, now) <=> IsOverdue(u, now)
                     /\ \/ IsDueToday(t, now) /\ ~IsDueToday(u, now)
                        \/ /\ IsDueToday(t, now) <=> IsDueToday(u, now)
                           /\ ByDateThenName(t, u)
  <2>1. \A b, c \in BOOLEAN : First(b) < First(c) => b /\ ~c
    BY DEF First
  <2>2. \A b, c \in BOOLEAN : First(b) = First(c) => (b <=> c)
    BY DEF First
  <2>3. /\ t.done \in BOOLEAN /\ u.done \in BOOLEAN
        /\ HasEndDate(t) \in BOOLEAN /\ HasEndDate(u) \in BOOLEAN
        /\ IsOverdue(t, now) \in BOOLEAN /\ IsOverdue(u, now) \in BOOLEAN
        /\ IsDueToday(t, now) \in BOOLEAN /\ IsDueToday(u, now) \in BOOLEAN
    BY <1>1, TaskFields DEF HasEndDate, IsOverdue, IsDueToday
  <2>4. t.end = u.end /\ (t.desc < u.desc \/ t.desc = u.desc) => ByDateThenName(t, u)
    BY <1>1, TaskFields DEF ByDateThenName
  <2>5. t.end < u.end => ByDateThenName(t, u)
    BY DEF ByDateThenName
  <2> QED BY <1>3, <2>1, <2>2, <2>3, <2>4, <2>5
<1>5. t.done \in BOOLEAN /\ u.done \in BOOLEAN
  BY <1>1, TaskFields
<1>6. /\ IsOverdue(t, now) => HasEndDate(t)
      /\ IsOverdue(u, now) => HasEndDate(u)
  BY DEF IsOverdue
<1>7. t.done = u.done =>
        /\ Section(t, now) <= Section(u, now)
        /\ Section(t, now) = Section(u, now) /\ Section(t, now) # 1
             => ByDateThenName(t, u)
  BY <1>1, <1>4, <1>5, <1>6, SectionsExclude
<1>8. t.done => u.done
  BY <1>4, <1>5
<1> QED BY <1>7, <1>8 DEF t, u

(* renumber() puts the tasks in the order of the sections, whatever the time,
   and in each but the overdue one in the order of date and description.   *)
THEOREM RenumberInOrder ==
  ASSUME NEW ts \in Seq(Task), NEW now \in Nat
  PROVE  /\ SectionsInOrder(Renumber(ts, now), now)
         /\ DatesInOrderIn(Renumber(ts, now), now, 2 .. 4)
<1> DEFINE new == Renumber(ts, now)
           order == Order(ts, now)
<1>1. /\ order \in [1 .. Len(ts) -> 1 .. Len(ts)]
      /\ InOrder(order, Len(ts), Precedes(ts, now))
  BY OrderPrecedes DEF Positions
<1>2. /\ DOMAIN new = 1 .. Len(ts)
      /\ \A k \in 1 .. Len(ts) : new[k] = ts[order[k]]
  BY RenumberKeepsTasks
<1> HIDE DEF new, order
<1>3. ASSUME NEW k \in DOMAIN new, NEW l \in DOMAIN new, k < l
      PROVE  /\ new[k].done => new[l].done
             /\ new[k].done = new[l].done =>
                  /\ Section(new[k], now) <= Section(new[l], now)
                  /\ Section(new[k], now) = Section(new[l], now)
                     /\ Section(new[k], now) # 1
                       => ByDateThenName(new[k], new[l])
  <2>1. /\ order[k] \in 1 .. Len(ts) /\ order[l] \in 1 .. Len(ts)
        /\ <<order[k], order[l]>> \in Precedes(ts, now)
    BY <1>1, <1>2, <1>3 DEF InOrder
  <2>2. new[k] = ts[order[k]] /\ new[l] = ts[order[l]]
    BY <1>2, <1>3
  <2>3. /\ ts[order[k]].done => ts[order[l]].done
        /\ ts[order[k]].done = ts[order[l]].done =>
             /\ Section(ts[order[k]], now) <= Section(ts[order[l]], now)
             /\ Section(ts[order[k]], now) = Section(ts[order[l]], now)
                /\ Section(ts[order[k]], now) # 1
                  => ByDateThenName(ts[order[k]], ts[order[l]])
    BY <2>1, PrecedesSections, Zenon
  <2> QED BY <2>2, <2>3, Zenon
<1>4. SectionsInOrder(new, now)
  BY <1>3 DEF SectionsInOrder
<1>5. DatesInOrderIn(new, now, 2 .. 4)
  BY <1>3 DEF DatesInOrderIn
<1> QED BY <1>4, <1>5 DEF new

-----------------------------------------------------------------------------
(* Every list the storage keeps is one renumber() has left behind. *)
Renumbered(new, now) == \E ts \in Seq(Task) : new = Renumber(ts, now)

(* addTask() leaves one task more, and returns the number that reaches it. *)
LEMMA AddTaskResult ==
  ASSUME NEW ts \in Seq(Task), NEW t \in Task, NEW now \in Nat
  PROVE  /\ Renumbered(AddTask(ts, t, now), now)
         /\ AddTask(ts, t, now) \in Seq(Task)
         /\ AddedId(ts, t, now) \in 1 .. Len(ts) + 1
         /\ Len(AddTask(ts, t, now)) = Len(ts) + 1
         /\ AddTask(ts, t, now)[AddedId(ts, t, now)] = t
<1>1. /\ Pushed(ts, t) \in Seq(Task)
      /\ Len(Pushed(ts, t)) = Len(ts) + 1
      /\ Pushed(ts, t)[Len(ts) + 1] = t
      /\ Len(ts) + 1 \in 1 .. Len(Pushed(ts, t))
  BY AppendProperties DEF Pushed
<1>2. Renumbered(AddTask(ts, t, now), now)
  BY <1>1 DEF Renumbered, AddTask
<1>3. /\ AddTask(ts, t, now) \in Seq(Task)
      /\ Len(AddTask(ts, t, now)) = Len(ts) + 1
  BY <1>1, RenumberKeepsTasks DEF AddTask
<1>4. /\ AddedId(ts, t, now) \in 1 .. Len(ts) + 1
      /\ AddTask(ts, t, now)[AddedId(ts, t, now)] = t
  BY <1>1, IdAfterFindsTask DEF AddTask, AddedId
<1> QED BY <1>2, <1>3, <1>4

(* editTask() leaves a list of tasks, with the new one at the number it
   returns. *)
LEMMA EditTaskResult ==
  ASSUME NEW ts \in Seq(Task), NEW t \in Task, NEW now \in Nat,
         NEW id \in 1 .. Len(ts)
  PROVE  /\ Renumbered(EditTask(ts, id, t, now), now)
         /\ EditTask(ts, id, t, now) \in Seq(Task)
         /\ EditedId(ts, id, t, now) \in 1 .. Len(ts)
         /\ Len(EditTask(ts, id, t, now)) = Len(ts)
         /\ EditTask(ts, id, t, now)[EditedId(ts, id, t, now)] = t
<1>1. /\ Replaced(ts, id, t) \in Seq(Task)
      /\ Len(Replaced(ts, id, t)) = Len(ts)
      /\ Replaced(ts, id, t)[id] = t
  BY ExceptSeq DEF Replaced
<1>2. Renumbered(EditTask(ts, id, t, now), now)
  BY <1>1 DEF Renumbered, EditTask
<1>3. /\ EditTask(ts, id, t, now) \in Seq(Task)
      /\ Len(EditTask(ts, id, t, now)) = Len(ts)
  BY <1>1, RenumberKeepsTasks DEF EditTask
<1>4. /\ EditedId(ts, id, t, now) \in 1 .. Len(ts)
      /\ EditTask(ts, id, t, now)[EditedId(ts, id, t, now)] = t
  BY <1>1, IdAfterFindsTask DEF EditTask, EditedId
<1> QED BY <1>2, <1>3, <1>4

(* removeTask() leaves a renumbered list of tasks, whatever number it is
   given. *)
LEMMA RemoveTaskResult ==
  ASSUME NEW ts \in Seq(Task), NEW id \in Nat, NEW now \in Nat
  PROVE  /\ Renumbered(RemoveTask(ts, id, now), now)
         /\ RemoveTask(ts, id, now) \in Seq(Task)
<1> DEFINE left == IF IsId(ts, id) THEN RemoveAt(ts, id) ELSE ts
<1>1. left \in Seq(Task)
  <2>1. CASE ~IsId(ts, id)
    BY <2>1
  <2>2. CASE IsId(ts, id)
    <3>1. /\ SubSeq(ts, 1, id - 1) \in Seq(Task)
          /\ SubSeq(ts, id + 1, Len(ts)) \in Seq(Task)
      BY <2>2, SubSeqProperties, ElementOfSeq DEF IsId
    <3>2. RemoveAt(ts, id) \in Seq(Task)
      BY <3>1, ConcatProperties DEF RemoveAt
    <3> QED BY <2>2, <3>2
  <2> QED BY <2>1, <2>2
<1>2. RemoveTask(ts, id, now) = Renumber(left, now)
  BY DEF RemoveTask
<1> QED BY <1>1, <1>2, RenumberKeepsTasks DEF Renumbered

(* A set of positions of a list is finite. *)
LEMMA FinitePositions ==
  ASSUME NEW n \in Nat, NEW P \in SUBSET (1 .. n)
  PROVE  IsFiniteSet(P) /\ Cardinality(P) \in Nat
<1>1. IsFiniteSet(1 .. n)
  BY FS_Interval
<1>2. IsFiniteSet(P)
  BY <1>1, FS_Subset
<1> QED BY <1>2, FS_CardinalityType

(* There is a first position of those a search selects, a second... *)
LEMMA EnumerationReached ==
  ASSUME NEW n \in Nat, NEW P \in SUBSET (1 .. n), NEW k \in 1 .. Cardinality(P)
  PROVE  \E i \in P : Cardinality({j \in P : j <= i}) = k
<1> DEFINE below(i) == {x \in P : x <= i}
           rank == [i \in P |-> Cardinality(below(i))]
<1>1. IsFiniteSet(P) /\ Cardinality(P) \in Nat
  BY FinitePositions
<1>2. ASSUME NEW i \in P
      PROVE  /\ IsFiniteSet(below(i))
             /\ rank[i] \in 1 .. Cardinality(P)
  <2>1. /\ IsFiniteSet(below(i))
        /\ Cardinality(below(i)) <= Cardinality(P)
    BY <1>1, FS_Subset
  <2>2. i \in below(i)
    OBVIOUS
  <2>3. Cardinality(below(i)) \in Nat /\ Cardinality(below(i)) # 0
    BY <2>1, <2>2, FS_CardinalityType, FS_EmptySet
  <2> QED BY <1>1, <2>1, <2>3
<1>3. ASSUME NEW i \in P, NEW j \in P, i < j
      PROVE  rank[i] # rank[j]
  <2> i \in Int /\ j \in Int
    OBVIOUS
  <2>1. below(i) \subseteq below(j) /\ j \in below(j) /\ j \notin below(i)
    <3>1. \A x \in P : x <= i => x <= j
      BY <1>3
    <3>2. ~(j <= i) /\ j <= j
      BY <1>3
    <3> QED BY <3>1, <3>2, Zenon
  <2>2. Cardinality(below(i)) # Cardinality(below(j))
    BY <1>2, <2>1, FS_Subset
  <2> QED BY <2>2
<1>4. rank \in Injection(P, 1 .. Cardinality(P))
  <2>1. rank \in [P -> 1 .. Cardinality(P)]
    BY <1>2
  <2>2. ASSUME NEW i \in P, NEW j \in P, i # j
        PROVE  rank[i] # rank[j]
    <3>1. i < j \/ j < i
      BY <2>2
    <3> QED BY <1>3, <3>1
  <2> QED BY <2>1, <2>2 DEF Injection, IsInjective
<1>5. Cardinality(1 .. Cardinality(P)) = Cardinality(P)
  BY <1>1, FS_Interval
<1>6. rank \in Surjection(P, 1 .. Cardinality(P))
  BY <1>1, <1>4, <1>5, FS_Interval, FS_Injection
<1> QED BY <1>6 DEF Surjection

(* A search numbers every task it selects with its position. *)
LEMMA EnumerationOnto ==
  ASSUME NEW n \in Nat, NEW P \in SUBSET (1 .. n), NEW k \in 1 .. Cardinality(P)
  PROVE  Enumeration(P)[k] \in P
BY EnumerationReached DEF Enumeration

(* What a search shows is tasks of the list, each beside the number that
   reaches it. *)
LEMMA SearchResult ==
  ASSUME NEW ts \in Seq(Task), NEW hits \in SUBSET (1 .. Len(ts))
  PROVE  /\ Search(ts, hits) \in Seq([number : 1 .. Len(ts), task : Task])
         /\ \A k \in DOMAIN Search(ts, hits) :
              Search(ts, hits)[k].task = ts[Search(ts, hits)[k].number]
<1> DEFINE found == [k \in 1 .. Cardinality(hits) |->
                       [number |-> Enumeration(hits)[k],
                        task |-> ts[Enumeration(hits)[k]]]]
           Found == [number : 1 .. Len(ts), task : Task]
<1>1. Len(ts) \in Nat /\ Cardinality(hits) \in Nat
  <2>1. Len(ts) \in Nat
    OBVIOUS
  <2> QED BY <2>1, FinitePositions
<1>2. \A k \in 1 .. Cardinality(hits) : Enumeration(hits)[k] \in hits
  BY <1>1, EnumerationOnto
<1>3. \A k \in 1 .. Cardinality(hits) : ts[Enumeration(hits)[k]] \in Task
  BY <1>2, ElementOfSeq
<1>4. found \in [1 .. Cardinality(hits) -> Found]
  BY <1>2, <1>3
<1>5. found \in Seq(Found)
  <2> HIDE DEF found, Found
  <2> QED BY <1>1, <1>4, SeqDef
<1>6. Search(ts, hits) = <<>> \o found
  BY DEF Search
<1>7. Search(ts, hits) = found
  BY <1>5, <1>6, ConcatEmptySeq
<1>8. \A k \in DOMAIN found : found[k].task = ts[found[k].number]
  OBVIOUS
<1> QED BY <1>5, <1>7, <1>8

(* When the tasks that are done come last, the tasks getTasks() returns are the
   first of the list, so that the row of a task there is its id.           *)
LEMMA RowIsId ==
  ASSUME NEW ts \in Seq(Task), NEW id \in 1 .. Len(ts), ~ts[id].done,
         \A i, j \in DOMAIN ts : i < j => (ts[i].done => ts[j].done)
  PROVE  /\ id \in 1 .. Len(GetTasks(ts))
         /\ GetTasks(ts)[id] = [number |-> id, task |-> ts[id]]
<1> DEFINE P == Undone(ts)
<1>1. Len(ts) \in Nat /\ DOMAIN ts = 1 .. Len(ts)
  OBVIOUS
<1>2. P \in SUBSET (1 .. Len(ts)) /\ id \in P
  BY DEF Undone
<1>3. \A i \in P : \A j \in 1 .. i : j \in P
  BY <1>1 DEF Undone
<1> HIDE DEF P
<1>4. IsFiniteSet(P) /\ Cardinality(P) \in Nat
  BY <1>1, <1>2, FinitePositions
<1>5. ASSUME NEW i \in P
      PROVE  i \in Nat \ {0} /\ Cardinality({j \in P : j <= i}) = i
  <2>1. i \in Nat \ {0}
    BY <1>1, <1>2
  <2>2. \A j : j \in P /\ j <= i <=> j \in 1 .. i
    <3>1. \A j \in P : j \in Nat /\ 1 <= j
      BY <1>1, <1>2
    <3>2. \A j : j \in P /\ j <= i => j \in 1 .. i
      BY <2>1, <3>1
    <3>3. \A j : j \in 1 .. i => j \in P
      BY <1>3
    <3>4. \A j : j \in 1 .. i => j <= i
      BY <2>1
    <3> QED BY <3>2, <3>3, <3>4, Zenon
  <2>3. {j \in P : j <= i} = 1 .. i
    BY <2>2, Zenon
  <2>4. Cardinality(1 .. i) = i
    BY <2>1, FS_Interval
  <2> QED BY <2>1, <2>3, <2>4
<1>6. id \in 1 .. Cardinality(P)
  <2>1. {j \in P : j <= id} \in SUBSET P
    OBVIOUS
  <2>2. Cardinality({j \in P : j <= id}) <= Cardinality(P)
    BY <1>4, <2>1, FS_Subset
  <2> QED BY <1>2, <1>4, <1>5, <2>2
<1>7. (CHOOSE i \in P : Cardinality({j \in P : j <= i}) = id) = id
  BY <1>2, <1>5
<1>8. Enumeration(P)[id] = id
  BY <1>6, <1>7 DEF Enumeration
<1> DEFINE found == [k \in 1 .. Cardinality(P) |->
                       LET i == Enumeration(P)[k] IN [number |-> i, task |-> ts[i]]]
           Found == [number : 1 .. Len(ts), task : Task]
<1>9. found \in Seq(Found)
  <2>1. \A k \in 1 .. Cardinality(P) : Enumeration(P)[k] \in 1 .. Len(ts)
    BY <1>1, <1>2, EnumerationOnto
  <2>2. \A k \in 1 .. Cardinality(P) : ts[Enumeration(P)[k]] \in Task
    BY <2>1, ElementOfSeq
  <2>3. found \in [1 .. Cardinality(P) -> Found]
    BY <2>1, <2>2
  <2> HIDE DEF found, Found
  <2> QED BY <1>4, <2>3, SeqDef
<1>10. GetTasks(ts) = <<>> \o found
  BY DEF GetTasks, Search, P
<1>11. GetTasks(ts) = found
  BY <1>9, <1>10, ConcatEmptySeq
<1>12. found[id] = [number |-> id, task |-> ts[id]]
  BY <1>6, <1>8
<1>13. Len(found) = Cardinality(P)
  BY <1>4
<1> QED BY <1>6, <1>11, <1>12, <1>13

-----------------------------------------------------------------------------
(* The order of the list is one of the tasks: of two the first key they differ
   in decides, from the last sort to the first.                            *)
Lex(a, b, tie) == a < b \/ (a = b /\ tie)

AtOrBefore(t, u, time) ==
  Lex(First(~t.done), First(~u.done),
    Lex(First(HasEndDate(t)), First(HasEndDate(u)),
      Lex(First(IsOverdue(t, time)), First(IsOverdue(u, time)),
        Lex(First(IsDueToday(t, time)), First(IsDueToday(u, time)),
          Lex(t.end, u.end, t.desc <= u.desc)))))

Tidy(ts, time) ==
  \A i, j \in 1 .. Len(ts) : i < j => AtOrBefore(ts[i], ts[j], time)

(* The key that puts some of the tasks first is a number. *)
LEMMA FirstIsKey == \A b \in BOOLEAN : First(b) \in Int
BY DEF First

(* The keys of a task are numbers. *)
LEMMA TimeKeys ==
  ASSUME NEW t \in Task, NEW time \in Nat
  PROVE  /\ First(~t.done) \in Int /\ First(HasEndDate(t)) \in Int
         /\ First(IsOverdue(t, time)) \in Int /\ First(IsDueToday(t, time)) \in Int
         /\ t.end \in Int /\ t.desc \in Int /\ t.done \in BOOLEAN
<1>1. /\ (~t.done) \in BOOLEAN /\ HasEndDate(t) \in BOOLEAN
      /\ IsOverdue(t, time) \in BOOLEAN /\ IsDueToday(t, time) \in BOOLEAN
  BY DEF HasEndDate, IsOverdue, IsDueToday
<1> QED BY <1>1, FirstIsKey, TaskFields

(* Any two tasks are in order one way or the other, both ways only when it is not
   the order that tells them apart. *)
LEMMA OrderOfTasks ==
  ASSUME NEW time \in Nat, NEW t \in Task, NEW u \in Task
  PROVE  /\ AtOrBefore(t, t, time)
         /\ AtOrBefore(t, u, time) \/ AtOrBefore(u, t, time)
         /\ AtOrBefore(t, u, time) /\ AtOrBefore(u, t, time)
              => t.done = u.done /\ t.end = u.end /\ t.desc = u.desc
<1>1. First(~t.done) = First(~u.done) => t.done = u.done BY TimeKeys DEF First
<1> QED BY <1>1, TimeKeys DEF AtOrBefore, Lex

(* The order is transitive. *)
LEMMA OrderIsTransitive ==
  ASSUME NEW time \in Nat, NEW t \in Task, NEW u \in Task, NEW v \in Task,
         AtOrBefore(t, u, time), AtOrBefore(u, v, time)
  PROVE  AtOrBefore(t, v, time)
BY TimeKeys DEF AtOrBefore, Lex

(* What was done and is not any more comes before what it was. *)
LEMMA UnmarkedComesFirst ==
  ASSUME NEW time \in Nat, NEW t \in Task, t.done
  PROVE  AtOrBefore([t EXCEPT !.done = FALSE], t, time)
<1> DEFINE u == [t EXCEPT !.done = FALSE]
<1>1. u.done = FALSE BY DEF Task
<1>2. First(~u.done) < First(~t.done) BY <1>1 DEF First
<1> HIDE DEF u
<1>3. AtOrBefore(u, t, time) BY <1>2 DEF AtOrBefore, Lex
<1> QED BY <1>3 DEF u

(* A task is before what it is once it is marked. *)
LEMMA MarkedComesLast ==
  ASSUME NEW time \in Nat, NEW t \in Task, ~t.done
  PROVE  AtOrBefore(t, [t EXCEPT !.done = TRUE], time)
<1> DEFINE u == [t EXCEPT !.done = TRUE]
<1>1. u.done = TRUE BY DEF Task
<1>2. First(~t.done) < First(~u.done) BY <1>1 DEF First
<1> HIDE DEF u
<1>3. AtOrBefore(t, u, time) BY <1>2 DEF AtOrBefore, Lex
<1> QED BY <1>3 DEF u

(* What comes first by the keys of every sort is at or before what comes second. *)
LEMMA TieBreak ==
  ASSUME NEW t \in Task, NEW u \in Task, NEW time \in Nat, NEW tie \in BOOLEAN,
         Lex(First(~t.done), First(~u.done),
           Lex(First(HasEndDate(t)), First(HasEndDate(u)),
             Lex(First(IsOverdue(t, time)), First(IsOverdue(u, time)),
               Lex(First(IsDueToday(t, time)), First(IsDueToday(u, time)),
                 Lex(t.end, u.end, Lex(t.desc, u.desc, tie))))))
  PROVE  AtOrBefore(t, u, time) /\ (AtOrBefore(u, t, time) => tie)
BY TimeKeys DEF AtOrBefore, Lex

(* It is the order of the positions too, where of two tasks that none of the
   keys tells apart the one in front stays there.                          *)
LEMMA PrecedesTasks ==
  ASSUME NEW ts \in Seq(Task), NEW time \in Nat,
         NEW i \in 1 .. Len(ts), NEW j \in 1 .. Len(ts),
         <<i, j>> \in Precedes(ts, time)
  PROVE  /\ AtOrBefore(ts[i], ts[j], time)
         /\ AtOrBefore(ts[j], ts[i], time) => i < j
<1> DEFINE t == ts[i]
           u == ts[j]
<1>1. t \in Task /\ u \in Task
  BY ElementOfSeq
<1>2. DOMAIN ts = 1 .. Len(ts)
  OBVIOUS
<1>3. Lex(First(~t.done), First(~u.done),
        Lex(First(HasEndDate(t)), First(HasEndDate(u)),
          Lex(First(IsOverdue(t, time)), First(IsOverdue(u, time)),
            Lex(First(IsDueToday(t, time)), First(IsDueToday(u, time)),
              Lex(t.end, u.end, Lex(t.desc, u.desc, i < j))))))
  BY <1>2 DEF Precedes, Stronger, Forward, ByDone, ByHasEndDate, ByOverdue,
              ByIsDueToday, ByEndDate, ByDescription, Lex
<1> HIDE DEF t, u
<1>4. (i < j) \in BOOLEAN OBVIOUS
<1>5. AtOrBefore(t, u, time) /\ (AtOrBefore(u, t, time) => i < j)
  BY <1>1, <1>3, <1>4, TieBreak, Zenon
<1> QED BY <1>5 DEF t, u

(* renumber() leaves the list in the order of the tasks. *)
LEMMA RenumberTidies ==
  ASSUME NEW ts \in Seq(Task), NEW time \in Nat
  PROVE  Tidy(Renumber(ts, time), time)
<1> DEFINE new == Renumber(ts, time)
           order == Order(ts, time)
<1>1. /\ order \in [1 .. Len(ts) -> 1 .. Len(ts)]
      /\ InOrder(order, Len(ts), Precedes(ts, time))
  BY OrderPrecedes DEF Positions
<1>2. /\ Len(new) = Len(ts)
      /\ \A k \in 1 .. Len(ts) : new[k] = ts[order[k]]
  BY RenumberKeepsTasks
<1> HIDE DEF new, order
<1>3. ASSUME NEW k \in 1 .. Len(new), NEW l \in 1 .. Len(new), k < l
      PROVE  AtOrBefore(new[k], new[l], time)
  <2>1. /\ order[k] \in 1 .. Len(ts) /\ order[l] \in 1 .. Len(ts)
        /\ <<order[k], order[l]>> \in Precedes(ts, time)
    BY <1>1, <1>2, <1>3 DEF InOrder
  <2>2. AtOrBefore(ts[order[k]], ts[order[l]], time) BY <2>1, PrecedesTasks
  <2> QED BY <1>2, <1>3, <2>2
<1> QED BY <1>3 DEF Tidy, new

-----------------------------------------------------------------------------
(* What stays where it is. *)
LEMMA HasSmallest ==
  ASSUME NEW S \in SUBSET Nat, S # {}
  PROVE  \E m \in S : \A k \in S : m <= k
<1> DEFINE Less == OpToRel(<, Nat)
<1>1. IsWellFoundedOn(Less, Nat) BY NatLessThanWellFounded DEF OpToRel
<1>2. \A i, j \in Nat : i < j => <<i, j>> \in Less BY DEF OpToRel
<1> HIDE DEF Less
<1>3. PICK m \in S : \A k \in S : ~(<<k, m>> \in Less) BY <1>1, WFMin
<1>4. \A k \in S : ~(k < m) BY <1>2, <1>3
<1> QED BY <1>4

(* Every position is taken by a permutation. *)
LEMMA PositionsOnto ==
  ASSUME NEW n \in Nat, NEW p \in Positions(n)
  PROVE  /\ p \in [1 .. n -> 1 .. n]
         /\ \A i, j \in 1 .. n : p[i] = p[j] => i = j
         /\ \A j \in 1 .. n : \E i \in 1 .. n : p[i] = j
<1>1. p \in [1 .. n -> 1 .. n] BY DEF Positions
<1>2. ASSUME NEW i \in 1 .. n, NEW j \in 1 .. n, i # j PROVE p[i] # p[j]
  <2>1. i < j \/ j < i BY <1>2
  <2> QED BY <2>1 DEF Positions
<1>3. p \in Injection(1 .. n, 1 .. n) BY <1>1, <1>2 DEF Injection, IsInjective
<1>4. p \in Surjection(1 .. n, 1 .. n) BY <1>3, FS_Interval, FS_Injection
<1> QED BY <1>1, <1>2, <1>4 DEF Surjection

(* The tasks of a front part that is in order, and before all that comes after
   it, stay where they are.                                                *)
LEMMA FrontStays ==
  ASSUME NEW ts \in Seq(Task), NEW time \in Nat, NEW m \in Nat,
         \A i, j \in 1 .. Len(ts) : i < m /\ i < j => AtOrBefore(ts[i], ts[j], time)
  PROVE  \A k \in 1 .. Len(ts) : k < m => Order(ts, time)[k] = k
<1> DEFINE n == Len(ts)
           p == Order(ts, time)
           S == {k \in 1 .. n : k < m /\ p[k] # k}
<1>1. n \in Nat /\ p \in Positions(n) /\ InOrder(p, n, Precedes(ts, time))
  BY OrderPrecedes
<1> HIDE DEF p
<1>2. /\ p \in [1 .. n -> 1 .. n]
      /\ \A i, j \in 1 .. n : p[i] = p[j] => i = j
      /\ \A j \in 1 .. n : \E i \in 1 .. n : p[i] = j
  BY <1>1, PositionsOnto
<1> SUFFICES ASSUME S # {} PROVE FALSE
  BY DEF p
<1>3. PICK k \in S : \A i \in S : k <= i
  <2>1. S \in SUBSET Nat OBVIOUS
  <2> QED BY <2>1, HasSmallest
<1>4. k \in 1 .. n /\ k < m /\ p[k] # k /\ p[k] \in 1 .. n BY <1>2, <1>3
<1>5. \A i \in 1 .. n : i < k => p[i] = i BY <1>3, <1>4
<1>6. k < p[k]
  <2>1. p[k] < k => p[p[k]] = p[k] BY <1>4, <1>5
  <2>2. p[p[k]] = p[k] => p[k] = k BY <1>2, <1>4
  <2>3. p[k] \in Int /\ k \in Int BY <1>4
  <2> QED BY <1>4, <2>1, <2>2, <2>3
<1>7. PICK l \in 1 .. n : p[l] = k BY <1>2, <1>4
<1>8. k < l BY <1>4, <1>5, <1>7
<1>9. <<p[k], p[l]>> \in Precedes(ts, time) BY <1>1, <1>4, <1>7, <1>8 DEF InOrder
<1>10. AtOrBefore(ts[p[k]], ts[k], time) /\ (AtOrBefore(ts[k], ts[p[k]], time) => p[k] < k)
  BY <1>4, <1>7, <1>9, PrecedesTasks
<1>11. AtOrBefore(ts[k], ts[p[k]], time) BY <1>4, <1>6
<1> QED BY <1>4, <1>6, <1>10, <1>11

(* And so do those of a back part. *)
LEMMA BackStays ==
  ASSUME NEW ts \in Seq(Task), NEW time \in Nat, NEW m \in Nat,
         \A i, j \in 1 .. Len(ts) : j > m /\ i < j => AtOrBefore(ts[i], ts[j], time)
  PROVE  \A k \in 1 .. Len(ts) : k > m => Order(ts, time)[k] = k
<1> DEFINE n == Len(ts)
           p == Order(ts, time)
           S == {x \in 0 .. n : n - x \in 1 .. n /\ n - x > m /\ p[n - x] # n - x}
<1>1. n \in Nat /\ p \in Positions(n) /\ InOrder(p, n, Precedes(ts, time))
  BY OrderPrecedes
<1> HIDE DEF p
<1>2. /\ p \in [1 .. n -> 1 .. n]
      /\ \A i, j \in 1 .. n : p[i] = p[j] => i = j
      /\ \A j \in 1 .. n : \E i \in 1 .. n : p[i] = j
  BY <1>1, PositionsOnto
<1> SUFFICES ASSUME S # {} PROVE FALSE
  <2> SUFFICES ASSUME NEW k \in 1 .. n, k > m, p[k] # k PROVE S # {}
    BY DEF p
  <2>1. n - k \in 0 .. n /\ n - (n - k) = k OBVIOUS
  <2>2. n - k \in S BY <2>1
  <2> QED BY <2>2
<1>3. PICK x \in S : \A i \in S : x <= i
  <2>1. S \in SUBSET Nat OBVIOUS
  <2> QED BY <2>1, HasSmallest
<1> DEFINE k == n - x
<1>4. k \in 1 .. n /\ k > m /\ p[k] # k /\ p[k] \in 1 .. n BY <1>2, <1>3
<1>5. ASSUME NEW i \in 1 .. n, i > k PROVE p[i] = i
  <2>1. n - i \in 0 .. n /\ n - (n - i) = i /\ ~(x <= n - i) BY <1>3, <1>5
  <2>2. n - i \notin S BY <1>3, <2>1
  <2> QED BY <1>4, <1>5, <2>1, <2>2
<1> HIDE DEF k
<1>6. p[k] < k
  <2>1. k < p[k] => p[p[k]] = p[k] BY <1>4, <1>5
  <2>2. p[p[k]] = p[k] => p[k] = k BY <1>2, <1>4
  <2>3. p[k] \in Int /\ k \in Int BY <1>4
  <2> QED BY <1>4, <2>1, <2>2, <2>3
<1>7. PICK l \in 1 .. n : p[l] = k BY <1>2, <1>4
<1>8. l < k BY <1>4, <1>5, <1>7
<1>9. <<p[l], p[k]>> \in Precedes(ts, time) BY <1>1, <1>4, <1>7, <1>8 DEF InOrder
<1>10. AtOrBefore(ts[k], ts[p[k]], time) /\ (AtOrBefore(ts[p[k]], ts[k], time) => k < p[k])
  BY <1>4, <1>7, <1>9, PrecedesTasks
<1>11. AtOrBefore(ts[p[k]], ts[k], time) BY <1>4, <1>6
<1> QED BY <1>4, <1>6, <1>10, <1>11

(* A list in order stays as it is. *)
LEMMA TidyStays ==
  ASSUME NEW ts \in Seq(Task), NEW time \in Nat, Tidy(ts, time)
  PROVE  Renumber(ts, time) = ts
<1>1. Len(ts) + 1 \in Nat OBVIOUS
<1>2. \A k \in 1 .. Len(ts) : k < Len(ts) + 1 => Order(ts, time)[k] = k
  BY <1>1, FrontStays DEF Tidy
<1>3. Renumber(ts, time) = [k \in 1 .. Len(ts) |-> ts[k]]
  BY <1>2, RenumberKeepsTasks
<1>4. DOMAIN ts = 1 .. Len(ts) /\ ts = [k \in DOMAIN ts |-> ts[k]] OBVIOUS
<1> QED BY <1>3, <1>4

-----------------------------------------------------------------------------
(* Lists that hold the same tasks, each as often, in some order. *)
Rearranged(ts, us) ==
  /\ Len(ts) = Len(us)
  /\ \E p \in Positions(Len(ts)) : \A k \in 1 .. Len(ts) : ts[k] = us[p[k]]

(* A function that takes no value twice is a permutation. *)
LEMMA OneToOne ==
  ASSUME NEW n \in Nat, NEW p \in [1 .. n -> 1 .. n],
         \A i, j \in 1 .. n : p[i] = p[j] => i = j
  PROVE  p \in Positions(n)
BY DEF Positions

(* A permutation takes every value. *)
LEMMA EachIsTaken ==
  ASSUME NEW n \in Nat, NEW p \in Positions(n), NEW j \in 1 .. n
  PROVE  \E i \in 1 .. n : p[i] = j
BY PositionsOnto

(* What a rearranged list is, for a list of any elements. *)
LEMMA RearrangedBy ==
  ASSUME NEW S, NEW ts \in Seq(S), NEW us \in Seq(S), Rearranged(ts, us)
  PROVE  /\ Len(ts) \in Nat /\ Len(us) = Len(ts)
         /\ \E p \in Positions(Len(ts)) : \A k \in 1 .. Len(ts) : ts[k] = us[p[k]]
BY DEF Rearranged

(* A list is itself rearranged. *)
LEMMA RearrangedSelf ==
  ASSUME NEW S, NEW ts \in Seq(S)
  PROVE  Rearranged(ts, ts)
<1> DEFINE p == [k \in 1 .. Len(ts) |-> k]
<1>1. Len(ts) \in Nat OBVIOUS
<1>2. p \in Positions(Len(ts)) BY <1>1 DEF Positions
<1>3. \A k \in 1 .. Len(ts) : ts[k] = ts[p[k]] OBVIOUS
<1> HIDE DEF p
<1> QED BY <1>2, <1>3 DEF Rearranged

(* If one list is another rearranged, so is the other the one. *)
LEMMA RearrangedBack ==
  ASSUME NEW S, NEW ts \in Seq(S), NEW us \in Seq(S), Rearranged(ts, us)
  PROVE  Rearranged(us, ts)
<1> DEFINE n == Len(ts)
<1>1. n \in Nat /\ Len(us) = n BY RearrangedBy
<1>0. PICK p \in Positions(n) : \A k \in 1 .. n : ts[k] = us[p[k]]
  BY RearrangedBy
<1>2. /\ p \in [1 .. n -> 1 .. n]
      /\ \A i, j \in 1 .. n : p[i] = p[j] => i = j
      /\ \A j \in 1 .. n : \E i \in 1 .. n : p[i] = j
      /\ \A k \in 1 .. n : ts[k] = us[p[k]]
  BY <1>0, <1>1, PositionsOnto
<1> HIDE DEF n
<1> DEFINE q == [j \in 1 .. n |-> CHOOSE i \in 1 .. n : p[i] = j]
<1>3. ASSUME NEW j \in 1 .. n PROVE q[j] \in 1 .. n /\ p[q[j]] = j
  BY <1>2
<1> HIDE DEF q
<1>4. q \in [1 .. n -> 1 .. n] BY <1>3 DEF q
<1>5. q \in Positions(n)
  <2>1. \A i, j \in 1 .. n : q[i] = q[j] => i = j BY <1>3
  <2> QED BY <1>1, <1>4, <2>1, OneToOne
<1>6. \A k \in 1 .. n : us[k] = ts[q[k]] BY <1>2, <1>3
<1> QED BY <1>1, <1>5, <1>6 DEF Rearranged, n

(* A list rearranged twice is the list rearranged. *)
LEMMA RearrangedTwice ==
  ASSUME NEW S, NEW ts \in Seq(S), NEW us \in Seq(S), NEW vs \in Seq(S),
         Rearranged(ts, us), Rearranged(us, vs)
  PROVE  Rearranged(ts, vs)
<1> DEFINE n == Len(ts)
<1>1. n \in Nat /\ Len(us) = n /\ Len(vs) = n BY RearrangedBy
<1>0. PICK p \in Positions(n) : \A k \in 1 .. n : ts[k] = us[p[k]]
  BY RearrangedBy
<1>2. /\ p \in [1 .. n -> 1 .. n]
      /\ \A i, j \in 1 .. n : p[i] = p[j] => i = j
      /\ \A j \in 1 .. n : \E i \in 1 .. n : p[i] = j
      /\ \A k \in 1 .. n : ts[k] = us[p[k]]
  BY <1>0, <1>1, PositionsOnto
<1>4. PICK q \in Positions(n) : \A k \in 1 .. n : us[k] = vs[q[k]]
  BY <1>1, RearrangedBy
<1>3. /\ q \in [1 .. n -> 1 .. n]
      /\ \A i, j \in 1 .. n : q[i] = q[j] => i = j
      /\ \A k \in 1 .. n : us[k] = vs[q[k]]
  BY <1>1, <1>4, PositionsOnto
<1> HIDE DEF n
<1> DEFINE r == [k \in 1 .. n |-> q[p[k]]]
<1>9. ASSUME NEW k \in 1 .. n PROVE r[k] = q[p[k]] /\ p[k] \in 1 .. n BY <1>2
<1>8. r \in [1 .. n -> 1 .. n] BY <1>2, <1>3
<1> HIDE DEF r
<1>5. \A i, j \in 1 .. n : r[i] = r[j] => i = j
  <2> SUFFICES ASSUME NEW i \in 1 .. n, NEW j \in 1 .. n, r[i] = r[j] PROVE i = j
    OBVIOUS
  <2>1. p[i] \in 1 .. n /\ p[j] \in 1 .. n /\ q[p[i]] = q[p[j]] BY <1>9
  <2>2. p[i] = p[j] BY <1>3, <2>1
  <2> QED BY <1>2, <2>2
<1>6. \A k \in 1 .. n : ts[k] = vs[r[k]]
  <2> SUFFICES ASSUME NEW k \in 1 .. n PROVE ts[k] = vs[r[k]] OBVIOUS
  <2>1. p[k] \in 1 .. n /\ r[k] = q[p[k]] BY <1>9
  <2>2. us[p[k]] = vs[q[p[k]]] BY <1>3, <2>1
  <2> QED BY <1>2, <2>1, <2>2
<1>7. r \in Positions(n) BY <1>1, <1>5, <1>8, OneToOne
<1> QED BY <1>1, <1>6, <1>7 DEF Rearranged, n

(* Of two positions that hold the same task, the one can be taken for the other. *)
LEMMA RearrangedAt ==
  ASSUME NEW S, NEW ts \in Seq(S), NEW us \in Seq(S), Rearranged(ts, us),
         NEW i \in 1 .. Len(ts), NEW j \in 1 .. Len(us), ts[i] = us[j]
  PROVE  /\ Len(ts) \in Nat /\ Len(us) = Len(ts)
         /\ \E p \in Positions(Len(ts)) :
              /\ \A k \in 1 .. Len(ts) : ts[k] = us[p[k]]
              /\ p[i] = j
<1> DEFINE n == Len(ts)
<1>1. n \in Nat /\ Len(us) = n BY RearrangedBy
<1>0. PICK p \in Positions(n) : \A k \in 1 .. n : ts[k] = us[p[k]]
  BY RearrangedBy
<1>2. /\ p \in [1 .. n -> 1 .. n]
      /\ \A k, l \in 1 .. n : p[k] = p[l] => k = l
      /\ \A k \in 1 .. n : ts[k] = us[p[k]]
  <2> HIDE DEF n
  <2>1. p \in [1 .. n -> 1 .. n] BY <1>0, <1>1, PositionsOnto
  <2>2. \A k, l \in 1 .. n : p[k] = p[l] => k = l BY <1>0, <1>1, PositionsOnto
  <2> QED BY <1>0, <2>1, <2>2
<1>3. i \in 1 .. n /\ j \in 1 .. n BY <1>1
<1> HIDE DEF n
<1> DEFINE q == [k \in 1 .. n |-> IF k = i THEN j ELSE IF p[k] = j THEN p[i] ELSE p[k]]
<1>4. q \in [1 .. n -> 1 .. n] BY <1>2, <1>3
<1>5. \A k, l \in 1 .. n : q[k] = q[l] => k = l
  <2> SUFFICES ASSUME NEW k \in 1 .. n, NEW l \in 1 .. n, k # l PROVE q[k] # q[l]
    OBVIOUS
  <2>1. p[k] # p[l] /\ (k # i => p[k] # p[i]) /\ (l # i => p[l] # p[i])
    BY <1>2, <1>3
  <2> QED BY <2>1
<1>6. \A k \in 1 .. n : ts[k] = us[q[k]]
  <2> SUFFICES ASSUME NEW k \in 1 .. n PROVE ts[k] = us[q[k]]
    OBVIOUS
  <2>1. ts[k] = us[p[k]] /\ ts[i] = us[p[i]] BY <1>2, <1>3
  <2> QED BY <2>1
<1>7. q[i] = j BY <1>3
<1> HIDE DEF q
<1>8. q \in Positions(n) BY <1>1, <1>4, <1>5, OneToOne
<1> QED BY <1>1, <1>6, <1>7, <1>8 DEF n

(* A task put in the place of the same one of either list. *)
LEMMA ReplacedBoth ==
  ASSUME NEW S, NEW ts \in Seq(S), NEW us \in Seq(S), Rearranged(ts, us),
         NEW i \in 1 .. Len(ts), NEW j \in 1 .. Len(us), ts[i] = us[j], NEW t \in S
  PROVE  Rearranged(Replaced(ts, i, t), Replaced(us, j, t))
<1> DEFINE n == Len(ts)
<1>0. PICK p \in Positions(n) : (\A k \in 1 .. n : ts[k] = us[p[k]]) /\ p[i] = j
  BY RearrangedAt
<1>1. /\ p \in [1 .. n -> 1 .. n]
      /\ \A k, l \in 1 .. n : p[k] = p[l] => k = l
      /\ \A k \in 1 .. n : ts[k] = us[p[k]]
      /\ p[i] = j
  <2>1. n \in Nat BY RearrangedAt
  <2> QED BY <1>0, <2>1, PositionsOnto
<1>2. n \in Nat /\ Len(us) = n BY RearrangedAt
<1> DEFINE new == Replaced(ts, i, t)
           old == Replaced(us, j, t)
<1>3. /\ Len(new) = n /\ Len(old) = n
      /\ \A k \in 1 .. n : new[k] = IF k = i THEN t ELSE ts[k]
      /\ \A k \in 1 .. n : old[k] = IF k = j THEN t ELSE us[k]
  BY <1>2, ExceptSeq DEF Replaced
<1>4. i \in 1 .. n /\ j \in 1 .. n BY <1>2
<1> HIDE DEF n, new, old
<1>5. ASSUME NEW k \in 1 .. n PROVE new[k] = old[p[k]]
  <2>1. p[k] \in 1 .. n /\ ts[k] = us[p[k]] BY <1>1
  <2>2. k = i <=> p[k] = j BY <1>1, <1>4
  <2>3. /\ new[k] = IF k = i THEN t ELSE ts[k]
        /\ old[p[k]] = IF p[k] = j THEN t ELSE us[p[k]]
    BY <1>3, <2>1
  <2> QED BY <2>1, <2>2, <2>3
<1> QED BY <1>0, <1>3, <1>5 DEF Rearranged, new, old, n

(* What is left of a list when a task is taken out. *)
LEMMA RemovedAt ==
  ASSUME NEW S, NEW ts \in Seq(S), NEW i \in 1 .. Len(ts)
  PROVE  /\ RemoveAt(ts, i) \in Seq(S)
         /\ Len(RemoveAt(ts, i)) = Len(ts) - 1
         /\ \A k \in 1 .. Len(ts) - 1 :
              RemoveAt(ts, i)[k] = IF k < i THEN ts[k] ELSE ts[k + 1]
<1>1. Len(ts) \in Nat OBVIOUS
<1> DEFINE a == SubSeq(ts, 1, i - 1)
           b == SubSeq(ts, i + 1, Len(ts))
<1>2. /\ a \in Seq(S) /\ Len(a) = i - 1
      /\ \A k \in 1 .. i - 1 : a[k] = ts[k]
  BY <1>1, SubSeqProperties
<1>3. /\ b \in Seq(S) /\ Len(b) = Len(ts) - i
      /\ \A k \in 1 .. Len(ts) - i : b[k] = ts[k + i]
  <2>1. i + 1 <= Len(ts) + 1 /\ i + 1 \in 1 .. Len(ts) + 1 BY <1>1
  <2>2. /\ b \in Seq(S)
        /\ Len(b) = IF i + 1 <= Len(ts) THEN Len(ts) - (i + 1) + 1 ELSE 0
        /\ \A k \in 1 .. Len(ts) - (i + 1) + 1 : b[k] = ts[i + 1 + k - 1]
    BY <1>1, <2>1, SubSeqProperties
  <2>3. Len(ts) - (i + 1) + 1 = Len(ts) - i BY <1>1
  <2>4. Len(b) = Len(ts) - i BY <1>1, <2>2
  <2>5. ASSUME NEW k \in 1 .. Len(ts) - i PROVE b[k] = ts[k + i]
    <3>1. k \in 1 .. Len(ts) - (i + 1) + 1 /\ i + 1 + k - 1 = k + i BY <1>1
    <3> QED BY <2>2, <3>1
  <2> QED BY <2>2, <2>4, <2>5
<1>4. RemoveAt(ts, i) = a \o b BY DEF RemoveAt
<1> HIDE DEF a, b
<1>5. /\ a \o b \in Seq(S) /\ Len(a \o b) = Len(a) + Len(b)
      /\ \A k \in 1 .. Len(a) + Len(b) :
           (a \o b)[k] = IF k <= Len(a) THEN a[k] ELSE b[k - Len(a)]
  BY <1>2, <1>3, ConcatProperties
<1>6. ASSUME NEW k \in 1 .. Len(ts) - 1
      PROVE  (a \o b)[k] = IF k < i THEN ts[k] ELSE ts[k + 1]
  <2>1. CASE k < i
    BY <1>1, <1>2, <1>3, <1>5, <2>1
  <2>2. CASE ~(k < i)
    <3>1. k - (i - 1) \in 1 .. Len(ts) - i /\ k - (i - 1) + i = k + 1 BY <1>1, <2>2
    <3>2. (a \o b)[k] = b[k - (i - 1)] BY <1>1, <1>2, <1>3, <1>5, <2>2
    <3> QED BY <1>3, <2>2, <3>1, <3>2
  <2> QED BY <2>1, <2>2
<1> QED BY <1>1, <1>2, <1>3, <1>4, <1>5, <1>6

(* Lists rearranged, without the same element, are rearranged. *)
LEMMA RemovedBoth ==
  ASSUME NEW S, NEW ts \in Seq(S), NEW us \in Seq(S), Rearranged(ts, us),
         NEW i \in 1 .. Len(ts), NEW j \in 1 .. Len(us), ts[i] = us[j]
  PROVE  Rearranged(RemoveAt(ts, i), RemoveAt(us, j))
<1> DEFINE n == Len(ts)
<1>0. PICK p \in Positions(n) : (\A k \in 1 .. n : ts[k] = us[p[k]]) /\ p[i] = j
  BY RearrangedAt
<1>1. /\ p \in [1 .. n -> 1 .. n]
      /\ \A k, l \in 1 .. n : p[k] = p[l] => k = l
      /\ \A k \in 1 .. n : ts[k] = us[p[k]]
      /\ p[i] = j
  <2>1. n \in Nat BY RearrangedAt
  <2> QED BY <1>0, <2>1, PositionsOnto
<1>2. n \in Nat /\ Len(us) = n /\ i \in 1 .. n /\ j \in 1 .. n BY RearrangedAt
<1> DEFINE new == RemoveAt(ts, i)
           old == RemoveAt(us, j)
<1>3. /\ Len(new) = n - 1 /\ Len(old) = n - 1
      /\ \A k \in 1 .. n - 1 : new[k] = IF k < i THEN ts[k] ELSE ts[k + 1]
      /\ \A k \in 1 .. n - 1 : old[k] = IF k < j THEN us[k] ELSE us[k + 1]
  BY <1>2, RemovedAt
<1> HIDE DEF n, new, old
<1> DEFINE Skip(k) == IF k < i THEN k ELSE k + 1
           Back(k) == IF k < j THEN k ELSE k - 1
           q == [k \in 1 .. n - 1 |-> Back(p[Skip(k)])]
<1>4. ASSUME NEW k \in 1 .. n - 1
      PROVE  Skip(k) \in 1 .. n /\ Skip(k) # i /\ p[Skip(k)] \in 1 .. n /\ p[Skip(k)] # j
  <2>1. Skip(k) \in 1 .. n /\ Skip(k) # i BY <1>2
  <2> QED BY <1>1, <1>2, <2>1
<1>5. ASSUME NEW x \in 1 .. n, x # j
      PROVE  /\ Back(x) \in 1 .. n - 1
             /\ old[Back(x)] = us[x]
  <2>1. Back(x) \in 1 .. n - 1 BY <1>2, <1>5
  <2>2. CASE x < j BY <1>2, <1>3, <2>1, <2>2
  <2>3. CASE j < x
    <3>1. Back(x) = x - 1 /\ ~(x - 1 < j) /\ x - 1 + 1 = x BY <1>2, <2>3
    <3> QED BY <1>3, <2>1, <3>1
  <2> QED BY <1>2, <1>5, <2>1, <2>2, <2>3
<1>6. ASSUME NEW x \in 1 .. n, NEW y \in 1 .. n, x # j, y # j, Back(x) = Back(y) PROVE x = y
  BY <1>2, <1>6
<1>7. \A k, l \in 1 .. n - 1 : Skip(k) = Skip(l) => k = l BY <1>2
<1>8. \A k \in 1 .. n - 1 : new[k] = ts[Skip(k)] BY <1>3
<1> HIDE DEF Skip, Back
<1>9. q \in [1 .. n - 1 -> 1 .. n - 1] BY <1>4, <1>5
<1>10. \A k, l \in 1 .. n - 1 : q[k] = q[l] => k = l BY <1>1, <1>4, <1>6, <1>7
<1>11. ASSUME NEW k \in 1 .. n - 1 PROVE new[k] = old[q[k]]
  <2>1. new[k] = us[p[Skip(k)]] BY <1>1, <1>4, <1>8
  <2>2. old[Back(p[Skip(k)])] = us[p[Skip(k)]] BY <1>4, <1>5
  <2> QED BY <2>1, <2>2
<1> HIDE DEF q
<1>12. n - 1 \in Nat BY <1>2
<1>13. q \in Positions(n - 1) BY <1>9, <1>10, <1>12, OneToOne
<1> QED BY <1>3, <1>11, <1>13 DEF Rearranged, new, old

(* A task taken out and added again. *)
LEMMA AppendRemoved ==
  ASSUME NEW S, NEW ts \in Seq(S), NEW i \in 1 .. Len(ts)
  PROVE  Rearranged(Append(RemoveAt(ts, i), ts[i]), ts)
<1> DEFINE n == Len(ts)
           less == RemoveAt(ts, i)
           new == Append(less, ts[i])
<1>1. n \in Nat /\ i \in 1 .. n /\ ts[i] \in S BY ElementOfSeq
<1>2. /\ less \in Seq(S) /\ Len(less) = n - 1
      /\ \A k \in 1 .. n - 1 : less[k] = IF k < i THEN ts[k] ELSE ts[k + 1]
  BY RemovedAt
<1> HIDE DEF n, less
<1>3. /\ Len(new) = n /\ new[n] = ts[i]
      /\ \A k \in 1 .. n - 1 : new[k] = less[k]
  BY <1>1, <1>2, AppendProperties
<1> HIDE DEF new
<1> DEFINE p == [k \in 1 .. n |-> IF k = n THEN i ELSE IF k < i THEN k ELSE k + 1]
<1>4. p \in [1 .. n -> 1 .. n] BY <1>1
<1>5. \A k, l \in 1 .. n : p[k] = p[l] => k = l BY <1>1
<1>6. \A k \in 1 .. n : new[k] = ts[p[k]]
  <2> SUFFICES ASSUME NEW k \in 1 .. n PROVE new[k] = ts[p[k]]
    OBVIOUS
  <2>1. k = n \/ k \in 1 .. n - 1 BY <1>1
  <2> QED BY <1>1, <1>2, <1>3, <2>1
<1> HIDE DEF p
<1>7. p \in Positions(n) BY <1>1, <1>4, <1>5, OneToOne
<1> QED BY <1>3, <1>6, <1>7 DEF Rearranged, new, n, less

(* A task added and taken out again. *)
LEMMA RemovedAppended ==
  ASSUME NEW S, NEW ts \in Seq(S), NEW t \in S
  PROVE  RemoveAt(Append(ts, t), Len(ts) + 1) = ts
<1> DEFINE n == Len(ts)
           more == Append(ts, t)
           new == RemoveAt(more, n + 1)
<1>1. /\ n \in Nat /\ more \in Seq(S) /\ Len(more) = n + 1
      /\ \A k \in 1 .. n : more[k] = ts[k]
  BY AppendProperties
<1>2. /\ new \in Seq(S) /\ Len(new) = n
      /\ \A k \in 1 .. n : new[k] = more[k]
  <2> HIDE DEF n, more
  <2>1. n + 1 \in 1 .. Len(more) /\ Len(more) - 1 = n BY <1>1
  <2>2. /\ new \in Seq(S) /\ Len(new) = n
        /\ \A k \in 1 .. n : new[k] = IF k < n + 1 THEN more[k] ELSE more[k + 1]
    BY <1>1, <2>1, RemovedAt
  <2> QED BY <1>1, <2>2
<1> HIDE DEF new, more
<1>3. \A k \in 1 .. Len(new) : new[k] = ts[k] BY <1>1, <1>2
<1>4. Len(new) = Len(ts) BY <1>2
<1>5. new = ts BY <1>2, <1>3, <1>4, SeqEqual
<1> QED BY <1>5 DEF new, more

(* With the same list behind them, two lists rearranged are rearranged. *)
LEMMA ConcatBoth ==
  ASSUME NEW S, NEW ts \in Seq(S), NEW us \in Seq(S), NEW vs \in Seq(S),
         Rearranged(ts, us)
  PROVE  Rearranged(ts \o vs, us \o vs)
<1> DEFINE n == Len(ts)
           m == Len(vs)
<1>1. n \in Nat /\ m \in Nat /\ Len(us) = n BY RearrangedBy
<1>0. PICK p \in Positions(n) : \A k \in 1 .. n : ts[k] = us[p[k]]
  BY RearrangedBy
<1>2. /\ p \in [1 .. n -> 1 .. n]
      /\ \A i, j \in 1 .. n : p[i] = p[j] => i = j
      /\ \A j \in 1 .. n : \E i \in 1 .. n : p[i] = j
      /\ \A k \in 1 .. n : ts[k] = us[p[k]]
  BY <1>0, <1>1, PositionsOnto
<1> DEFINE new == ts \o vs
           old == us \o vs
<1>3. /\ Len(new) = n + m /\ Len(old) = n + m
      /\ \A k \in 1 .. n + m : new[k] = IF k <= n THEN ts[k] ELSE vs[k - n]
      /\ \A k \in 1 .. n + m : old[k] = IF k <= n THEN us[k] ELSE vs[k - n]
  <2>1. Len(us) = n BY <1>1
  <2>2. /\ Len(new) = n + m
        /\ \A k \in 1 .. n + m : new[k] = IF k <= n THEN ts[k] ELSE vs[k - n]
    BY <2>1, ConcatProperties, Zenon
  <2>3. /\ Len(old) = n + m
        /\ \A k \in 1 .. n + m : old[k] = IF k <= n THEN us[k] ELSE vs[k - n]
    <3>1. /\ Len(old) = Len(us) + m
          /\ \A k \in 1 .. Len(us) + m :
               old[k] = IF k <= Len(us) THEN us[k] ELSE vs[k - Len(us)]
      BY ConcatProperties, Zenon
    <3> HIDE DEF n, old
    <3> QED BY <2>1, <3>1
  <2> QED BY <2>2, <2>3
<1> HIDE DEF n, m, new, old
<1> DEFINE q == [k \in 1 .. n + m |-> IF k <= n THEN p[k] ELSE k]
<1>4. \A k \in 1 .. n + m : k <= n => k \in 1 .. n /\ p[k] \in 1 .. n BY <1>1, <1>2
<1>5. q \in [1 .. n + m -> 1 .. n + m] BY <1>1, <1>4
<1>6. ASSUME NEW i \in 1 .. n + m, NEW j \in 1 .. n + m, q[i] = q[j] PROVE i = j
  <2>1. CASE i <= n /\ j <= n BY <1>2, <1>4, <1>6, <2>1
  <2>2. CASE ~(i <= n /\ j <= n) BY <1>1, <1>4, <1>6, <2>2
  <2> QED BY <2>1, <2>2
<1>7. \A k \in 1 .. n + m : new[k] = old[q[k]]
  <2> SUFFICES ASSUME NEW k \in 1 .. n + m PROVE new[k] = old[q[k]]
    OBVIOUS
  <2>1. CASE k <= n
    <3>1. q[k] = p[k] /\ p[k] \in 1 .. n + m /\ p[k] <= n BY <1>1, <1>4, <2>1
    <3> QED BY <1>2, <1>3, <1>4, <2>1, <3>1
  <2>2. CASE ~(k <= n)
    BY <1>3, <2>2
  <2> QED BY <2>1, <2>2
<1> HIDE DEF q
<1>8. n + m \in Nat BY <1>1
<1>9. q \in Positions(n + m) BY <1>5, <1>6, <1>8, OneToOne
<1> QED BY <1>3, <1>7, <1>9 DEF Rearranged, new, old

(* renumber() rearranges the list. *)
LEMMA RenumberRearranges ==
  ASSUME NEW ts \in Seq(Task), NEW time \in Nat
  PROVE  Rearranged(Renumber(ts, time), ts)
<1>1. Order(ts, time) \in Positions(Len(ts)) BY OrderPrecedes
<1> QED BY <1>1, RenumberKeepsTasks DEF Rearranged

(* Of tasks the order can tell apart there is one list in order. *)
THEOREM TidyIsUnique ==
  ASSUME NEW time \in Nat, NEW S \in SUBSET Task,
         \A t, u \in S : AtOrBefore(t, u, time) /\ AtOrBefore(u, t, time) => t = u,
         NEW ts \in Seq(S), NEW us \in Seq(S),
         Tidy(ts, time), Tidy(us, time), Rearranged(ts, us)
  PROVE  ts = us
<1> DEFINE n == Len(ts)
<1>1. n \in Nat /\ Len(us) = n BY RearrangedBy
<1>2. \A k \in 1 .. n : ts[k] \in S /\ us[k] \in S BY <1>1, ElementOfSeq
(* The first i of one list do not all fit among the first i - 1 of the other. *)
<1>3. ASSUME NEW vs \in Seq(S), NEW ws \in Seq(S), Len(vs) = n, Len(ws) = n,
             Tidy(vs, time), Tidy(ws, time), Rearranged(vs, ws), NEW i \in 1 .. n
      PROVE  AtOrBefore(ws[i], vs[i], time)
  <2>0. PICK p \in Positions(n) : \A k \in 1 .. n : vs[k] = ws[p[k]]
    BY <1>3, RearrangedBy
  <2>1. /\ p \in [1 .. n -> 1 .. n]
        /\ \A k, l \in 1 .. n : p[k] = p[l] => k = l
        /\ \A k \in 1 .. n : vs[k] = ws[p[k]]
    BY <1>1, <2>0, PositionsOnto
  <2> HIDE DEF n
  <2>2. PICK k \in 1 .. i : p[k] >= i
    <3> SUFFICES ASSUME \A k \in 1 .. i : ~(p[k] >= i) PROVE FALSE
      OBVIOUS
    <3> DEFINE q == [k \in 1 .. i |-> p[k]]
    <3>1. ASSUME NEW k \in 1 .. i PROVE k \in 1 .. n /\ p[k] \in 1 .. i - 1
      <4>1. k \in 1 .. n BY <1>1
      <4>2. p[k] \in 1 .. n /\ ~(p[k] >= i) BY <2>1, <4>1
      <4> QED BY <1>1, <4>1, <4>2
    <3>2. q \in [1 .. i -> 1 .. i - 1] BY <3>1
    <3>3. IsFiniteSet(1 .. i) /\ IsFiniteSet(1 .. i - 1)
          /\ Cardinality(1 .. i) = i /\ Cardinality(1 .. i - 1) = i - 1
      <4>1. 1 \in Int /\ i \in Int /\ i - 1 \in Int /\ i >= 1 BY <1>1
      <4>2. Cardinality(1 .. i) = (IF 1 > i THEN 0 ELSE i - 1 + 1)
            /\ Cardinality(1 .. i - 1) = (IF 1 > i - 1 THEN 0 ELSE i - 1 - 1 + 1)
            /\ IsFiniteSet(1 .. i) /\ IsFiniteSet(1 .. i - 1)
        BY <4>1, FS_Interval
      <4> QED BY <4>1, <4>2
    <3>4. Cardinality(1 .. i - 1) < Cardinality(1 .. i) BY <1>1, <3>3
    <3> HIDE DEF q
    <3>5. PICK x \in 1 .. i, y \in 1 .. i : x # y /\ q[x] = q[y]
      BY <3>2, <3>3, <3>4, FS_PigeonHole, Zenon
    <3>6. x \in 1 .. n /\ y \in 1 .. n /\ p[x] = p[y] BY <3>1, <3>5 DEF q
    <3> QED BY <2>1, <3>5, <3>6
  <2>3. k \in 1 .. n /\ p[k] \in 1 .. n /\ vs[k] = ws[p[k]]
    <3>1. k \in 1 .. n BY <1>1
    <3> QED BY <2>1, <3>1
  <2>4. vs[i] \in Task /\ ws[i] \in Task /\ vs[k] \in Task
    BY <1>3, <2>3, ElementOfSeq DEF n
  <2>5. AtOrBefore(ws[i], vs[k], time)
    <3>1. i = p[k] \/ i < p[k] BY <2>2, <2>3
    <3>2. i < p[k] => AtOrBefore(ws[i], ws[p[k]], time) BY <1>3, <2>3 DEF Tidy
    <3>3. i = p[k] => AtOrBefore(ws[i], ws[p[k]], time) BY <2>3, <2>4, OrderOfTasks
    <3> QED BY <2>3, <3>1, <3>2, <3>3
  <2>6. AtOrBefore(vs[k], vs[i], time)
    <3>1. k = i \/ k < i BY <2>2
    <3>2. k < i => AtOrBefore(vs[k], vs[i], time) BY <1>3, <2>3 DEF Tidy
    <3>3. k = i => AtOrBefore(vs[k], vs[i], time) BY <2>4, OrderOfTasks
    <3> QED BY <3>1, <3>2, <3>3
  <2> QED BY <2>4, <2>5, <2>6, OrderIsTransitive
<1>4. Rearranged(us, ts) BY RearrangedBack
<1> HIDE DEF n
<1>5. \A i \in 1 .. n : AtOrBefore(us[i], ts[i], time) /\ AtOrBefore(ts[i], us[i], time)
  BY <1>1, <1>3, <1>4 DEF n
<1>6. \A i \in 1 .. n : ts[i] = us[i] BY <1>2, <1>5
<1> QED BY <1>1, <1>6, SeqEqual DEF n
=============================================================================
