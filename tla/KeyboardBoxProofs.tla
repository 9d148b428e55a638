-------------------------- MODULE KeyboardBoxProofs --------------------------
(***************************************************************************)
(* Proofs about KeyboardBox: what the left board knows, shows and ends by  *)
(* itself, for every number of keys, slots and times.                      *)
(***************************************************************************)
EXTENDS KeyboardBox, FiniteSetTheorems, SequenceTheorems, WellFoundedInduction, TLAPS

-----------------------------------------------------------------------------
(* Induction.  The theorems of the library that state it take an operator, *)
(* which the provers cannot instantiate; that a set of naturals has a      *)
(* least element says the same of a set.                                   *)

LEMMA Least ==
    ASSUME NEW T, T \subseteq Nat, T # {}
    PROVE  \E x \in T : \A y \in T : ~(y < x)
<1> DEFINE U == {1..n : n \in T}
<1>1. IsWellFoundedOn(StrictSubsetOrdering(Nat), FiniteSubsetsOf(Nat))
  BY FS_StrictSubsetOrderingWellFounded
<1>2. U \subseteq FiniteSubsetsOf(Nat)
  <2>1. ASSUME NEW n \in T PROVE IsFiniteSet(1..n) /\ 1..n \subseteq Nat
    BY FS_Interval, T \subseteq Nat
  <2> QED BY <2>1 DEF FiniteSubsetsOf
<1>3. U # {} OBVIOUS
<1> HIDE DEF U
<1>4. PICK u \in U : \A v \in U : ~(<<v, u>> \in StrictSubsetOrdering(Nat))
  BY <1>1, <1>2, <1>3, WFMin
<1>5. PICK x \in T : u = 1..x
  BY <1>4 DEF U
<1>6. ASSUME NEW y \in T, y < x PROVE FALSE
  <2>1. 1..y \in U BY DEF U
  <2>2. 1..y \subseteq 1..x /\ x \in 1..x /\ x \notin 1..y
    BY <1>6, T \subseteq Nat
  <2>3. <<1..y, 1..x>> \in StrictSubsetOrdering(Nat)
    BY <2>2, T \subseteq Nat DEF StrictSubsetOrdering
  <2> QED BY <2>1, <2>3, <1>4, <1>5
<1> QED BY <1>6

(* What holds of 0 and passes from each number to the next holds of all.   *)
LEMMA Induction ==
    ASSUME NEW n \in Nat, NEW P, 0 \in P, \A j \in 1..n : j - 1 \in P => j \in P
    PROVE  0..n \subseteq P
<1> DEFINE T == (0..n) \ P
<1>1. SUFFICES ASSUME T # {} PROVE FALSE OBVIOUS
<1>2. T \subseteq Nat OBVIOUS
<1> HIDE DEF T
<1>3. PICK x \in T : \A y \in T : ~(y < x)
  BY <1>1, <1>2, Least
<1>4. x \in 1..n /\ x \notin P BY <1>3 DEF T
<1>5. x - 1 \notin T /\ x - 1 \in 0..n BY <1>2, <1>3, <1>4
<1>6. x - 1 \in P BY <1>5 DEF T
<1> QED BY <1>4, <1>6

-----------------------------------------------------------------------------
(* Merging reports.                                                        *)

LEMMA Natural == Slots \in Nat \ {0} /\ NoKey \notin Keys
  BY TimesAssumption, DevicesAssumption

LEMMA MinIs ==
    ASSUME NEW S, S \subseteq Nat, S # {}
    PROVE  Min(S) \in S /\ \A y \in S : Min(S) <= y
<1>1. \E x \in S : \A y \in S : x <= y
  <2>1. PICK x \in S : \A y \in S : ~(y < x) BY Least
  <2> QED BY <2>1
<1> QED BY <1>1 DEF Min

LEMMA MaxIs ==
    ASSUME NEW n \in Nat, NEW S, S \subseteq 1..n, n \in S
    PROVE  Max(S) = n
<1>1. \A y \in S : n >= y OBVIOUS
<1>2. Max(S) \in S /\ \A y \in S : Max(S) >= y BY <1>1 DEF Max
<1>3. Max(S) \in 1..n /\ Max(S) >= n BY <1>2
<1> QED BY <1>3

(* What one step of mergeFrom does: nothing, or it fills a free slot.      *)
LEMMA InsertIs ==
    ASSUME NEW keys \in KeyReports, NEW k \in Keys \cup {NoKey}
    PROVE  /\ Insert(keys, k) \in KeyReports
           /\ \/ Insert(keys, k) = keys /\ (k = NoKey \/ k \in Down(keys) \/ Taken(keys) = 1..Slots)
              \/ /\ k # NoKey /\ k \notin Down(keys)
                 /\ \E j \in 1..Slots : /\ keys[j] = NoKey
                                        /\ Insert(keys, k) = [keys EXCEPT ![j] = k]
<1> DEFINE free == {j \in 1..Slots : keys[j] = NoKey}
<1>1. CASE k = NoKey \/ k \in Range(keys) \/ free = {}
  BY <1>1 DEF Insert, Down, Taken
<1>2. CASE ~(k = NoKey \/ k \in Range(keys) \/ free = {})
  <2>1. free \subseteq Nat BY Natural
  <2>2. Min(free) \in free BY <1>2, <2>1, MinIs
  <2>3. Insert(keys, k) = [keys EXCEPT ![Min(free)] = k] BY <1>2 DEF Insert
  <2>4. Min(free) \in 1..Slots /\ keys[Min(free)] = NoKey BY <2>2
  <2>5. k \notin Down(keys) BY <1>2 DEF Down
  <2> HIDE DEF free
  <2>6. [keys EXCEPT ![Min(free)] = k] \in KeyReports BY <2>4 DEF KeyReports
  <2> QED BY <1>2, <2>3, <2>4, <2>5, <2>6
<1> QED BY <1>1, <1>2

LEMMA DownIs ==
    ASSUME NEW keys \in KeyReports
    PROVE  /\ Down(keys) = {keys[j] : j \in Taken(keys)}
           /\ Down(keys) \subseteq Keys
           /\ Taken(keys) \subseteq 1..Slots
BY DEF Down, Range, Taken, KeyReports

(* A key not yet there takes one more slot, if there is one.               *)
LEMMA InsertTakes ==
    ASSUME NEW keys \in KeyReports, NEW k \in Keys \cup {NoKey}
    PROVE  LET after == Insert(keys, k)
           IN  /\ after \in KeyReports
               /\ Down(keys) \subseteq Down(after) /\ Down(after) \subseteq Down(keys) \cup ({k} \ {NoKey})
               /\ Down(after) = Down(keys) => Taken(after) = Taken(keys)
               /\ Down(after) # Down(keys) =>
                     \E j \in 1..Slots : j \notin Taken(keys) /\ Taken(after) = Taken(keys) \cup {j}
               /\ k \in Keys /\ Taken(keys) # 1..Slots => k \in Down(after)
<1> DEFINE after == Insert(keys, k)
<1>0. after \in KeyReports BY InsertIs
<1>1. CASE after = keys /\ (k = NoKey \/ k \in Down(keys) \/ Taken(keys) = 1..Slots)
  BY <1>0, <1>1, Natural
<1>2. CASE /\ k # NoKey /\ k \notin Down(keys)
           /\ \E j \in 1..Slots : keys[j] = NoKey /\ after = [keys EXCEPT ![j] = k]
  <2>1. PICK j \in 1..Slots : keys[j] = NoKey /\ after = [keys EXCEPT ![j] = k] BY <1>2
  <2> HIDE DEF after
  <2>2. k \in Keys BY <1>2
  <2>3. \A i \in 1..Slots : after[i] = IF i = j THEN k ELSE keys[i]
    BY <2>1 DEF KeyReports
  <2>4. j \notin Taken(keys) /\ Taken(after) = Taken(keys) \cup {j}
    BY <1>2, <2>1, <2>3 DEF Taken
  <2>5. Down(after) = Down(keys) \cup {k}
    <3>1. ASSUME NEW i \in Taken(after) PROVE after[i] \in Down(keys) \cup {k}
      <4>1. CASE i = j BY <4>1, <2>3
      <4>2. CASE i # j
        <5>1. i \in Taken(keys) /\ i \in 1..Slots BY <4>2, <2>4, <3>1, DownIs
        <5>2. after[i] = keys[i] BY <2>3, <4>2, <5>1
        <5> QED BY <5>1, <5>2, DownIs
      <4> QED BY <4>1, <4>2
    <3>2. ASSUME NEW i \in Taken(keys) PROVE keys[i] \in Down(after)
      <4>1. i \in Taken(after) /\ i # j /\ i \in 1..Slots BY <2>4, <3>2, DownIs
      <4>2. after[i] = keys[i] BY <2>3, <4>1
      <4> QED BY <1>0, <4>1, <4>2, DownIs
    <3>3. k \in Down(after)
      <4>1. j \in Taken(after) /\ after[j] = k BY <2>3, <2>4
      <4> QED BY <1>0, <4>1, DownIs
    <3> QED BY <1>0, <3>1, <3>2, <3>3, DownIs
  <2> QED BY <1>0, <1>2, <2>2, <2>4, <2>5 DEF after
<1> QED BY <1>1, <1>2, InsertIs

(* The fold of Merge, one slot after the other.                            *)
FoldsTo(a, b, n, f) ==
    /\ f \in [SUBSET (1..n) -> KeyReports]
    /\ \A s \in SUBSET (1..n) :
          f[s] = IF s = {} THEN a ELSE Insert(f[s \ {Max(s)}], b[Max(s)])

LEMMA FoldExists ==
    ASSUME NEW a \in KeyReports, NEW b \in KeyReports
    PROVE  \E f : FoldsTo(a, b, Slots, f)
<1> DEFINE P == {n \in Nat : n <= Slots => \E f : FoldsTo(a, b, n, f)}
<1>1. 0 \in P
  <2> DEFINE f == [s \in SUBSET (1..0) |-> a]
  <2>1. \A s \in SUBSET (1..0) : s = {} OBVIOUS
  <2>2. FoldsTo(a, b, 0, f) BY <2>1 DEF FoldsTo
  <2> QED BY <2>2
<1>2. ASSUME NEW n \in 1..Slots, n - 1 \in P PROVE n \in P
  <2> DEFINE m == n - 1
  <2>1. n \in Nat /\ m \in Nat /\ m <= Slots /\ n = m + 1 BY Natural
  <2>2. PICK g : FoldsTo(a, b, m, g) BY <1>2, <2>1
  <2> HIDE DEF m
  <2> DEFINE f == [s \in SUBSET (1..n) |->
                      IF n \in s THEN Insert(g[s \ {n}], b[n]) ELSE g[s]]
  <2>3. ASSUME NEW s \in SUBSET (1..n) PROVE s \ {n} \in SUBSET (1..m)
    BY <2>1
  <2>4. b[n] \in Keys \cup {NoKey} BY DEF KeyReports
  <2>5. \A s \in SUBSET (1..m) : g[s] \in KeyReports BY <2>2 DEF FoldsTo
  <2>6. ASSUME NEW s \in SUBSET (1..n) PROVE f[s] \in KeyReports
    <3>1. CASE n \in s
      <4>1. g[s \ {n}] \in KeyReports BY <2>3, <2>5
      <4>2. Insert(g[s \ {n}], b[n]) \in KeyReports BY <2>4, <4>1, InsertIs
      <4> QED BY <3>1, <4>2
    <3>2. CASE n \notin s
      <4>1. s = s \ {n} BY <3>2
      <4> QED BY <2>3, <2>5, <3>2, <4>1
    <3> QED BY <3>1, <3>2
  <2>7. ASSUME NEW s \in SUBSET (1..n)
        PROVE  f[s] = IF s = {} THEN a ELSE Insert(f[s \ {Max(s)}], b[Max(s)])
    <3>1. CASE n \in s
      <4>1. Max(s) = n BY <2>1, <3>1, MaxIs
      <4>2. f[s \ {n}] = g[s \ {n}] BY <2>3
      <4>3. s # {} BY <3>1
      <4> QED BY <3>1, <4>1, <4>2, <4>3
    <3>2. CASE n \notin s
      <4>1. s \in SUBSET (1..m) BY <2>3, <3>2
      <4>2. f[s] = g[s] BY <3>2
      <4>3. CASE s = {} BY <2>2, <4>1, <4>2, <4>3 DEF FoldsTo
      <4>4. CASE s # {}
        <5>1. g[s] = Insert(g[s \ {Max(s)}], b[Max(s)]) BY <2>2, <4>1, <4>4 DEF FoldsTo
        <5>2. s \ {Max(s)} \in SUBSET (1..n) /\ n \notin s \ {Max(s)} BY <3>2
        <5>3. f[s \ {Max(s)}] = g[s \ {Max(s)}] BY <5>2
        <5> QED BY <4>2, <4>4, <5>1, <5>3
      <4> QED BY <4>3, <4>4
    <3> QED BY <3>1, <3>2
  <2>8. f \in [SUBSET (1..n) -> KeyReports] BY <2>6
  <2> HIDE DEF f
  <2>9. FoldsTo(a, b, n, f) BY <2>7, <2>8 DEF FoldsTo
  <2> QED BY <2>1, <2>9
<1>3. Slots \in Nat BY Natural
<1> HIDE DEF P
<1>4. 0..Slots \subseteq P BY <1>1, <1>2, <1>3, Induction
<1>5. Slots \in P BY <1>3, <1>4
<1> QED BY <1>5 DEF P

LEMMA MergeBySlots ==
    ASSUME NEW a \in KeyReports, NEW b \in KeyReports
    PROVE  \E m \in [0..Slots -> KeyReports] :
              /\ m[0] = a /\ m[Slots] = Merge(a, b)
              /\ \A j \in 1..Slots : m[j] = Insert(m[j - 1], b[j])
<1> DEFINE Folds(f) == f = [s \in SUBSET (1..Slots) |->
                 IF s = {} THEN a ELSE Insert(f[s \ {Max(s)}], b[Max(s)])]
<1>0. DOMAIN b = 1..Slots BY DEF KeyReports
<1>1. Merge(a, b) = (CHOOSE f : f = [s \in SUBSET (DOMAIN b) |->
                 IF s = {} THEN a ELSE Insert(f[s \ {Max(s)}], b[Max(s)])])[DOMAIN b]
  BY DEF Merge, FoldLeft, MapThenFoldSet
<1>2. Merge(a, b) = (CHOOSE f : Folds(f))[1..Slots] BY <1>0, <1>1
<1>3. PICK g : FoldsTo(a, b, Slots, g) BY FoldExists
<1>4. Folds(g) BY <1>3 DEF FoldsTo
<1> DEFINE f == CHOOSE h : Folds(h)
<1>5. Folds(f) BY <1>4
<1>6. Merge(a, b) = f[1..Slots] BY <1>2
<1>7. \A s \in SUBSET (1..Slots) :
         f[s] = IF s = {} THEN a ELSE Insert(f[s \ {Max(s)}], b[Max(s)])
  BY <1>5
<1> HIDE DEF f
<1> DEFINE m == [j \in 0..Slots |-> f[1..j]]
<1>8. Slots \in Nat BY Natural
<1>9. m[0] = a
  <2>1. 1..0 = {} OBVIOUS
  <2>2. {} \in SUBSET (1..Slots) OBVIOUS
  <2>3. f[{}] = a BY <1>7, <2>2
  <2> QED BY <1>8, <2>1, <2>3
<1>10. ASSUME NEW j \in 1..Slots PROVE m[j] = Insert(m[j - 1], b[j])
  <2>0. j \in Nat /\ j - 1 \in 0..Slots /\ 1 <= j /\ j <= Slots BY <1>8
  <2>1. 1..j \in SUBSET (1..Slots) /\ j \in 1..j
    <3>1. \A x \in 1..j : x \in 1..Slots BY <2>0, <1>8
    <3> QED BY <2>0, <3>1
  <2>2. Max(1..j) = j BY <2>0, <2>1, MaxIs
  <2>3. (1..j) \ {j} = 1..(j - 1) BY <2>0
  <2>4. f[1..j] = Insert(f[(1..j) \ {Max(1..j)}], b[Max(1..j)]) BY <1>7, <2>1
  <2>5. f[1..j] = Insert(f[1..(j - 1)], b[j]) BY <2>2, <2>3, <2>4
  <2> QED BY <1>8, <2>0, <2>5
<1>11. m[Slots] = Merge(a, b) BY <1>6, <1>8
<1>12. ASSUME NEW j \in 0..Slots PROVE m[j] \in KeyReports
  <2> DEFINE P == {i \in Nat : i <= Slots => m[i] \in KeyReports}
  <2>1. 0 \in P BY <1>9
  <2>2. ASSUME NEW i \in 1..Slots, i - 1 \in P PROVE i \in P
    <3>1. m[i - 1] \in KeyReports BY <2>2, <1>8
    <3>2. b[i] \in Keys \cup {NoKey} BY DEF KeyReports
    <3>3. Insert(m[i - 1], b[i]) \in KeyReports BY <3>1, <3>2, InsertIs
    <3> QED BY <1>10, <3>3
  <2> HIDE DEF P
  <2>3. 0..Slots \subseteq P BY <1>8, <2>1, <2>2, Induction
  <2>4. j \in P BY <2>3
  <2> QED BY <1>8, <2>4 DEF P
<1> HIDE DEF m
<1>13. m \in [0..Slots -> KeyReports] BY <1>12 DEF m
<1> QED BY <1>9, <1>10, <1>11, <1>13

LEMMA Finite ==
    ASSUME NEW keys \in KeyReports
    PROVE  /\ IsFiniteSet(Taken(keys)) /\ IsFiniteSet(Down(keys))
           /\ Cardinality(Taken(keys)) \in Nat /\ Cardinality(Taken(keys)) <= Slots
           /\ Cardinality(Taken(keys)) = Slots => Taken(keys) = 1..Slots
<1>1. IsFiniteSet(1..Slots) /\ Cardinality(1..Slots) = Slots
  BY Natural, FS_Interval
<1>2. Taken(keys) \subseteq 1..Slots BY DownIs
<1>3. IsFiniteSet(Taken(keys)) /\ Cardinality(Taken(keys)) <= Cardinality(1..Slots)
        /\ (Cardinality(1..Slots) = Cardinality(Taken(keys)) => 1..Slots = Taken(keys))
  BY <1>1, <1>2, FS_Subset
<1>4. [j \in Taken(keys) |-> keys[j]] \in Surjection(Taken(keys), Down(keys))
  BY DownIs DEF Surjection
<1>5. IsFiniteSet(Down(keys)) BY <1>3, <1>4, FS_Surjection
<1>6. Cardinality(Taken(keys)) \in Nat BY <1>3, FS_CardinalityType
<1> QED BY <1>1, <1>3, <1>5, <1>6

(* One step of mergeFrom, counted: b has keys still to be shown, and each  *)
(* of them takes a slot.                                                   *)
LEMMA InsertCounts ==
    ASSUME NEW keys \in KeyReports, NEW B, IsFiniteSet(B), NEW k \in Keys \cup {NoKey},
           k # NoKey => k \in B,
           Cardinality(Taken(keys)) + Cardinality(B \ Down(keys)) <= Slots
    PROVE  LET after == Insert(keys, k)
           IN  /\ k # NoKey => k \in Down(after)
               /\ Cardinality(Taken(after)) + Cardinality(B \ Down(after))
                    = Cardinality(Taken(keys)) + Cardinality(B \ Down(keys))
<1> DEFINE after == Insert(keys, k)
<1> DEFINE to == B \ Down(keys)
<1>1. IsFiniteSet(to) /\ Cardinality(to) \in Nat
  BY FS_Subset, FS_CardinalityType
<1>2. Cardinality(Taken(keys)) \in Nat /\ IsFiniteSet(Taken(keys)) BY Finite
<1>3. /\ after \in KeyReports
      /\ Down(keys) \subseteq Down(after) /\ Down(after) \subseteq Down(keys) \cup ({k} \ {NoKey})
      /\ Down(after) = Down(keys) => Taken(after) = Taken(keys)
      /\ Down(after) # Down(keys) =>
            \E j \in 1..Slots : j \notin Taken(keys) /\ Taken(after) = Taken(keys) \cup {j}
      /\ k \in Keys /\ Taken(keys) # 1..Slots => k \in Down(after)
  BY InsertTakes
<1>4. k # NoKey => k \in Down(after)
  <2>1. CASE k \in Down(keys) BY <1>3, <2>1
  <2>2. CASE k # NoKey /\ k \notin Down(keys)
    <3>1. k \in to BY <2>2
    <3>2. Cardinality(to) # 0 BY <1>1, <3>1, FS_EmptySet
    <3>3. Cardinality(Taken(keys)) < Slots BY <1>1, <1>2, <3>2, Natural
    <3>4. Cardinality(1..Slots) = Slots BY Natural, FS_Interval
    <3>5. Taken(keys) # 1..Slots BY <1>2, <3>3, <3>4, Natural
    <3> QED BY <1>3, <2>2, <3>5
  <2> QED BY <2>1, <2>2
<1>5. CASE Down(after) = Down(keys) BY <1>3, <1>4, <1>5
<1>6. CASE Down(after) # Down(keys)
  <2>1. PICK j \in 1..Slots : j \notin Taken(keys) /\ Taken(after) = Taken(keys) \cup {j}
    BY <1>3, <1>6
  <2>2. Cardinality(Taken(after)) = Cardinality(Taken(keys)) + 1
    BY <1>2, <2>1, FS_AddElement
  <2>3. k # NoKey /\ k \notin Down(keys) /\ Down(after) = Down(keys) \cup {k}
    BY <1>3, <1>6
  <2>4. k \in to /\ B \ Down(after) = to \ {k} BY <2>3
  <2>5. Cardinality(to \ {k}) = Cardinality(to) - 1 BY <1>1, <2>4, FS_RemoveElement
  <2>6. Cardinality(B \ Down(after)) = Cardinality(to) - 1 BY <2>4, <2>5
  <2> HIDE DEF after
  <2>7. Cardinality(Taken(after)) + Cardinality(B \ Down(after))
            = Cardinality(Taken(keys)) + Cardinality(to)
    BY <1>1, <1>2, <2>2, <2>6
  <2> QED BY <1>4, <2>7 DEF after
<1> QED BY <1>5, <1>6

(* A report that merges two others shows what one of them shows, and all   *)
(* of it if there are slots enough.                                        *)
THEOREM MergeShows ==
    ASSUME NEW a \in KeyReports, NEW b \in KeyReports
    PROVE  /\ Merge(a, b) \in KeyReports
           /\ Down(a) \subseteq Down(Merge(a, b))
           /\ Down(Merge(a, b)) \subseteq Down(a) \cup Down(b)
           /\ Cardinality(Taken(a)) + Cardinality(Down(b) \ Down(a)) <= Slots =>
                /\ Down(Merge(a, b)) = Down(a) \cup Down(b)
                /\ Cardinality(Taken(Merge(a, b)))
                     = Cardinality(Taken(a)) + Cardinality(Down(b) \ Down(a))
<1>1. PICK m \in [0..Slots -> KeyReports] :
              /\ m[0] = a /\ m[Slots] = Merge(a, b)
              /\ \A j \in 1..Slots : m[j] = Insert(m[j - 1], b[j])
  BY MergeBySlots
<1>2. Slots \in Nat /\ 0 \in 0..Slots BY Natural
<1> DEFINE Count(keys) == Cardinality(Taken(keys)) + Cardinality(Down(b) \ Down(keys))
<1> DEFINE Good(j) == /\ Down(a) \subseteq Down(m[j]) /\ Down(m[j]) \subseteq Down(a) \cup Down(b)
                      /\ Count(a) <= Slots => /\ Count(m[j]) = Count(a)
                                              /\ \A i \in 1..j : b[i] # NoKey => b[i] \in Down(m[j])
<1> DEFINE P == {j \in Nat : j <= Slots => Good(j)}
<1>3. 0 \in P
  <2>1. Good(0) BY <1>1
  <2> QED BY <2>1
<1>4. ASSUME NEW j \in 1..Slots, j - 1 \in P PROVE j \in P
  <2>1. j - 1 \in 0..Slots /\ j \in Nat /\ 1..j = 1..(j - 1) \cup {j} BY <1>2
  <2>2. Good(j - 1) BY <1>4, <2>1
  <2>3. m[j - 1] \in KeyReports BY <2>1
  <2>4. b[j] \in Keys \cup {NoKey} BY DEF KeyReports
  <2>5. b[j] # NoKey => b[j] \in Down(b)
    <3>1. b[j] # NoKey => j \in Taken(b) BY DEF Taken
    <3> QED BY <3>1, DownIs
  <2>6. m[j] = Insert(m[j - 1], b[j]) BY <1>1
  <2>7. Down(m[j - 1]) \subseteq Down(m[j]) /\ Down(m[j]) \subseteq Down(m[j - 1]) \cup ({b[j]} \ {NoKey})
    BY <2>3, <2>4, <2>6, InsertTakes
  <2>8. Down(a) \subseteq Down(m[j]) /\ Down(m[j]) \subseteq Down(a) \cup Down(b)
    BY <2>2, <2>5, <2>7
  <2>9. ASSUME Count(a) <= Slots
        PROVE  Count(m[j]) = Count(a) /\ \A i \in 1..j : b[i] # NoKey => b[i] \in Down(m[j])
    <3>1. Count(m[j - 1]) = Count(a) BY <2>2, <2>9
    <3>2. IsFiniteSet(Down(b)) BY Finite
    <3>3. Cardinality(Taken(m[j - 1])) + Cardinality(Down(b) \ Down(m[j - 1])) <= Slots
      BY <2>9, <3>1
    <3>4. /\ b[j] # NoKey => b[j] \in Down(Insert(m[j - 1], b[j]))
          /\ Cardinality(Taken(Insert(m[j - 1], b[j])))
               + Cardinality(Down(b) \ Down(Insert(m[j - 1], b[j])))
             = Cardinality(Taken(m[j - 1])) + Cardinality(Down(b) \ Down(m[j - 1]))
      BY <2>3, <2>4, <2>5, <3>2, <3>3, InsertCounts
    <3>5. Count(m[j]) = Count(m[j - 1]) BY <2>6, <3>4
    <3>6. ASSUME NEW i \in 1..j, b[i] # NoKey PROVE b[i] \in Down(m[j])
      <4>1. CASE i = j BY <2>6, <3>4, <3>6, <4>1
      <4>2. CASE i \in 1..(j - 1) BY <2>2, <2>7, <2>9, <3>6, <4>2
      <4> QED BY <2>1, <4>1, <4>2
    <3> QED BY <3>1, <3>5, <3>6
  <2> QED BY <2>8, <2>9
<1> HIDE DEF P
<1>5. 0..Slots \subseteq P BY <1>2, <1>3, <1>4, Induction
<1>6. Slots \in P /\ Slots \in 0..Slots BY <1>2, <1>5
<1>7. Good(Slots) BY <1>2, <1>6 DEF P
<1>8. Merge(a, b) \in KeyReports BY <1>1, <1>6
<1>9. ASSUME Count(a) <= Slots PROVE Down(b) \subseteq Down(Merge(a, b)) /\ Down(b) \ Down(Merge(a, b)) = {}
  <2>1. \A i \in 1..Slots : b[i] # NoKey => b[i] \in Down(Merge(a, b)) BY <1>1, <1>7, <1>9
  <2>2. \A i \in Taken(b) : b[i] \in Down(Merge(a, b)) BY <2>1 DEF Taken
  <2>3. Down(b) \subseteq Down(Merge(a, b)) BY <2>2, DownIs
  <2> QED BY <2>3
<1>10. ASSUME Count(a) <= Slots
       PROVE  Cardinality(Taken(Merge(a, b))) = Count(a)
  <2>1. Count(Merge(a, b)) = Count(a) BY <1>1, <1>7, <1>10
  <2>2. Cardinality(Down(b) \ Down(Merge(a, b))) = 0 BY <1>9, <1>10, FS_EmptySet
  <2>3. Cardinality(Taken(Merge(a, b))) \in Nat BY <1>8, Finite
  <2> QED BY <2>1, <2>2, <2>3
<1> QED BY <1>1, <1>7, <1>8, <1>9, <1>10

(* The real keys are shown if they fit beside the injected ones, whatever  *)
(* is tapped.                                                              *)
LEMMA RealShown ==
    ASSUME NEW inj \in KeyReports, NEW real \in KeyReports, NEW tap \in KeyReports, NEW C,
           IsFiniteSet(C), Down(real) \ Down(inj) \subseteq C,
           Cardinality(Taken(inj)) + Cardinality(C) <= Slots
    PROVE  Down(real) \subseteq Down(Merge(Merge(inj, real), tap))
<1> DEFINE A == Down(real) \ Down(inj)
<1> DEFINE M == Merge(inj, real)
<1>1. IsFiniteSet(A) /\ Cardinality(A) <= Cardinality(C)
  <2>1. A \in SUBSET C OBVIOUS
  <2> QED BY <2>1, FS_Subset
<1>2. Cardinality(A) \in Nat /\ Cardinality(C) \in Nat BY <1>1, FS_CardinalityType
<1>3. Cardinality(Taken(inj)) \in Nat BY Finite
<1>4. /\ M \in KeyReports
      /\ Cardinality(Taken(inj)) + Cardinality(A) <= Slots => Down(M) = Down(inj) \cup Down(real)
  BY MergeShows
<1> HIDE DEF A, M
<1>5. Cardinality(Taken(inj)) + Cardinality(A) <= Slots BY <1>1, <1>2, <1>3, Natural
<1>6. Down(M) \subseteq Down(Merge(M, tap)) BY <1>4, MergeShows
<1> QED BY <1>4, <1>5, <1>6 DEF M

-----------------------------------------------------------------------------
(* Clocks that wrap.                                                       *)

LEMMA Clock ==
    /\ Word \in Nat /\ Word >= 4 /\ DeltaWord \in Nat \ {0} /\ Word \div 2 \in Nat
    /\ 2 * (Word \div 2) <= Word /\ Word <= 2 * (Word \div 2) + 1
    /\ MaskMax \in Nat /\ MaskMax < Word \div 2
    /\ MaxStall \in Nat /\ MaxStall < Word \div 2
BY TimesAssumption

LEMMA Remainder ==
    ASSUME NEW W \in Nat \ {0}, NEW x \in Int
    PROVE  /\ x % W \in 0..(W - 1)
           /\ 0 <= x /\ x < W => x % W = x
           /\ -W <= x /\ x < 0 => x % W = x + W
           /\ W <= x /\ x < 2 * W => x % W = x - W
OBVIOUS

LEMMA WrapIs ==
    ASSUME NEW d \in Int
    PROVE  Wrap(d) \in Int /\ Wrap(d) \in -DeltaWord..DeltaWord
<1> DEFINE r == (d + (DeltaWord \div 2)) % DeltaWord
<1>1. DeltaWord \div 2 \in Nat /\ DeltaWord \div 2 <= DeltaWord BY Clock
<1>2. r \in 0..(DeltaWord - 1) BY <1>1, Clock, Remainder
<1> QED BY <1>1, <1>2, Clock DEF Wrap

(* A deadline: how far ahead it is, and how long ago.                      *)
Until(t) == (t - now) % Word
Since(t) == (now - t) % Word

(* The order of two times: the deadline is ahead, or it is now, or past.   *)
LEMMA Apart ==
    ASSUME now \in 0..(Word - 1), NEW t \in 0..(Word - 1)
    PROVE  /\ Until(t) \in 0..(Word - 1) /\ Since(t) \in 0..(Word - 1)
           /\ Until(t) = IF t >= now THEN t - now ELSE t - now + Word
           /\ Since(t) = IF now >= t THEN now - t ELSE now - t + Word
<1>1. Word \in Nat \ {0} BY Clock
<1>2. t - now \in Int /\ -Word <= t - now /\ t - now < Word BY <1>1
<1>3. now - t \in Int /\ -Word <= now - t /\ now - t < Word BY <1>1
<1>4. (t - now) % Word = IF 0 <= t - now THEN t - now ELSE t - now + Word
  BY <1>1, <1>2
<1>5. (now - t) % Word = IF 0 <= now - t THEN now - t ELSE now - t + Word
  BY <1>1, <1>3
<1> QED BY <1>1, <1>4, <1>5 DEF Until, Since

LEMMA ReachedIs ==
    ASSUME now \in 0..(Word - 1), NEW t \in 0..(Word - 1)
    PROVE  /\ Reached(t) <=> Since(t) < Word \div 2
           /\ 0 < Until(t) /\ Until(t) <= Word \div 2 => ~Reached(t)
           /\ Until(t) = 0 => Since(t) = 0
<1>1. Reached(t) <=> Since(t) < Word \div 2 BY DEF Reached, Since
<1> QED BY <1>1, Apart, Clock

(* A deadline so far ahead.                                                *)
LEMMA DeadlineIs ==
    ASSUME now \in 0..(Word - 1), NEW ms \in 0..(Word \div 2 - 1)
    PROVE  /\ (now + ms) % Word \in 0..(Word - 1)
           /\ Until((now + ms) % Word) = ms
           /\ ms = 0 => Since((now + ms) % Word) = 0
<1> DEFINE t == (now + ms) % Word
<1>1. Word \in Nat \ {0} /\ now + ms \in Nat /\ ms \in Nat /\ now + ms < 2 * Word /\ ms < Word BY Clock
<1>2. t = IF now + ms < Word THEN now + ms ELSE now + ms - Word BY <1>1
<1>3. t \in 0..(Word - 1) BY <1>1, <1>2
<1> HIDE DEF t
<1>4. Until(t) = ms BY <1>1, <1>2, <1>3, Apart
<1>5. ms = 0 => Since(t) = 0 BY <1>1, <1>2, <1>3, Apart
<1> QED BY <1>3, <1>4, <1>5 DEF t

LEMMA MaskDeadlineIs ==
    ASSUME now \in 0..(Word - 1), NEW ms \in 1..MaskMax
    PROVE  /\ MaskDeadline(ms) \in 1..(Word - 1)
           /\ Until(MaskDeadline(ms)) = ms
                \/ (MaskDeadline(ms) = 1 /\ Until(1) = ms + 1)
<1> DEFINE t == (now + ms) % Word
<1>1. ms \in 0..(Word \div 2 - 1) /\ ms \in Nat /\ ms + 1 < Word BY Clock
<1>2. t \in 0..(Word - 1) /\ Until(t) = ms BY <1>1, DeadlineIs
<1>3. MaskDeadline(ms) = IF t = 0 THEN 1 ELSE t BY DEF MaskDeadline
<1> HIDE DEF t
<1>4. CASE t = 0
  <2>1. Until(0) = ms /\ 0 \in 0..(Word - 1) /\ 1 \in 0..(Word - 1) BY <1>2, <1>4, Clock
  <2>2. Until(1) = ms + 1 BY <1>1, <2>1, Apart, Clock
  <2> QED BY <1>3, <1>4, <2>1, <2>2, Clock
<1>5. CASE t # 0 BY <1>2, <1>3, <1>5
<1> QED BY <1>4, <1>5

(* A millisecond later a deadline is so much nearer, or longer ago.        *)
LEMMA Later ==
    ASSUME now \in 0..(Word - 1), now' = (now + 1) % Word, NEW t \in 0..(Word - 1)
    PROVE  /\ now' \in 0..(Word - 1)
           /\ Until(t) > 0 => ((t - now') % Word) = Until(t) - 1
           /\ Until(t) = 1 => ((now' - t) % Word) = 0
           /\ Since(t) < Word - 1 => ((now' - t) % Word) = Since(t) + 1
<1>1. Word \in Nat \ {0} /\ now + 1 \in Nat /\ now + 1 < 2 * Word BY Clock
<1>2. now' = IF now + 1 < Word THEN now + 1 ELSE now + 1 - Word BY <1>1
<1>3. now' \in 0..(Word - 1) BY <1>1, <1>2
<1>4. t - now' \in Int /\ -Word <= t - now' /\ t - now' < Word BY <1>1, <1>3
<1>5. now' - t \in Int /\ -Word <= now' - t /\ now' - t < Word BY <1>1, <1>3
<1>6. (t - now') % Word = IF 0 <= t - now' THEN t - now' ELSE t - now' + Word
  BY <1>1, <1>4
<1>7. (now' - t) % Word = IF 0 <= now' - t THEN now' - t ELSE now' - t + Word
  BY <1>1, <1>5
<1> DEFINE U == Until(t)
<1> DEFINE S == Since(t)
<1> DEFINE u == (t - now') % Word
<1> DEFINE s == (now' - t) % Word
<1>8. /\ U = IF t >= now THEN t - now ELSE t - now + Word
      /\ S = IF now >= t THEN now - t ELSE now - t + Word
  BY Apart
<1>9. u = (IF 0 <= t - now' THEN t - now' ELSE t - now' + Word)
        /\ s = (IF 0 <= now' - t THEN now' - t ELSE now' - t + Word)
  BY <1>6, <1>7
<1> HIDE DEF U, S, u, s
<1>10. U > 0 => u = U - 1 BY <1>1, <1>2, <1>3, <1>8, <1>9
<1>11. U = 1 => s = 0 BY <1>1, <1>2, <1>3, <1>8, <1>9
<1>12. S < Word - 1 => s = S + 1 BY <1>1, <1>2, <1>3, <1>8, <1>9
<1> QED BY <1>3, <1>10, <1>11, <1>12 DEF U, S, u, s

-----------------------------------------------------------------------------
(* The inductive invariant.  First the types, group by group.              *)

Times == 0..(Word - 1)

BootType == /\ phase \in {"identity", "running"} /\ waited \in 0..IdWait
            /\ role \in {"keyboard", "mouse", "unknown", "other"}
            /\ role \in Devices \cup {"keyboard", "unknown", "other"}
            /\ phase = "running" => role # "unknown"
KbdType == /\ realKeys \in KeyReports /\ injKeys \in KeyReports /\ tapKeys \in KeyReports
           /\ tapUntil \in Times
MouseType == /\ realMouse \in MouseStates /\ injMouse \in MouseStates
             /\ clickBits \subseteq Buttons /\ clickAt \in Times
MaskType == ghost \in BOOLEAN /\ maskUntil \in Times
ClockType == now \in Times /\ emitted \in BOOLEAN /\ stalled \in 0..MaxStall
ParserType == /\ hostResidue \in 0..(HostResidue + 1) /\ pcResidue \in 0..(PcResidue + 1)
              /\ line \in {NoLine, Junk} \cup {c \in Commands : c.op \in Ascii}

Inputs == IF device = "keyboard" THEN Keys ELSE Buttons
RightType == /\ device \in Devices /\ attached \in BOOLEAN
             /\ held \in Seq(Inputs) /\ Len(held) <= Slots
             /\ beat \in 0..Beat /\ events \in Nat

Frames == [type : {"report"}, keys : KeyReports, buttons : SUBSET Buttons, d : Int]
            \cup {Identity, Diagnosis}
WireType == wire \in Seq(Frames) /\ Len(wire) <= WireCap

TimingType == /\ maskLeft \in 0..MaskMax /\ tapLeft \in 0..(Word \div 2 - 1)
              /\ press \in [Buttons -> 0..(Word \div 2 - 1)]
              /\ overrun \in BOOLEAN /\ wanted \subseteq Buttons
FlagType == /\ rebootReq \in BOOLEAN /\ ready \in BOOLEAN /\ clean \in BOOLEAN
            /\ early \in BOOLEAN /\ missed \in {"none", "some", "stale"} /\ owed \in Int

(* Nothing is read or shown, and nothing due, before the device is known.  *)
Blank == phase = "identity" => /\ role = "unknown" /\ seen = {}
                               /\ realKeys = NoKeys /\ realMouse = AtRest
                               /\ maskUntil = 0 /\ tapUntil = 0 /\ clickAt = 0

Types == /\ BootType /\ KbdType /\ MouseType /\ MaskType /\ ClockType /\ ParserType
         /\ RightType /\ WireType /\ TimingType /\ FlagType /\ Blank

(* The last report on the wire tells what is held.                         *)
Tells(f) == IF device = "keyboard" THEN Down(f.keys) = Range(held) ELSE f.buttons = Range(held)
LastReport(i) == wire[i].type = "report" /\ \A j \in DOMAIN wire : j > i => wire[j].type # "report"
HeardLast == \A i \in DOMAIN wire : LastReport(i) => Tells(wire[i])

(* With no report on the wire, what the left board holds is what is held,  *)
(* or some of it; a ghost starts from nothing.                             *)
Takes == phase = "identity" \/ role = device
HeldKept == Quiet /\ Takes => /\ missed = "none" => Real = Range(held)
                              /\ missed = "some" => Real \subseteq Range(held)
GhostRests == ghost => realKeys = NoKeys /\ realMouse.buttons = {}
HeldInv == HeardLast /\ HeldKept /\ GhostRests

(* An identity the left board has not heard is on the wire, or not due.    *)
Underway == early /\ phase = "identity" =>
                /\ attached /\ hostResidue = 0
                /\ waited <= beat \/ \E i \in DOMAIN wire : wire[i] = Identity

(* How long what is timed has still to run, or has been over.              *)
MaskRuns ==
    /\ maskLeft > 0 => /\ maskUntil # 0
                       /\ \/ Until(maskUntil) = maskLeft
                          \/ maskUntil = 1 /\ Until(1) = maskLeft + 1
    /\ maskLeft = 0 /\ maskUntil \notin {0, 1} => ~emitted /\ Since(maskUntil) < stalled
TapRuns ==
    tapUntil # 0 => \/ tapLeft > 0 /\ Until(tapUntil) = tapLeft
                    \/ tapLeft = 0 /\ Since(tapUntil) <= stalled

(* A button that is down is asked for or clicked, and a click not asked    *)
(* for has time to run, or is over.                                        *)
Asked == ~overrun => injMouse.buttons \subseteq wanted \cup clickBits
Clicked == clickAt # 0 => \A b \in (injMouse.buttons \cap clickBits) \ wanted :
               \/ press[b] > 0 /\ Until(clickAt) = press[b]
               \/ Since(clickAt) <= stalled
ClickRuns == Asked /\ Clicked

Runs == MaskRuns /\ TapRuns /\ ClickRuns /\ MovesShownOnce
IInv == Types /\ Runs

(* What is known of the device, if frames are only lost or cut (the frame  *)
(* format leaves its last byte unchecked, see the README).                 *)
KnownInv == HeldInv /\ Underway

(* What each part looks at.                                                *)
heldVars  == <<device, held, wire, missed, phase, role, realKeys, realMouse, ghost>>
earlyVars == <<early, phase, attached, hostResidue, waited, beat, device, wire>>
maskVars  == <<maskLeft, maskUntil, emitted, now, stalled>>
tapVars   == <<tapUntil, tapLeft, now, stalled>>
clickVars == <<overrun, injMouse, wanted, clickBits, clickAt, press, now, stalled>>
moveVars  == <<clean, owed, injMouse, realMouse>>

LEMMA HeldStays == HeldInv /\ UNCHANGED heldVars => HeldInv'
<1> SUFFICES ASSUME HeldInv, UNCHANGED heldVars PROVE HeldInv' OBVIOUS
<1>1. /\ device' = device /\ held' = held /\ wire' = wire /\ missed' = missed /\ phase' = phase
      /\ role' = role /\ realKeys' = realKeys /\ realMouse' = realMouse /\ ghost' = ghost
  BY DEF heldVars
<1>2. HeardLast' BY <1>1 DEF HeldInv, HeardLast, LastReport, Tells
<1>3. HeldKept' BY <1>1 DEF HeldInv, HeldKept, Quiet, Takes, Real
<1>4. GhostRests' BY <1>1 DEF HeldInv, GhostRests
<1> QED BY <1>2, <1>3, <1>4 DEF HeldInv

LEMMA EarlyStays == Underway /\ UNCHANGED earlyVars => Underway'
BY DEF Underway, earlyVars, Identity

LEMMA MaskStaysRunning == MaskRuns /\ UNCHANGED maskVars => MaskRuns'
BY DEF MaskRuns, maskVars, Until, Since

LEMMA TapStays == TapRuns /\ UNCHANGED tapVars => TapRuns'
BY DEF TapRuns, tapVars, Until, Since

LEMMA ClickStays == ClickRuns /\ UNCHANGED clickVars => ClickRuns'
BY DEF ClickRuns, Asked, Clicked, clickVars, Until, Since

LEMMA MovesStay == MovesShownOnce /\ UNCHANGED moveVars => MovesShownOnce'
BY DEF MovesShownOnce, moveVars

LEMMA ConstantTypes ==
    /\ NoKeys \in KeyReports /\ AtRest \in MouseStates /\ 0 \in Times
    /\ Down(NoKeys) = {} /\ AtRest.buttons = {} /\ AtRest.d = 0
    /\ IdWait \in Nat /\ Beat \in Nat /\ Beat < IdWait /\ WireCap \in Nat
    /\ HostResidue \in Nat /\ PcResidue \in Nat
    /\ Devices \subseteq {"keyboard", "mouse"}
    /\ \A c \in Commands : WellFormed(c)
<1>1. NoKeys \in KeyReports BY Natural DEF NoKeys, KeyReports
<1>2. Down(NoKeys) = {} BY DEF Down, NoKeys, Range
<1>3. AtRest \in MouseStates /\ AtRest.buttons = {} /\ AtRest.d = 0
  BY Clock DEF AtRest, MouseStates
<1>4. 0 \in Times BY Clock DEF Times
<1> QED BY <1>1, <1>2, <1>3, <1>4, TimesAssumption, DevicesAssumption, CommandsAssumption

-----------------------------------------------------------------------------
(* Groups that a step leaves alone.                                        *)

LEMMA TypesStay ==
    /\ BootType /\ UNCHANGED boot => BootType'
    /\ KbdType /\ UNCHANGED kbd => KbdType'
    /\ MouseType /\ UNCHANGED mouse => MouseType'
    /\ MaskType /\ UNCHANGED masks => MaskType'
    /\ ClockType /\ UNCHANGED clock => ClockType'
    /\ ParserType /\ UNCHANGED parsers => ParserType'
    /\ RightType /\ UNCHANGED right => RightType'
    /\ WireType /\ UNCHANGED <<wire, device>> => WireType'
    /\ TimingType /\ UNCHANGED timing => TimingType'
    /\ FlagType /\ UNCHANGED <<rebootReq, ready, clean, early, missed, owed>> => FlagType'
    /\ Blank /\ UNCHANGED <<phase, role, seen, realKeys, realMouse, maskUntil, tapUntil, clickAt>>
         => Blank'
<1>1. BootType /\ UNCHANGED boot => BootType' BY DEF BootType, boot
<1>2. KbdType /\ UNCHANGED kbd => KbdType' BY DEF KbdType, kbd
<1>3. MouseType /\ UNCHANGED mouse => MouseType' BY DEF MouseType, mouse
<1>4. MaskType /\ UNCHANGED masks => MaskType' BY DEF MaskType, masks
<1>5. ClockType /\ UNCHANGED clock => ClockType' BY DEF ClockType, clock
<1>6. ParserType /\ UNCHANGED parsers => ParserType' BY DEF ParserType, parsers
<1>7. RightType /\ UNCHANGED right => RightType' BY DEF RightType, right, Inputs
<1>8. WireType /\ UNCHANGED <<wire, device>> => WireType' BY DEF WireType, Frames, Identity
<1>9. TimingType /\ UNCHANGED timing => TimingType' BY DEF TimingType, timing
<1>10. FlagType /\ UNCHANGED <<rebootReq, ready, clean, early, missed, owed>> => FlagType'
  BY DEF FlagType
<1>11. Blank /\ UNCHANGED <<phase, role, seen, realKeys, realMouse, maskUntil, tapUntil, clickAt>>
          => Blank'
  BY DEF Blank
<1> QED BY <1>1, <1>2, <1>3, <1>4, <1>5, <1>6, <1>7, <1>8, <1>9, <1>10, <1>11

-----------------------------------------------------------------------------
(* The right board.                                                        *)

LEMMA PackedIs ==
    ASSUME NEW s \in Seq(Keys), Len(s) <= Slots
    PROVE  Packed(s) \in KeyReports /\ Down(Packed(s)) = Range(s)
<1>1. \A j \in 1..Slots : Packed(s)[j] = IF j <= Len(s) THEN s[j] ELSE NoKey
  BY DEF Packed
<1>2. Len(s) \in Nat /\ DOMAIN s = 1..Len(s) /\ \A j \in 1..Len(s) : s[j] \in Keys
  BY ElementOfSeq, LenProperties
<1>3. Packed(s) \in KeyReports
  <2>1. \A j \in 1..Slots : (IF j <= Len(s) THEN s[j] ELSE NoKey) \in Keys \cup {NoKey}
    BY <1>2
  <2> QED BY <2>1 DEF Packed, KeyReports
<1>4. DOMAIN Packed(s) = 1..Slots BY DEF Packed
<1>5. ASSUME NEW k \in Down(Packed(s)) PROVE k \in Range(s)
  <2>1. PICK j \in 1..Slots : k = Packed(s)[j] /\ k # NoKey BY <1>4, <1>5 DEF Down, Range
  <2>2. j \in 1..Len(s) /\ k = s[j] BY <1>1, <1>2, <2>1
  <2> QED BY <1>2, <2>2 DEF Range
<1>6. ASSUME NEW k \in Range(s) PROVE k \in Down(Packed(s))
  <2>1. PICK j \in 1..Len(s) : k = s[j] BY <1>2, <1>6 DEF Range
  <2>2. j \in 1..Slots /\ k \in Keys BY <1>2, <2>1, Natural
  <2>3. k = Packed(s)[j] /\ k # NoKey BY <1>1, <2>1, <2>2, Natural
  <2> QED BY <1>4, <2>2, <2>3 DEF Down, Range
<1> QED BY <1>3, <1>5, <1>6

(* What a report of the device tells.                                      *)
LEMMA DeviceReportIs ==
    ASSUME device \in Devices, NEW h \in Seq(Inputs), Len(h) <= Slots, NEW d \in Int
    PROVE  LET f == DeviceReport(h, d)
           IN  /\ f \in Frames /\ f.type = "report"
               /\ device = "keyboard" => Down(f.keys) = Range(h)
               /\ device # "keyboard" => f.buttons = Range(h)
<1>1. CASE device = "keyboard"
  <2>1. h \in Seq(Keys) BY <1>1 DEF Inputs
  <2>2. Packed(h) \in KeyReports /\ Down(Packed(h)) = Range(h) BY <2>1, PackedIs
  <2>3. DeviceReport(h, d) = [type |-> "report", keys |-> Packed(h), buttons |-> {}, d |-> 0]
    BY <1>1 DEF DeviceReport, Report, AtRest
  <2> QED BY <1>1, <2>2, <2>3 DEF Frames
<1>2. CASE device # "keyboard"
  <2>1. h \in Seq(Buttons) BY <1>2 DEF Inputs
  <2>2. Range(h) \subseteq Buttons BY <2>1 DEF Range
  <2>3. DeviceReport(h, d) = [type |-> "report", keys |-> NoKeys, buttons |-> Range(h), d |-> d]
    BY <1>2 DEF DeviceReport, Report
  <2> QED BY <1>2, <2>2, <2>3, ConstantTypes DEF Frames
<1> QED BY <1>1, <1>2

(* After a report is sent, it is the last one and tells what is held.      *)
LEMMA ReportSent ==
    ASSUME Types, device' = device, NEW d \in Int, held' \in Seq(Inputs), Len(held') <= Slots,
           Room(1), Send(<<DeviceReport(held', d)>>)
    PROVE  /\ WireType' /\ HeardLast' /\ ~Quiet'
           /\ \A i \in DOMAIN wire : i \in DOMAIN wire' /\ wire'[i] = wire[i]
<1> DEFINE f == DeviceReport(held', d)
<1>0. wire \in Seq(Frames) /\ Len(wire) <= WireCap /\ device \in Devices
  BY DEF Types, WireType, RightType
<1>1. /\ f \in Frames /\ f.type = "report"
      /\ device = "keyboard" => Down(f.keys) = Range(held')
      /\ device # "keyboard" => f.buttons = Range(held')
  BY <1>0, DeviceReportIs
<1> HIDE DEF f
<1>2. wire' = Append(wire, f) BY <1>0, <1>1 DEF Send, f
<1>3. /\ wire' \in Seq(Frames) /\ Len(wire') = Len(wire) + 1 /\ wire'[Len(wire) + 1] = f
      /\ \A i \in 1..Len(wire) : wire'[i] = wire[i]
      /\ DOMAIN wire = 1..Len(wire) /\ DOMAIN wire' = 1..(Len(wire) + 1) /\ Len(wire) \in Nat
  BY <1>0, <1>1, <1>2
<1>4. WireType' BY <1>3 DEF WireType, Frames, Identity, Room
<1>5. ASSUME NEW i \in DOMAIN wire', LastReport(i)' PROVE Tells(wire[i])'
  <2>1. i = Len(wire) + 1
    <3>1. SUFFICES ASSUME i \in 1..Len(wire) PROVE FALSE BY <1>3
    <3>2. Len(wire) + 1 \in DOMAIN wire' /\ Len(wire) + 1 > i BY <1>3, <3>1
    <3> QED BY <1>1, <1>3, <1>5, <3>2 DEF LastReport
  <2>2. wire'[i] = f BY <1>3, <2>1
  <2> QED BY <1>1, <2>2 DEF Tells
<1>6. HeardLast' BY <1>5 DEF HeardLast
<1>7. ~Quiet'
  <2>1. f \in Range(wire') BY <1>3 DEF Range
  <2> QED BY <1>1, <2>1 DEF Quiet
<1> QED BY <1>3, <1>4, <1>6, <1>7

(* A step of the right board leaves the left one as it is.                 *)
LEMMA LeftStays ==
    ASSUME IInv, UNCHANGED left
    PROVE  /\ BootType' /\ KbdType' /\ MouseType' /\ MaskType' /\ ClockType' /\ ParserType'
           /\ TimingType' /\ FlagType' /\ Blank' /\ Runs'
<1>1. /\ UNCHANGED boot /\ UNCHANGED kbd /\ UNCHANGED mouse /\ UNCHANGED masks
      /\ UNCHANGED clock /\ UNCHANGED parsers /\ UNCHANGED rebootReq /\ UNCHANGED usb
      /\ UNCHANGED history
  BY DEF left
<1>2. UNCHANGED <<missed, timing, owed, clean, early>> BY <1>1 DEF history
<1>3. UNCHANGED <<rebootReq, ready, clean, early, missed, owed>> BY <1>1, <1>2 DEF usb
<1>4. UNCHANGED <<phase, role, seen, realKeys, realMouse, maskUntil, tapUntil, clickAt>>
  BY <1>1 DEF boot, usb, kbd, mouse, masks
<1>5. UNCHANGED timing BY <1>2
<1>6. /\ BootType' /\ KbdType' /\ MouseType' /\ MaskType' /\ ClockType' /\ ParserType'
      /\ TimingType' /\ FlagType' /\ Blank'
  BY <1>1, <1>3, <1>4, <1>5, TypesStay DEF IInv, Types
<1>7. UNCHANGED maskVars BY <1>1, <1>5 DEF masks, clock, timing, maskVars
<1>8. UNCHANGED tapVars BY <1>1, <1>5 DEF kbd, clock, timing, tapVars
<1>9. UNCHANGED clickVars BY <1>1, <1>5 DEF mouse, clock, timing, clickVars
<1>10. UNCHANGED moveVars BY <1>1, <1>2 DEF mouse, moveVars
<1>11. Runs'
  BY <1>7, <1>8, <1>9, <1>10, MaskStaysRunning, TapStays, ClickStays, MovesStay DEF IInv, Runs
<1> QED BY <1>6, <1>11

LEMMA Removed ==
    ASSUME NEW S, NEW s \in Seq(S), NEW j \in DOMAIN s
    PROVE  RemoveAt(s, j) \in Seq(S) /\ Len(RemoveAt(s, j)) = Len(s) - 1
<1> DEFINE n == Len(s)
<1> DEFINE a == SubSeq(s, 1, j - 1)
<1> DEFINE b == SubSeq(s, j + 1, n)
<1>1. n \in Nat /\ j \in 1..n /\ \A i \in 1..n : s[i] \in S BY ElementOfSeq, LenProperties
<1> HIDE DEF n
<1>2. j - 1 \in Int /\ 1 \in Int /\ j + 1 \in Int /\ n \in Int BY <1>1
<1>3. (\A i \in 1..(j - 1) : s[i] \in S) /\ (\A i \in (j + 1)..n : s[i] \in S) BY <1>1
<1>4. a \in Seq(S) /\ Len(a) = IF 1 <= j - 1 THEN (j - 1) - 1 + 1 ELSE 0
  BY <1>2, <1>3, SubSeqProperties
<1>5. b \in Seq(S) /\ Len(b) = IF j + 1 <= n THEN n - (j + 1) + 1 ELSE 0
  BY <1>2, <1>3, SubSeqProperties
<1>6. RemoveAt(s, j) = a \o b BY DEF RemoveAt, n
<1> HIDE DEF a, b
<1>7. Len(a) + Len(b) = n - 1 BY <1>1, <1>4, <1>5
<1>8. a \o b \in Seq(S) /\ Len(a \o b) = Len(a) + Len(b) BY <1>4, <1>5, ConcatProperties
<1> QED BY <1>6, <1>7, <1>8 DEF n

LEMMA HeldSteps ==
    ASSUME Types
    PROVE  /\ held \in Seq(Inputs) /\ Len(held) <= Slots
           /\ \A k \in Inputs : Len(held) < Slots =>
                Append(held, k) \in Seq(Inputs) /\ Len(Append(held, k)) <= Slots
           /\ \A j \in DOMAIN held :
                RemoveAt(held, j) \in Seq(Inputs) /\ Len(RemoveAt(held, j)) <= Slots
<1>1. held \in Seq(Inputs) /\ Len(held) <= Slots BY DEF Types, RightType
<1>2. Len(held) \in Nat /\ Slots \in Nat BY <1>1, LenProperties, Natural
<1>3. ASSUME NEW k \in Inputs, Len(held) < Slots
      PROVE  Append(held, k) \in Seq(Inputs) /\ Len(Append(held, k)) <= Slots
  <2>1. Append(held, k) \in Seq(Inputs) /\ Len(Append(held, k)) = Len(held) + 1
    BY <1>1, AppendProperties
  <2>2. Len(held) + 1 <= Slots BY <1>2, <1>3
  <2> QED BY <2>1, <2>2
<1>4. ASSUME NEW j \in DOMAIN held
      PROVE  RemoveAt(held, j) \in Seq(Inputs) /\ Len(RemoveAt(held, j)) <= Slots
  <2>1. RemoveAt(held, j) \in Seq(Inputs) /\ Len(RemoveAt(held, j)) = Len(held) - 1
    BY <1>1, Removed
  <2>2. Len(held) - 1 <= Slots BY <1>1, <1>2
  <2> QED BY <2>1, <2>2
<1> QED BY <1>1, <1>3, <1>4

LEMMA DeviceEventKeeps ==
    ASSUME IInv, DeviceEvent
    PROVE  IInv' /\ (KnownInv => KnownInv')
<1>1. /\ UNCHANGED <<device, attached, beat, left>> /\ Room(1) /\ events' = events + 1
      /\ \E d \in IF device = "mouse" THEN Moves ELSE {0} : Send(<<DeviceReport(held', d)>>)
  BY DEF DeviceEvent
<1>2. \/ held' = held
      \/ \E k \in Inputs : held' = Append(held, k) /\ Len(held) < Slots
      \/ \E j \in DOMAIN held : held' = RemoveAt(held, j)
  <2>1. CASE \E k \in (Pressed \cap IF device = "keyboard" THEN Keys ELSE Buttons) \ Range(held) :
               Len(held) < Slots /\ held' = Append(held, k)
    BY <2>1 DEF Inputs
  <2>2. CASE \E j \in DOMAIN held : held' = RemoveAt(held, j) BY <2>2
  <2>3. CASE held' = held BY <2>3
  <2> QED BY <2>1, <2>2, <2>3 DEF DeviceEvent
<1>3. held' \in Seq(Inputs) /\ Len(held') <= Slots BY <1>2, HeldSteps DEF IInv
<1>4. PICK d \in Int : Send(<<DeviceReport(held', d)>>) BY <1>1, DevicesAssumption
<1>5. /\ WireType' /\ HeardLast' /\ ~Quiet'
      /\ \A i \in DOMAIN wire : i \in DOMAIN wire' /\ wire'[i] = wire[i]
  BY <1>1, <1>3, <1>4, ReportSent DEF IInv
<1>6. RightType'
  BY <1>1, <1>3 DEF IInv, Types, RightType, Inputs
<1>7. UNCHANGED left BY <1>1
<1>8. IInv' BY <1>5, <1>6, <1>7, LeftStays DEF IInv, Types
<1>9. ASSUME KnownInv PROVE KnownInv'
  <2>1. HeldKept' BY <1>5 DEF HeldKept
  <2>2. UNCHANGED <<boot, kbd, mouse, masks, parsers, history>> BY <1>7 DEF left
  <2>3. GhostRests' BY <1>9, <2>2 DEF KnownInv, HeldInv, GhostRests, kbd, mouse, masks
  <2>4. UNCHANGED <<early, phase, attached, hostResidue, waited, beat, device>>
    BY <1>1, <2>2 DEF boot, parsers, history
  <2>5. Underway' BY <1>5, <1>9, <2>4 DEF KnownInv, Underway, Identity
  <2> QED BY <1>5, <2>1, <2>3, <2>5 DEF KnownInv, HeldInv
<1> QED BY <1>8, <1>9

(* Frames that are no reports, sent after what was on the wire.            *)
LEMMA OthersSent ==
    ASSUME Types, HeardLast, NEW s \in Seq(Frames), wire' = wire \o s, UNCHANGED <<device, held>>,
           \A i \in DOMAIN s : s[i].type # "report",
           Len(wire) + Len(s) <= WireCap
    PROVE  /\ WireType' /\ HeardLast' /\ (Quiet' <=> Quiet)
           /\ \A i \in DOMAIN wire : i \in DOMAIN wire' /\ wire'[i] = wire[i]
           /\ \A i \in DOMAIN s : \E j \in DOMAIN wire' : wire'[j] = s[i]
<1>0. wire \in Seq(Frames) /\ Len(wire) <= WireCap
  BY DEF Types, WireType
<1>1. /\ wire' \in Seq(Frames) /\ Len(wire') = Len(wire) + Len(s)
      /\ \A i \in 1..Len(wire) : wire'[i] = wire[i]
      /\ \A i \in 1..Len(s) : wire'[Len(wire) + i] = s[i]
      /\ DOMAIN wire = 1..Len(wire) /\ DOMAIN wire' = 1..(Len(wire) + Len(s))
      /\ DOMAIN s = 1..Len(s) /\ Len(wire) \in Nat /\ Len(s) \in Nat
  BY <1>0, ConcatProperties, LenProperties
<1>2. WireType' BY <1>1 DEF WireType, Frames, Identity
<1>3. ASSUME NEW i \in 1..(Len(wire) + Len(s))
      PROVE  i \in 1..Len(wire) \/ (wire'[i].type # "report" /\ \E j \in 1..Len(s) : wire'[i] = s[j])
  <2>1. SUFFICES ASSUME i \notin 1..Len(wire)
                 PROVE wire'[i].type # "report" /\ \E j \in 1..Len(s) : wire'[i] = s[j] OBVIOUS
  <2>2. i - Len(wire) \in 1..Len(s) /\ i = Len(wire) + (i - Len(wire)) BY <1>1, <2>1
  <2>3. wire'[i] = s[i - Len(wire)] BY <1>1, <2>2
  <2> QED BY <1>1, <2>2, <2>3
<1>4. ASSUME NEW i \in DOMAIN wire', LastReport(i)' PROVE Tells(wire[i])'
  <2>1. wire'[i].type = "report" /\ \A j \in DOMAIN wire' : j > i => wire'[j].type # "report"
    BY <1>4 DEF LastReport
  <2>2. i \in 1..Len(wire) BY <1>1, <1>3, <2>1
  <2>3. LastReport(i) BY <1>1, <2>1, <2>2 DEF LastReport
  <2>4. Tells(wire[i]) BY <1>1, <2>2, <2>3 DEF HeardLast
  <2> QED BY <1>1, <2>2, <2>4 DEF Tells
<1>5. HeardLast' BY <1>4 DEF HeardLast
<1>6. Quiet <=> \A i \in 1..Len(wire) : wire[i].type # "report" BY <1>1 DEF Quiet, Range
<1>7. Quiet' <=> \A i \in 1..(Len(wire) + Len(s)) : wire'[i].type # "report"
  BY <1>1 DEF Quiet, Range
<1>8. Quiet' <=> Quiet BY <1>1, <1>3, <1>6, <1>7
<1>9. \A i \in DOMAIN s : \E j \in DOMAIN wire' : wire'[j] = s[i]
  <2>1. \A i \in 1..Len(s) : Len(wire) + i \in DOMAIN wire' BY <1>1
  <2> QED BY <1>1, <2>1
<1> QED BY <1>1, <1>2, <1>5, <1>8, <1>9

LEMMA FramesAre == Identity \in Frames /\ Diagnosis \in Frames
                     /\ Identity.type = "id" /\ Diagnosis.type = "diag"
BY DEF Frames, Identity, Diagnosis

LEMMA AttachKeeps ==
    ASSUME IInv, Attach
    PROVE  IInv' /\ (KnownInv => KnownInv')
<1>1. /\ ~attached /\ attached' = TRUE /\ events' = events + 1
      /\ UNCHANGED <<device, held, beat, left>> /\ wire' = wire \o <<Identity>>
      /\ Len(wire) + 1 <= WireCap
  BY DEF Attach, Send, Room
<1>2. UNCHANGED left BY <1>1
<1>3. RightType' BY <1>1 DEF IInv, Types, RightType, Inputs
<1> DEFINE s == <<Identity>>
<1>4. s \in Seq(Frames) /\ Len(s) = 1 /\ DOMAIN s = {1} /\ s[1].type # "report"
  BY FramesAre
<1> HIDE DEF s
<1>5. wire' = wire \o s BY <1>1 DEF s
<1>6. WireType'
  <2>1. wire \in Seq(Frames) BY DEF IInv, Types, WireType
  <2>2. wire' \in Seq(Frames) /\ Len(wire') = Len(wire) + Len(s) BY <1>4, <1>5, <2>1, ConcatProperties
  <2> QED BY <1>1, <1>4, <2>2 DEF WireType, Frames, Identity
<1>7. IInv' BY <1>2, <1>3, <1>6, LeftStays DEF IInv, Types
<1>8. ASSUME KnownInv PROVE KnownInv'
  <2>1. UNCHANGED <<boot, kbd, mouse, masks, parsers, history>> BY <1>2 DEF left
  <2>2. /\ missed' = missed /\ phase' = phase /\ role' = role /\ realKeys' = realKeys
        /\ realMouse' = realMouse /\ ghost' = ghost /\ early' = early
    BY <2>1 DEF boot, kbd, mouse, masks, history
  <2>3. HeardLast' /\ (Quiet' <=> Quiet)
    BY <1>1, <1>4, <1>5, <1>8, OthersSent DEF KnownInv, HeldInv, IInv
  <2>4. HeldKept' BY <1>1, <1>8, <2>2, <2>3 DEF KnownInv, HeldInv, HeldKept, Takes, Real
  <2>5. GhostRests' BY <1>8, <2>2 DEF KnownInv, HeldInv, GhostRests
  <2>6. Underway' BY <1>1, <1>8, <2>2 DEF KnownInv, Underway
  <2> QED BY <2>3, <2>4, <2>5, <2>6 DEF KnownInv, HeldInv
<1> QED BY <1>7, <1>8

LEMMA DetachKeeps ==
    ASSUME IInv, Detach
    PROVE  IInv' /\ (KnownInv => KnownInv')
<1>1. /\ attached' = FALSE /\ held' = <<>> /\ Room(1) /\ Send(<<DeviceReport(<<>>, 0)>>)
      /\ events' = events + 1 /\ early' = FALSE
      /\ UNCHANGED device /\ UNCHANGED beat /\ UNCHANGED boot /\ UNCHANGED kbd /\ UNCHANGED mouse
      /\ UNCHANGED masks /\ UNCHANGED clock /\ UNCHANGED parsers /\ UNCHANGED rebootReq
      /\ UNCHANGED usb /\ UNCHANGED missed /\ UNCHANGED timing /\ UNCHANGED owed /\ UNCHANGED clean
  BY DEF Detach
<1>2. held' \in Seq(Inputs) /\ Len(held') <= Slots BY <1>1, Natural
<1>3. Send(<<DeviceReport(held', 0)>>) /\ 0 \in Int BY <1>1
<1>4. WireType' /\ HeardLast' /\ ~Quiet'
  BY <1>1, <1>2, <1>3, ReportSent DEF IInv
<1>5. RightType'
  <2>1. /\ attached' = FALSE /\ events' = events + 1 /\ device' = device /\ beat' = beat BY <1>1
  <2>2. Inputs' = Inputs BY <2>1 DEF Inputs
  <2>3. held' \in Seq(Inputs') /\ Len(held') <= Slots BY <1>2, <2>2
  <2>4. RightType BY DEF IInv, Types
  <2>5. device' \in Devices /\ beat' \in 0..Beat /\ events' \in Nat
    BY <2>1, <2>4 DEF RightType
  <2>6. attached' \in BOOLEAN BY <2>1
  <2> QED BY <2>3, <2>5, <2>6 DEF RightType
<1>6. UNCHANGED <<phase, role, seen, realKeys, realMouse, maskUntil, tapUntil, clickAt>>
  BY <1>1 DEF boot, kbd, mouse, usb, masks
<1>7. FlagType' BY <1>1 DEF IInv, Types, FlagType, usb
<1>8. /\ BootType' /\ KbdType' /\ MouseType' /\ MaskType' /\ ClockType' /\ ParserType'
      /\ TimingType' /\ Blank'
  BY <1>1, <1>6, TypesStay DEF IInv, Types
<1>9. Runs'
  <2>1. UNCHANGED maskVars BY <1>1 DEF masks, clock, timing, maskVars
  <2>2. UNCHANGED tapVars BY <1>1 DEF kbd, clock, timing, tapVars
  <2>3. UNCHANGED clickVars BY <1>1 DEF mouse, clock, timing, clickVars
  <2>4. UNCHANGED moveVars BY <1>1 DEF mouse, moveVars
  <2> QED BY <2>1, <2>2, <2>3, <2>4, MaskStaysRunning, TapStays, ClickStays, MovesStay
          DEF IInv, Runs
<1>10. IInv' BY <1>4, <1>5, <1>7, <1>8, <1>9 DEF IInv, Types
<1>11. ASSUME KnownInv PROVE KnownInv'
  <2>1. HeldKept' BY <1>4 DEF HeldKept
  <2>2. GhostRests' BY <1>1, <1>11 DEF KnownInv, HeldInv, GhostRests, kbd, mouse, masks
  <2>3. Underway' BY <1>1 DEF Underway
  <2> QED BY <1>4, <2>1, <2>2, <2>3 DEF KnownInv, HeldInv
<1> QED BY <1>10, <1>11

LEMMA HeartbeatKeeps ==
    ASSUME IInv, Heartbeat
    PROVE  IInv' /\ (KnownInv => KnownInv')
<1> DEFINE s == IF attached THEN <<Diagnosis, Identity>> ELSE <<Diagnosis>>
<1>1. /\ beat' = 0 /\ wire' = wire \o s /\ Len(wire) + 2 <= WireCap
      /\ UNCHANGED <<device, attached, held, events, left>>
  BY DEF Heartbeat, Send, Room
<1>2. UNCHANGED left BY <1>1
<1>3. RightType' BY <1>1, ConstantTypes DEF IInv, Types, RightType, Inputs
<1>4. /\ s \in Seq(Frames) /\ Len(s) \in Nat /\ Len(s) <= 2
      /\ \A i \in DOMAIN s : s[i].type # "report"
      /\ attached => 2 \in DOMAIN s /\ s[2] = Identity
  <2>1. CASE attached
    <3>1. s = <<Diagnosis, Identity>> BY <2>1
    <3> QED BY <3>1, FramesAre
  <2>2. CASE ~attached
    <3>1. s = <<Diagnosis>> BY <2>2
    <3> QED BY <2>2, <3>1, FramesAre
  <2> QED BY <2>1, <2>2
<1> HIDE DEF s
<1>5. Len(wire) \in Nat /\ WireCap \in Nat
  BY LenProperties, ConstantTypes DEF IInv, Types, WireType
<1>6. Len(wire) + Len(s) <= WireCap BY <1>1, <1>4, <1>5
<1>7. WireType'
  <2>1. wire \in Seq(Frames) BY DEF IInv, Types, WireType
  <2>2. wire' \in Seq(Frames) /\ Len(wire') = Len(wire) + Len(s) BY <1>1, <1>4, <2>1, ConcatProperties
  <2> QED BY <1>1, <1>6, <2>2 DEF WireType, Frames, Identity
<1>8. IInv' BY <1>2, <1>3, <1>7, LeftStays DEF IInv, Types
<1>9. ASSUME KnownInv PROVE KnownInv'
  <2>1. UNCHANGED <<boot, kbd, mouse, masks, parsers, history>> BY <1>2 DEF left
  <2>2. /\ missed' = missed /\ phase' = phase /\ role' = role /\ realKeys' = realKeys
        /\ realMouse' = realMouse /\ ghost' = ghost /\ early' = early
        /\ hostResidue' = hostResidue /\ waited' = waited
    BY <2>1 DEF boot, kbd, mouse, masks, parsers, history
  <2>3. /\ HeardLast' /\ (Quiet' <=> Quiet)
        /\ \A i \in DOMAIN s : \E j \in DOMAIN wire' : wire'[j] = s[i]
    BY <1>1, <1>4, <1>6, <1>9, OthersSent DEF KnownInv, HeldInv, IInv
  <2>4. HeldKept' BY <1>1, <1>9, <2>2, <2>3 DEF KnownInv, HeldInv, HeldKept, Takes, Real
  <2>5. GhostRests' BY <1>9, <2>2 DEF KnownInv, HeldInv, GhostRests
  <2>6. Underway'
    <3>1. attached => \E j \in DOMAIN wire' : wire'[j] = Identity BY <1>4, <2>3
    <3> QED BY <1>1, <1>9, <2>2, <3>1 DEF KnownInv, Underway, Identity
  <2> QED BY <2>3, <2>4, <2>5, <2>6 DEF KnownInv, HeldInv
<1> QED BY <1>8, <1>9

-----------------------------------------------------------------------------
(* The wire's other end.                                                   *)

(* What the left board may read: a frame as sent, or with its last byte    *)
(* changed.                                                                *)
Read(g) == \/ /\ g.type = "report" /\ g.keys \in KeyReports /\ g.buttons \subseteq Buttons
              /\ g.d \in Int
           \/ g.type = "id" /\ g.role \in {device, "other"}
           \/ g.type = "diag"

LEMMA FrameIs ==
    ASSUME NEW f \in Frames
    PROVE  Read(f) /\ (f.type = "id" => f = Identity)
<1>1. CASE f \in [type : {"report"}, keys : KeyReports, buttons : SUBSET Buttons, d : Int]
  BY <1>1 DEF Read
<1>2. CASE f = Identity BY <1>2 DEF Read, Identity
<1>3. CASE f = Diagnosis BY <1>3 DEF Read, Diagnosis
<1> QED BY <1>1, <1>2, <1>3 DEF Frames

LEMMA ReadingsAre ==
    ASSUME NEW f \in Frames, NEW fate
    PROVE  /\ \A g \in Readings(f, fate) : Read(g) /\ g.type = f.type
           /\ fate # "last" => Readings(f, fate) \subseteq {f}
           /\ fate = "whole" /\ hostResidue = 0 => Readings(f, fate) = {f}
<1>1. ASSUME NEW g \in LastByte(f) PROVE Read(g) /\ g.type = f.type
  <2>1. CASE f.type = "id"
    <3>1. f = Identity BY <2>1, FrameIs
    <3>2. g = [f EXCEPT !.role = "other"] BY <1>1, <2>1 DEF LastByte
    <3>3. g = [type |-> "id", role |-> "other"] BY <3>1, <3>2 DEF Identity
    <3> QED BY <2>1, <3>3 DEF Read
  <2>2. CASE f.type = "report" /\ device = "keyboard"
    <3>1. f \in [type : {"report"}, keys : KeyReports, buttons : SUBSET Buttons, d : Int]
      BY <2>2, FramesAre DEF Frames
    <3>2. PICK k \in Keys \cup {NoKey} : g = [f EXCEPT !.keys[Slots] = k]
      BY <1>1, <2>2 DEF LastByte
    <3>3. g = [f EXCEPT !.keys = [f.keys EXCEPT ![Slots] = k]] BY <3>2
    <3>4. [f.keys EXCEPT ![Slots] = k] \in KeyReports BY <3>1 DEF KeyReports
    <3>5. g \in [type : {"report"}, keys : KeyReports, buttons : SUBSET Buttons, d : Int]
      BY <3>1, <3>3, <3>4
    <3> QED BY <2>2, <3>5 DEF Read
  <2>3. CASE f.type # "id" /\ ~(f.type = "report" /\ device = "keyboard")
    <3>1. g = f BY <1>1, <2>3 DEF LastByte
    <3> QED BY <3>1, FrameIs
  <2> QED BY <2>1, <2>2, <2>3
<1>2. CASE hostResidue > 0 BY <1>2 DEF Readings
<1>3. CASE ~(hostResidue > 0) /\ fate = "whole"
  <2>1. Readings(f, fate) = {f} BY <1>3 DEF Readings
  <2> QED BY <1>3, <2>1, FrameIs
<1>4. CASE ~(hostResidue > 0) /\ fate = "last"
  <2>1. Readings(f, fate) = LastByte(f) BY <1>4 DEF Readings
  <2> QED BY <1>1, <1>4, <2>1
<1>5. CASE ~(hostResidue > 0) /\ fate \notin {"whole", "last"}
  <2>1. Readings(f, fate) = {} BY <1>5 DEF Readings
  <2> QED BY <1>5, <2>1
<1> QED BY <1>2, <1>3, <1>4, <1>5

LEMMA ResiduesAre ==
    ASSUME ParserType, NEW fate
    PROVE  /\ Residues(fate) \subseteq 0..(HostResidue + 1)
           /\ fate = "whole" /\ hostResidue = 0 => Residues(fate) = {0}
BY ConstantTypes DEF ParserType, Residues

(* The first frame is taken off the wire.                                  *)
LEMMA Popped ==
    ASSUME Types, wire # <<>>, wire' = Tail(wire), UNCHANGED <<device, held>>
    PROVE  /\ Head(wire) \in Frames /\ WireType'
           /\ Quiet => Quiet'
           /\ Quiet' /\ Head(wire).type # "report" => Quiet
           /\ HeardLast => HeardLast'
           /\ HeardLast /\ Quiet' /\ Head(wire).type = "report" => Tells(Head(wire))
           /\ \A i \in DOMAIN wire : wire[i] # Head(wire) => \E j \in DOMAIN wire' : wire'[j] = wire[i]
<1>1. wire \in Seq(Frames) /\ Len(wire) <= WireCap BY DEF Types, WireType
<1>2. /\ Head(wire) = wire[1] /\ Head(wire) \in Frames /\ wire' \in Seq(Frames)
      /\ Len(wire) \in Nat /\ Len(wire) >= 1 /\ Len(wire') = Len(wire) - 1
      /\ \A i \in 1..(Len(wire) - 1) : wire'[i] = wire[i + 1]
      /\ DOMAIN wire = 1..Len(wire) /\ DOMAIN wire' = 1..(Len(wire) - 1)
  BY <1>1
<1>3. WireType'
  <2>1. WireCap \in Nat BY ConstantTypes
  <2>2. Len(wire') <= WireCap BY <1>1, <1>2, <2>1
  <2> QED BY <1>2, <2>2 DEF WireType, Frames, Identity
<1>4. ASSUME NEW i \in 1..Len(wire), i # 1 PROVE i - 1 \in DOMAIN wire' /\ wire'[i - 1] = wire[i]
  BY <1>2, <1>4
<1>5. Quiet <=> \A i \in 1..Len(wire) : wire[i].type # "report" BY <1>2 DEF Quiet, Range
<1>6. Quiet' <=> \A i \in 1..(Len(wire) - 1) : wire'[i].type # "report" BY <1>2 DEF Quiet, Range
<1>7. ASSUME Quiet PROVE Quiet'
  <2>1. ASSUME NEW i \in 1..(Len(wire) - 1) PROVE wire'[i].type # "report"
    BY <1>2, <1>5, <1>7
  <2> QED BY <1>6, <2>1
<1>8. ASSUME Quiet' PROVE \A i \in 1..Len(wire) : i # 1 => wire[i].type # "report"
  BY <1>2, <1>4, <1>6, <1>8
<1>9. ASSUME Quiet', Head(wire).type # "report" PROVE Quiet
  BY <1>2, <1>5, <1>8, <1>9
<1>10. ASSUME HeardLast, NEW i \in DOMAIN wire', LastReport(i)' PROVE Tells(wire[i])'
  <2>1. i + 1 \in DOMAIN wire /\ wire'[i] = wire[i + 1] BY <1>2
  <2>2. wire'[i].type = "report" /\ \A j \in DOMAIN wire' : j > i => wire'[j].type # "report"
    BY <1>10 DEF LastReport
  <2>3. ASSUME NEW j \in DOMAIN wire, j > i + 1 PROVE wire[j].type # "report"
    <3>1. j - 1 \in DOMAIN wire' /\ j - 1 > i /\ wire'[j - 1] = wire[j] BY <1>2, <1>4, <2>3
    <3> QED BY <2>2, <3>1
  <2>4. LastReport(i + 1) BY <2>1, <2>2, <2>3 DEF LastReport
  <2>5. Tells(wire[i + 1]) BY <1>10, <2>1, <2>4 DEF HeardLast
  <2> QED BY <2>1, <2>5 DEF Tells
<1>11. HeardLast => HeardLast' BY <1>10 DEF HeardLast
<1>12. ASSUME HeardLast, Quiet', Head(wire).type = "report" PROVE Tells(Head(wire))
  <2>1. 1 \in DOMAIN wire /\ wire[1] = Head(wire) BY <1>2
  <2>2. LastReport(1) BY <1>2, <1>8, <1>12 DEF LastReport
  <2> QED BY <1>12, <2>1, <2>2 DEF HeardLast
<1>13. ASSUME NEW i \in DOMAIN wire, wire[i] # Head(wire)
       PROVE  \E j \in DOMAIN wire' : wire'[j] = wire[i]
  BY <1>2, <1>4, <1>13
<1> QED BY <1>2, <1>3, <1>7, <1>9, <1>11, <1>12, <1>13

(* While the left board waits for the identity it does nothing else.       *)
LEMMA RunningStays ==
    ASSUME IInv, UNCHANGED running
    PROVE  /\ KbdType' /\ MouseType' /\ MaskType' /\ ClockType' /\ TimingType' /\ Runs'
           /\ rebootReq' = rebootReq /\ ready' = ready /\ clean' = clean /\ owed' = owed
           /\ seen' = seen /\ realKeys' = realKeys /\ realMouse' = realMouse /\ ghost' = ghost
           /\ maskUntil' = maskUntil /\ tapUntil' = tapUntil /\ clickAt' = clickAt
           /\ device' = device /\ attached' = attached /\ held' = held /\ events' = events
           /\ pcResidue' = pcResidue /\ line' = line
<1>1. /\ UNCHANGED kbd /\ UNCHANGED mouse /\ UNCHANGED masks /\ UNCHANGED clock
      /\ UNCHANGED timing /\ UNCHANGED usb /\ owed' = owed /\ clean' = clean
      /\ rebootReq' = rebootReq /\ device' = device /\ attached' = attached
      /\ held' = held /\ events' = events /\ pcResidue' = pcResidue /\ line' = line
  BY DEF running
<1>2. /\ ready' = ready /\ seen' = seen /\ realKeys' = realKeys /\ realMouse' = realMouse
      /\ ghost' = ghost
      /\ maskUntil' = maskUntil /\ tapUntil' = tapUntil /\ clickAt' = clickAt
  BY <1>1 DEF usb, kbd, mouse, masks
<1>3. KbdType' /\ MouseType' /\ MaskType' /\ ClockType' /\ TimingType'
  BY <1>1, TypesStay DEF IInv, Types
<1>4. UNCHANGED maskVars BY <1>1 DEF masks, clock, timing, maskVars
<1>5. UNCHANGED tapVars BY <1>1 DEF kbd, clock, timing, tapVars
<1>6. UNCHANGED clickVars BY <1>1 DEF mouse, clock, timing, clickVars
<1>7. UNCHANGED moveVars BY <1>1 DEF mouse, moveVars
<1>8. Runs'
  BY <1>4, <1>5, <1>6, <1>7, MaskStaysRunning, TapStays, ClickStays, MovesStay DEF IInv, Runs
<1> QED BY <1>1, <1>2, <1>3, <1>8

LEMMA MissingIs ==
    ASSUME Types, Missing
    PROVE  /\ missed' \in {"none", "some", "stale"}
           /\ Head(wire).type # "report" => missed' = missed
           /\ Head(wire).type = "report" =>
                missed' = IF ghost \/ phase = "identity" THEN "some" ELSE "stale"
BY DEF Missing, Types, FlagType

(* The role is taken from a frame or by default, and the wait is over.     *)
LEMMA BeginKeeps ==
    ASSUME IInv, UNCHANGED running, NEW r \in {device, "other", "keyboard"}, r # "unknown", Begin(r),
           WireType', missed' \in {"none", "some", "stale"}
    PROVE  IInv'
<1>1. /\ role' = r /\ phase' = "running" /\ hostResidue' = 0 /\ waited' = 0 /\ beat' = 0
      /\ early' = FALSE
  BY DEF Begin
<1>2. /\ KbdType' /\ MouseType' /\ MaskType' /\ ClockType' /\ TimingType' /\ Runs'
      /\ rebootReq' = rebootReq /\ ready' = ready /\ clean' = clean /\ owed' = owed
      /\ device' = device /\ attached' = attached /\ held' = held /\ events' = events
      /\ pcResidue' = pcResidue /\ line' = line
  BY RunningStays
<1>3. device \in {"keyboard", "mouse"} /\ device \in Devices
  BY ConstantTypes DEF IInv, Types, RightType
<1>4. BootType' BY <1>1, <1>3, ConstantTypes DEF BootType
<1>5. ParserType' BY <1>1, <1>2, ConstantTypes DEF IInv, Types, ParserType
<1>6. RightType' BY <1>1, <1>2, ConstantTypes DEF IInv, Types, RightType, Inputs
<1>7. FlagType' BY <1>1, <1>2 DEF IInv, Types, FlagType
<1>8. Blank' BY <1>1 DEF Blank
<1> QED BY <1>2, <1>4, <1>5, <1>6, <1>7, <1>8 DEF IInv, Types

LEMMA WaitFrameKeeps ==
    ASSUME IInv, WaitFrame
    PROVE  IInv' /\ (KnownInv /\ "last" \notin Fates => KnownInv')
<1>1. /\ phase = "identity" /\ wire # <<>> /\ wire' = Tail(wire) /\ Missing /\ UNCHANGED running
  BY DEF WaitFrame
<1> DEFINE f0 == Head(wire)
<1>2. PICK fate \in Fates :
        \/ \E f \in {g \in Readings(f0, fate) : TellsRole(g)} : Begin(f.role)
        \/ /\ \A f \in Readings(f0, fate) : ~TellsRole(f)
           /\ hostResidue' \in Residues(fate)
           /\ early' = (early /\ fate = "whole")
           /\ UNCHANGED <<boot, beat>>
  BY DEF WaitFrame
<1>3. /\ KbdType' /\ MouseType' /\ MaskType' /\ ClockType' /\ TimingType' /\ Runs'
      /\ rebootReq' = rebootReq /\ ready' = ready /\ clean' = clean /\ owed' = owed
      /\ seen' = seen /\ realKeys' = realKeys /\ realMouse' = realMouse /\ ghost' = ghost
      /\ maskUntil' = maskUntil /\ tapUntil' = tapUntil /\ clickAt' = clickAt
      /\ device' = device /\ attached' = attached /\ held' = held /\ events' = events
      /\ pcResidue' = pcResidue /\ line' = line
  BY <1>1, RunningStays
<1>4. Types BY DEF IInv
<1>5. /\ f0 \in Frames /\ WireType'
      /\ Quiet => Quiet'
      /\ Quiet' /\ f0.type # "report" => Quiet
      /\ HeardLast => HeardLast'
      /\ \A i \in DOMAIN wire : wire[i] # f0 => \E j \in DOMAIN wire' : wire'[j] = wire[i]
  BY <1>1, <1>3, <1>4, Popped
<1>6. /\ missed' \in {"none", "some", "stale"}
      /\ f0.type # "report" => missed' = missed
      /\ f0.type = "report" => missed' = "some"
  BY <1>1, <1>4, MissingIs
<1>7. realKeys = NoKeys /\ realMouse = AtRest BY <1>1, <1>4 DEF Types, Blank
<1>8. Real = {} BY <1>7, ConstantTypes DEF Real
<1>9. Real' = {} BY <1>3, <1>7, ConstantTypes DEF Real
<1>10. device \in {"keyboard", "mouse"} BY <1>4, ConstantTypes DEF Types, RightType
<1> HIDE DEF f0
<1>11. ASSUME HeldInv, f0.type = "report" \/ Takes' => Takes
       PROVE  HeldInv'
  <2>1. HeardLast' BY <1>5, <1>11 DEF HeldInv
  <2>2. GhostRests' BY <1>3, <1>11 DEF HeldInv, GhostRests
  <2>3. HeldKept'
    <3>1. CASE f0.type = "report" BY <1>6, <1>9, <3>1 DEF HeldKept
    <3>2. CASE f0.type # "report"
      <4>1. ASSUME Quiet', Takes'
            PROVE  /\ missed' = "none" => Real' = Range(held')
                   /\ missed' = "some" => Real' \subseteq Range(held')
        <5>1. Quiet /\ Takes BY <1>5, <1>11, <3>2, <4>1
        <5>2. missed = "none" => Real = Range(held) BY <1>11, <5>1 DEF HeldInv, HeldKept
        <5> QED BY <1>3, <1>6, <1>8, <1>9, <3>2, <5>2
      <4> QED BY <4>1 DEF HeldKept
    <3> QED BY <3>1, <3>2
  <2> QED BY <2>1, <2>2, <2>3 DEF HeldInv
<1>12. CASE \E f \in {g \in Readings(f0, fate) : TellsRole(g)} : Begin(f.role)
  <2>1. PICK f \in Readings(f0, fate) : TellsRole(f) /\ Begin(f.role) BY <1>12
  <2>2. Read(f) /\ f.type = f0.type BY <1>5, ReadingsAre
  <2>3. f.type = "id" /\ f.role \in {device, "other"} /\ f.role # "unknown"
    BY <2>1, <2>2 DEF TellsRole, Read
  <2>4. IInv' BY <1>1, <1>5, <1>6, <2>1, <2>3, BeginKeeps
  <2>5. ASSUME KnownInv, "last" \notin Fates PROVE KnownInv'
    <3>1. Takes BY <1>1 DEF Takes
    <3>2. HeldInv' BY <1>11, <2>5, <3>1 DEF KnownInv
    <3>3. Underway' BY <2>1 DEF Begin, Underway
    <3> QED BY <3>2, <3>3 DEF KnownInv
  <2> QED BY <2>4, <2>5
<1>13. CASE /\ \A f \in Readings(f0, fate) : ~TellsRole(f)
            /\ hostResidue' \in Residues(fate)
            /\ early' = (early /\ fate = "whole")
            /\ UNCHANGED <<boot, beat>>
  <2>1. phase' = phase /\ role' = role /\ waited' = waited /\ beat' = beat BY <1>13 DEF boot
  <2>2. BootType' BY <1>4, <1>13, TypesStay DEF Types
  <2>3. ParserType'
    <3>1. ParserType BY <1>4 DEF Types
    <3>2. hostResidue' \in 0..(HostResidue + 1) BY <1>13, <3>1, ResiduesAre
    <3> QED BY <1>3, <3>1, <3>2 DEF ParserType
  <2>4. RightType' BY <1>3, <1>4, <2>1 DEF Types, RightType, Inputs
  <2>5. FlagType' BY <1>3, <1>4, <1>6, <1>13 DEF Types, FlagType
  <2>6. Blank' BY <1>3, <1>4, <2>1 DEF Types, Blank
  <2>7. IInv' BY <1>3, <1>5, <2>2, <2>3, <2>4, <2>5, <2>6 DEF IInv, Types
  <2>8. ASSUME KnownInv, "last" \notin Fates PROVE KnownInv'
    <3>1. Takes BY <1>1 DEF Takes
    <3>2. HeldInv' BY <1>11, <2>8, <3>1 DEF KnownInv
    <3>3. ASSUME early', phase' = "identity"
          PROVE  /\ attached' /\ hostResidue' = 0
                 /\ waited' <= beat' \/ \E i \in DOMAIN wire' : wire'[i] = Identity
      <4>1. early /\ fate = "whole" BY <1>13, <3>3
      <4>2. attached /\ hostResidue = 0 /\ (waited <= beat \/ \E i \in DOMAIN wire : wire[i] = Identity)
        BY <1>1, <2>8, <4>1 DEF KnownInv, Underway
      <4>3. Residues(fate) = {0} BY <1>4, <4>1, <4>2, ResiduesAre DEF Types
      <4>4. Readings(f0, fate) = {f0} BY <1>5, <4>1, <4>2, ReadingsAre
      <4>5. f0 # Identity
        <5>1. ~TellsRole(f0) BY <1>13, <4>4
        <5> QED BY <1>10, <5>1 DEF TellsRole, Identity
      <4> QED BY <1>3, <1>5, <1>13, <2>1, <4>2, <4>3, <4>5
    <3>4. Identity' = Identity BY <1>3 DEF Identity
    <3>5. Underway' BY <3>3, <3>4 DEF Underway
    <3> QED BY <3>2, <3>5 DEF KnownInv
  <2> QED BY <2>7, <2>8
<1> QED BY <1>2, <1>12, <1>13

LEMMA WaitOverKeeps ==
    ASSUME IInv, WaitOver
    PROVE  IInv' /\ (KnownInv => KnownInv' /\ ~early)
<1>1. /\ phase = "identity" /\ waited = IdWait /\ wire = <<>> /\ Begin("keyboard")
      /\ wire' = wire /\ missed' = missed /\ UNCHANGED running
  BY DEF WaitOver
<1>2. /\ seen' = seen /\ realKeys' = realKeys /\ realMouse' = realMouse /\ ghost' = ghost
      /\ device' = device /\ held' = held
  BY <1>1, RunningStays
<1>3. WireType' /\ missed' \in {"none", "some", "stale"}
  BY <1>1, <1>2, TypesStay DEF IInv, Types, FlagType
<1>4. IInv' BY <1>1, <1>3, BeginKeeps
<1>5. ASSUME KnownInv PROVE KnownInv' /\ ~early
  <2>1. HeardLast' BY <1>1, <1>2, <1>5 DEF KnownInv, HeldInv, HeardLast, LastReport, Tells
  <2>2. HeldKept' BY <1>1, <1>2, <1>5 DEF KnownInv, HeldInv, HeldKept, Quiet, Takes, Real
  <2>3. GhostRests' BY <1>2, <1>5 DEF KnownInv, HeldInv, GhostRests
  <2>4. Underway' BY <1>1 DEF Underway, Begin
  <2>5. ~early
    <3>1. beat \in 0..Beat BY DEF IInv, Types, RightType
    <3>2. early => waited <= beat BY <1>1, <1>5 DEF KnownInv, Underway
    <3> QED BY <1>1, <3>1, <3>2, ConstantTypes
  <2> QED BY <2>1, <2>2, <2>3, <2>4, <2>5 DEF KnownInv, HeldInv
<1> QED BY <1>4, <1>5

-----------------------------------------------------------------------------
(* Reports of the device.                                                  *)

LEMMA TakeReportIs ==
    ASSUME Types, NEW f, Read(f), TakeReport(f)
    PROVE  /\ realKeys' \in KeyReports /\ realMouse' \in MouseStates
           /\ missed' \in {"none", "some", "stale"} /\ clean' \in BOOLEAN /\ owed' \in Int
           /\ MovesShownOnce /\ injMouse' = injMouse => MovesShownOnce'
           /\ f.type # "report" => UNCHANGED <<realKeys, realMouse, missed>>
           /\ f.type = "report" /\ ghost =>
                missed' = "some" /\ UNCHANGED <<realKeys, realMouse>>
           /\ f.type = "report" /\ ~ghost /\ role = device =>
                IF device = "keyboard" THEN realKeys' = f.keys
                                       ELSE realMouse'.buttons = f.buttons
           /\ ghost => UNCHANGED <<realKeys, realMouse>>
<1>1. /\ realKeys \in KeyReports /\ realMouse \in MouseStates /\ injMouse \in MouseStates
      /\ missed \in {"none", "some", "stale"} /\ clean \in BOOLEAN /\ owed \in Int
      /\ device \in {"keyboard", "mouse"}
  BY ConstantTypes DEF Types, KbdType, MouseType, FlagType, RightType
<1>2. CASE f.type # "report" /\ UNCHANGED <<realKeys, realMouse, missed, owed, clean>>
  <2>1. MovesShownOnce /\ injMouse' = injMouse => MovesShownOnce' BY <1>2 DEF MovesShownOnce
  <2> QED BY <1>1, <1>2, <2>1
<1>3. CASE /\ f.type = "report" /\ (ghost \/ role = "other") /\ missed' = "some"
           /\ UNCHANGED <<realKeys, realMouse, owed, clean>>
  <2>1. MovesShownOnce /\ injMouse' = injMouse => MovesShownOnce' BY <1>3 DEF MovesShownOnce
  <2> QED BY <1>1, <1>3, <2>1
<1>4. CASE /\ f.type = "report" /\ ~ghost /\ role = "keyboard"
           /\ realKeys' = IF device = "keyboard" THEN f.keys ELSE realKeys
           /\ missed' = "none" /\ UNCHANGED <<realMouse, owed, clean>>
  <2>1. MovesShownOnce /\ injMouse' = injMouse => MovesShownOnce' BY <1>4 DEF MovesShownOnce
  <2>2. f.keys \in KeyReports BY <1>4 DEF Read
  <2> QED BY <1>1, <1>4, <2>1, <2>2
<1>5. CASE /\ f.type = "report" /\ ~ghost /\ role = "mouse"
           /\ realMouse' = [buttons |-> f.buttons, d |-> Wrap(realMouse.d + f.d)]
           /\ missed' = "none"
           /\ clean' = (clean /\ realMouse.d + f.d = realMouse'.d)
           /\ Owes(owed + f.d) /\ UNCHANGED realKeys
  <2>1. f.buttons \subseteq Buttons /\ f.d \in Int BY <1>5 DEF Read
  <2>2. realMouse.d \in Int /\ injMouse.d \in Int BY <1>1, Clock DEF MouseStates
  <2>3. Wrap(realMouse.d + f.d) \in -DeltaWord..DeltaWord BY <2>1, <2>2, WrapIs
  <2>4. realMouse' \in MouseStates /\ realMouse'.buttons = f.buttons
    BY <1>5, <2>1, <2>3 DEF MouseStates
  <2>5. clean' \in BOOLEAN BY <1>5
  <2>6. owed' = IF clean' THEN owed + f.d ELSE 0 BY <1>5 DEF Owes
  <2>7. owed' \in Int BY <1>1, <2>1, <2>6
  <2>8. ASSUME MovesShownOnce, injMouse' = injMouse PROVE MovesShownOnce'
    <3>1. ASSUME clean' PROVE owed' = injMouse'.d + realMouse'.d
      <4>1. clean /\ realMouse.d + f.d = realMouse'.d BY <1>5, <3>1
      <4>2. owed = injMouse.d + realMouse.d BY <2>8, <4>1 DEF MovesShownOnce
      <4>3. owed' = owed + f.d BY <2>6, <3>1
      <4> QED BY <2>1, <2>2, <2>8, <4>1, <4>2, <4>3
    <3> QED BY <3>1 DEF MovesShownOnce
  <2> QED BY <1>1, <1>5, <2>4, <2>5, <2>7, <2>8
<1> QED BY <1>2, <1>3, <1>4, <1>5 DEF TakeReport

LEMMA HostFrameKeeps ==
    ASSUME IInv, HostFrame
    PROVE  IInv' /\ (KnownInv /\ "last" \notin Fates => KnownInv')
<1>1. /\ phase = "running" /\ UNCHANGED boot /\ UNCHANGED masks /\ UNCHANGED clock
      /\ UNCHANGED usb /\ UNCHANGED right /\ UNCHANGED timing
      /\ injKeys' = injKeys /\ tapKeys' = tapKeys /\ tapUntil' = tapUntil
      /\ injMouse' = injMouse /\ clickBits' = clickBits /\ clickAt' = clickAt
      /\ pcResidue' = pcResidue /\ line' = line /\ rebootReq' = rebootReq /\ early' = early
  BY DEF HostFrame
<1> DEFINE f0 == Head(wire)
<1>2. PICK fate \in Fates :
        /\ Arrival(fate)
        /\ \/ \E f \in Readings(f0, fate) : TakeReport(f)
           \/ /\ Readings(f0, fate) = {} /\ Missing
              /\ UNCHANGED <<realKeys, realMouse, owed, clean>>
  BY DEF HostFrame
<1>3. wire # <<>> /\ wire' = Tail(wire) /\ hostResidue' \in Residues(fate)
  BY <1>2 DEF Arrival
<1>4. device' = device /\ held' = held BY <1>1 DEF right
<1>5. Types /\ Runs BY DEF IInv
<1>6. /\ f0 \in Frames /\ WireType'
      /\ Quiet' /\ f0.type # "report" => Quiet
      /\ HeardLast => HeardLast'
      /\ HeardLast /\ Quiet' /\ f0.type = "report" => Tells(f0)
  BY <1>3, <1>4, <1>5, Popped
<1>7. /\ BootType' /\ MaskType' /\ ClockType' /\ RightType' /\ TimingType'
  BY <1>1, <1>5, TypesStay DEF Types
<1>8. ParserType'
  <2>1. ParserType BY <1>5 DEF Types
  <2>2. hostResidue' \in 0..(HostResidue + 1) BY <1>3, <2>1, ResiduesAre
  <2> QED BY <1>1, <2>1, <2>2 DEF ParserType
<1>9. Blank' BY <1>1 DEF boot, Blank
<1>10. MaskRuns'
  <2>1. UNCHANGED maskVars BY <1>1 DEF masks, clock, timing, maskVars
  <2> QED BY <1>5, <2>1, MaskStaysRunning DEF Runs
<1>11. TapRuns'
  <2>1. UNCHANGED tapVars BY <1>1 DEF clock, timing, tapVars
  <2> QED BY <1>5, <2>1, TapStays DEF Runs
<1>12. ClickRuns'
  <2>1. UNCHANGED clickVars BY <1>1 DEF clock, timing, clickVars
  <2> QED BY <1>5, <2>1, ClickStays DEF Runs
<1>13. ready' = ready /\ ghost' = ghost /\ role' = role /\ phase' = phase
  BY <1>1 DEF usb, masks, boot
<1>14. /\ realKeys \in KeyReports /\ realMouse \in MouseStates /\ injMouse \in MouseStates
       /\ missed \in {"none", "some", "stale"} /\ clean \in BOOLEAN /\ owed \in Int
       /\ device \in {"keyboard", "mouse"}
  BY <1>5, ConstantTypes DEF Types, KbdType, MouseType, FlagType, RightType
<1> HIDE DEF f0
<1>20. ASSUME realKeys' \in KeyReports, realMouse' \in MouseStates,
              missed' \in {"none", "some", "stale"}, clean' \in BOOLEAN, owed' \in Int,
              MovesShownOnce'
       PROVE  IInv'
  <2>1. KbdType' BY <1>1, <1>5, <1>20 DEF Types, KbdType
  <2>2. MouseType' BY <1>1, <1>5, <1>20 DEF Types, MouseType
  <2>3. FlagType' BY <1>1, <1>5, <1>13, <1>20 DEF Types, FlagType
  <2> QED BY <1>6, <1>7, <1>8, <1>9, <1>10, <1>11, <1>12, <1>20, <2>1, <2>2, <2>3
          DEF IInv, Types, Runs
<1>21. ASSUME KnownInv, ghost => UNCHANGED <<realKeys, realMouse>>,
              Quiet' /\ role = device => /\ missed' = "none" => Real' = Range(held')
                                         /\ missed' = "some" => Real' \subseteq Range(held')
       PROVE  KnownInv'
  <2>1. HeardLast' BY <1>6, <1>21 DEF KnownInv, HeldInv
  <2>2. GhostRests' BY <1>13, <1>21 DEF KnownInv, HeldInv, GhostRests
  <2>3. HeldKept' BY <1>1, <1>4, <1>13, <1>21 DEF HeldKept, Takes
  <2>4. Underway' BY <1>1, <1>13 DEF Underway
  <2> QED BY <2>1, <2>2, <2>3, <2>4 DEF KnownInv, HeldInv
<1>30. CASE \E f \in Readings(f0, fate) : TakeReport(f)
  <2>1. PICK f \in Readings(f0, fate) : TakeReport(f) BY <1>30
  <2>2. /\ Read(f) /\ f.type = f0.type /\ ("last" \notin Fates => f = f0)
    BY <1>6, ReadingsAre
  <2>3. /\ realKeys' \in KeyReports /\ realMouse' \in MouseStates
        /\ missed' \in {"none", "some", "stale"} /\ clean' \in BOOLEAN /\ owed' \in Int
        /\ MovesShownOnce'
        /\ f.type # "report" => UNCHANGED <<realKeys, realMouse, missed>>
        /\ f.type = "report" /\ ghost => missed' = "some" /\ UNCHANGED <<realKeys, realMouse>>
        /\ f.type = "report" /\ ~ghost /\ role = device =>
             IF device = "keyboard" THEN realKeys' = f.keys ELSE realMouse'.buttons = f.buttons
        /\ ghost => UNCHANGED <<realKeys, realMouse>>
    BY <1>1, <1>5, <2>1, <2>2, TakeReportIs DEF Runs
  <2>4. IInv' BY <1>20, <2>3
  <2>5. ASSUME KnownInv, "last" \notin Fates PROVE KnownInv'
    <3>1. ASSUME Quiet', role = device
          PROVE  /\ missed' = "none" => Real' = Range(held')
                 /\ missed' = "some" => Real' \subseteq Range(held')
      <4>1. CASE f0.type # "report"
        <5>1. Quiet /\ Takes BY <1>6, <3>1, <4>1 DEF Takes
        <5>2. /\ missed = "none" => Real = Range(held)
              /\ missed = "some" => Real \subseteq Range(held)
          BY <2>5, <5>1 DEF KnownInv, HeldInv, HeldKept
        <5>3. realKeys' = realKeys /\ realMouse' = realMouse /\ missed' = missed
          BY <2>2, <2>3, <4>1
        <5> QED BY <1>4, <5>2, <5>3 DEF Real
      <4>2. CASE f0.type = "report" /\ ghost
        <5>1. realKeys' = NoKeys /\ realMouse'.buttons = {} /\ missed' = "some"
          BY <2>2, <2>3, <2>5, <4>2 DEF KnownInv, HeldInv, GhostRests
        <5>2. Real' = {} BY <5>1, ConstantTypes DEF Real
        <5> QED BY <5>1, <5>2
      <4>3. CASE f0.type = "report" /\ ~ghost
        <5>1. Tells(f0) BY <1>6, <2>5, <3>1, <4>3 DEF KnownInv, HeldInv
        <5>2. IF device = "keyboard" THEN realKeys' = f0.keys ELSE realMouse'.buttons = f0.buttons
          BY <2>2, <2>3, <2>5, <3>1, <4>3
        <5>3. Real' = Range(held') BY <1>4, <5>1, <5>2 DEF Real, Tells
        <5> QED BY <5>3
      <4> QED BY <4>1, <4>2, <4>3
    <3> QED BY <1>21, <2>3, <2>5, <3>1
  <2> QED BY <2>4, <2>5
<1>31. CASE /\ Readings(f0, fate) = {} /\ Missing
            /\ UNCHANGED <<realKeys, realMouse, owed, clean>>
  <2>1. /\ missed' \in {"none", "some", "stale"}
        /\ f0.type # "report" => missed' = missed
        /\ f0.type = "report" => missed' = IF ghost \/ phase = "identity" THEN "some" ELSE "stale"
    BY <1>5, <1>31, MissingIs DEF f0
  <2>2. MovesShownOnce' BY <1>1, <1>5, <1>31 DEF Runs, MovesShownOnce
  <2>3. IInv' BY <1>14, <1>20, <1>31, <2>1, <2>2
  <2>4. ASSUME KnownInv PROVE KnownInv'
    <3>1. ASSUME Quiet', role = device
          PROVE  /\ missed' = "none" => Real' = Range(held')
                 /\ missed' = "some" => Real' \subseteq Range(held')
      <4>1. CASE f0.type # "report"
        <5>1. Quiet /\ Takes BY <1>6, <3>1, <4>1 DEF Takes
        <5>2. /\ missed = "none" => Real = Range(held)
              /\ missed = "some" => Real \subseteq Range(held)
          BY <2>4, <5>1 DEF KnownInv, HeldInv, HeldKept
        <5> QED BY <1>4, <1>31, <2>1, <4>1, <5>2 DEF Real
      <4>2. CASE f0.type = "report" /\ ghost
        <5>1. realKeys = NoKeys /\ realMouse.buttons = {}
          BY <2>4, <4>2 DEF KnownInv, HeldInv, GhostRests
        <5>2. Real' = {} BY <1>31, <5>1, ConstantTypes DEF Real
        <5> QED BY <2>1, <4>2, <5>2
      <4>3. CASE f0.type = "report" /\ ~ghost BY <1>1, <2>1, <4>3
      <4> QED BY <4>1, <4>2, <4>3
    <3> QED BY <1>21, <1>31, <2>4, <3>1
  <2> QED BY <2>3, <2>4
<1> QED BY <1>2, <1>30, <1>31

-----------------------------------------------------------------------------
(* Commands of the PC.                                                     *)

(* What a command leaves: a ghost starts with nothing held, and otherwise  *)
(* what is real stays.                                                     *)
RealKept == \/ UNCHANGED <<realKeys, realMouse, missed>> /\ (ghost' => ghost)
            \/ realKeys' = NoKeys /\ realMouse' = AtRest /\ missed' = "some"
Handled == /\ KbdType' /\ MouseType' /\ MaskType' /\ TimingType' /\ Runs'
           /\ rebootReq' \in BOOLEAN /\ missed' \in {"none", "some", "stale"}
           /\ clean' \in BOOLEAN /\ owed' \in Int /\ RealKept

LEMMA CommandKeeps ==
    ASSUME IInv, NEW c, Command(c), Handled, pcResidue' \in 0..(PcResidue + 1),
           line' \in {NoLine, Junk} \cup {e \in Commands : e.op \in Ascii}
    PROVE  IInv' /\ (KnownInv => KnownInv')
<1>1. /\ phase = "running" /\ UNCHANGED boot /\ UNCHANGED clock /\ hostResidue' = hostResidue
      /\ UNCHANGED usb /\ UNCHANGED right /\ wire' = wire /\ early' = early
  BY DEF Command
<1>2. /\ phase' = phase /\ role' = role /\ waited' = waited /\ device' = device
      /\ held' = held /\ ready' = ready
  BY <1>1 DEF boot, right, usb
<1>3. BootType' /\ ClockType' /\ RightType' /\ WireType'
  BY <1>1, <1>2, TypesStay DEF IInv, Types
<1>4. ParserType' BY <1>1 DEF IInv, Types, ParserType
<1>5. FlagType' BY <1>1, <1>2 DEF IInv, Types, FlagType, Handled
<1>6. Blank' BY <1>1, <1>2 DEF Blank
<1>7. IInv' BY <1>3, <1>4, <1>5, <1>6 DEF IInv, Types, Handled
<1>8. ASSUME KnownInv PROVE KnownInv'
  <2>1. HeardLast' BY <1>1, <1>2, <1>8 DEF KnownInv, HeldInv, HeardLast, LastReport, Tells
  <2>2. Underway' BY <1>1, <1>2 DEF Underway
  <2>3. CASE UNCHANGED <<realKeys, realMouse, missed>> /\ (ghost' => ghost)
    <3>1. GhostRests' BY <1>8, <2>3 DEF KnownInv, HeldInv, GhostRests
    <3>2. HeldKept'
      BY <1>1, <1>2, <1>8, <2>3 DEF KnownInv, HeldInv, HeldKept, Quiet, Takes, Real
    <3> QED BY <2>1, <2>2, <3>1, <3>2 DEF KnownInv, HeldInv
  <2>4. CASE realKeys' = NoKeys /\ realMouse' = AtRest /\ missed' = "some"
    <3>1. GhostRests' BY <2>4, ConstantTypes DEF GhostRests
    <3>2. Real' = {} BY <2>4, ConstantTypes DEF Real
    <3>3. HeldKept' BY <2>4, <3>2 DEF HeldKept
    <3> QED BY <2>1, <2>2, <3>1, <3>3 DEF KnownInv, HeldInv
  <2> QED BY <2>3, <2>4 DEF Handled, RealKept
<1> QED BY <1>7, <1>8

(* The clock and the report of this millisecond are left alone by commands. *)
LEMMA NothingHandled ==
    ASSUME IInv, UNCHANGED clock, Nothing
    PROVE  Handled
<1>1. /\ UNCHANGED kbd /\ UNCHANGED mouse /\ UNCHANGED masks /\ rebootReq' = rebootReq
      /\ missed' = missed /\ UNCHANGED timing /\ owed' = owed /\ clean' = clean
  BY DEF Nothing
<1>2. KbdType' /\ MouseType' /\ MaskType' /\ TimingType'
  BY <1>1, TypesStay DEF IInv, Types
<1>3. UNCHANGED maskVars BY <1>1 DEF masks, clock, timing, maskVars
<1>4. UNCHANGED tapVars BY <1>1 DEF kbd, clock, timing, tapVars
<1>5. UNCHANGED clickVars BY <1>1 DEF mouse, clock, timing, clickVars
<1>6. UNCHANGED moveVars BY <1>1 DEF mouse, moveVars
<1>7. Runs'
  BY <1>3, <1>4, <1>5, <1>6, MaskStaysRunning, TapStays, ClickStays, MovesStay DEF IInv, Runs
<1>8. RealKept BY <1>1 DEF RealKept, kbd, mouse, masks
<1> QED BY <1>1, <1>2, <1>7, <1>8 DEF Handled, IInv, Types, FlagType

LEMMA RebootHandled ==
    ASSUME IInv, UNCHANGED clock, NEW c, DoReboot(c)
    PROVE  Handled
<1>1. /\ UNCHANGED kbd /\ UNCHANGED mouse /\ UNCHANGED masks /\ rebootReq' = TRUE
      /\ missed' = missed /\ UNCHANGED timing /\ owed' = owed /\ clean' = clean
  BY DEF DoReboot
<1>2. KbdType' /\ MouseType' /\ MaskType' /\ TimingType'
  BY <1>1, TypesStay DEF IInv, Types
<1>3. UNCHANGED maskVars BY <1>1 DEF masks, clock, timing, maskVars
<1>4. UNCHANGED tapVars BY <1>1 DEF kbd, clock, timing, tapVars
<1>5. UNCHANGED clickVars BY <1>1 DEF mouse, clock, timing, clickVars
<1>6. UNCHANGED moveVars BY <1>1 DEF mouse, moveVars
<1>7. Runs'
  BY <1>3, <1>4, <1>5, <1>6, MaskStaysRunning, TapStays, ClickStays, MovesStay DEF IInv, Runs
<1>8. RealKept BY <1>1 DEF RealKept, kbd, mouse, masks
<1>9. rebootReq' \in BOOLEAN BY <1>1
<1> QED BY <1>1, <1>2, <1>7, <1>8, <1>9 DEF Handled, IInv, Types, FlagType

(* Displacements: what is asked for is what is to be shown.                *)
LEMMA MoveHandled ==
    ASSUME IInv, UNCHANGED clock, NEW c, c.d \in Int, DoMove(c)
    PROVE  Handled
<1>1. /\ injMouse' = [injMouse EXCEPT !.d = Wrap(injMouse.d + c.d)]
      /\ clean' = (clean /\ injMouse.d + c.d = injMouse'.d) /\ Owes(owed + c.d)
      /\ UNCHANGED kbd /\ realMouse' = realMouse /\ clickBits' = clickBits
      /\ clickAt' = clickAt /\ UNCHANGED masks /\ rebootReq' = rebootReq
      /\ missed' = missed /\ UNCHANGED timing
  BY DEF DoMove
<1>2. injMouse \in MouseStates /\ realMouse \in MouseStates /\ owed \in Int
  BY DEF IInv, Types, MouseType, FlagType
<1>3. injMouse.d \in Int /\ realMouse.d \in Int BY <1>2, Clock DEF MouseStates
<1>4. Wrap(injMouse.d + c.d) \in -DeltaWord..DeltaWord BY <1>3, WrapIs
<1>5. injMouse' \in MouseStates /\ injMouse'.buttons = injMouse.buttons
  BY <1>1, <1>2, <1>4 DEF MouseStates
<1>6. MouseType' BY <1>1, <1>2, <1>5 DEF IInv, Types, MouseType
<1>7. KbdType' /\ MaskType' /\ TimingType' BY <1>1, TypesStay DEF IInv, Types
<1>8. clean' \in BOOLEAN BY <1>1
<1>9. owed' = IF clean' THEN owed + c.d ELSE 0 BY <1>1 DEF Owes
<1>10. owed' \in Int BY <1>2, <1>9
<1>11. MovesShownOnce'
  <2>1. ASSUME clean' PROVE owed' = injMouse'.d + realMouse'.d
    <3>1. clean /\ injMouse.d + c.d = injMouse'.d BY <1>1, <2>1
    <3>2. owed = injMouse.d + realMouse.d BY <3>1 DEF IInv, Runs, MovesShownOnce
    <3> QED BY <1>1, <1>3, <1>9, <2>1, <3>1, <3>2
  <2> QED BY <2>1 DEF MovesShownOnce
<1>12. UNCHANGED maskVars BY <1>1 DEF masks, clock, timing, maskVars
<1>13. UNCHANGED tapVars BY <1>1 DEF kbd, clock, timing, tapVars
<1>14. ClickRuns'
  BY <1>1, <1>5 DEF IInv, Runs, ClickRuns, Asked, Clicked, Until, Since, timing, clock
<1>15. Runs' BY <1>11, <1>12, <1>13, <1>14, MaskStaysRunning, TapStays DEF IInv, Runs
<1>16. RealKept BY <1>1 DEF RealKept, kbd, masks
<1> QED BY <1>1, <1>6, <1>7, <1>8, <1>10, <1>15, <1>16 DEF Handled, IInv, Types, FlagType

LEMMA CancelHandled ==
    ASSUME IInv, UNCHANGED clock, NEW c, DoCancel(c)
    PROVE  Handled
<1>1. /\ injMouse' = [injMouse EXCEPT !.d = 0] /\ clean' = clean /\ Owes(owed - injMouse.d)
      /\ UNCHANGED kbd /\ realMouse' = realMouse /\ clickBits' = clickBits
      /\ clickAt' = clickAt /\ UNCHANGED masks /\ rebootReq' = rebootReq
      /\ missed' = missed /\ UNCHANGED timing
  BY DEF DoCancel
<1>2. injMouse \in MouseStates /\ realMouse \in MouseStates /\ owed \in Int
  BY DEF IInv, Types, MouseType, FlagType
<1>3. injMouse.d \in Int /\ realMouse.d \in Int BY <1>2, Clock DEF MouseStates
<1>5. injMouse' \in MouseStates /\ injMouse'.buttons = injMouse.buttons /\ injMouse'.d = 0
  BY <1>1, <1>2, Clock DEF MouseStates
<1>6. MouseType' BY <1>1, <1>2, <1>5 DEF IInv, Types, MouseType
<1>7. KbdType' /\ MaskType' /\ TimingType' BY <1>1, TypesStay DEF IInv, Types
<1>9. owed' = IF clean' THEN owed - injMouse.d ELSE 0 BY <1>1 DEF Owes
<1>10. owed' \in Int BY <1>2, <1>3, <1>9
<1>11. MovesShownOnce'
  <2>1. ASSUME clean' PROVE owed' = injMouse'.d + realMouse'.d
    <3>1. owed = injMouse.d + realMouse.d BY <1>1, <2>1 DEF IInv, Runs, MovesShownOnce
    <3> QED BY <1>1, <1>3, <1>5, <1>9, <2>1, <3>1
  <2> QED BY <2>1 DEF MovesShownOnce
<1>12. UNCHANGED maskVars BY <1>1 DEF masks, clock, timing, maskVars
<1>13. UNCHANGED tapVars BY <1>1 DEF kbd, clock, timing, tapVars
<1>14. ClickRuns'
  BY <1>1, <1>5 DEF IInv, Runs, ClickRuns, Asked, Clicked, Until, Since, timing, clock
<1>15. Runs' BY <1>11, <1>12, <1>13, <1>14, MaskStaysRunning, TapStays DEF IInv, Runs
<1>16. RealKept BY <1>1 DEF RealKept, kbd, masks
<1> QED BY <1>1, <1>6, <1>7, <1>10, <1>15, <1>16 DEF Handled, IInv, Types, FlagType

(* The buttons asked for are the ones down, whatever was clicked.          *)
LEMMA ButtonsHandled ==
    ASSUME IInv, UNCHANGED clock, NEW c, c.buttons \subseteq Buttons, DoButtons(c)
    PROVE  Handled
<1>1. /\ injMouse' = [injMouse EXCEPT !.buttons = c.buttons]
      /\ wanted' = c.buttons /\ press' = [b \in Buttons |-> 0]
      /\ UNCHANGED kbd /\ realMouse' = realMouse /\ clickBits' = clickBits
      /\ clickAt' = clickAt /\ UNCHANGED masks /\ rebootReq' = rebootReq
      /\ missed' = missed /\ owed' = owed /\ clean' = clean /\ maskLeft' = maskLeft
      /\ tapLeft' = tapLeft /\ overrun' = overrun
  BY DEF DoButtons
<1>2. injMouse \in MouseStates BY DEF IInv, Types, MouseType
<1>3. injMouse' \in MouseStates /\ injMouse'.buttons = c.buttons /\ injMouse'.d = injMouse.d
  BY <1>1, <1>2 DEF MouseStates
<1>4. MouseType' BY <1>1, <1>3 DEF IInv, Types, MouseType
<1>5. KbdType' /\ MaskType' BY <1>1, TypesStay DEF IInv, Types
<1>6. TimingType'
  <2>1. 0 \in 0..(Word \div 2 - 1) BY Clock
  <2>2. press' \in [Buttons -> 0..(Word \div 2 - 1)] BY <1>1, <2>1
  <2> QED BY <1>1, <2>2 DEF IInv, Types, TimingType
<1>7. UNCHANGED maskVars BY <1>1 DEF masks, clock, maskVars
<1>8. UNCHANGED tapVars BY <1>1 DEF kbd, clock, tapVars
<1>9. ClickRuns' BY <1>1, <1>3 DEF ClickRuns, Asked, Clicked
<1>10. MovesShownOnce' BY <1>1, <1>3 DEF IInv, Runs, MovesShownOnce
<1>11. Runs' BY <1>7, <1>8, <1>9, <1>10, MaskStaysRunning, TapStays DEF IInv, Runs
<1>12. RealKept BY <1>1 DEF RealKept, kbd, masks
<1> QED BY <1>1, <1>4, <1>5, <1>6, <1>11, <1>12 DEF Handled, IInv, Types, FlagType

(* A click that covers the one before it leaves no other button down.      *)
LEMMA ClickHandled ==
    ASSUME IInv, UNCHANGED clock, NEW c, c.buttons \subseteq Buttons,
           c.ms \in 0..(Word \div 2 - 1), DoClick(c)
    PROVE  Handled
<1>1. /\ injMouse' = [injMouse EXCEPT !.buttons = injMouse.buttons \cup c.buttons]
      /\ clickBits' = c.buttons /\ clickAt' = (now + c.ms) % Word
      /\ press' = [b \in Buttons |-> IF b \in c.buttons THEN c.ms ELSE press[b]]
      /\ overrun' = (overrun \/ ~(clickBits \subseteq c.buttons))
      /\ UNCHANGED kbd /\ realMouse' = realMouse /\ UNCHANGED masks /\ rebootReq' = rebootReq
      /\ missed' = missed /\ owed' = owed /\ clean' = clean /\ maskLeft' = maskLeft
      /\ tapLeft' = tapLeft /\ wanted' = wanted
  BY DEF DoClick
<1>2. injMouse \in MouseStates /\ now \in 0..(Word - 1) /\ stalled \in Nat
  BY Clock DEF IInv, Types, MouseType, ClockType, Times
<1>3. /\ injMouse' \in MouseStates /\ injMouse'.buttons = injMouse.buttons \cup c.buttons
      /\ injMouse'.d = injMouse.d
  BY <1>1, <1>2 DEF MouseStates
<1>4. /\ clickAt' \in 0..(Word - 1) /\ Until(clickAt') = c.ms
      /\ c.ms = 0 => Since(clickAt') = 0
  BY <1>1, <1>2, DeadlineIs
<1>5. now' = now /\ stalled' = stalled /\ emitted' = emitted BY DEF clock
<1>6. MouseType' BY <1>1, <1>3, <1>4 DEF IInv, Types, MouseType, Times
<1>7. KbdType' /\ MaskType' BY <1>1, TypesStay DEF IInv, Types
<1>8. TimingType'
  <2>1. press \in [Buttons -> 0..(Word \div 2 - 1)] BY DEF IInv, Types, TimingType
  <2>2. press' \in [Buttons -> 0..(Word \div 2 - 1)] BY <1>1, <2>1
  <2>3. overrun' \in BOOLEAN BY <1>1
  <2> QED BY <1>1, <2>2, <2>3 DEF IInv, Types, TimingType
<1>9. UNCHANGED maskVars BY <1>1, <1>5 DEF masks, maskVars
<1>10. UNCHANGED tapVars BY <1>1, <1>5 DEF kbd, tapVars
<1>11. Asked' BY <1>1, <1>3 DEF IInv, Runs, ClickRuns, Asked
<1>12. Clicked'
  <2>1. ASSUME NEW b \in c.buttons
        PROVE  \/ press'[b] > 0 /\ Until(clickAt)' = press'[b]
               \/ Since(clickAt)' <= stalled'
    <3>1. press'[b] = c.ms BY <1>1, <2>1
    <3>2. Until(clickAt)' = c.ms BY <1>4, <1>5 DEF Until
    <3>3. c.ms = 0 => Since(clickAt)' = 0 BY <1>4, <1>5 DEF Since
    <3> QED BY <1>2, <1>5, <3>1, <3>2, <3>3
  <2> QED BY <1>1, <2>1 DEF Clicked
<1>13. MovesShownOnce' BY <1>1, <1>3 DEF IInv, Runs, MovesShownOnce
<1>14. Runs' BY <1>9, <1>10, <1>11, <1>12, <1>13, MaskStaysRunning, TapStays
             DEF IInv, Runs, ClickRuns
<1>15. RealKept BY <1>1 DEF RealKept, kbd, masks
<1> QED BY <1>1, <1>6, <1>7, <1>8, <1>14, <1>15 DEF Handled, IInv, Types, FlagType

LEMMA KeysHandled ==
    ASSUME IInv, UNCHANGED clock, NEW c, c.keys \in KeyReports, DoKeys(c)
    PROVE  Handled
<1>1. /\ injKeys' = c.keys /\ realKeys' = realKeys /\ tapKeys' = tapKeys
      /\ tapUntil' = tapUntil /\ UNCHANGED mouse /\ UNCHANGED masks /\ rebootReq' = rebootReq
      /\ missed' = missed /\ UNCHANGED timing /\ owed' = owed /\ clean' = clean
  BY DEF DoKeys
<1>2. KbdType' BY <1>1 DEF IInv, Types, KbdType
<1>3. MouseType' /\ MaskType' /\ TimingType' BY <1>1, TypesStay DEF IInv, Types
<1>4. UNCHANGED maskVars BY <1>1 DEF masks, clock, timing, maskVars
<1>5. UNCHANGED tapVars BY <1>1 DEF clock, timing, tapVars
<1>6. UNCHANGED clickVars BY <1>1 DEF mouse, clock, timing, clickVars
<1>7. UNCHANGED moveVars BY <1>1 DEF mouse, moveVars
<1>8. Runs'
  BY <1>4, <1>5, <1>6, <1>7, MaskStaysRunning, TapStays, ClickStays, MovesStay DEF IInv, Runs
<1>9. RealKept BY <1>1 DEF RealKept, mouse, masks
<1> QED BY <1>1, <1>2, <1>3, <1>8, <1>9 DEF Handled, IInv, Types, FlagType

LEMMA TapHandled ==
    ASSUME IInv, UNCHANGED clock, NEW c, c.key \in Keys \cup {NoKey},
           c.ms \in 0..(Word \div 2 - 1), DoTap(c)
    PROVE  Handled
<1>1. /\ tapKeys' = [NoKeys EXCEPT ![1] = c.key] /\ tapUntil' = (now + c.ms) % Word
      /\ tapLeft' = c.ms /\ realKeys' = realKeys /\ injKeys' = injKeys
      /\ UNCHANGED mouse /\ UNCHANGED masks /\ rebootReq' = rebootReq
      /\ missed' = missed /\ maskLeft' = maskLeft /\ press' = press /\ overrun' = overrun
      /\ wanted' = wanted /\ owed' = owed /\ clean' = clean
  BY DEF DoTap
<1>2. now \in 0..(Word - 1) /\ stalled \in Nat
  BY Clock DEF IInv, Types, ClockType, Times
<1>3. /\ tapUntil' \in 0..(Word - 1) /\ Until(tapUntil') = c.ms
      /\ c.ms = 0 => Since(tapUntil') = 0
  BY <1>1, <1>2, DeadlineIs
<1>4. now' = now /\ stalled' = stalled /\ emitted' = emitted BY DEF clock
<1>5. tapKeys' \in KeyReports
  <2>1. NoKeys \in KeyReports BY ConstantTypes
  <2> QED BY <1>1, <2>1 DEF KeyReports
<1>6. KbdType' BY <1>1, <1>3, <1>5 DEF IInv, Types, KbdType, Times
<1>7. MouseType' /\ MaskType' BY <1>1, TypesStay DEF IInv, Types
<1>8. TimingType' BY <1>1 DEF IInv, Types, TimingType
<1>9. UNCHANGED maskVars BY <1>1, <1>4 DEF masks, maskVars
<1>10. TapRuns'
  <2>1. Until(tapUntil)' = c.ms BY <1>3, <1>4 DEF Until
  <2>2. c.ms = 0 => Since(tapUntil)' = 0 BY <1>3, <1>4 DEF Since
  <2>3. c.ms \in Nat BY Clock
  <2> QED BY <1>1, <1>2, <1>4, <2>1, <2>2, <2>3 DEF TapRuns
<1>11. UNCHANGED clickVars BY <1>1, <1>4 DEF mouse, clickVars
<1>12. UNCHANGED moveVars BY <1>1 DEF mouse, moveVars
<1>13. Runs'
  BY <1>9, <1>10, <1>11, <1>12, MaskStaysRunning, ClickStays, MovesStay DEF IInv, Runs
<1>14. RealKept BY <1>1 DEF RealKept, mouse, masks
<1> QED BY <1>1, <1>6, <1>7, <1>8, <1>13, <1>14 DEF Handled, IInv, Types, FlagType

(* A ghost forgets what is held, and what was to be moved.                 *)
LEMMA GhostHandled ==
    ASSUME IInv, UNCHANGED clock, NEW c, c.on \in BOOLEAN, DoGhost(c)
    PROVE  Handled
<1>1. /\ ghost' = c.on /\ realKeys' = (IF c.on THEN NoKeys ELSE realKeys)
      /\ realMouse' = (IF c.on THEN AtRest ELSE realMouse) /\ clean' = clean
      /\ Owes(IF c.on THEN owed - realMouse.d ELSE owed)
      /\ missed' = (IF c.on THEN "some" ELSE missed)
      /\ injKeys' = injKeys /\ tapKeys' = tapKeys /\ tapUntil' = tapUntil
      /\ injMouse' = injMouse /\ clickBits' = clickBits /\ clickAt' = clickAt
      /\ maskUntil' = maskUntil /\ rebootReq' = rebootReq /\ UNCHANGED timing
  BY DEF DoGhost
<1>2. injMouse \in MouseStates /\ realMouse \in MouseStates /\ owed \in Int
  BY DEF IInv, Types, MouseType, FlagType
<1>3. injMouse.d \in Int /\ realMouse.d \in Int BY <1>2, Clock DEF MouseStates
<1>4. KbdType' BY <1>1, ConstantTypes DEF IInv, Types, KbdType
<1>5. MouseType' BY <1>1, <1>2, ConstantTypes DEF IInv, Types, MouseType
<1>6. MaskType' BY <1>1 DEF IInv, Types, MaskType
<1>7. TimingType' BY <1>1, TypesStay DEF IInv, Types
<1>8. owed' = IF clean' THEN (IF c.on THEN owed - realMouse.d ELSE owed) ELSE 0
  BY <1>1 DEF Owes
<1>9. owed' \in Int BY <1>2, <1>3, <1>8
<1>10. MovesShownOnce'
  <2>1. ASSUME clean' PROVE owed' = injMouse'.d + realMouse'.d
    <3>1. owed = injMouse.d + realMouse.d BY <1>1, <2>1 DEF IInv, Runs, MovesShownOnce
    <3>2. CASE c.on
      <4>1. realMouse'.d = 0 BY <1>1, <3>2, ConstantTypes
      <4> QED BY <1>1, <1>2, <1>3, <1>8, <2>1, <3>1, <3>2, <4>1
    <3>3. CASE ~c.on BY <1>1, <1>3, <1>8, <2>1, <3>1, <3>3
    <3> QED BY <3>2, <3>3
  <2> QED BY <2>1 DEF MovesShownOnce
<1>11. UNCHANGED maskVars BY <1>1 DEF clock, timing, maskVars
<1>12. UNCHANGED tapVars BY <1>1 DEF clock, timing, tapVars
<1>13. UNCHANGED clickVars BY <1>1 DEF clock, timing, clickVars
<1>14. Runs' BY <1>10, <1>11, <1>12, <1>13, MaskStaysRunning, TapStays, ClickStays
             DEF IInv, Runs
<1>15. RealKept
  <2>1. CASE c.on BY <1>1, <2>1 DEF RealKept
  <2>2. CASE ~c.on BY <1>1, <2>2 DEF RealKept
  <2> QED BY <2>1, <2>2
<1>16. missed' \in {"none", "some", "stale"} BY <1>1 DEF IInv, Types, FlagType
<1> QED BY <1>1, <1>4, <1>5, <1>6, <1>7, <1>9, <1>14, <1>15, <1>16
        DEF Handled, IInv, Types, FlagType

LEMMA PanicHandled ==
    ASSUME IInv, UNCHANGED clock, NEW c, DoPanic(c)
    PROVE  Handled
<1>1. /\ injKeys' = NoKeys /\ injMouse' = AtRest /\ tapKeys' = NoKeys /\ tapUntil' = 0
      /\ tapLeft' = 0 /\ press' = [b \in Buttons |-> 0] /\ wanted' = {}
      /\ clean' = clean /\ Owes(owed - injMouse.d)
      /\ realKeys' = realKeys /\ realMouse' = realMouse /\ clickBits' = clickBits
      /\ clickAt' = clickAt /\ UNCHANGED masks /\ rebootReq' = rebootReq
      /\ missed' = missed /\ maskLeft' = maskLeft /\ overrun' = overrun
  BY DEF DoPanic
<1>2. injMouse \in MouseStates /\ realMouse \in MouseStates /\ owed \in Int
  BY DEF IInv, Types, MouseType, FlagType
<1>3. injMouse.d \in Int /\ realMouse.d \in Int BY <1>2, Clock DEF MouseStates
<1>4. injMouse' \in MouseStates /\ injMouse'.buttons = {} /\ injMouse'.d = 0
  BY <1>1, ConstantTypes
<1>5. KbdType' BY <1>1, ConstantTypes DEF IInv, Types, KbdType
<1>6. MouseType' BY <1>1, <1>4 DEF IInv, Types, MouseType
<1>7. MaskType' BY <1>1, TypesStay DEF IInv, Types
<1>8. TimingType'
  <2>1. 0 \in 0..(Word \div 2 - 1) BY Clock
  <2>2. press' \in [Buttons -> 0..(Word \div 2 - 1)] BY <1>1, <2>1
  <2> QED BY <1>1, <2>1, <2>2 DEF IInv, Types, TimingType
<1>9. owed' = IF clean' THEN owed - injMouse.d ELSE 0 BY <1>1 DEF Owes
<1>10. owed' \in Int BY <1>2, <1>3, <1>9
<1>11. MovesShownOnce'
  <2>1. ASSUME clean' PROVE owed' = injMouse'.d + realMouse'.d
    <3>1. owed = injMouse.d + realMouse.d BY <1>1, <2>1 DEF IInv, Runs, MovesShownOnce
    <3> QED BY <1>1, <1>3, <1>4, <1>9, <2>1, <3>1
  <2> QED BY <2>1 DEF MovesShownOnce
<1>12. UNCHANGED maskVars BY <1>1 DEF masks, clock, maskVars
<1>13. TapRuns' BY <1>1 DEF TapRuns
<1>14. ClickRuns' BY <1>4 DEF ClickRuns, Asked, Clicked
<1>15. Runs' BY <1>11, <1>12, <1>13, <1>14, MaskStaysRunning DEF IInv, Runs
<1>16. RealKept BY <1>1 DEF RealKept, masks
<1> QED BY <1>1, <1>5, <1>6, <1>7, <1>8, <1>10, <1>15, <1>16 DEF Handled, IInv, Types, FlagType

(* A mask runs as long as it was asked for, but no longer than it may.     *)
LEMMA ExecuteHandled ==
    ASSUME IInv, UNCHANGED clock, NEW c, Execute(c),
           c \in {NoLine, Junk} \/ (c \in Commands /\ c.op \in Ascii)
    PROVE  Handled
<1>1. CASE c.op \in {"none", "junk"}
  <2>1. Nothing BY <1>1 DEF Execute
  <2> QED BY <2>1, NothingHandled
<1>2. CASE c.op \notin {"none", "junk"}
  <2>1. c.op \in Ascii /\ WellFormed(c) BY <1>2, ConstantTypes DEF NoLine, Junk
  <2>2. /\ IF c.op = "maskoff" \/ c.ms <= 0 THEN maskUntil' = 0 /\ maskLeft' = 0
           ELSE maskUntil' = MaskDeadline(Min({c.ms, MaskMax})) /\ maskLeft' = Min({c.ms, MaskMax})
        /\ UNCHANGED kbd /\ UNCHANGED mouse /\ ghost' = ghost /\ rebootReq' = rebootReq
        /\ missed' = missed /\ tapLeft' = tapLeft /\ press' = press /\ overrun' = overrun
        /\ wanted' = wanted /\ owed' = owed /\ clean' = clean
    BY <1>2 DEF Execute
  <2>3. now \in 0..(Word - 1) BY DEF IInv, Types, ClockType, Times
  <2>4. now' = now /\ stalled' = stalled /\ emitted' = emitted BY DEF clock
  <2>5. maskUntil' \in Times /\ maskLeft' \in 0..MaskMax /\ MaskRuns'
    <3>1. CASE c.op = "maskoff" \/ c.ms <= 0
      <4>1. maskUntil' = 0 /\ maskLeft' = 0 BY <2>2, <3>1
      <4> QED BY <4>1, Clock, ConstantTypes DEF MaskRuns
    <3>2. CASE ~(c.op = "maskoff" \/ c.ms <= 0)
      <4>1. c.ms \in Int /\ c.ms > 0 BY <2>1, <3>2 DEF WellFormed, Ascii
      <4> DEFINE ms == Min({c.ms, MaskMax})
      <4>2. ms \in 1..MaskMax
        <5>1. {c.ms, MaskMax} \subseteq Nat /\ MaskMax \in Nat \ {0}
          BY <4>1, TimesAssumption
        <5>2. ms \in {c.ms, MaskMax} /\ \A n \in {c.ms, MaskMax} : ms <= n
          BY <5>1, MinIs
        <5> QED BY <4>1, <5>1, <5>2
      <4>3. maskUntil' = MaskDeadline(ms) /\ maskLeft' = ms BY <2>2, <3>2
      <4> HIDE DEF ms
      <4>4. /\ maskUntil' \in 1..(Word - 1)
            /\ Until(maskUntil') = ms \/ (maskUntil' = 1 /\ Until(1) = ms + 1)
        BY <2>3, <4>2, <4>3, MaskDeadlineIs
      <4>5. maskUntil' \in Times BY <4>4, Clock DEF Times
      <4>6. Until(maskUntil)' = Until(maskUntil') /\ Until(1)' = Until(1) BY <2>4 DEF Until
      <4>7. maskUntil' # 0 /\ maskLeft' > 0 BY <4>2, <4>3, <4>4, Clock
      <4>8. MaskRuns' BY <4>3, <4>4, <4>6, <4>7, Clock, <4>2 DEF MaskRuns
      <4> QED BY <4>2, <4>3, <4>5, <4>8
    <3> QED BY <3>1, <3>2
  <2>6. KbdType' /\ MouseType' BY <2>2, TypesStay DEF IInv, Types
  <2>7. MaskType' BY <2>2, <2>5 DEF IInv, Types, MaskType
  <2>8. TimingType' BY <2>2, <2>5 DEF IInv, Types, TimingType
  <2>9. UNCHANGED tapVars BY <2>2, <2>4 DEF kbd, tapVars
  <2>10. UNCHANGED clickVars BY <2>2, <2>4 DEF mouse, clickVars
  <2>11. UNCHANGED moveVars BY <2>2 DEF mouse, moveVars
  <2>12. Runs' BY <2>5, <2>9, <2>10, <2>11, TapStays, ClickStays, MovesStay DEF IInv, Runs
  <2>13. RealKept BY <2>2 DEF RealKept, kbd, mouse
  <2> QED BY <2>2, <2>6, <2>7, <2>8, <2>12, <2>13 DEF Handled, IInv, Types, FlagType
<1> QED BY <1>1, <1>2

LEMMA CommandClock ==
    ASSUME NEW c, Command(c)
    PROVE  UNCHANGED clock /\ c \in Commands /\ WellFormed(c)
BY ConstantTypes DEF Command

LEMMA SwallowedKeeps ==
    ASSUME IInv, NEW c, Command(c), Swallowed
    PROVE  IInv' /\ (KnownInv => KnownInv')
<1>1. Nothing /\ pcResidue' \in {PcResidue + 1, 0} /\ line' \in {NoLine, Junk}
  BY DEF Swallowed
<1>2. Handled BY <1>1, CommandClock, NothingHandled
<1>3. pcResidue' \in 0..(PcResidue + 1) BY <1>1, ConstantTypes
<1> QED BY <1>1, <1>2, <1>3, CommandKeeps

LEMMA BinaryCommandKeeps ==
    ASSUME IInv, NEW c, BinaryCommand(c)
    PROVE  IInv' /\ (KnownInv => KnownInv')
<1>1. Command(c) BY DEF BinaryCommand
<1>2. UNCHANGED clock /\ WellFormed(c) BY <1>1, CommandClock
<1>3. CASE Swallowed BY <1>1, <1>3, SwallowedKeeps
<1>4. ASSUME Handled, line' = NoLine, pcResidue' \in {0, PcResidue + 1}
      PROVE  IInv' /\ (KnownInv => KnownInv')
  <2>1. pcResidue' \in 0..(PcResidue + 1) BY <1>4, ConstantTypes
  <2> QED BY <1>1, <1>4, <2>1, CommandKeeps
<1>5. CASE Handle(c) /\ line' = NoLine /\ pcResidue' = 0
  <2>1. CASE c.op = "move" /\ DoMove(c)
    BY <1>2, <1>4, <1>5, <2>1, MoveHandled DEF WellFormed
  <2>2. CASE c.op = "cancel" /\ DoCancel(c)
    BY <1>2, <1>4, <1>5, <2>2, CancelHandled
  <2>3. CASE c.op = "buttons" /\ DoButtons(c)
    BY <1>2, <1>4, <1>5, <2>3, ButtonsHandled DEF WellFormed
  <2>4. CASE c.op = "click" /\ DoClick(c)
    BY <1>2, <1>4, <1>5, <2>4, ClickHandled DEF WellFormed
  <2>5. CASE c.op = "keys" /\ DoKeys(c)
    BY <1>2, <1>4, <1>5, <2>5, KeysHandled DEF WellFormed
  <2>6. CASE c.op = "tap" /\ DoTap(c)
    BY <1>2, <1>4, <1>5, <2>6, TapHandled DEF WellFormed
  <2>7. CASE c.op = "ghost" /\ DoGhost(c)
    BY <1>2, <1>4, <1>5, <2>7, GhostHandled DEF WellFormed
  <2>8. CASE c.op = "panic" /\ DoPanic(c)
    BY <1>2, <1>4, <1>5, <2>8, PanicHandled
  <2>9. CASE c.op = "reboot" /\ DoReboot(c)
    BY <1>2, <1>4, <1>5, <2>9, RebootHandled
  <2> QED BY <1>5, <2>1, <2>2, <2>3, <2>4, <2>5, <2>6, <2>7, <2>8, <2>9 DEF Handle
<1>6. CASE Nothing /\ line' = NoLine /\ pcResidue' = PcResidue + 1
  BY <1>2, <1>4, <1>6, NothingHandled
<1> QED BY <1>3, <1>5, <1>6 DEF BinaryCommand

LEMMA AsciiCommandKeeps ==
    ASSUME IInv, NEW c, AsciiCommand(c)
    PROVE  IInv' /\ (KnownInv => KnownInv')
<1>1. Command(c) /\ c.op \in Ascii BY DEF AsciiCommand
<1>2. UNCHANGED clock /\ c \in Commands BY <1>1, CommandClock
<1>3. line \in {NoLine, Junk} \cup {e \in Commands : e.op \in Ascii}
  BY DEF IInv, Types, ParserType
<1> DEFINE done == IF line = NoLine THEN c ELSE line
<1>4. done \in {NoLine, Junk} \cup {e \in Commands : e.op \in Ascii} BY <1>1, <1>2, <1>3
<1>5. 0 \in 0..(PcResidue + 1) BY ConstantTypes
<1>6. CASE Swallowed BY <1>1, <1>6, SwallowedKeeps
<1>7. CASE pcResidue' = 0 /\ line' = NoLine /\ Execute(done)
  <2> HIDE DEF done
  <2>1. Handled BY <1>2, <1>4, <1>7, ExecuteHandled
  <2> QED BY <1>1, <1>5, <1>7, <2>1, CommandKeeps
<1>8. CASE pcResidue' = 0 /\ line' = done /\ Nothing
  <2>1. Handled BY <1>2, <1>8, NothingHandled
  <2> QED BY <1>1, <1>4, <1>5, <1>8, <2>1, CommandKeeps
<1> QED BY <1>6, <1>7, <1>8 DEF AsciiCommand

-----------------------------------------------------------------------------
(* The loop: what is due is over, and what is shown is no longer owed.     *)

LEMMA Due ==
    ASSUME IInv
    PROVE  /\ maskLeft > 0 => maskUntil # 0 /\ ~MaskOver
           /\ maskLeft = 0 /\ maskUntil \notin {0, 1} => MaskOver
           /\ tapUntil # 0 /\ tapLeft = 0 => TapOver
           /\ clickAt # 0 /\ ~ClickOver =>
                \A b \in (injMouse.buttons \cap clickBits) \ wanted :
                    press[b] > 0 /\ Until(clickAt) = press[b]
<1>1. /\ now \in 0..(Word - 1) /\ maskUntil \in 0..(Word - 1) /\ tapUntil \in 0..(Word - 1)
      /\ clickAt \in 0..(Word - 1) /\ 1 \in 0..(Word - 1)
      /\ stalled \in Nat /\ stalled < Word \div 2
      /\ maskLeft \in Nat /\ maskLeft <= MaskMax /\ tapLeft \in Nat
  BY Clock DEF IInv, Types, ClockType, MaskType, KbdType, MouseType, TimingType, Times
<1>2. MaskRuns /\ TapRuns /\ Clicked BY DEF IInv, Runs, ClickRuns
<1>3. ASSUME NEW t \in 0..(Word - 1), Since(t) <= stalled PROVE Reached(t)
  BY <1>1, <1>3, Apart, ReachedIs, Clock
<1>4. ASSUME NEW t \in 0..(Word - 1), 0 < Until(t), Until(t) <= MaskMax + 1 PROVE ~Reached(t)
  <2>1. Until(t) <= Word \div 2 BY <1>1, <1>4, Apart, Clock
  <2> QED BY <1>1, <1>4, <2>1, ReachedIs
<1>5. ASSUME maskLeft > 0 PROVE maskUntil # 0 /\ ~MaskOver
  <2>1. /\ maskUntil # 0
        /\ \/ Until(maskUntil) = maskLeft
           \/ maskUntil = 1 /\ Until(1) = maskLeft + 1
    BY <1>2, <1>5 DEF MaskRuns
  <2>2. 0 < Until(maskUntil) /\ Until(maskUntil) <= MaskMax + 1 BY <1>1, <1>5, <2>1, Clock
  <2> QED BY <1>1, <1>4, <2>1, <2>2 DEF MaskOver
<1>6. ASSUME maskLeft = 0, maskUntil \notin {0, 1} PROVE MaskOver
  <2>1. Since(maskUntil) <= stalled BY <1>1, <1>2, <1>6, Apart DEF MaskRuns
  <2> QED BY <1>1, <1>3, <1>6, <2>1 DEF MaskOver
<1>7. ASSUME tapUntil # 0, tapLeft = 0 PROVE TapOver
  <2>1. Since(tapUntil) <= stalled BY <1>2, <1>7 DEF TapRuns
  <2> QED BY <1>1, <1>3, <1>7, <2>1 DEF TapOver
<1>8. ASSUME clickAt # 0, ~ClickOver, NEW b \in (injMouse.buttons \cap clickBits) \ wanted
      PROVE  press[b] > 0 /\ Until(clickAt) = press[b]
  <2>1. \/ press[b] > 0 /\ Until(clickAt) = press[b]
        \/ Since(clickAt) <= stalled
    BY <1>2, <1>8 DEF Clicked
  <2>2. ~Reached(clickAt) BY <1>8 DEF ClickOver
  <2> QED BY <1>1, <1>3, <2>1, <2>2
<1> QED BY <1>5, <1>6, <1>7, <1>8

(* The report takes every displacement that is owed.                       *)
LEMMA EmitIs ==
    ASSUME IInv, Emit
    PROVE  /\ emitted' = TRUE /\ maskUntil' = (IF MaskOver THEN 0 ELSE maskUntil)
           /\ injMouse' \in MouseStates /\ realMouse' \in MouseStates
           /\ injMouse'.buttons = HeldAfter /\ realMouse'.buttons = realMouse.buttons
           /\ clean' \in BOOLEAN /\ owed' \in Int /\ ready' \in BOOLEAN
           /\ MovesShownOnce'
<1> DEFINE drop == ghost \/ maskUntil' # 0
           d    == IF role = "mouse" THEN ShownMove(drop) ELSE 0
           lost == role = "mouse" /\ d # (IF ready THEN Saturate(d) ELSE 0)
<1>1. /\ emitted' = TRUE /\ maskUntil' = (IF MaskOver THEN 0 ELSE maskUntil)
      /\ clean' = (clean /\ ~lost /\ d = injMouse.d + IF drop THEN 0 ELSE realMouse.d)
      /\ Owes(owed - d - IF drop THEN realMouse.d ELSE 0)
      /\ ready' = (ready /\ role = "other")
      /\ injMouse' = [buttons |-> HeldAfter, d |-> 0]
      /\ realMouse' = [realMouse EXCEPT !.d = 0]
  BY DEF Emit, RealCleared
<1>2. injMouse \in MouseStates /\ realMouse \in MouseStates /\ owed \in Int
  BY DEF IInv, Types, MouseType, FlagType
<1>3. injMouse.d \in Int /\ realMouse.d \in Int /\ injMouse.buttons \subseteq Buttons
  BY <1>2, Clock DEF MouseStates
<1>4. HeldAfter \subseteq Buttons BY <1>3 DEF HeldAfter
<1>5. /\ injMouse' \in MouseStates /\ injMouse'.buttons = HeldAfter /\ injMouse'.d = 0
      /\ realMouse' \in MouseStates /\ realMouse'.buttons = realMouse.buttons
      /\ realMouse'.d = 0
  BY <1>1, <1>2, <1>4, Clock DEF MouseStates
<1>6. d \in Int
  <2>1. Wrap(injMouse.d + realMouse.d) \in Int BY <1>3, WrapIs
  <2> QED BY <1>3, <2>1 DEF ShownMove
<1>7. clean' \in BOOLEAN /\ ready' \in BOOLEAN
  <2>1. clean' \in BOOLEAN BY <1>1
  <2>2. ready' \in BOOLEAN BY <1>1
  <2> QED BY <2>1, <2>2
<1> HIDE DEF d, lost, drop
<1>8. owed' = IF clean' THEN owed - d - (IF drop THEN realMouse.d ELSE 0) ELSE 0
  BY <1>1 DEF Owes
<1>9. owed' \in Int BY <1>2, <1>3, <1>6, <1>8
<1>10. ASSUME clean' PROVE owed' = injMouse'.d + realMouse'.d
  <2>1. clean /\ d = injMouse.d + IF drop THEN 0 ELSE realMouse.d BY <1>1, <1>10
  <2>2. owed = injMouse.d + realMouse.d BY <2>1 DEF IInv, Runs, MovesShownOnce
  <2>3. owed' = owed - d - (IF drop THEN realMouse.d ELSE 0) BY <1>8, <1>10
  <2>4. owed' = 0 BY <1>2, <1>3, <1>6, <2>1, <2>2, <2>3
  <2> QED BY <1>5, <2>4
<1> QED BY <1>1, <1>5, <1>7, <1>9, <1>10 DEF MovesShownOnce

LEMMA TickKeeps ==
    ASSUME IInv, Tick
    PROVE  IInv' /\ (KnownInv => KnownInv')
<1>1. /\ phase = "running" /\ stalled' = 0 /\ UNCHANGED boot /\ realKeys' = realKeys
      /\ injKeys' = injKeys /\ ghost' = ghost /\ now' = now /\ UNCHANGED parsers
      /\ rebootReq' = rebootReq /\ UNCHANGED right /\ wire' = wire /\ missed' = missed
      /\ UNCHANGED timing /\ early' = early
      /\ tapUntil' = (IF TapOver THEN 0 ELSE tapUntil)
      /\ tapKeys' = (IF TapOver THEN NoKeys ELSE tapKeys)
      /\ clickAt' = (IF ClickOver THEN 0 ELSE clickAt)
      /\ clickBits' = (IF ClickOver THEN {} ELSE clickBits)
  BY DEF Tick, Expire
<1>2. /\ maskLeft' = maskLeft /\ tapLeft' = tapLeft /\ press' = press /\ overrun' = overrun
      /\ wanted' = wanted
  BY <1>1 DEF timing
<1>3. /\ phase' = phase /\ role' = role /\ waited' = waited /\ device' = device
      /\ held' = held /\ attached' = attached /\ beat' = beat /\ hostResidue' = hostResidue
  BY <1>1 DEF boot, right, parsers
<1>4. /\ now \in 0..(Word - 1) /\ injMouse \in MouseStates /\ realMouse \in MouseStates
      /\ emitted \in BOOLEAN /\ maskUntil \in Times
      /\ clean \in BOOLEAN /\ owed \in Int /\ ready \in BOOLEAN
      /\ tapUntil \in Times /\ clickAt \in Times /\ clickBits \subseteq Buttons
      /\ tapKeys \in KeyReports
  BY DEF IInv, Types, ClockType, MaskType, MouseType, KbdType, FlagType, Times
<1>5. /\ emitted' \in BOOLEAN /\ maskUntil' \in Times
      /\ injMouse' \in MouseStates /\ realMouse' \in MouseStates
      /\ injMouse'.buttons = HeldAfter /\ realMouse'.buttons = realMouse.buttons
      /\ clean' \in BOOLEAN /\ owed' \in Int /\ ready' \in BOOLEAN
      /\ MovesShownOnce' /\ MaskRuns'
  <2>1. CASE Emit
    <3>1. /\ emitted' = TRUE /\ maskUntil' = (IF MaskOver THEN 0 ELSE maskUntil)
          /\ injMouse' \in MouseStates /\ realMouse' \in MouseStates
          /\ injMouse'.buttons = HeldAfter /\ realMouse'.buttons = realMouse.buttons
          /\ clean' \in BOOLEAN /\ owed' \in Int /\ ready' \in BOOLEAN /\ MovesShownOnce'
      BY <2>1, EmitIs
    <3>2. emitted' \in BOOLEAN /\ maskUntil' \in Times BY <1>4, <3>1, ConstantTypes
    <3>3. MaskRuns'
      <4>1. ASSUME maskLeft > 0
            PROVE  /\ maskUntil' # 0
                   /\ \/ Until(maskUntil)' = maskLeft
                      \/ maskUntil' = 1 /\ Until(1)' = maskLeft + 1
        <5>1. maskUntil # 0 /\ maskUntil' = maskUntil BY <3>1, <4>1, Due
        <5>2. \/ Until(maskUntil) = maskLeft
              \/ maskUntil = 1 /\ Until(1) = maskLeft + 1
          BY <4>1 DEF IInv, Runs, MaskRuns
        <5>3. Until(maskUntil)' = Until(maskUntil) /\ Until(1)' = Until(1)
          BY <1>1, <5>1 DEF Until
        <5> QED BY <5>1, <5>2, <5>3
      <4>2. ASSUME maskLeft = 0 PROVE maskUntil' \in {0, 1} BY <3>1, <4>2, Due
      <4> QED BY <1>2, <4>1, <4>2 DEF MaskRuns
    <3> QED BY <3>1, <3>2, <3>3
  <2>2. CASE /\ emitted /\ injMouse' = [injMouse EXCEPT !.buttons = HeldAfter]
             /\ UNCHANGED <<emitted, maskUntil, realMouse, usb, owed, clean>>
    <3>1. HeldAfter \subseteq Buttons BY <1>4 DEF HeldAfter, MouseStates
    <3>2. /\ injMouse' \in MouseStates /\ injMouse'.buttons = HeldAfter
          /\ injMouse'.d = injMouse.d
      BY <1>4, <2>2, <3>1 DEF MouseStates
    <3>3. ready' = ready BY <2>2 DEF usb
    <3>4. MovesShownOnce' BY <2>2, <3>2 DEF IInv, Runs, MovesShownOnce
    <3>5. MaskRuns' BY <1>1, <1>2, <2>2 DEF IInv, Runs, MaskRuns, Until
    <3> QED BY <1>4, <2>2, <3>2, <3>3, <3>4, <3>5
  <2> QED BY <2>1, <2>2 DEF Tick
<1>6. BootType' /\ ParserType' /\ RightType' /\ WireType' /\ TimingType'
  BY <1>1, <1>3, TypesStay DEF IInv, Types
<1>7. KbdType' BY <1>1, <1>4, ConstantTypes DEF IInv, Types, KbdType
<1>8. MouseType' BY <1>1, <1>4, <1>5, ConstantTypes DEF MouseType
<1>9. MaskType' BY <1>1, <1>5 DEF IInv, Types, MaskType
<1>10. ClockType' BY <1>1, <1>5, Clock DEF IInv, Types, ClockType
<1>11. FlagType' BY <1>1, <1>5 DEF IInv, Types, FlagType
<1>12. Blank' BY <1>1, <1>3 DEF Blank
<1>13. TapRuns'
  <2>1. ASSUME tapUntil' # 0 PROVE tapLeft' > 0 /\ Until(tapUntil)' = tapLeft'
    <3>1. tapUntil # 0 /\ ~TapOver /\ tapUntil' = tapUntil BY <1>1, <2>1
    <3>2. tapLeft # 0 BY <3>1, Due
    <3>3. tapLeft > 0 /\ Until(tapUntil) = tapLeft
      BY <3>1, <3>2 DEF IInv, Runs, TapRuns
    <3> QED BY <1>1, <1>2, <3>1, <3>3 DEF Until
  <2> QED BY <2>1 DEF TapRuns
<1>14. ClickRuns'
  <2>1. CASE ClickOver
    <3>1. clickAt' = 0 /\ clickBits' = {} /\ injMouse'.buttons = injMouse.buttons \ clickBits
      BY <1>1, <1>5, <2>1 DEF HeldAfter
    <3>2. Asked' BY <1>2, <3>1 DEF IInv, Runs, ClickRuns, Asked
    <3> QED BY <3>1, <3>2 DEF ClickRuns, Clicked
  <2>2. CASE ~ClickOver
    <3>1. clickAt' = clickAt /\ clickBits' = clickBits /\ injMouse'.buttons = injMouse.buttons
      BY <1>1, <1>5, <2>2 DEF HeldAfter
    <3>2. Asked' BY <1>2, <3>1 DEF IInv, Runs, ClickRuns, Asked
    <3>3. Until(clickAt)' = Until(clickAt) BY <1>1, <3>1 DEF Until
    <3>4. Clicked' BY <1>2, <2>2, <3>1, <3>3, Due DEF Clicked
    <3> QED BY <3>2, <3>4 DEF ClickRuns
  <2> QED BY <2>1, <2>2
<1>15. IInv'
  BY <1>5, <1>6, <1>7, <1>8, <1>9, <1>10, <1>11, <1>12, <1>13, <1>14 DEF IInv, Types, Runs
<1>16. ASSUME KnownInv PROVE KnownInv'
  <2>1. HeardLast' BY <1>1, <1>3, <1>16 DEF KnownInv, HeldInv, HeardLast, LastReport, Tells
  <2>2. HeldKept'
    BY <1>1, <1>3, <1>5, <1>16 DEF KnownInv, HeldInv, HeldKept, Quiet, Takes, Real
  <2>3. GhostRests' BY <1>1, <1>5, <1>16 DEF KnownInv, HeldInv, GhostRests
  <2>4. Underway' BY <1>1, <1>3 DEF Underway
  <2> QED BY <2>1, <2>2, <2>3, <2>4 DEF KnownInv, HeldInv
<1> QED BY <1>15, <1>16

-----------------------------------------------------------------------------
(* A millisecond.                                                          *)

(* A deadline so many milliseconds ahead, or that long ago.                *)
LEMMA Nearer ==
    ASSUME now \in 0..(Word - 1), now' = (now + 1) % Word, NEW t \in 0..(Word - 1),
           NEW n \in Nat
    PROVE  /\ n > 1 /\ Until(t) = n => ((t - now') % Word) = n - 1
           /\ n = 1 /\ Until(t) = n => ((now' - t) % Word) = 0
           /\ n > 0 /\ Until(t) = n + 1 => ((t - now') % Word) = n
           /\ n < Word \div 2 /\ Since(t) <= n => ((now' - t) % Word) <= n + 1
           /\ n < Word \div 2 /\ Since(t) < n => ((now' - t) % Word) < n + 1
<1> DEFINE u == (t - now') % Word
<1> DEFINE s == (now' - t) % Word
<1> DEFINE U == Until(t)
<1> DEFINE S == Since(t)
<1>1. /\ U > 0 => u = U - 1
      /\ U = 1 => s = 0
      /\ S < Word - 1 => s = S + 1
  BY Later
<1>2. U \in Nat /\ S \in Nat BY Apart, Clock
<1>3. 2 * (Word \div 2) <= Word /\ Word \in Nat /\ Word \div 2 \in Nat /\ Word >= 4 BY Clock
<1> HIDE DEF u, s, U, S
<1>4. /\ n > 1 /\ U = n => u = n - 1
      /\ n = 1 /\ U = n => s = 0
      /\ n > 0 /\ U = n + 1 => u = n
  BY <1>1, <1>2
<1>5. n < Word \div 2 /\ S <= n => s <= n + 1 BY <1>1, <1>2, <1>3
<1>6. n < Word \div 2 /\ S < n => s < n + 1 BY <1>1, <1>2, <1>3
<1> QED BY <1>4, <1>5, <1>6 DEF u, s, U, S

LEMMA ElapseKeeps ==
    ASSUME IInv, Elapse
    PROVE  IInv' /\ (KnownInv => KnownInv')
<1>1. /\ now' = (now + 1) % Word /\ emitted' = FALSE /\ pcResidue' = Less(pcResidue)
      /\ maskLeft' = Less(maskLeft) /\ tapLeft' = Less(tapLeft)
      /\ press' = [b \in Buttons |-> Less(press[b])]
      /\ phase' = phase /\ role' = role /\ UNCHANGED kbd /\ UNCHANGED mouse /\ UNCHANGED masks
      /\ line' = line /\ rebootReq' = rebootReq /\ UNCHANGED usb /\ device' = device
      /\ attached' = attached /\ held' = held /\ events' = events /\ wire' = wire
      /\ missed' = missed /\ overrun' = overrun /\ wanted' = wanted /\ owed' = owed
      /\ clean' = clean /\ early' = early
  BY DEF Elapse
<1>2. \/ /\ phase = "identity" /\ waited < IdWait /\ beat < Beat /\ wire = <<>>
         /\ waited' = waited + 1 /\ beat' = beat + 1
         /\ stalled' = stalled /\ hostResidue' = hostResidue
      \/ /\ phase = "running" /\ stalled < MaxStall
         /\ stalled' = stalled + 1 /\ hostResidue' = Less(hostResidue)
         /\ waited' = waited /\ beat' = beat
  BY DEF Elapse
<1>3. /\ now \in 0..(Word - 1) /\ stalled \in 0..MaxStall /\ waited \in 0..IdWait
      /\ beat \in 0..Beat /\ hostResidue \in 0..(HostResidue + 1)
      /\ pcResidue \in 0..(PcResidue + 1) /\ maskLeft \in 0..MaskMax
      /\ tapLeft \in 0..(Word \div 2 - 1) /\ press \in [Buttons -> 0..(Word \div 2 - 1)]
      /\ maskUntil \in 0..(Word - 1) /\ tapUntil \in 0..(Word - 1) /\ clickAt \in 0..(Word - 1)
  BY DEF IInv, Types, BootType, ClockType, RightType, ParserType, TimingType, MaskType, KbdType,
         MouseType, Times
<1>4. \A n \in Nat : Less(n) = (IF n > 0 THEN n - 1 ELSE 0) /\ Less(n) \in Nat /\ Less(n) <= n
  BY DEF Less
<1>5. /\ maskUntil' = maskUntil /\ tapUntil' = tapUntil /\ clickAt' = clickAt /\ ghost' = ghost
      /\ clickBits' = clickBits /\ injMouse' = injMouse /\ realMouse' = realMouse
      /\ realKeys' = realKeys /\ ready' = ready /\ seen' = seen
  BY <1>1 DEF masks, kbd, mouse, usb
<1>6. BootType'
  <2>1. IdWait \in Nat BY ConstantTypes
  <2>2. waited' \in 0..IdWait BY <1>2, <1>3, <2>1
  <2> QED BY <1>1, <2>2 DEF IInv, Types, BootType
<1>7. KbdType' /\ MouseType' /\ MaskType' /\ WireType' BY <1>1, TypesStay DEF IInv, Types
<1>8. ClockType'
  <2>1. now' \in Times BY <1>1, <1>3, Later DEF Times
  <2>2. stalled' \in 0..MaxStall BY <1>2, <1>3, Clock
  <2> QED BY <1>1, <2>1, <2>2 DEF ClockType
<1>9. ParserType'
  <2>0. HostResidue \in Nat BY ConstantTypes
  <2>1. hostResidue' \in 0..(HostResidue + 1)
    <3>1. hostResidue' = hostResidue \/ hostResidue' = Less(hostResidue) BY <1>2
    <3>2. hostResidue \in Nat /\ hostResidue <= HostResidue + 1 BY <1>3, <2>0
    <3>3. Less(hostResidue) \in Nat /\ Less(hostResidue) <= hostResidue BY <1>4, <3>2
    <3> QED BY <2>0, <3>1, <3>2, <3>3
  <2>2. pcResidue' \in 0..(PcResidue + 1) BY <1>1, <1>3, <1>4, ConstantTypes
  <2> QED BY <1>1, <2>1, <2>2 DEF IInv, Types, ParserType
<1>10. RightType'
  <2>1. Beat \in Nat BY ConstantTypes
  <2>2. beat' \in 0..Beat BY <1>2, <1>3, <2>1
  <2> QED BY <1>1, <2>2 DEF IInv, Types, RightType, Inputs
<1>11. TimingType'
  <2>1. maskLeft' \in 0..MaskMax BY <1>1, <1>3, <1>4, Clock
  <2>2. tapLeft' \in 0..(Word \div 2 - 1) BY <1>1, <1>3, <1>4, Clock
  <2>3. ASSUME NEW b \in Buttons PROVE Less(press[b]) \in 0..(Word \div 2 - 1)
    BY <1>3, <1>4, Clock
  <2>4. press' \in [Buttons -> 0..(Word \div 2 - 1)] BY <1>1, <2>3
  <2> QED BY <1>1, <2>1, <2>2, <2>4 DEF IInv, Types, TimingType
<1>12. FlagType' BY <1>1, <1>5 DEF IInv, Types, FlagType
<1>13. Blank' BY <1>1, <1>5 DEF IInv, Types, Blank
<1>14. phase = "identity" => maskUntil = 0 /\ tapUntil = 0 /\ clickAt = 0
  BY DEF IInv, Types, Blank
<1>15. /\ maskUntil # 0 \/ tapUntil # 0 \/ clickAt # 0 => stalled' = stalled + 1
       /\ stalled \in Nat /\ stalled < Word \div 2
  BY <1>2, <1>3, <1>14, Clock
<1>16. MaskRuns'
  <2>1. /\ Until(maskUntil)' = (maskUntil - now') % Word
        /\ Since(maskUntil)' = (now' - maskUntil) % Word
        /\ Until(1)' = (1 - now') % Word
    BY <1>5 DEF Until, Since
  <2>2. MaskRuns /\ maskLeft \in Nat /\ 1 \in 0..(Word - 1) BY <1>3, Clock DEF IInv, Runs
  <2>3. CASE maskLeft > 1
    <3>1. maskLeft' = maskLeft - 1 /\ maskLeft' > 0 /\ maskLeft' \in Nat BY <1>1, <1>4, <2>2, <2>3
    <3>2. /\ maskUntil # 0
          /\ \/ Until(maskUntil) = maskLeft
             \/ maskUntil = 1 /\ Until(1) = maskLeft + 1
      BY <2>2, <2>3 DEF MaskRuns
    <3>3. CASE Until(maskUntil) = maskLeft
      <4>1. Until(maskUntil)' = maskLeft'
        BY <1>1, <1>3, <2>1, <2>2, <2>3, <3>1, <3>3, Nearer
      <4> QED BY <1>5, <3>1, <3>2, <4>1 DEF MaskRuns
    <3>4. CASE maskUntil = 1 /\ Until(1) = maskLeft + 1
      <4>1. Until(1)' = maskLeft BY <1>1, <1>3, <2>1, <2>2, <2>3, <3>4, Nearer
      <4>2. Until(1)' = maskLeft' + 1 BY <2>2, <3>1, <4>1
      <4> QED BY <1>5, <3>1, <3>4, <4>2 DEF MaskRuns
    <3> QED BY <3>2, <3>3, <3>4
  <2>4. CASE maskLeft = 1
    <3>1. maskLeft' = 0 BY <1>1, <1>4, <2>4
    <3>2. ASSUME maskUntil \notin {0, 1} PROVE Since(maskUntil)' < stalled'
      <4>1. Until(maskUntil) = 1 BY <2>2, <2>4, <3>2 DEF MaskRuns
      <4>2. Since(maskUntil)' = 0 BY <1>1, <1>3, <2>1, <4>1, Nearer
      <4> QED BY <1>15, <3>2, <4>2
    <3> QED BY <1>1, <1>5, <3>1, <3>2 DEF MaskRuns
  <2>5. CASE maskLeft = 0
    <3>1. maskLeft' = 0 BY <1>1, <1>4, <2>5
    <3>2. ASSUME maskUntil \notin {0, 1} PROVE Since(maskUntil)' < stalled'
      <4>1. Since(maskUntil) < stalled BY <2>2, <2>5, <3>2 DEF MaskRuns
      <4> QED BY <1>1, <1>3, <1>15, <2>1, <3>2, <4>1, Nearer
    <3> QED BY <1>1, <1>5, <3>1, <3>2 DEF MaskRuns
  <2> QED BY <2>2, <2>3, <2>4, <2>5
<1>17. TapRuns'
  <2>1. /\ Until(tapUntil)' = (tapUntil - now') % Word
        /\ Since(tapUntil)' = (now' - tapUntil) % Word
    BY <1>5 DEF Until, Since
  <2>2. TapRuns /\ tapLeft \in Nat BY <1>3, Clock DEF IInv, Runs
  <2>3. ASSUME tapUntil # 0, tapLeft > 1 PROVE tapLeft' > 0 /\ Until(tapUntil)' = tapLeft'
    <3>1. tapLeft' = tapLeft - 1 /\ tapLeft' > 0 BY <1>1, <1>4, <2>2, <2>3
    <3>2. Until(tapUntil) = tapLeft BY <2>2, <2>3 DEF TapRuns
    <3> QED BY <1>1, <1>3, <2>1, <2>2, <2>3, <3>1, <3>2, Nearer
  <2>4. ASSUME tapUntil # 0, tapLeft = 1 PROVE tapLeft' = 0 /\ Since(tapUntil)' <= stalled'
    <3>1. tapLeft' = 0 BY <1>1, <1>4, <2>4
    <3>2. Until(tapUntil) = 1 BY <2>2, <2>4 DEF TapRuns
    <3>3. Since(tapUntil)' = 0 BY <1>1, <1>3, <2>1, <3>2, Nearer
    <3> QED BY <1>15, <2>4, <3>1, <3>3
  <2>5. ASSUME tapUntil # 0, tapLeft = 0 PROVE tapLeft' = 0 /\ Since(tapUntil)' <= stalled'
    <3>1. tapLeft' = 0 BY <1>1, <1>4, <2>5
    <3>2. Since(tapUntil) <= stalled BY <2>2, <2>5 DEF TapRuns
    <3> QED BY <1>1, <1>3, <1>15, <2>1, <2>5, <3>1, <3>2, Nearer
  <2>6. tapLeft > 1 \/ tapLeft = 1 \/ tapLeft = 0 BY <2>2
  <2> QED BY <1>5, <2>3, <2>4, <2>5, <2>6 DEF TapRuns
<1>18. ClickRuns'
  <2>1. Asked' BY <1>1, <1>5 DEF IInv, Runs, ClickRuns, Asked
  <2>2. /\ Until(clickAt)' = (clickAt - now') % Word
        /\ Since(clickAt)' = (now' - clickAt) % Word
    BY <1>5 DEF Until, Since
  <2>3. ASSUME clickAt # 0, NEW b \in (injMouse.buttons \cap clickBits) \ wanted
        PROVE  \/ press'[b] > 0 /\ Until(clickAt)' = press'[b]
               \/ Since(clickAt)' <= stalled'
    <3>1. \/ press[b] > 0 /\ Until(clickAt) = press[b]
          \/ Since(clickAt) <= stalled
      BY <2>3 DEF IInv, Runs, ClickRuns, Clicked
    <3>2. b \in Buttons BY <2>3 DEF IInv, Types, MouseType
    <3>3. press[b] \in Nat /\ press'[b] = Less(press[b]) BY <1>1, <1>3, <3>2, Clock
    <3>4. CASE Since(clickAt) <= stalled BY <1>1, <1>3, <1>15, <2>2, <2>3, <3>4, Nearer
    <3>5. CASE press[b] = 1 /\ Until(clickAt) = 1
      <4>1. Since(clickAt)' = 0 BY <1>1, <1>3, <2>2, <3>5, Nearer
      <4> QED BY <1>15, <2>3, <4>1
    <3>6. CASE press[b] > 1 /\ Until(clickAt) = press[b]
      <4>1. press'[b] = press[b] - 1 /\ press'[b] > 0 BY <1>4, <3>3, <3>6
      <4> QED BY <1>1, <1>3, <2>2, <3>3, <3>6, <4>1, Nearer
    <3> QED BY <3>1, <3>3, <3>4, <3>5, <3>6
  <2>4. Clicked' BY <1>1, <1>5, <2>3 DEF Clicked
  <2> QED BY <2>1, <2>4 DEF ClickRuns
<1>19. MovesShownOnce' BY <1>1, <1>5 DEF IInv, Runs, MovesShownOnce
<1>20. IInv'
  BY <1>6, <1>7, <1>8, <1>9, <1>10, <1>11, <1>12, <1>13, <1>16, <1>17, <1>18, <1>19
     DEF IInv, Types, Runs
<1>21. ASSUME KnownInv PROVE KnownInv'
  <2>1. UNCHANGED heldVars BY <1>1, <1>5 DEF heldVars
  <2>2. HeldInv' BY <1>21, <2>1, HeldStays DEF KnownInv
  <2>3. Underway'
    <3>1. CASE phase = "identity"
      <4>1. waited' = waited + 1 /\ beat' = beat + 1 /\ hostResidue' = hostResidue BY <1>2, <3>1
      <4>2. waited <= beat => waited' <= beat' BY <1>3, <4>1
      <4> QED BY <1>1, <1>21, <4>1, <4>2 DEF KnownInv, Underway, Identity
    <3>2. CASE phase # "identity" BY <1>1, <3>2 DEF Underway
    <3> QED BY <3>1, <3>2
  <2> QED BY <2>2, <2>3 DEF KnownInv
<1> QED BY <1>20, <1>21

LEMMA PollKeeps ==
    ASSUME IInv, Poll
    PROVE  IInv' /\ (KnownInv => KnownInv')
<1>1. /\ ready' = TRUE /\ UNCHANGED boot /\ UNCHANGED kbd /\ UNCHANGED mouse
      /\ UNCHANGED masks /\ UNCHANGED clock /\ UNCHANGED parsers /\ UNCHANGED rebootReq
      /\ seen' = seen /\ UNCHANGED right /\ wire' = wire /\ UNCHANGED history
  BY DEF Poll
<1>2. /\ UNCHANGED timing /\ missed' = missed /\ owed' = owed /\ clean' = clean /\ early' = early
  BY <1>1 DEF history
<1>3. device' = device /\ held' = held /\ attached' = attached /\ beat' = beat BY <1>1 DEF right
<1>4. UNCHANGED <<phase, role, seen, realKeys, realMouse, maskUntil, tapUntil, clickAt>>
  BY <1>1 DEF boot, kbd, mouse, masks
<1>5. /\ BootType' /\ KbdType' /\ MouseType' /\ MaskType' /\ ClockType' /\ ParserType'
      /\ RightType' /\ WireType' /\ TimingType' /\ Blank'
  BY <1>1, <1>2, <1>3, <1>4, TypesStay DEF IInv, Types
<1>6. FlagType'
  <2>1. ready' \in BOOLEAN BY <1>1
  <2> QED BY <1>1, <1>2, <2>1 DEF IInv, Types, FlagType
<1>7. Runs'
  <2>1. UNCHANGED maskVars BY <1>1, <1>2 DEF masks, clock, timing, maskVars
  <2>2. UNCHANGED tapVars BY <1>1, <1>2 DEF kbd, clock, timing, tapVars
  <2>3. UNCHANGED clickVars BY <1>1, <1>2 DEF mouse, clock, timing, clickVars
  <2>4. UNCHANGED moveVars BY <1>1, <1>2 DEF mouse, moveVars
  <2> QED BY <2>1, <2>2, <2>3, <2>4, MaskStaysRunning, TapStays, ClickStays, MovesStay
          DEF IInv, Runs
<1>8. IInv' BY <1>5, <1>6, <1>7 DEF IInv, Types
<1>9. UNCHANGED heldVars BY <1>1, <1>2, <1>3, <1>4 DEF heldVars, masks
<1>10. UNCHANGED earlyVars BY <1>1, <1>2, <1>3 DEF earlyVars, boot, parsers
<1> QED BY <1>8, <1>9, <1>10, HeldStays, EarlyStays DEF KnownInv

LEMMA StutterKeeps ==
    ASSUME IInv, UNCHANGED vars
    PROVE  IInv' /\ (KnownInv => KnownInv')
<1>1. /\ UNCHANGED boot /\ UNCHANGED kbd /\ UNCHANGED mouse /\ UNCHANGED masks
      /\ UNCHANGED clock /\ UNCHANGED parsers /\ UNCHANGED rebootReq /\ UNCHANGED usb
      /\ UNCHANGED right /\ wire' = wire /\ UNCHANGED commands /\ UNCHANGED history
  BY DEF vars
<1>2. UNCHANGED left BY <1>1 DEF left
<1>3. device' = device /\ held' = held /\ attached' = attached /\ beat' = beat BY <1>1 DEF right
<1>4. RightType' /\ WireType' BY <1>1, <1>3, TypesStay DEF IInv, Types
<1>5. IInv' BY <1>2, <1>4, LeftStays DEF IInv, Types
<1>6. UNCHANGED heldVars BY <1>1, <1>3 DEF heldVars, boot, kbd, mouse, masks, history
<1>7. UNCHANGED earlyVars BY <1>1, <1>3 DEF earlyVars, boot, parsers, history
<1> QED BY <1>5, <1>6, <1>7, HeldStays, EarlyStays DEF KnownInv

-----------------------------------------------------------------------------
(* The beginning, and a restart.                                           *)

Rested == /\ KbdType /\ MouseType /\ MaskType /\ ClockType /\ ParserType /\ TimingType
          /\ Blank /\ Runs /\ waited \in 0..IdWait
          /\ rebootReq \in BOOLEAN /\ ready \in BOOLEAN /\ clean \in BOOLEAN /\ owed \in Int
          /\ Real = {} /\ GhostRests

LEMMA OffIs == Off => Rested
<1> SUFFICES ASSUME Off PROVE Rested OBVIOUS
<1>1. /\ phase = "identity" /\ waited = 0 /\ role = "unknown"
      /\ realKeys = NoKeys /\ injKeys = NoKeys /\ tapKeys = NoKeys /\ tapUntil = 0
      /\ realMouse = AtRest /\ injMouse = AtRest /\ clickBits = {} /\ clickAt = 0
      /\ ghost = FALSE /\ maskUntil = 0 /\ now = 0 /\ emitted = FALSE /\ stalled = 0
      /\ hostResidue = 0 /\ pcResidue = 0 /\ line = NoLine /\ rebootReq = FALSE
      /\ ready = TRUE /\ seen = {} /\ maskLeft = 0 /\ tapLeft = 0
      /\ press = [b \in Buttons |-> 0] /\ overrun = FALSE /\ wanted = {} /\ owed = 0
      /\ clean = TRUE
  BY DEF Off
<1>2. NoKeys \in KeyReports /\ AtRest \in MouseStates /\ 0 \in Times /\ Down(NoKeys) = {}
      /\ AtRest.buttons = {} /\ AtRest.d = 0 /\ IdWait \in Nat
      /\ HostResidue \in Nat /\ PcResidue \in Nat
  BY ConstantTypes
<1>3. 0 \in 0..(Word \div 2 - 1) /\ 0 \in 0..MaskMax /\ 0 \in 0..MaxStall BY Clock
<1>4. KbdType BY <1>1, <1>2 DEF KbdType
<1>5. MouseType BY <1>1, <1>2 DEF MouseType
<1>6. MaskType
  <2>1. ghost \in BOOLEAN BY <1>1
  <2> QED BY <1>1, <1>2, <2>1 DEF MaskType
<1>7. ClockType
  <2>1. emitted \in BOOLEAN BY <1>1
  <2> QED BY <1>1, <1>2, <1>3, <2>1 DEF ClockType
<1>8. ParserType BY <1>1, <1>2 DEF ParserType
<1>9. TimingType
  <2>1. overrun \in BOOLEAN BY <1>1
  <2>2. press \in [Buttons -> 0..(Word \div 2 - 1)] BY <1>1, <1>3
  <2> QED BY <1>1, <1>3, <2>1, <2>2 DEF TimingType
<1>10. Blank BY <1>1 DEF Blank
<1>11. Runs BY <1>1, <1>2 DEF Runs, MaskRuns, TapRuns, ClickRuns, Asked, Clicked, MovesShownOnce
<1>12. rebootReq \in BOOLEAN /\ ready \in BOOLEAN /\ clean \in BOOLEAN
  <2>1. rebootReq \in BOOLEAN BY <1>1
  <2>2. ready \in BOOLEAN BY <1>1
  <2>3. clean \in BOOLEAN BY <1>1
  <2> QED BY <2>1, <2>2, <2>3
<1>13. Real = {} BY <1>1, <1>2 DEF Real
<1>14. GhostRests BY <1>1 DEF GhostRests
<1> QED BY <1>1, <1>2, <1>4, <1>5, <1>6, <1>7, <1>8, <1>9, <1>10, <1>11, <1>12, <1>13, <1>14
        DEF Rested

LEMMA InitIs == Init => IInv /\ KnownInv
<1> SUFFICES ASSUME Init PROVE IInv /\ KnownInv OBVIOUS
<1>1. /\ Off /\ device \in Devices /\ attached \in BOOLEAN /\ held = <<>> /\ beat \in 0..Beat
      /\ wire = <<>> /\ events = 0 /\ missed = "none" /\ early = attached
  BY DEF Init
<1>2. phase = "identity" /\ waited = 0 /\ role = "unknown" /\ hostResidue = 0
  BY <1>1 DEF Off
<1>3. BootType BY <1>2, ConstantTypes DEF BootType
<1>4. RightType
  <2>1. held \in Seq(Inputs) /\ Len(held) <= Slots BY <1>1, Natural
  <2> QED BY <1>1, <2>1 DEF RightType
<1>5. WireType
  <2>1. wire \in Seq(Frames) /\ Len(wire) = 0 BY <1>1
  <2> QED BY <2>1, ConstantTypes DEF WireType
<1>6. FlagType BY <1>1, OffIs DEF Rested, FlagType
<1>7. IInv BY <1>1, <1>3, <1>4, <1>5, <1>6, OffIs DEF Rested, IInv, Types
<1>8. HeardLast BY <1>1 DEF HeardLast
<1>9. HeldKept
  <2>1. Range(held) = {} BY <1>1 DEF Range
  <2> QED BY <1>1, <2>1, OffIs DEF Rested, HeldKept
<1>10. Underway BY <1>1, <1>2 DEF Underway
<1> QED BY <1>1, <1>7, <1>8, <1>9, <1>10, OffIs DEF Rested, KnownInv, HeldInv

LEMMA RestartKeeps ==
    ASSUME IInv, Restart
    PROVE  IInv' /\ (KnownInv => KnownInv')
<1>1. /\ Off' /\ beat' \in 0..Beat /\ wire' = <<>> /\ missed' = "some" /\ early' = attached
      /\ UNCHANGED <<device, attached, held, events>>
  BY DEF Restart, Off
<1>2. phase' = "identity" /\ waited' = 0 /\ role' = "unknown" /\ hostResidue' = 0
  BY <1>1 DEF Off
<1>3. /\ KbdType' /\ MouseType' /\ MaskType' /\ ClockType' /\ ParserType' /\ TimingType'
      /\ Blank' /\ Runs' /\ rebootReq' \in BOOLEAN /\ ready' \in BOOLEAN /\ clean' \in BOOLEAN
      /\ owed' \in Int /\ Real' = {} /\ GhostRests'
  <2>1. Rested' BY <1>1, OffIs, PTL
  <2> QED BY <2>1 DEF Rested
<1>4. BootType' BY <1>2, ConstantTypes DEF BootType
<1>5. RightType' BY <1>1 DEF IInv, Types, RightType, Inputs
<1>6. WireType'
  <2>1. wire' \in Seq(Frames') /\ Len(wire') = 0 BY <1>1
  <2> QED BY <2>1, ConstantTypes DEF WireType
<1>7. FlagType' BY <1>1, <1>3 DEF IInv, Types, RightType, FlagType
<1>8. IInv' BY <1>3, <1>4, <1>5, <1>6, <1>7 DEF IInv, Types
<1>9. HeardLast' BY <1>1 DEF HeardLast
<1>10. HeldKept' BY <1>1, <1>3 DEF HeldKept
<1>11. Underway' BY <1>1, <1>2 DEF IInv, Types, RightType, Underway
<1> QED BY <1>3, <1>8, <1>9, <1>10, <1>11 DEF KnownInv, HeldInv

-----------------------------------------------------------------------------
(* Every step.                                                             *)

LEMMA NextKeeps ==
    ASSUME IInv, [Next]_vars
    PROVE  IInv' /\ (KnownInv /\ "last" \notin Fates => KnownInv')
<1>1. CASE DeviceEvent BY <1>1, DeviceEventKeeps
<1>2. CASE Attach BY <1>2, AttachKeeps
<1>3. CASE Detach BY <1>3, DetachKeeps
<1>4. CASE Heartbeat BY <1>4, HeartbeatKeeps
<1>5. CASE WaitFrame BY <1>5, WaitFrameKeeps
<1>6. CASE WaitOver BY <1>6, WaitOverKeeps
<1>7. CASE HostFrame BY <1>7, HostFrameKeeps
<1>8. CASE \E c \in Commands : BinaryCommand(c) \/ AsciiCommand(c)
  BY <1>8, BinaryCommandKeeps, AsciiCommandKeeps
<1>9. CASE Tick BY <1>9, TickKeeps
<1>10. CASE Elapse BY <1>10, ElapseKeeps
<1>11. CASE Poll BY <1>11, PollKeeps
<1>12. CASE Restart BY <1>12, RestartKeeps
<1>13. CASE UNCHANGED vars BY <1>13, StutterKeeps
<1> QED BY <1>1, <1>2, <1>3, <1>4, <1>5, <1>6, <1>7, <1>8, <1>9, <1>10, <1>11, <1>12, <1>13
        DEF Next

LEMMA Invariance == Spec => []IInv
<1>1. Init => IInv BY InitIs
<1>2. IInv /\ [Next]_vars => IInv' BY NextKeeps
<1> QED BY <1>1, <1>2, PTL DEF Spec

LEMMA KnownInvariance ==
    ASSUME "last" \notin Fates
    PROVE  Spec => [](IInv /\ KnownInv)
<1>1. Init => IInv /\ KnownInv BY InitIs
<1>2. (IInv /\ KnownInv) /\ [Next]_vars => (IInv /\ KnownInv)' BY NextKeeps
<1> QED BY <1>1, <1>2, PTL DEF Spec

-----------------------------------------------------------------------------
(* Results.                                                                *)

(* Everything the two boards keep has the type the code gives it, the wire *)
(* and the parsers stay within their limits, and nothing is read or shown  *)
(* before waitForIdentity has returned.                                    *)
THEOREM BoxInvHolds == Spec => []BoxInv
<1>1. IInv => BoxInv
  <2> SUFFICES ASSUME IInv PROVE BoxInv OBVIOUS
  <2>1. /\ phase \in {"identity", "running"} /\ waited \in 0..IdWait
        /\ role \in Devices \cup {"keyboard", "unknown", "other"}
    BY DEF IInv, Types, BootType
  <2>2. {realKeys, injKeys, tapKeys} \subseteq KeyReports BY DEF IInv, Types, KbdType
  <2>3. {realMouse, injMouse} \subseteq MouseStates /\ clickBits \subseteq Buttons
    BY DEF IInv, Types, MouseType
  <2>4. {tapUntil, clickAt, maskUntil, now} \subseteq 0..Word - 1
    BY DEF IInv, Types, KbdType, MouseType, MaskType, ClockType, Times
  <2>5. {ghost, emitted, rebootReq, ready, attached, clean, early, overrun} \subseteq BOOLEAN
    BY DEF IInv, Types, MaskType, ClockType, FlagType, RightType, TimingType
  <2>6. missed \in {"none", "some", "stale"} BY DEF IInv, Types, FlagType
  <2>7. hostResidue \in 0..HostResidue + 1 /\ pcResidue \in 0..PcResidue + 1
    BY DEF IInv, Types, ParserType
  <2>8. Len(wire) <= WireCap BY DEF IInv, Types, WireType
  <2>9. phase = "identity" => /\ role = "unknown" /\ seen = {}
                              /\ realKeys = NoKeys /\ realMouse = AtRest
    BY DEF IInv, Types, Blank
  <2> QED BY <2>1, <2>2, <2>3, <2>4, <2>5, <2>6, <2>7, <2>8, <2>9 DEF BoxInv
<1> QED BY <1>1, Invariance, PTL

(* Every displacement asked for is shown exactly once or withheld, however *)
(* moves, cancels, ghosts, masks and reports follow each other.            *)
THEOREM MovesShownOnceHolds == Spec => []MovesShownOnce
<1>1. IInv => MovesShownOnce BY DEF IInv, Runs
<1> QED BY <1>1, Invariance, PTL

(* With the last report of the device come through, the left board holds   *)
(* what is held; and nothing else after a ghost or a restart.  A changed   *)
(* last byte would pass the check of the frame, so it is excluded here.    *)
THEOREM HeldIsKnownHolds ==
    ASSUME "last" \notin Fates
    PROVE  Spec => []HeldIsKnown
<1>1. IInv /\ KnownInv => HeldIsKnown
  BY DEF KnownInv, HeldInv, HeldKept, HeldIsKnown, Known, Takes
<1> QED BY <1>1, KnownInvariance, PTL

LEMMA HeardStep ==
    ASSUME "last" \notin Fates, IInv, KnownInv, [Next]_vars,
           phase = "identity", phase' = "running", early
    PROVE  role' = device
<1>1. CASE WaitFrame
  <2>1. PICK fate \in Fates :
          \/ \E f \in {g \in Readings(Head(wire), fate) : TellsRole(g)} : Begin(f.role)
          \/ UNCHANGED boot
    BY <1>1 DEF WaitFrame
  <2>2. ~UNCHANGED boot BY DEF boot
  <2>3. PICK f \in Readings(Head(wire), fate) : TellsRole(f) /\ Begin(f.role) BY <2>1, <2>2
  <2>4. wire # <<>> /\ wire \in Seq(Frames) BY <1>1 DEF WaitFrame, IInv, Types, WireType
  <2>5. Head(wire) \in Frames BY <2>4
  <2>6. f = Head(wire) BY <2>3, <2>5, ReadingsAre
  <2>7. f = Identity BY <2>3, <2>5, <2>6, FrameIs DEF TellsRole
  <2> QED BY <2>3, <2>7 DEF Begin, Identity
<1>2. CASE WaitOver BY <1>2, WaitOverKeeps
<1>3. CASE DeviceEvent \/ Attach \/ Heartbeat
  <2>1. UNCHANGED left BY <1>3 DEF DeviceEvent, Attach, Heartbeat
  <2> QED BY <2>1 DEF left, boot
<1>4. CASE Detach BY <1>4 DEF Detach, boot
<1>5. CASE HostFrame BY <1>5 DEF HostFrame
<1>6. CASE \E c \in Commands : BinaryCommand(c) \/ AsciiCommand(c)
  BY <1>6 DEF BinaryCommand, AsciiCommand, Command
<1>7. CASE Tick BY <1>7 DEF Tick
<1>8. CASE Elapse BY <1>8 DEF Elapse
<1>9. CASE Poll BY <1>9 DEF Poll, boot
<1>10. CASE Restart BY <1>10 DEF Restart
<1>11. CASE UNCHANGED vars BY <1>11 DEF vars, boot
<1> QED BY <1>1, <1>2, <1>3, <1>4, <1>5, <1>6, <1>7, <1>8, <1>9, <1>10, <1>11 DEF Next

(* A device that was there when the left board started, and whose frames   *)
(* arrive, is what it is taken for: the identity is repeated more often    *)
(* than waitForIdentity gives up.                                          *)
THEOREM IdentityIsHeardHolds ==
    ASSUME "last" \notin Fates
    PROVE  Spec => IdentityIsHeard
<1>1. (IInv /\ KnownInv) /\ [Next]_vars =>
        [phase = "identity" /\ phase' = "running" /\ early => role' = device]_vars
  BY HeardStep
<1> QED BY <1>1, KnownInvariance, PTL DEF Spec, IdentityIsHeard

(* Only a turn of the loop reports.                                        *)
LEMMA OnlyTickEmits ==
    ASSUME IInv, [Next]_vars, Emits
    PROVE  Tick /\ Emit
<1>1. phase = "running" /\ ~emitted /\ emitted' BY DEF Emits
<1>2. ~UNCHANGED clock BY <1>1 DEF clock
<1>3. CASE DeviceEvent \/ Attach \/ Heartbeat
  <2>1. UNCHANGED left BY <1>3 DEF DeviceEvent, Attach, Heartbeat
  <2> QED BY <1>2, <2>1 DEF left
<1>4. CASE Detach BY <1>2, <1>4 DEF Detach
<1>5. CASE WaitFrame \/ WaitOver BY <1>1, <1>5 DEF WaitFrame, WaitOver
<1>6. CASE HostFrame BY <1>2, <1>6 DEF HostFrame
<1>7. CASE \E c \in Commands : BinaryCommand(c) \/ AsciiCommand(c)
  BY <1>2, <1>7 DEF BinaryCommand, AsciiCommand, Command
<1>8. CASE Tick BY <1>1, <1>8 DEF Tick
<1>9. CASE Elapse BY <1>1, <1>9 DEF Elapse
<1>10. CASE Poll BY <1>2, <1>10 DEF Poll
<1>11. CASE Restart BY <1>1, <1>11 DEF Restart
<1>12. CASE UNCHANGED vars BY <1>2, <1>12 DEF vars
<1> QED BY <1>3, <1>4, <1>5, <1>6, <1>7, <1>8, <1>9, <1>10, <1>11, <1>12 DEF Next

(* What a report shows.                                                    *)
LEMMA Shown ==
    ASSUME IInv, Tick, Emit, ready, role = device
    PROVE  /\ tapKeys' = (IF TapOver THEN NoKeys ELSE tapKeys) /\ tapKeys' \in KeyReports
           /\ maskUntil' = (IF MaskOver THEN 0 ELSE maskUntil)
           /\ device \in {"keyboard", "mouse"}
           /\ LET drop == ghost \/ maskUntil' # 0
              IN  seen' = IF device = "keyboard" THEN ShownKeys(drop) ELSE ShownButtons(drop)
           /\ injMouse'.buttons = HeldAfter
<1>1. device \in {"keyboard", "mouse"}
  BY ConstantTypes DEF IInv, Types, RightType
<1>2. tapKeys' = IF TapOver THEN NoKeys ELSE tapKeys BY DEF Tick, Expire
<1>3. tapKeys' \in KeyReports BY <1>2, ConstantTypes DEF IInv, Types, KbdType
<1>4. maskUntil' = (IF MaskOver THEN 0 ELSE maskUntil) /\ injMouse'.buttons = HeldAfter
  BY EmitIs
<1>5. LET drop == ghost \/ maskUntil' # 0
      IN  seen' = IF device = "keyboard" THEN ShownKeys(drop) ELSE ShownButtons(drop)
  BY <1>1 DEF Emit
<1> QED BY <1>1, <1>2, <1>3, <1>4, <1>5

LEMMA MaskedShown ==
    ASSUME IInv, Tick, Emit, ready, role = device, maskLeft > 0
    PROVE  seen' \subseteq Injected
<1>1. maskUntil' # 0 BY Shown, Due
<1>2. seen' = IF device = "keyboard" THEN ShownKeys(TRUE) ELSE ShownButtons(TRUE)
  BY <1>1, Shown
<1>3. CASE device = "keyboard"
  <2>1. seen' = Down(Merge(injKeys, tapKeys')) BY <1>2, <1>3 DEF ShownKeys
  <2>2. injKeys \in KeyReports /\ tapKeys' \in KeyReports BY Shown DEF IInv, Types, KbdType
  <2>3. seen' \subseteq Down(injKeys) \cup Down(tapKeys') BY <2>1, <2>2, MergeShows
  <2>4. Down(tapKeys') \subseteq Down(tapKeys) BY Shown, ConstantTypes
  <2> QED BY <2>3, <2>4 DEF Injected
<1>4. CASE device # "keyboard" BY <1>2, <1>4 DEF ShownButtons, HeldAfter, Injected
<1> QED BY <1>3, <1>4

LEMMA UnmaskedShown ==
    ASSUME IInv, KnownInv, Tick, Emit, ready, role = device, maskLeft = 0, maskUntil # 1,
           ~ghost, Known, Fits
    PROVE  Range(held) \subseteq seen'
<1>1. maskUntil' = 0 BY Shown, Due
<1>2. seen' = IF device = "keyboard" THEN ShownKeys(FALSE) ELSE ShownButtons(FALSE)
  BY <1>1, Shown
<1>3. Real = Range(held) BY DEF KnownInv, HeldInv, HeldKept, Known, Takes
<1>4. CASE device = "keyboard"
  <2>1. seen' = Down(Merge(Merge(injKeys, realKeys), tapKeys')) BY <1>2, <1>4 DEF ShownKeys
  <2>2. injKeys \in KeyReports /\ realKeys \in KeyReports /\ tapKeys \in KeyReports
        /\ tapKeys' \in KeyReports
    BY Shown DEF IInv, Types, KbdType
  <2>3. Down(realKeys) = Range(held) BY <1>3, <1>4 DEF Real
  <2> DEFINE C == (Down(tapKeys) \cup Range(held)) \ Down(injKeys)
  <2>4. IsFiniteSet(C)
    <3>1. IsFiniteSet(Down(tapKeys)) /\ IsFiniteSet(Down(realKeys)) BY <2>2, Finite
    <3>2. IsFiniteSet(Down(tapKeys) \cup Range(held)) BY <2>3, <3>1, FS_Union
    <3>3. C \in SUBSET (Down(tapKeys) \cup Range(held)) OBVIOUS
    <3> QED BY <3>2, <3>3, FS_Subset
  <2>5. Down(realKeys) \ Down(injKeys) \subseteq C BY <2>3
  <2>6. Cardinality(Taken(injKeys)) + Cardinality(C) <= Slots BY <1>4 DEF Fits
  <2> HIDE DEF C
  <2>7. Down(realKeys) \subseteq Down(Merge(Merge(injKeys, realKeys), tapKeys'))
    BY <2>2, <2>4, <2>5, <2>6, RealShown
  <2> QED BY <2>1, <2>3, <2>7
<1>5. CASE device # "keyboard"
  <2>1. realMouse.buttons = Range(held) BY <1>3, <1>5 DEF Real
  <2> QED BY <1>2, <1>5, <2>1 DEF ShownButtons
<1> QED BY <1>4, <1>5

LEMMA PressesOver ==
    ASSUME IInv, Tick, Emit, ready, role = device
    PROVE  /\ tapLeft = 0 /\ tapUntil # 0 => tapKeys' = NoKeys
           /\ ~overrun /\ (clickAt # 0 \/ clickBits = {}) => \A b \in injMouse'.buttons : Mine(b)
<1>1. tapLeft = 0 /\ tapUntil # 0 => tapKeys' = NoKeys BY Shown, Due
<1>2. ASSUME ~overrun, clickAt # 0 \/ clickBits = {}, NEW b \in injMouse'.buttons PROVE Mine(b)
  <2>1. b \in HeldAfter BY <1>2, Shown
  <2>2. injMouse.buttons \subseteq wanted \cup clickBits
    BY <1>2 DEF IInv, Runs, ClickRuns, Asked
  <2>3. CASE b \in wanted BY <2>3 DEF Mine
  <2>4. CASE b \notin wanted
    <3>1. b \in injMouse.buttons /\ b \in clickBits /\ ~ClickOver
      BY <2>1, <2>2, <2>4 DEF HeldAfter
    <3>2. clickAt # 0 BY <1>2, <3>1
    <3>3. press[b] > 0 BY <2>4, <3>1, <3>2, Due
    <3> QED BY <3>3 DEF Mine
  <2> QED BY <2>3, <2>4
<1> QED BY <1>1, <1>2

(* While a mask runs no report shows real input, and the first after it    *)
(* shows all of it again, keys held all along included; no report shows a  *)
(* tapped key or a clicked button beyond its time.                         *)
THEOREM TimedHoldsEndHolds ==
    ASSUME "last" \notin Fates
    PROVE  Spec => TimedHoldsEnd
<1>1. (IInv /\ KnownInv) /\ [Next]_vars =>
        [Emits => /\ maskLeft > 0 => seen' \subseteq Injected
                  /\ maskLeft = 0 /\ maskUntil # 1 /\ ~ghost /\ Known /\ Fits
                          => Range(held) \subseteq seen']_vars
  <2> SUFFICES ASSUME IInv, KnownInv, [Next]_vars, Emits
               PROVE  /\ maskLeft > 0 => seen' \subseteq Injected
                      /\ maskLeft = 0 /\ maskUntil # 1 /\ ~ghost /\ Known /\ Fits
                          => Range(held) \subseteq seen'
    OBVIOUS
  <2>1. Tick /\ Emit /\ ready /\ role = device BY OnlyTickEmits DEF Emits
  <2> QED BY <2>1, MaskedShown, UnmaskedShown
<1>2. (IInv /\ KnownInv) /\ [Next]_vars =>
        [Emits => /\ tapLeft = 0 /\ tapUntil # 0 => tapKeys' = NoKeys
                  /\ ~overrun /\ (clickAt # 0 \/ clickBits = {})
                       => \A b \in injMouse'.buttons : Mine(b)]_vars
  <2> SUFFICES ASSUME IInv, [Next]_vars, Emits
               PROVE  /\ tapLeft = 0 /\ tapUntil # 0 => tapKeys' = NoKeys
                      /\ ~overrun /\ (clickAt # 0 \/ clickBits = {})
                           => \A b \in injMouse'.buttons : Mine(b)
    OBVIOUS
  <2>1. Tick /\ Emit /\ ready /\ role = device BY OnlyTickEmits DEF Emits
  <2> QED BY <2>1, PressesOver
<1> QED BY <1>1, <1>2, KnownInvariance, PTL
        DEF Spec, TimedHoldsEnd, MaskIsTimed, TimedPressesEnd
=============================================================================
