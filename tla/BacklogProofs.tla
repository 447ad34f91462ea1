--------------------------- MODULE BacklogProofs ---------------------------
(***************************************************************************)
(* Proofs about Backlog: what one sweep leaves of a directory, for any     *)
(* limits and a listing of any length and order.                           *)
(***************************************************************************)
EXTENDS Backlog, Integers, SequenceTheorems, FiniteSetTheorems, TLAPS

(***************************************************************************)
(* How many members of a set of numbers come before each of them: a        *)
(* numbering of the set, from 0.                                           *)
(***************************************************************************)
LEMMA BeforeBounds ==
    ASSUME NEW S, S \subseteq Nat, IsFiniteSet(S), NEW i \in Nat
    PROVE  /\ Before(i, S) \in Nat
           /\ \A T \in SUBSET S : Before(i, T) \in Nat /\ Before(i, T) <= Before(i, S)
           /\ Before(i, S) <= Cardinality(S)
<1>1. ASSUME NEW T \in SUBSET S
      PROVE  /\ IsFiniteSet({j \in T : j < i}) /\ Before(i, T) \in Nat
             /\ Before(i, T) <= Before(i, S) /\ Before(i, T) <= Cardinality(S)
  <2>1. {j \in T : j < i} \subseteq {j \in S : j < i}
    OBVIOUS
  <2>2. IsFiniteSet({j \in S : j < i})
        /\ Cardinality({j \in S : j < i}) <= Cardinality(S)
    <3>1. {j \in S : j < i} \in SUBSET S
      OBVIOUS
    <3>2. QED
      BY <3>1, FS_Subset
  <2>3. IsFiniteSet({j \in T : j < i})
        /\ Cardinality({j \in T : j < i}) <= Cardinality({j \in S : j < i})
    BY <2>1, <2>2, FS_Subset
  <2>4. /\ Cardinality({j \in T : j < i}) \in Nat /\ Cardinality({j \in S : j < i}) \in Nat
        /\ Cardinality(S) \in Nat
    BY <2>2, <2>3, FS_CardinalityType
  <2>5. QED
    BY <2>2, <2>3, <2>4 DEF Before
<1>2. QED
  BY <1>1

\* A member of the set is one more that comes before what comes behind it.
LEMMA BeforeGrows ==
    ASSUME NEW S, S \subseteq Nat, IsFiniteSet(S), NEW i \in S
    PROVE  /\ Before(i, S) < Cardinality(S)
           /\ \A j \in S : i < j => Before(i, S) < Before(j, S)
<1> DEFINE B == {k \in S : k < i}
<1>1. IsFiniteSet(B) /\ i \notin B
  <2>1. B \in SUBSET S
    OBVIOUS
  <2>2. QED
    BY <2>1, FS_Subset
<1>2. /\ Cardinality(B) \in Nat /\ Cardinality(B \cup {i}) = Cardinality(B) + 1
      /\ IsFiniteSet(B \cup {i})
  BY <1>1, FS_AddElement, FS_CardinalityType
<1>3. ASSUME NEW T, IsFiniteSet(T), B \cup {i} \subseteq T
      PROVE  Cardinality(B) < Cardinality(T)
  <2>1. Cardinality(B \cup {i}) <= Cardinality(T) /\ Cardinality(T) \in Nat
    BY <1>3, FS_Subset, FS_CardinalityType
  <2>2. QED
    BY <1>2, <2>1
<1>4. Before(i, S) < Cardinality(S)
  BY <1>3 DEF Before
<1>5. ASSUME NEW j \in S, i < j PROVE Before(i, S) < Before(j, S)
  <2> DEFINE T == {k \in S : k < j}
  <2>1. IsFiniteSet(T)
    <3>1. T \in SUBSET S
      OBVIOUS
    <3>2. QED
      BY <3>1, FS_Subset
  <2>2. B \cup {i} \subseteq T
    <3>1. \A k \in S : k < i => k < j
      BY <1>5
    <3>2. QED
      BY <1>5, <3>1
  <2>3. Cardinality(B) < Cardinality(T)
    BY <1>3, <2>1, <2>2
  <2>4. QED
    BY <2>3 DEF Before
<1>6. QED
  BY <1>4, <1>5

LEMMA IntervalSize ==
    ASSUME NEW n \in Nat
    PROVE  IsFiniteSet(0..n - 1) /\ Cardinality(0..n - 1) = n
<1> DEFINE m == n - 1
<1>1. 0 \in Int /\ m \in Int
  OBVIOUS
<1>2. IsFiniteSet(0..m) /\ Cardinality(0..m) = IF 0 > m THEN 0 ELSE m - 0 + 1
  BY <1>1, FS_Interval
<1>3. (IF 0 > m THEN 0 ELSE m - 0 + 1) = n
  OBVIOUS
<1>4. QED
  BY <1>2, <1>3

Ranking(S) == [i \in S |-> Before(i, S)]

LEMMA RankingIsBijection ==
    ASSUME NEW S, S \subseteq Nat, IsFiniteSet(S)
    PROVE  /\ Cardinality(S) \in Nat
           /\ Ranking(S) \in Bijection(S, 0..Cardinality(S) - 1)
<1>1. Cardinality(S) \in Nat
  BY FS_CardinalityType
<1>2. \A i \in S : Before(i, S) \in 0..Cardinality(S) - 1
  <2> SUFFICES ASSUME NEW i \in S PROVE Before(i, S) \in 0..Cardinality(S) - 1
    OBVIOUS
  <2>1. Before(i, S) \in Nat
    BY BeforeBounds
  <2>2. Before(i, S) < Cardinality(S)
    BY BeforeGrows
  <2>3. QED
    BY <1>1, <2>1, <2>2
<1>3. \A i, j \in S : Before(i, S) = Before(j, S) => i = j
  <2> SUFFICES ASSUME NEW i \in S, NEW j \in S, i < j
               PROVE  Before(i, S) # Before(j, S)
    OBVIOUS
  <2>1. Before(i, S) < Before(j, S)
    BY BeforeGrows
  <2>2. Before(i, S) \in Nat /\ Before(j, S) \in Nat
    BY BeforeBounds
  <2>3. QED
    BY <2>1, <2>2
<1>4. Ranking(S) \in Injection(S, 0..Cardinality(S) - 1)
  BY <1>2, <1>3 DEF Ranking, Injection, IsInjective
<1>5. IsFiniteSet(0..Cardinality(S) - 1) /\ Cardinality(0..Cardinality(S) - 1) = Cardinality(S)
  BY <1>1, IntervalSize
<1>6. Ranking(S) \in Surjection(S, 0..Cardinality(S) - 1)
  BY <1>4, <1>5, FS_Injection
<1>7. QED
  BY <1>1, <1>4, <1>6 DEF Bijection

LEMMA NthExists ==
    ASSUME NEW S, S \subseteq Nat, IsFiniteSet(S), NEW n \in 0..Cardinality(S) - 1
    PROVE  \E i \in S : Before(i, S) = n
BY RankingIsBijection DEF Bijection, Surjection, Ranking

LEMMA RanksDiffer ==
    ASSUME NEW S, S \subseteq Nat, IsFiniteSet(S), NEW i \in S, NEW j \in S,
           Before(i, S) = Before(j, S)
    PROVE  i = j
BY RankingIsBijection DEF Bijection, Injection, IsInjective, Ranking

\* The first n members of a set are n.
LEMMA FirstAreMany ==
    ASSUME NEW S, S \subseteq Nat, IsFiniteSet(S), NEW n \in 0..Cardinality(S)
    PROVE  Cardinality({i \in S : Before(i, S) < n}) = n
<1> DEFINE F == {i \in S : Before(i, S) < n}
           f == [i \in F |-> Before(i, S)]
<1>1. Cardinality(S) \in Nat
  BY FS_CardinalityType
<1>2. IsFiniteSet(F)
  <2>1. F \in SUBSET S
    OBVIOUS
  <2>2. QED
    BY <2>1, FS_Subset
<1>3. f \in [F -> 0..n - 1]
  <2>1. \A i \in F : Before(i, S) \in Nat /\ Before(i, S) < n
    BY BeforeBounds
  <2>2. \A i \in F : Before(i, S) \in 0..n - 1
    BY <1>1, <2>1
  <2>3. QED
    BY <2>2
<1>4. \A i, j \in F : f[i] = f[j] => i = j
  BY RanksDiffer
<1>5. \A k \in 0..n - 1 : \E i \in F : f[i] = k
  <2> SUFFICES ASSUME NEW k \in 0..n - 1 PROVE \E i \in F : f[i] = k
    OBVIOUS
  <2>1. k \in 0..Cardinality(S) - 1 /\ k < n
    BY <1>1
  <2>2. PICK i \in S : Before(i, S) = k
    BY <2>1, NthExists
  <2>3. i \in F /\ f[i] = k
    BY <2>1, <2>2
  <2>4. QED
    BY <2>3
<1>6. f \in Bijection(F, 0..n - 1)
  BY <1>3, <1>4, <1>5 DEF Bijection, Injection, IsInjective, Surjection
<1>7. Cardinality(0..n - 1) = n
  BY <1>1, IntervalSize
<1>8. ExistsBijection(F, 0..n - 1)
  BY <1>6 DEF ExistsBijection
<1>9. QED
  BY <1>2, <1>7, <1>8, FS_Bijection

(***************************************************************************)
(* What is left of a listing without some of its files.                    *)
(***************************************************************************)
LEMMA AmidIsFinite ==
    ASSUME NEW names \in Seq(Kinds), NEW kinds
    PROVE  /\ Amid(names, kinds) \subseteq Nat /\ IsFiniteSet(Amid(names, kinds))
           /\ Cardinality(Amid(names, kinds)) \in Nat
<1>1. DOMAIN names = 1..Len(names) /\ Len(names) \in Nat
  OBVIOUS
<1>2. IsFiniteSet(1..Len(names))
  BY <1>1, FS_Interval
<1>3. Amid(names, kinds) \in SUBSET (1..Len(names))
  BY <1>1 DEF Amid
<1>4. IsFiniteSet(Amid(names, kinds))
  BY <1>2, <1>3, FS_Subset
<1>5. QED
  BY <1>3, <1>4, FS_CardinalityType

LEMMA WithoutKeeps ==
    ASSUME NEW names \in Seq(Kinds), NEW gone
    PROVE  /\ Without(names, gone) \in Seq(Kinds)
           /\ \A kinds : Cardinality(Amid(Without(names, gone), kinds))
                             = Cardinality(Amid(names, kinds) \ gone)
<1> DEFINE kept == DOMAIN names \ gone
           Nth(n) == CHOOSE i \in kept : Before(i, kept) = n - 1
           after == Without(names, gone)
           size == Cardinality(kept)
<1>1. kept \subseteq Nat /\ IsFiniteSet(kept) /\ size \in Nat
  <2>1. DOMAIN names = 1..Len(names) /\ Len(names) \in Nat
    OBVIOUS
  <2>2. IsFiniteSet(1..Len(names))
    BY <2>1, FS_Interval
  <2>3. kept \in SUBSET (1..Len(names))
    BY <2>1
  <2>4. QED
    BY <2>2, <2>3, FS_Subset, FS_CardinalityType
<1>2. after = [n \in 1..size |-> names[Nth(n)]]
  BY DEF Without
<1>3. kept \subseteq DOMAIN names
  OBVIOUS
<1> HIDE DEF kept, after, size
<1>4. ASSUME NEW n \in 1..size
      PROVE  Nth(n) \in kept /\ Before(Nth(n), kept) = n - 1
  <2>1. n - 1 \in 0..Cardinality(kept) - 1
    BY <1>1 DEF size
  <2>2. \E i \in kept : Before(i, kept) = n - 1
    BY <1>1, <2>1, NthExists
  <2>3. QED
    BY <2>2
<1>5. ASSUME NEW i \in kept
      PROVE  \E n \in 1..size : Nth(n) = i
  <2>1. Before(i, kept) \in Nat /\ Before(i, kept) < size
    <3>1. i \in Nat
      BY <1>1
    <3>2. QED
      BY <1>1, <3>1, BeforeBounds, BeforeGrows DEF size
  <2> DEFINE n == Before(i, kept) + 1
  <2>2. n \in 1..size /\ n - 1 = Before(i, kept)
    BY <1>1, <2>1
  <2> HIDE DEF n
  <2>3. Nth(n) \in kept /\ Before(Nth(n), kept) = Before(i, kept)
    BY <1>4, <2>2
  <2>4. Nth(n) = i
    BY <1>1, <2>3, RanksDiffer
  <2>5. QED
    BY <2>2, <2>4
<1>6. ASSUME NEW m \in 1..size, NEW n \in 1..size, Nth(m) = Nth(n)
      PROVE  m = n
  <2>1. m - 1 = n - 1
    BY <1>4, <1>6
  <2>2. QED
    BY <1>1, <2>1
<1> HIDE DEF Nth
<1>7. after \in Seq(Kinds)
  <2>1. \A n \in 1..size : names[Nth(n)] \in Kinds
    BY <1>3, <1>4
  <2>2. QED
    BY <1>1, <1>2, <2>1
<1>8. DOMAIN after = 1..size /\ \A n \in 1..size : after[n] = names[Nth(n)]
  BY <1>2
<1>9. ASSUME NEW kinds
      PROVE  Cardinality(Amid(after, kinds)) = Cardinality(Amid(names, kinds) \ gone)
  <2> DEFINE S == Amid(after, kinds)
             T == Amid(names, kinds) \ gone
             f == [n \in S |-> Nth(n)]
  <2>1. S = {n \in 1..size : names[Nth(n)] \in kinds}
    BY <1>8 DEF Amid
  <2>2. T = {i \in kept : names[i] \in kinds}
    BY DEF Amid, kept
  <2>3. IsFiniteSet(S)
    BY <1>7, AmidIsFinite
  <2>4. f \in [S -> T]
    BY <1>4, <2>1, <2>2
  <2>5. \A m, n \in S : f[m] = f[n] => m = n
    BY <1>6, <2>1
  <2>6. \A i \in T : \E n \in S : f[n] = i
    BY <1>5, <2>1, <2>2
  <2>7. f \in Bijection(S, T)
    BY <2>4, <2>5, <2>6 DEF Bijection, Injection, IsInjective, Surjection
  <2>8. ExistsBijection(S, T)
    BY <2>7 DEF ExistsBijection
  <2>9. QED
    BY <2>3, <2>8, FS_Bijection
<1>10. QED
  BY <1>7, <1>9 DEF after

(***************************************************************************)
(* How far a sweep gets: the first n expired files of a listing with room  *)
(* for n are among those it reclaims.                                      *)
(***************************************************************************)
LEMMA BeforeUnion ==
    ASSUME NEW S, S \subseteq Nat, IsFiniteSet(S), NEW T, T \subseteq Nat, IsFiniteSet(T),
           NEW i \in Nat
    PROVE  /\ Before(i, S) \in Nat /\ Cardinality(T) \in Nat /\ Before(i, S \cup T) \in Nat
           /\ Before(i, S \cup T) <= Before(i, S) + Cardinality(T)
<1> DEFINE B == {j \in S : j < i}
           C == {j \in T : j < i}
<1>1. IsFiniteSet(B)
  <2>1. B \in SUBSET S
    OBVIOUS
  <2>2. QED
    BY <2>1, FS_Subset
<1>2. IsFiniteSet(C) /\ Cardinality(C) <= Cardinality(T)
  <2>1. C \in SUBSET T
    OBVIOUS
  <2>2. QED
    BY <2>1, FS_Subset
<1>3. /\ IsFiniteSet(B \cup C) /\ IsFiniteSet(B \cap C)
      /\ Cardinality(B \cup C) = Cardinality(B) + Cardinality(C) - Cardinality(B \cap C)
  <2>1. B \cap C \in SUBSET B
    OBVIOUS
  <2>2. IsFiniteSet(B \cap C)
    BY <1>1, <2>1, FS_Subset
  <2>3. QED
    BY <1>1, <1>2, <2>2, FS_Union
<1>4. /\ Cardinality(B) \in Nat /\ Cardinality(C) \in Nat /\ Cardinality(T) \in Nat
      /\ Cardinality(B \cap C) \in Nat /\ Cardinality(B \cup C) \in Nat
  BY <1>1, <1>2, <1>3, FS_CardinalityType
<1>5. {j \in S \cup T : j < i} = B \cup C
  OBVIOUS
<1>6. Cardinality(B \cup C) <= Cardinality(B) + Cardinality(T)
  BY <1>2, <1>3, <1>4
<1>7. QED
  BY <1>4, <1>5, <1>6 DEF Before

\* A place in a listing is one more than the number of those before it.
LEMMA PlaceIsRank ==
    ASSUME NEW names \in Seq(Kinds), NEW i \in DOMAIN names
    PROVE  i \in Nat /\ Before(i, Amid(names, Kinds)) = i - 1
<1>1. DOMAIN names = 1..Len(names) /\ Len(names) \in Nat /\ i \in Nat /\ i >= 1 /\ i <= Len(names)
  OBVIOUS
<1>2. Amid(names, Kinds) = 1..Len(names)
  BY <1>1 DEF Amid
<1>3. {j \in 1..Len(names) : j < i} = 1..i - 1
  BY <1>1
<1>4. Cardinality(1..i - 1) = i - 1
  <2> DEFINE m == i - 1
  <2>1. 1 \in Int /\ m \in Int
    BY <1>1
  <2>2. Cardinality(1..m) = IF 1 > m THEN 0 ELSE m - 1 + 1
    BY <2>1, FS_Interval
  <2>3. (IF 1 > m THEN 0 ELSE m - 1 + 1) = m
    BY <1>1
  <2>4. QED
    BY <2>2, <2>3
<1>5. QED
  BY <1>1, <1>2, <1>3, <1>4 DEF Before

Expired == {"expired"}
Broken  == {"broken"}

\* What is listed before a file ahead of every broken one is ahead of them, too.
LEMMA AheadOf ==
    ASSUME NEW names \in Seq(Kinds), NEW kinds, NEW others, others = kinds \ Broken,
           NEW i \in Nat, Before(i, Amid(names, Broken)) = 0
    PROVE  Before(i, Amid(names, kinds)) = Before(i, Ahead(names, others))
<1> DEFINE B == Amid(names, Broken)
<1>1. B \subseteq Nat /\ IsFiniteSet(B)
  BY AmidIsFinite
<1>2. {k \in B : k < i} = {}
  <2>1. {k \in B : k < i} \in SUBSET B
    OBVIOUS
  <2>2. IsFiniteSet({k \in B : k < i})
    BY <1>1, <2>1, FS_Subset
  <2>3. Cardinality({k \in B : k < i}) = 0
    BY DEF Before
  <2>4. QED
    BY <2>2, <2>3, FS_EmptySet
<1>3. ASSUME NEW j \in Nat, j < i
      PROVE  j \notin B /\ Before(j, B) = 0
  <2>1. {k \in B : k < j} = {}
    BY <1>1, <1>2, <1>3
  <2>2. Cardinality({k \in B : k < j}) = 0
    BY <2>1, FS_EmptySet
  <2>3. QED
    BY <1>2, <1>3, <2>2 DEF Before
<1>4. Amid(names, kinds) \subseteq Nat
  BY AmidIsFinite
<1> HIDE DEF B
<1>5. ASSUME NEW j \in Nat, j < i
      PROVE  j \in Amid(names, kinds) <=> j \in Ahead(names, others)
  <2>1. j \notin Amid(names, Broken) /\ Before(j, Amid(names, Broken)) = 0
    BY <1>3, <1>5 DEF B
  <2>2. QED
    BY <2>1 DEF Ahead, Amid, Broken
<1>6. Ahead(names, others) \subseteq Nat
  BY AmidIsFinite DEF Ahead
<1>7. {j \in Amid(names, kinds) : j < i} = {j \in Ahead(names, others) : j < i}
  BY <1>4, <1>5, <1>6
<1>8. QED
  BY <1>7 DEF Before

LEMMA AheadIsFinite ==
    ASSUME NEW names \in Seq(Kinds), NEW kinds
    PROVE  /\ Ahead(names, kinds) \subseteq Nat /\ IsFiniteSet(Ahead(names, kinds))
           /\ Cardinality(Ahead(names, kinds)) \in Nat
<1>1. Ahead(names, kinds) \in SUBSET Amid(names, kinds)
  BY DEF Ahead
<1>2. Amid(names, kinds) \subseteq Nat /\ IsFiniteSet(Amid(names, kinds))
  BY AmidIsFinite
<1>3. QED
  BY <1>1, <1>2, FS_Subset, FS_CardinalityType

LEMMA FirstAreReclaimed ==
    ASSUME listing \in Seq(Kinds), NEW n \in Nat, Room(n),
           NEW i \in Ahead(listing, Expired), Before(i, Ahead(listing, Expired)) < n
    PROVE  i \in Reclaimed(listing)
<1> DEFINE E == Ahead(listing, Expired)
           owned == Amid(listing, Owned)
           reached == {k \in Ahead(listing, Owned) :
                           k <= ListLimit /\ Before(k, owned) < InspectLimit}
           others == Ahead(listing, Kinds \ {"broken", "expired"})
           stay == Ahead(listing, Owned \ {"broken", "expired"})
<1>1. /\ i \in DOMAIN listing /\ i \in Nat /\ listing[i] = "expired"
      /\ i \in Ahead(listing, Owned) /\ Before(i, Amid(listing, Broken)) = 0
  BY PlaceIsRank DEF Ahead, Amid, Expired, Broken, Owned, Kinds
<1>2. /\ E \subseteq Nat /\ IsFiniteSet(E)
      /\ others \subseteq Nat /\ IsFiniteSet(others) /\ Cardinality(others) \in Nat
      /\ stay \subseteq Nat /\ IsFiniteSet(stay) /\ Cardinality(stay) \in Nat
  BY AheadIsFinite
<1>3. /\ Cardinality(others) + n <= ListLimit
      /\ Cardinality(stay) + n <= InspectLimit
      /\ n <= RemovalLimit
      /\ ListLimit \in Nat /\ InspectLimit \in Nat /\ RemovalLimit \in Nat
  BY BacklogAssumption DEF Room
<1>4. Before(i, E) \in Nat /\ Before(i, E) < n
  BY <1>1, <1>2, BeforeBounds
<1>5. i <= ListLimit
  <2>1. Ahead(listing, Kinds \ Broken) = E \cup others
    BY DEF Ahead, Amid, Expired, Broken, Kinds
  <2>2. Before(i, E \cup others) <= Before(i, E) + Cardinality(others)
    BY <1>1, <1>2, BeforeUnion
  <2>3. Before(i, Amid(listing, Kinds)) = i - 1
    BY <1>1, PlaceIsRank
  <2>4. Before(i, Amid(listing, Kinds)) = Before(i, Ahead(listing, Kinds \ Broken))
    BY <1>1, AheadOf
  <2>5. i - 1 <= Before(i, E) + Cardinality(others)
    BY <2>1, <2>2, <2>3, <2>4
  <2> HIDE DEF E, others
  <2>6. QED
    BY <1>1, <1>2, <1>3, <1>4, <2>5
<1>6. Before(i, owned) < InspectLimit
  <2>1. Ahead(listing, Owned \ Broken) = E \cup stay
    BY DEF Ahead, Amid, Expired, Broken, Kinds, Owned
  <2>2. Before(i, E \cup stay) \in Nat /\ Before(i, E \cup stay) <= Before(i, E) + Cardinality(stay)
    BY <1>1, <1>2, BeforeUnion
  <2>3. Before(i, owned) = Before(i, Ahead(listing, Owned \ Broken))
    BY <1>1, AheadOf
  <2>4. /\ Before(i, owned) \in Nat
        /\ Before(i, owned) <= Before(i, E) + Cardinality(stay)
    BY <2>1, <2>2, <2>3
  <2> HIDE DEF E, owned, stay
  <2>5. QED
    BY <1>2, <1>3, <1>4, <2>4
<1>7. i \in reached
  BY <1>1, <1>5, <1>6
<1>8. Before(i, Amid(listing, Expired) \cap reached) < RemovalLimit
  <2>1. Amid(listing, Expired) \cap reached \in SUBSET E
    BY DEF Ahead
  <2> HIDE DEF reached
  <2>2. /\ Before(i, Amid(listing, Expired) \cap reached) \in Nat
        /\ Before(i, Amid(listing, Expired) \cap reached) <= Before(i, E)
    BY <1>1, <1>2, <2>1, BeforeBounds
  <2>3. QED
    BY <1>3, <1>4, <2>2
<1> HIDE DEF reached
<1>9. i \in Inspected(listing)
  BY <1>7, <1>8 DEF Inspected, reached, Expired
<1>10. QED
  BY <1>1, <1>9 DEF Reclaimed

\* One sweep of any listing.
LEMMA SweepKeepsPace ==
    ASSUME listing \in Seq(Kinds)
    PROVE  SweepsKeepPace
<1> DEFINE E == Amid(listing, Expired)
           gone == Reclaimed(listing)
           after == Without(listing, gone)
           left(kinds) == Amid(listing, kinds) \ gone
<1>1. \A kinds : Cardinality(Amid(after, kinds)) = Cardinality(left(kinds))
  BY WithoutKeeps
<1>2. E \subseteq Nat /\ IsFiniteSet(E) /\ Cardinality(E) \in Nat
  BY AmidIsFinite
<1>3. gone \in SUBSET E
  BY DEF Reclaimed, Inspected, Ahead, Amid, Expired, Owned, Kinds
<1> HIDE DEF gone, after
<1>4. IsFiniteSet(gone) /\ Cardinality(gone) \in Nat /\ Cardinality(E \ gone) = Cardinality(E) - Cardinality(gone)
  <2>1. IsFiniteSet(gone) /\ Cardinality(gone) \in Nat
    BY <1>2, <1>3, FS_Subset, FS_CardinalityType
  <2>2. E \cap gone = gone
    BY <1>3
  <2>3. Cardinality(E \ gone) = Cardinality(E) - Cardinality(E \cap gone)
    BY <1>2, <2>1, FS_Difference
  <2>4. QED
    BY <2>1, <2>2, <2>3
<1>5. ASSUME NEW n \in 0..Cardinality(Ahead(listing, Expired)), Room(n)
      PROVE  Cardinality(Amid(after, Expired)) <= Cardinality(E) - n
  <2> DEFINE A == Ahead(listing, Expired)
             F == {i \in A : Before(i, A) < n}
  <2>1. Cardinality(F) = n /\ n \in Nat
    BY AheadIsFinite, FirstAreMany
  <2>2. F \in SUBSET gone
    BY <1>5, <2>1, FirstAreReclaimed DEF gone
  <2>3. Cardinality(F) <= Cardinality(gone)
    BY <1>4, <2>2, FS_Subset
  <2> HIDE DEF F
  <2>4. Cardinality(E \ gone) <= Cardinality(E) - n
    BY <1>2, <1>4, <2>1, <2>3
  <2>5. QED
    BY <1>1, <2>4
<1>6. ASSUME NEW kind \in Kinds \ Expired
      PROVE  Cardinality(Amid(after, {kind})) = Cardinality(Amid(listing, {kind}))
  <2>1. left({kind}) = Amid(listing, {kind})
    BY <1>3, <1>6 DEF Amid, Expired
  <2>2. QED
    BY <1>1, <2>1
<1>7. QED
  BY <1>5, <1>6 DEF SweepsKeepPace, Expired, after, gone

-----------------------------------------------------------------------------

ListingOK == listing \in Seq(Kinds)

LEMMA ListingIsKept == ListingOK /\ [Next]_vars => ListingOK'
<1> SUFFICES ASSUME ListingOK, [Next]_vars PROVE listing' \in Seq(Kinds)
  BY DEF ListingOK
<1>1. DOMAIN listing = 1..Len(listing) /\ Len(listing) \in Nat /\ {"fresh", "expired", "broken"} \subseteq Kinds
  BY DEF ListingOK, Kinds
<1>2. CASE Sweep
  BY <1>2, WithoutKeeps DEF Sweep, ListingOK
<1>3. CASE Store
  <2>1. CASE \E i \in Amid(listing, Owned) : listing' = [listing EXCEPT ![i] = "fresh"]
    BY <1>1, <2>1 DEF ListingOK, Amid
  <2>2. CASE \E i \in 0..Len(listing) :
                 listing' = SubSeq(listing, 1, i) \o <<"fresh">>
                            \o SubSeq(listing, i + 1, Len(listing))
    <3>1. PICK i \in 0..Len(listing) :
              listing' = SubSeq(listing, 1, i) \o <<"fresh">>
                         \o SubSeq(listing, i + 1, Len(listing))
      BY <2>2
    <3>2. SubSeq(listing, 1, i) \in Seq(Kinds)
      BY <1>1 DEF ListingOK
    <3>3. SubSeq(listing, i + 1, Len(listing)) \in Seq(Kinds)
      BY <1>1 DEF ListingOK
    <3>4. <<"fresh">> \in Seq(Kinds)
      BY <1>1
    <3>5. QED
      BY <3>1, <3>2, <3>3, <3>4
  <2>3. QED
    BY <1>3, <2>1, <2>2 DEF Store
<1>4. CASE \E i \in DOMAIN listing : Expire(i)
  BY <1>1, <1>4 DEF Expire, ListingOK
<1>5. CASE UNCHANGED vars
  BY <1>5 DEF vars, ListingOK
<1>6. QED
  BY <1>2, <1>3, <1>4, <1>5 DEF Next

\* In every directory the program can come to, whatever the limits, how many files it
\* holds and how they are listed: of the expired files ahead of the first it fails at, a
\* sweep reclaims as many as it has room for, and it reclaims nothing else.
THEOREM EverySweepKeepsPace == Spec => []SweepsKeepPace
<1>1. Init => ListingOK
  BY DEF Init, ListingOK
<1>2. ListingOK => SweepsKeepPace
  BY SweepKeepsPace DEF ListingOK
<1>3. QED
  BY <1>1, <1>2, ListingIsKept, PTL DEF Spec
=============================================================================
