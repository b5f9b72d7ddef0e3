------------------------- MODULE LuaTableLibProofs -------------------------
(***************************************************************************)
(* What the functions of lists do, for lists of any length, whatever the   *)
(* order function answers.                                                 *)
(***************************************************************************)
EXTENDS LuaTableLib, FiniteSetTheorems, WellFoundedInduction, TLAPS

\* Induction up to n, for a set of numbers.
LEMMA UpTo ==
  ASSUME NEW n \in Nat, NEW P, 0 \in P,
         \A k \in 0..n : k \in P /\ k < n => k + 1 \in P
  PROVE  \A k \in 0..n : k \in P
<1> DEFINE Others == {k \in 0..n : k \notin P}
<1> SUFFICES ASSUME Others # {} PROVE FALSE
  OBVIOUS
<1>1. Others \subseteq Nat
  OBVIOUS
<1>2. PICK k \in Others : \A m \in Others : ~(<<m, k>> \in OpToRel(<, Nat))
  BY <1>1, NatLessThanWellFounded, WFMin
<1>3. k \in 0..n /\ k # 0
  BY <1>2
<1>4. k - 1 \in 0..n /\ k - 1 < n /\ (k - 1) + 1 = k /\ k - 1 \in Nat /\ k \in Nat /\ k - 1 < k
  BY <1>3
<1>5. <<k - 1, k>> \in OpToRel(<, Nat)
  BY <1>4 DEF OpToRel
<1>6. k - 1 \in P
  BY <1>2, <1>4, <1>5
<1> QED
  BY <1>2, <1>4, <1>6

\* A set of natural numbers has a least one.
LEMMA Least ==
  ASSUME NEW S \in SUBSET Nat, S # {}
  PROVE  Min(S) \in S /\ \A x \in S : Min(S) <= x
<1>1. PICK k \in S : \A m \in S : ~(<<m, k>> \in OpToRel(<, Nat))
  BY NatLessThanWellFounded, WFMin
<1>2. ASSUME NEW m \in S PROVE k <= m
  <2>1. m \in Nat /\ k \in Nat
    OBVIOUS
  <2>2. m < k => <<m, k>> \in OpToRel(<, Nat)
    BY <2>1 DEF OpToRel
  <2>3. ~(m < k)
    BY <1>1, <2>2
  <2> QED
    BY <2>1, <2>3
<1>3. \E x \in S : \A y \in S : x <= y
  BY <1>2
<1> QED
  BY <1>3 DEF Min

-----------------------------------------------------------------------------
(***************************************************************************)
(* Changing places.                                                        *)
(***************************************************************************)

LEMMA Swaps ==
  ASSUME NEW S, NEW l \in Seq(S)
  PROVE  \A k, m \in 1..Len(l) :
           /\ Swapped(l, k, m) \in Seq(S)
           /\ Len(Swapped(l, k, m)) = Len(l)
           /\ \A x \in 1..Len(l) :
                Swapped(l, k, m)[x] = IF x = m THEN l[k] ELSE IF x = k THEN l[m] ELSE l[x]
BY DEF Swapped

\* Values that change places are as many as before.
LEMMA SwapKeeps ==
  ASSUME NEW l \in Seq(Elements), NEW k \in 1..Len(l), NEW m \in 1..Len(l), NEW v
  PROVE  Copies(Swapped(l, k, m), v) = Copies(l, v)
<1> DEFINE r == Swapped(l, k, m)
           f == [x \in 1..Len(l) |-> IF x = k THEN m ELSE IF x = m THEN k ELSE x]
           A == {x \in DOMAIN l : l[x] = v}
           B == {x \in DOMAIN r : r[x] = v}
           g == [x \in A |-> f[x]]
<1>1. /\ r \in Seq(Elements) /\ Len(r) = Len(l)
      /\ \A x \in 1..Len(l) : r[x] = IF x = m THEN l[k] ELSE IF x = k THEN l[m] ELSE l[x]
  BY Swaps
<1>2. DOMAIN l = 1..Len(l) /\ DOMAIN r = 1..Len(l)
  BY <1>1
<1> HIDE DEF r
<1>3. \A x \in 1..Len(l) : f[x] \in 1..Len(l) /\ f[f[x]] = x /\ r[f[x]] = l[x] /\ l[f[x]] = r[x]
  BY <1>1
<1> HIDE DEF f
<1>4. g \in [A -> B]
  BY <1>2, <1>3
<1>5. \A x, y \in A : g[x] = g[y] => x = y
  BY <1>2, <1>3
<1>6. \A y \in B : f[y] \in A /\ g[f[y]] = y
  BY <1>2, <1>3
<1>7. ExistsBijection(A, B)
  <2>1. g \in Injection(A, B)
    BY <1>4, <1>5 DEF Injection, IsInjective
  <2>2. g \in Surjection(A, B)
    BY <1>4, <1>6 DEF Surjection
  <2> QED
    BY <2>1, <2>2 DEF ExistsBijection, Bijection
<1>8. IsFiniteSet(A)
  <2>1. IsFiniteSet(1..Len(l)) /\ A \subseteq 1..Len(l)
    BY <1>2, FS_Interval
  <2> QED
    BY <2>1, FS_Subset
<1>9. Cardinality(A) = Cardinality(B)
  BY <1>7, <1>8, FS_Bijection
<1> QED
  BY <1>9 DEF Copies, r

-----------------------------------------------------------------------------
(***************************************************************************)
(* Intervals that are taken from the front of todo.                        *)
(***************************************************************************)

\* u is what is left of s without its first d intervals.
Dropped(u, s, d) ==
  /\ d \in 0..Len(s)
  /\ Len(u) = Len(s) - d
  /\ \A k \in 1..Len(u) : k + d \in 1..Len(s) /\ u[k] = s[k + d]

Intervals == Seq(Int \X Int)

LEMMA DropKeeps ==
  ASSUME NEW n \in Nat, NEW s \in Intervals, NEW u \in Intervals, NEW d \in Nat, Dropped(u, s, d)
  PROVE  /\ Fit(s, n) => Fit(u, n)
         /\ Nested(s, n) => Nested(u, n)
         /\ \A x, y : Together(u, x, y) => Together(s, x, y)
         /\ \A x, y : Together(s, x, y) =>
              \/ Together(u, x, y)
              \/ \E k \in 1..d : Inside(x, s[k]) /\ Inside(y, s[k])
<1>1. /\ DOMAIN s = 1..Len(s) /\ DOMAIN u = 1..Len(u) /\ Len(s) \in Nat /\ Len(u) \in Nat
      /\ Len(u) = Len(s) - d
      /\ \A k \in 1..Len(u) : k + d \in 1..Len(s) /\ u[k] = s[k + d]
  BY DEF Dropped, Intervals
<1>2. Fit(s, n) => Fit(u, n)
  <2>1. \A k, m \in 1..Len(u) : k # m => k + d # m + d
    BY <1>1
  <2> QED
    BY <1>1, <2>1 DEF Fit, Intervals
<1>3. ASSUME Nested(s, n) PROVE Nested(u, n)
  <2>1. PICK span \in [1..Len(s) -> Int \X Int] : Spans(span, s, n)
    BY <1>1, <1>3 DEF Nested
  <2> DEFINE shorter == [k \in 1..Len(u) |-> span[k + d]]
  <2>2. shorter \in [1..Len(u) -> Int \X Int]
    BY <1>1
  <2>3. \A k \in 1..Len(u) : shorter[k] = span[k + d]
    OBVIOUS
  <2> HIDE DEF shorter
  <2>4. ASSUME NEW k \in 1..Len(u)
        PROVE  /\ 1 <= shorter[k][1] /\ shorter[k][2] <= n
               /\ shorter[k][1] <= u[k][1] /\ u[k][2] <= shorter[k][2]
    BY <1>1, <2>1, <2>3 DEF Spans
  <2>5. ASSUME NEW k \in 1..(Len(u) - 1)
        PROVE  /\ shorter[k + 1][1] <= shorter[k][1] /\ shorter[k][2] <= shorter[k + 1][2]
               /\ Separate(shorter[k], u[k + 1])
               /\ shorter[k][2] - shorter[k][1] <= u[k + 1][2] - u[k + 1][1]
    <3>1. /\ k \in 1..Len(u) /\ k + 1 \in 1..Len(u) /\ k + d \in 1..(Len(s) - 1)
          /\ (k + 1) + d = (k + d) + 1
      BY <1>1
    <3> QED
      BY <1>1, <2>1, <2>3, <3>1 DEF Spans
  <2> QED
    BY <1>1, <2>2, <2>4, <2>5 DEF Nested, Spans
<1>4. \A x, y : Together(u, x, y) => Together(s, x, y)
  BY <1>1 DEF Together
<1>5. ASSUME NEW x, NEW y, Together(s, x, y), ~Together(u, x, y)
      PROVE  \E k \in 1..d : Inside(x, s[k]) /\ Inside(y, s[k])
  <2>1. PICK k \in 1..Len(s) : Inside(x, s[k]) /\ Inside(y, s[k])
    BY <1>1, <1>5 DEF Together
  <2>2. k > d => k - d \in 1..Len(u) /\ (k - d) + d = k
    BY <1>1
  <2>3. ~(k > d)
    BY <1>1, <1>5, <2>1, <2>2 DEF Together
  <2>4. k \in 1..d
    BY <1>1, <2>3
  <2> QED
    BY <2>1, <2>4
<1> QED
  BY <1>2, <1>3, <1>4, <1>5

\* What auxsort returns from at once has fewer than two elements.
LEMMA UnsortedIs ==
  ASSUME NEW s \in Intervals
  PROVE  /\ Unsorted(s) \in Intervals
         /\ Unsorted(s) # <<>> => Head(Unsorted(s))[1] < Head(Unsorted(s))[2]
         /\ \E d \in Nat : Dropped(Unsorted(s), s, d) /\ \A k \in 1..d : ~(s[k][1] < s[k][2])
<1> DEFINE I == {k \in 1..Len(s) : s[k][1] < s[k][2]}
<1>1. Unsorted(s) = IF I = {} THEN <<>> ELSE IF Min(I) = 0 THEN <<>> ELSE SubSeq(s, Min(I), Len(s))
  BY DEF Unsorted, SelectInSeq
<1>2. CASE I = {}
  <2>1. Unsorted(s) = <<>>
    BY <1>1, <1>2
  <2>2. Dropped(<<>>, s, Len(s)) /\ Len(s) \in Nat
    BY DEF Dropped, Intervals
  <2>3. \A k \in 1..Len(s) : ~(s[k][1] < s[k][2])
    BY <1>2
  <2> QED
    BY <2>1, <2>2, <2>3 DEF Intervals
<1>3. CASE I # {}
  <2> DEFINE a == Min(I)
  <2>0. I \in SUBSET Nat
    OBVIOUS
  <2>1. a \in I /\ \A x \in I : a <= x
    <3> HIDE DEF I
    <3> QED
      BY <1>3, <2>0, Least
  <2> HIDE DEF a
  <2>2. a \in 1..Len(s) /\ s[a][1] < s[a][2] /\ a # 0 /\ Len(s) \in Nat
    BY <2>1 DEF Intervals
  <2>3. Unsorted(s) = SubSeq(s, a, Len(s))
    BY <1>1, <1>3, <2>2 DEF a
  <2>4. /\ SubSeq(s, a, Len(s)) \in Intervals
        /\ Len(SubSeq(s, a, Len(s))) = Len(s) - (a - 1)
        /\ \A k \in 1..(Len(s) - (a - 1)) : SubSeq(s, a, Len(s))[k] = s[k + (a - 1)]
    <3>1. /\ SubSeq(s, a, Len(s)) \in Intervals
          /\ Len(SubSeq(s, a, Len(s))) = Len(s) - (a - 1)
      BY <2>2 DEF Intervals
    <3>2. ASSUME NEW k \in 1..(Len(s) - (a - 1))
          PROVE  SubSeq(s, a, Len(s))[k] = s[k + (a - 1)]
      <4>1. SubSeq(s, a, Len(s))[k] = s[a + k - 1] /\ a + k - 1 = k + (a - 1)
        BY <2>2 DEF Intervals
      <4> QED
        BY <4>1
    <3> QED
      BY <3>1, <3>2
  <2>5. Dropped(SubSeq(s, a, Len(s)), s, a - 1)
    BY <2>2, <2>4, SMTT(30) DEF Dropped
  <2>6. Head(SubSeq(s, a, Len(s))) = s[a]
    <3>1. 1 \in 1..(Len(s) - (a - 1)) /\ 1 + (a - 1) = a
      BY <2>2
    <3> QED
      BY <2>4, <3>1 DEF Intervals
  <2>7. \A k \in 1..(a - 1) : ~(s[k][1] < s[k][2])
    BY <2>1, <2>2
  <2> QED
    BY <2>2, <2>3, <2>4, <2>5, <2>6, <2>7
<1> QED
  BY <1>2, <1>3

-----------------------------------------------------------------------------
(***************************************************************************)
(* The pairs of elements that are still to be compared.                    *)
(***************************************************************************)

LEMMA PairsFinite ==
  ASSUME NEW n \in Nat, NEW s
  PROVE  IsFiniteSet(Pairs(s, n)) /\ Cardinality(Pairs(s, n)) \in 0..(n * n) /\ n * n \in Nat
<1>1. IsFiniteSet(1..n) /\ Cardinality(1..n) = n
  BY FS_Interval
<1>2. IsFiniteSet((1..n) \X (1..n)) /\ Cardinality((1..n) \X (1..n)) = n * n
  BY <1>1, FS_Product
<1>3. Pairs(s, n) \subseteq (1..n) \X (1..n)
  BY DEF Pairs
<1>4. IsFiniteSet(Pairs(s, n)) /\ Cardinality(Pairs(s, n)) <= n * n
  BY <1>2, <1>3, FS_Subset
<1>5. Cardinality(Pairs(s, n)) \in Nat /\ n * n \in Nat
  BY <1>4, FS_CardinalityType
<1> QED
  BY <1>4, <1>5

LEMMA FewerPairs ==
  ASSUME NEW n \in Nat, NEW s, NEW u, \A x, y \in Int : Together(u, x, y) => Together(s, x, y)
  PROVE  Cardinality(Pairs(u, n)) <= Cardinality(Pairs(s, n))
<1>1. Pairs(u, n) \subseteq Pairs(s, n)
  BY DEF Pairs
<1> QED
  BY <1>1, PairsFinite, FS_Subset

\* Where a pivot is found, no pair of which it is one is left.
LEMMA PivotPairs ==
  ASSUME NEW n \in Nat, NEW s, NEW u,
         \A x, y \in Int : Together(u, x, y) => Together(s, x, y),
         NEW a \in 1..n, NEW b \in 1..n, NEW at \in a..b,
         \A x, y \in a..b : Together(s, x, y),
         \A x \in a..b : ~Together(u, at, x) /\ ~Together(u, x, at)
  PROVE  Cardinality(Pairs(u, n)) + 2 * (b - a + 1) - 1 <= Cardinality(Pairs(s, n))
<1> DEFINE A == {at} \X (a..b)
           B == (a..b) \X {at}
           U == Pairs(u, n)
           m == b - a + 1
<1>1. /\ IsFiniteSet({at}) /\ Cardinality({at}) = 1
      /\ IsFiniteSet(a..b) /\ Cardinality(a..b) = m /\ m \in Nat
  <2>1. a \in Int /\ b \in Int /\ ~(a > b) /\ m \in Nat
    OBVIOUS
  <2>2. IsFiniteSet(a..b) /\ Cardinality(a..b) = m
    BY <2>1, FS_Interval
  <2> QED
    BY <2>1, <2>2, FS_Singleton
<1>2. IsFiniteSet(A) /\ Cardinality(A) = m
  <2>1. IsFiniteSet(A) /\ Cardinality(A) = 1 * m
    BY <1>1, FS_Product, ZenonT(30)
  <2> QED
    BY <1>1, <2>1
<1>3. IsFiniteSet(B) /\ Cardinality(B) = m
  <2>1. IsFiniteSet(B) /\ Cardinality(B) = m * 1
    BY <1>1, FS_Product, ZenonT(30)
  <2> QED
    BY <1>1, <2>1
<1>4. Cardinality(A \cap B) = 1
  <2>1. A \cap B = {<<at, at>>}
    OBVIOUS
  <2> QED
    BY <2>1, FS_Singleton
<1>5. IsFiniteSet(A \cup B) /\ Cardinality(A \cup B) = m + m - 1
  <2> HIDE DEF A, B, m
  <2> QED
    BY <1>2, <1>3, <1>4, FS_Union
<1>6. U \cap (A \cup B) = {}
  <2> SUFFICES ASSUME NEW q \in U, q \in A \cup B PROVE FALSE
    OBVIOUS
  <2>1. Together(u, q[1], q[2])
    BY DEF Pairs
  <2>2. CASE q \in A
    BY <2>1, <2>2
  <2>3. CASE q \in B
    BY <2>1, <2>3
  <2> QED
    BY <2>2, <2>3
<1>7. U \cup (A \cup B) \subseteq Pairs(s, n)
  <2>1. a..b \subseteq 1..n
    OBVIOUS
  <2> QED
    BY <2>1 DEF Pairs
<1>8. IsFiniteSet(U) /\ Cardinality(U) \in Nat
  BY PairsFinite
<1> HIDE DEF A, B, U, m
<1>9. Cardinality(U \cup (A \cup B)) = Cardinality(U) + (m + m - 1) - 0
  BY <1>5, <1>6, <1>8, FS_Union, FS_EmptySet
<1>10. Cardinality(U \cup (A \cup B)) <= Cardinality(Pairs(s, n))
  BY <1>7, PairsFinite, FS_Subset
<1> QED
  BY <1>1, <1>8, <1>9, <1>10 DEF U, m

-----------------------------------------------------------------------------
(***************************************************************************)
(* One interval ends, and the next is taken.                               *)
(***************************************************************************)

LEMMA AuxSorts ==
  ASSUME NEW l \in Seq(Elements), Elements \subseteq Int, NEW s \in Intervals, AuxSort(l, s),
         Fit(s, Len(l)), Nested(s, Len(l)),
         NEW paid \in Nat, paid + Cardinality(Pairs(s, Len(l))) <= Len(l) * Len(l)
  PROVE  /\ list' = l /\ todo' \in Intervals
         /\ ask' = IF todo' = <<>> THEN "done" ELSE "ends"
         /\ todo' # <<>> => lo' < up'
         /\ Fit(todo', Len(l)) /\ Nested(todo', Len(l))
         /\ paid + Cardinality(Pairs(todo', Len(l))) <= Len(l) * Len(l)
         /\ InOrderBut(l, s) => InOrderBut(l, todo')
<1> DEFINE n == Len(l)
<1>1. /\ list' = l /\ todo' = Unsorted(s) /\ n \in Nat
      /\ ask' = IF todo' = <<>> THEN "done" ELSE "ends"
  BY DEF AuxSort
<1>2. todo' \in Intervals /\ (todo' # <<>> => lo' < up')
  BY <1>1, UnsortedIs DEF lo, up
<1>3. PICK d \in Nat : Dropped(todo', s, d) /\ \A k \in 1..d : ~(s[k][1] < s[k][2])
  BY <1>1, UnsortedIs
<1>4. /\ Fit(todo', n) /\ Nested(todo', n)
      /\ \A x, y : Together(todo', x, y) => Together(s, x, y)
      /\ \A x, y : Together(s, x, y) =>
           \/ Together(todo', x, y)
           \/ \E k \in 1..d : Inside(x, s[k]) /\ Inside(y, s[k])
  BY <1>1, <1>2, <1>3, DropKeeps
<1>5. Cardinality(Pairs(todo', n)) <= Cardinality(Pairs(s, n))
  BY <1>1, <1>4, FewerPairs
<1>6. paid + Cardinality(Pairs(todo', n)) <= n * n
  BY <1>1, <1>5, PairsFinite
<1>7. ASSUME InOrderBut(l, s) PROVE InOrderBut(l, todo')
  <2> SUFFICES ASSUME NEW x \in 1..Len(l), NEW y \in 1..Len(l), x < y, ~Together(todo', x, y)
               PROVE  l[x] <= l[y]
    BY DEF InOrderBut
  <2>1. ASSUME NEW k \in 1..d PROVE ~(Inside(x, s[k]) /\ Inside(y, s[k]))
    <3>1. s[k] \in Int \X Int /\ ~(s[k][1] < s[k][2])
      BY <1>3 DEF Intervals, Dropped
    <3> QED
      BY <3>1 DEF Inside
  <2>2. ~Together(s, x, y)
    BY <1>4, <2>1
  <2> QED
    BY <1>7, <2>2 DEF InOrderBut
<1> QED
  BY <1>1, <1>2, <1>4, <1>6, <1>7

-----------------------------------------------------------------------------
(***************************************************************************)
(* The interval that is sorted, and the others.                            *)
(***************************************************************************)

LEMMA HeadIs ==
  ASSUME NEW n \in Nat, todo \in Intervals, todo # <<>>, Fit(todo, n)
  PROVE  /\ todo[1] = <<lo, up>> /\ lo \in 1..n /\ up \in 1..n /\ lo <= up
         /\ 1 \in DOMAIN todo
         /\ \A x, y \in lo..up : Together(todo, x, y)
         /\ \A x \in lo..up, y \in Int :
              Together(todo, x, y) \/ Together(todo, y, x) => y \in lo..up
         /\ \A x \in lo..up, y \in Int : ~Together(Tail(todo), x, y) /\ ~Together(Tail(todo), y, x)
         /\ \A x, y : Together(todo, x, y) =>
              Together(Tail(todo), x, y) \/ (Inside(x, todo[1]) /\ Inside(y, todo[1]))
         /\ Tail(todo) \in Intervals /\ Dropped(Tail(todo), todo, 1)
<1>1. /\ 1 \in DOMAIN todo /\ todo[1] \in Int \X Int /\ lo = todo[1][1] /\ up = todo[1][2]
      /\ DOMAIN todo = 1..Len(todo) /\ Len(todo) \in Nat \ {0}
  BY DEF lo, up, Intervals
<1>2. lo \in Int /\ up \in Int /\ todo[1] = <<lo, up>>
  BY <1>1
<1>3. lo \in 1..n /\ up \in 1..n /\ lo <= up
  <2>1. 1 <= todo[1][1] /\ todo[1][1] <= todo[1][2] /\ todo[1][2] <= n
    BY <1>1, Zenon DEF Fit
  <2>2. 1 <= lo /\ lo <= up /\ up <= n
    BY <1>1, <2>1, Zenon
  <2> QED
    BY <1>2, <2>2
<1>4. \A x \in Int : Inside(x, todo[1]) <=> x \in lo..up
  BY <1>2 DEF Inside
<1>5. \A x, y \in lo..up : Together(todo, x, y)
  BY <1>1, <1>3, <1>4 DEF Together
<1>6. /\ Tail(todo) \in Intervals /\ Dropped(Tail(todo), todo, 1)
      /\ DOMAIN Tail(todo) = 1..(Len(todo) - 1)
      /\ \A k \in 1..(Len(todo) - 1) : Tail(todo)[k] = todo[k + 1] /\ k + 1 \in 1..Len(todo)
  BY <1>1 DEF Intervals, Dropped
<1>7. ASSUME NEW x \in lo..up, NEW k \in 1..Len(todo), k # 1
      PROVE  ~Inside(x, todo[k])
  <2>1. k \in DOMAIN todo /\ todo[k] \in Int \X Int
    BY <1>1 DEF Intervals
  <2>2. Separate(todo[1], todo[k])
    BY <1>1, <1>7, <2>1, Zenon DEF Fit
  <2> QED
    BY <1>2, <1>3, <2>1, <2>2 DEF Separate, Inside
<1>8. ASSUME NEW x \in lo..up, NEW y \in Int, Together(todo, x, y) \/ Together(todo, y, x)
      PROVE  y \in lo..up
  <2>1. PICK k \in 1..Len(todo) : Inside(x, todo[k]) /\ Inside(y, todo[k])
    BY <1>1, <1>8 DEF Together
  <2>2. k = 1
    BY <1>7, <2>1
  <2> QED
    BY <1>4, <2>1, <2>2
<1>9. ASSUME NEW x \in lo..up, NEW y \in Int
      PROVE  ~Together(Tail(todo), x, y) /\ ~Together(Tail(todo), y, x)
  <2>1. ASSUME NEW k \in 1..(Len(todo) - 1) PROVE ~Inside(x, Tail(todo)[k])
    <3>1. k + 1 \in 1..Len(todo) /\ k + 1 # 1 /\ Tail(todo)[k] = todo[k + 1]
      BY <1>6
    <3> QED
      BY <1>7, <3>1
  <2> QED
    BY <1>6, <2>1 DEF Together
<1>10. ASSUME NEW x, NEW y, Together(todo, x, y), ~Together(Tail(todo), x, y)
       PROVE  Inside(x, todo[1]) /\ Inside(y, todo[1])
  <2>1. PICK k \in 1..1 : Inside(x, todo[k]) /\ Inside(y, todo[k])
    BY <1>6, <1>10, DropKeeps
  <2>2. k = 1
    OBVIOUS
  <2> QED
    BY <2>1, <2>2
<1> QED
  BY <1>1, <1>2, <1>3, <1>5, <1>6, <1>8, <1>9, <1>10

\* Values that change places in an interval stay in order with those outside it.
LEMMA SwapInOrder ==
  ASSUME Elements \subseteq Int, NEW l \in Seq(Elements), todo \in Intervals, todo # <<>>,
         Fit(todo, Len(l)), InOrderBut(l, todo), NEW k \in lo..up, NEW m \in lo..up
  PROVE  InOrderBut(Swapped(l, k, m), todo)
<1> DEFINE r == Swapped(l, k, m)
<1>1. /\ lo \in 1..Len(l) /\ up \in 1..Len(l) /\ Len(l) \in Nat
      /\ \A x, y \in lo..up : Together(todo, x, y)
      /\ \A x \in lo..up, y \in Int :
           Together(todo, x, y) \/ Together(todo, y, x) => y \in lo..up
  BY HeadIs
<1>2. k \in 1..Len(l) /\ m \in 1..Len(l)
  BY <1>1
<1>3. /\ Len(r) = Len(l) /\ r \in Seq(Elements)
      /\ \A x \in 1..Len(l) : r[x] = IF x = m THEN l[k] ELSE IF x = k THEN l[m] ELSE l[x]
  <2>1. \A a, b \in 1..Len(l) :
           /\ Swapped(l, a, b) \in Seq(Elements)
           /\ Len(Swapped(l, a, b)) = Len(l)
           /\ \A x \in 1..Len(l) :
                Swapped(l, a, b)[x] = IF x = b THEN l[a] ELSE IF x = a THEN l[b] ELSE l[x]
    BY Swaps
  <2> QED
    BY <1>2, <2>1
<1>4. \A x \in 1..Len(l) : x \notin lo..up => r[x] = l[x]
  BY <1>3
<1>5. \A x \in lo..up : \E z \in lo..up : r[x] = l[z]
  BY <1>1, <1>3
<1>6. DOMAIN r = 1..Len(l) /\ DOMAIN l = 1..Len(l)
  BY <1>3
<1> HIDE DEF r
<1> SUFFICES ASSUME NEW x \in 1..Len(l), NEW y \in 1..Len(l), x < y, ~Together(todo, x, y)
             PROVE  r[x] <= r[y]
  BY <1>6 DEF InOrderBut, r
<1>7. CASE x \in lo..up /\ y \notin lo..up
  <2>1. PICK z \in lo..up : r[x] = l[z]
    BY <1>5, <1>7
  <2>2. z < y /\ ~Together(todo, z, y) /\ z \in 1..Len(l)
    BY <1>1, <1>7
  <2> QED
    BY <1>4, <1>6, <1>7, <2>1, <2>2 DEF InOrderBut
<1>8. CASE x \notin lo..up /\ y \in lo..up
  <2>1. PICK z \in lo..up : r[y] = l[z]
    BY <1>5, <1>8
  <2>2. x < z /\ ~Together(todo, x, z) /\ z \in 1..Len(l)
    BY <1>1, <1>8
  <2> QED
    BY <1>4, <1>6, <1>8, <2>1, <2>2 DEF InOrderBut
<1>9. CASE x \notin lo..up /\ y \notin lo..up
  BY <1>4, <1>6, <1>9 DEF InOrderBut
<1> QED
  BY <1>1, <1>7, <1>8, <1>9

\* What is put in order inside the interval is in order with the rest.
LEMMA OrderInside ==
  ASSUME Elements \subseteq Int, NEW l \in Seq(Elements), todo \in Intervals, todo # <<>>,
         Fit(todo, Len(l)), InOrderBut(l, todo), NEW s,
         \A x, y \in lo..up : x < y /\ ~Together(s, x, y) => l[x] <= l[y],
         \A x, y : Together(Tail(todo), x, y) => Together(s, x, y)
  PROVE  InOrderBut(l, s)
<1> SUFFICES ASSUME NEW x \in 1..Len(l), NEW y \in 1..Len(l), x < y, ~Together(s, x, y)
             PROVE  l[x] <= l[y]
  BY DEF InOrderBut
<1>1. CASE ~Together(todo, x, y)
  BY <1>1 DEF InOrderBut
<1>2. CASE Together(todo, x, y)
  <2>1. Inside(x, todo[1]) /\ Inside(y, todo[1]) /\ todo[1] = <<lo, up>>
    BY <1>2, HeadIs
  <2>2. lo \in Int /\ up \in Int
    BY HeadIs
  <2>3. x \in lo..up /\ y \in lo..up
    BY <2>1, <2>2 DEF Inside
  <2> QED
    BY <2>3
<1> QED
  BY <1>1, <1>2

\* Two intervals, the smaller one first, in place of the one that holds them.
TwoHalves(s1, s2) ==
  /\ s1 \in Int \X Int /\ s2 \in Int \X Int
  /\ lo <= s1[1] /\ s1[1] <= s1[2] /\ s1[2] <= up
  /\ lo <= s2[1] /\ s2[1] <= s2[2] /\ s2[2] <= up
  /\ Separate(s1, s2)
  /\ s1[2] - s1[1] <= s2[2] - s2[1]

Halved(s, s1, s2) ==
  /\ Len(s) = Len(todo) + 1 /\ s[1] = s1 /\ s[2] = s2
  /\ \A k \in 3..(Len(todo) + 1) : s[k] = todo[k - 1]

LEMMA Halves ==
  ASSUME NEW n \in Nat, todo \in Intervals, todo # <<>>, Fit(todo, n), Nested(todo, n),
         NEW s \in Intervals, NEW s1, NEW s2, TwoHalves(s1, s2), Halved(s, s1, s2)
  PROVE  /\ Fit(s, n) /\ Nested(s, n)
         /\ \A x, y : Together(Tail(todo), x, y) => Together(s, x, y)
         /\ \A x, y : Together(s, x, y) =>
              Together(Tail(todo), x, y) \/ \E t \in {s1, s2} : Inside(x, t) /\ Inside(y, t)
<1>1. /\ todo[1] = <<lo, up>> /\ lo \in 1..n /\ up \in 1..n /\ lo <= up
      /\ Tail(todo) \in Intervals /\ Dropped(Tail(todo), todo, 1)
  BY HeadIs
<1>2. lo \in Int /\ up \in Int
  BY <1>1
<1>4. /\ s1[1] \in Int /\ s1[2] \in Int /\ s2[1] \in Int /\ s2[2] \in Int
      /\ lo <= s1[1] /\ s1[1] <= s1[2] /\ s1[2] <= up
      /\ lo <= s2[1] /\ s2[1] <= s2[2] /\ s2[2] <= up
      /\ s1[2] + 1 < s2[1] \/ s2[2] + 1 < s1[1]
      /\ s1[2] - s1[1] <= s2[2] - s2[1]
      /\ s1 \in Int \X Int /\ s2 \in Int \X Int
  BY DEF TwoHalves, Separate
<1>5. /\ Len(todo) \in Nat \ {0} /\ DOMAIN todo = 1..Len(todo)
      /\ \A k \in 1..Len(todo) : todo[k] \in Int \X Int
  BY DEF Intervals
<1>6. Len(s) = Len(todo) + 1 /\ DOMAIN s = 1..(Len(todo) + 1) /\ s[1] = s1 /\ s[2] = s2
  BY DEF Halved, Intervals
<1>7. \A k \in 3..(Len(todo) + 1) : s[k] = todo[k - 1] /\ k - 1 \in 2..Len(todo)
  BY <1>5 DEF Halved
<1>8. Fit(s, n)
  <2>1. \A k \in 1..(Len(todo) + 1) : 1 <= s[k][1] /\ s[k][1] <= s[k][2] /\ s[k][2] <= n
    <3> SUFFICES ASSUME NEW k \in 1..(Len(todo) + 1)
                 PROVE  1 <= s[k][1] /\ s[k][1] <= s[k][2] /\ s[k][2] <= n
      OBVIOUS
    <3>1. CASE k = 1 \/ k = 2
      <4>1. s[k] = s1 \/ s[k] = s2
        BY <1>6, <3>1
      <4> QED
        BY <1>1, <1>2, <1>4, <4>1
    <3>2. CASE k # 1 /\ k # 2
      <4>1. k \in 3..(Len(todo) + 1) /\ k - 1 \in 1..Len(todo)
        BY <1>5, <3>2
      <4>2. s[k] = todo[k - 1] /\ k - 1 \in DOMAIN todo
        BY <1>5, <1>7, <4>1
      <4> QED
        BY <4>2, Zenon DEF Fit
    <3> QED
      BY <3>1, <3>2
  <2>2. ASSUME NEW k \in 1..(Len(todo) + 1), NEW m \in 1..(Len(todo) + 1), k # m
        PROVE  Separate(s[k], s[m])
    <3>1. \A a \in 3..(Len(todo) + 1) : s[a] \in Int \X Int /\ Separate(<<lo, up>>, s[a])
      <4> SUFFICES ASSUME NEW a \in 3..(Len(todo) + 1)
                   PROVE  s[a] \in Int \X Int /\ Separate(<<lo, up>>, s[a])
        OBVIOUS
      <4>1. s[a] = todo[a - 1] /\ a - 1 \in DOMAIN todo /\ 1 \in DOMAIN todo /\ a - 1 # 1
        BY <1>5, <1>7
      <4>2. Separate(todo[1], todo[a - 1])
        BY <4>1, Zenon DEF Fit
      <4> QED
        BY <1>1, <1>5, <4>1, <4>2
    <3>2. \A a \in 3..(Len(todo) + 1) :
            /\ Separate(s1, s[a]) /\ Separate(s2, s[a])
            /\ Separate(s[a], s1) /\ Separate(s[a], s2)
      <4> SUFFICES ASSUME NEW a \in 3..(Len(todo) + 1)
                   PROVE  /\ Separate(s1, s[a]) /\ Separate(s2, s[a])
                          /\ Separate(s[a], s1) /\ Separate(s[a], s2)
        OBVIOUS
      <4>1. s[a][1] \in Int /\ s[a][2] \in Int /\ (up + 1 < s[a][1] \/ s[a][2] + 1 < lo)
        BY <3>1 DEF Separate
      <4>2. \/ s1[2] + 1 < s[a][1] /\ s2[2] + 1 < s[a][1]
            \/ s[a][2] + 1 < s1[1] /\ s[a][2] + 1 < s2[1]
        <5>1. s1[2] <= up /\ s2[2] <= up /\ lo <= s1[1] /\ lo <= s2[1]
          BY <1>4
        <5>2. s1[1] \in Int /\ s1[2] \in Int /\ s2[1] \in Int /\ s2[2] \in Int
          BY <1>4
        <5>3. CASE up + 1 < s[a][1]
          BY <1>2, <4>1, <5>1, <5>2, <5>3, SMTT(30)
        <5>4. CASE s[a][2] + 1 < lo
          BY <1>2, <4>1, <5>1, <5>2, <5>4, SMTT(30)
        <5> QED
          BY <4>1, <5>3, <5>4
      <4> QED
        BY <4>2, Zenon DEF Separate
    <3>3. CASE k \in 3..(Len(todo) + 1) /\ m \in 3..(Len(todo) + 1)
      <4>1. /\ s[k] = todo[k - 1] /\ k - 1 \in DOMAIN todo
            /\ s[m] = todo[m - 1] /\ m - 1 \in DOMAIN todo
            /\ k - 1 # m - 1
        BY <1>5, <1>7, <2>2, <3>3
      <4> QED
        BY <4>1, Zenon DEF Fit
    <3>4. CASE k \notin 3..(Len(todo) + 1) /\ m \notin 3..(Len(todo) + 1)
      <4>1. (k = 1 \/ k = 2) /\ (m = 1 \/ m = 2)
        BY <1>5, <3>4
      <4>2. (k = 1 /\ m = 2) \/ (k = 2 /\ m = 1)
        BY <2>2, <4>1, Zenon
      <4> QED
        BY <1>4, <1>6, <4>2 DEF Separate
    <3>5. CASE k \notin 3..(Len(todo) + 1) /\ m \in 3..(Len(todo) + 1)
      <4>1. k = 1 \/ k = 2
        BY <1>5, <3>5
      <4> QED
        BY <1>6, <3>2, <3>5, <4>1
    <3>6. CASE k \in 3..(Len(todo) + 1) /\ m \notin 3..(Len(todo) + 1)
      <4>1. m = 1 \/ m = 2
        BY <1>5, <3>6
      <4> QED
        BY <1>6, <3>2, <3>6, <4>1
    <3> QED
      BY <3>3, <3>4, <3>5, <3>6
  <2> QED
    BY <1>6, <2>1, <2>2 DEF Fit, Intervals
<1>9. Nested(s, n)
  <2>1. PICK span \in [1..Len(todo) -> Int \X Int] : Spans(span, todo, n)
    BY <1>5 DEF Nested
  <2> DEFINE longer == [k \in 1..(Len(todo) + 1) |-> IF k = 1 THEN s1 ELSE span[k - 1]]
  <2>2. longer \in [1..(Len(todo) + 1) -> Int \X Int]
    BY <1>4, <1>5
  <2>3. /\ longer[1] = s1
        /\ \A k \in 2..(Len(todo) + 1) : longer[k] = span[k - 1] /\ k - 1 \in 1..Len(todo)
        /\ span[1] \in Int \X Int
    BY <1>5
  <2> HIDE DEF longer
  <2>4. 1 <= span[1][1] /\ span[1][2] <= n /\ span[1][1] <= lo /\ up <= span[1][2]
    <3>1. 1 \in DOMAIN todo /\ todo[1][1] = lo /\ todo[1][2] = up
      BY <1>1, <1>5
    <3>2. /\ 1 <= span[1][1] /\ span[1][2] <= n
          /\ span[1][1] <= todo[1][1] /\ todo[1][2] <= span[1][2]
      BY <2>1, <3>1, Zenon DEF Spans
    <3> QED
      BY <3>1, <3>2
  <2>5. ASSUME NEW k \in 1..(Len(todo) + 1)
        PROVE  /\ 1 <= longer[k][1] /\ longer[k][2] <= n
               /\ longer[k][1] <= s[k][1] /\ s[k][2] <= longer[k][2]
    <3>1. CASE k = 1
      <4>1. longer[k] = s1 /\ s[k] = s1
        BY <1>6, <2>3, <3>1
      <4> QED
        BY <1>1, <1>2, <1>4, <4>1
    <3>2. CASE k = 2
      <4>1. longer[k] = span[1] /\ s[k] = s2
        BY <1>5, <1>6, <2>3, <3>2
      <4> QED
        BY <1>2, <1>4, <2>3, <2>4, <4>1, SMTT(30)
    <3>3. CASE k \in 3..(Len(todo) + 1)
      <4>1. longer[k] = span[k - 1] /\ s[k] = todo[k - 1] /\ k - 1 \in DOMAIN todo
        BY <1>5, <1>7, <2>3, <3>3
      <4> QED
        BY <2>1, <4>1, Zenon DEF Spans
    <3> QED
      BY <1>5, <3>1, <3>2, <3>3
  <2>6. ASSUME NEW k \in 1..Len(todo)
        PROVE  /\ longer[k + 1][1] <= longer[k][1] /\ longer[k][2] <= longer[k + 1][2]
               /\ Separate(longer[k], s[k + 1])
               /\ longer[k][2] - longer[k][1] <= s[k + 1][2] - s[k + 1][1]
    <3>1. CASE k = 1
      <4>1. longer[k] = s1 /\ longer[k + 1] = span[1] /\ s[k + 1] = s2
        BY <1>5, <1>6, <2>3, <3>1
      <4> QED
        BY <1>2, <1>4, <2>3, <2>4, <4>1 DEF Separate
    <3>2. CASE k # 1
      <4> DEFINE m == k - 1
      <4>1. m \in 1..(Len(todo) - 1) /\ k = m + 1 /\ k \in 2..(Len(todo) + 1)
            /\ k + 1 \in 3..(Len(todo) + 1)
        BY <1>5, <3>2
      <4>2. longer[k] = span[m] /\ longer[k + 1] = span[m + 1] /\ s[k + 1] = todo[m + 1]
        BY <1>7, <2>3, <4>1
      <4>3. /\ span[m + 1][1] <= span[m][1] /\ span[m][2] <= span[m + 1][2]
            /\ Separate(span[m], todo[m + 1])
            /\ span[m][2] - span[m][1] <= todo[m + 1][2] - todo[m + 1][1]
        BY <2>1, <4>1, Zenon DEF Spans
      <4> QED
        BY <4>2, <4>3, Zenon
    <3> QED
      BY <3>1, <3>2
  <2>7. Spans(longer, s, n)
    BY <1>5, <1>6, <2>5, <2>6 DEF Spans
  <2> QED
    BY <1>6, <2>2, <2>7 DEF Nested
<1>10. /\ DOMAIN Tail(todo) = 1..(Len(todo) - 1)
       /\ \A k \in 1..(Len(todo) - 1) : Tail(todo)[k] = todo[k + 1] /\ k + 2 \in 3..(Len(todo) + 1)
                                        /\ (k + 2) - 1 = k + 1
  BY <1>1, <1>5 DEF Dropped, Intervals
<1>11. ASSUME NEW x, NEW y, Together(Tail(todo), x, y) PROVE Together(s, x, y)
  <2>1. PICK k \in 1..(Len(todo) - 1) : Inside(x, todo[k + 1]) /\ Inside(y, todo[k + 1])
    BY <1>10, <1>11 DEF Together
  <2>2. k + 2 \in DOMAIN s /\ s[k + 2] = todo[k + 1]
    BY <1>5, <1>6, <1>7, <1>10
  <2> QED
    BY <2>1, <2>2 DEF Together
<1>14. ASSUME NEW x, NEW y, Together(s, x, y)
       PROVE  Together(Tail(todo), x, y) \/ \E t \in {s1, s2} : Inside(x, t) /\ Inside(y, t)
  <2>1. PICK k \in 1..(Len(todo) + 1) : Inside(x, s[k]) /\ Inside(y, s[k])
    BY <1>6, <1>14 DEF Together
  <2>2. CASE k = 1 \/ k = 2
    BY <1>6, <2>1, <2>2
  <2>3. CASE k \in 3..(Len(todo) + 1)
    <3>1. k - 2 \in DOMAIN Tail(todo) /\ Tail(todo)[k - 2] = s[k]
      BY <1>5, <1>7, <1>10, <2>3
    <3> QED
      BY <2>1, <3>1 DEF Together
  <2> QED
    BY <1>5, <2>2, <2>3
<1> QED
  BY <1>8, <1>9, <1>11, <1>14


LEMMA HalvedSeq ==
  ASSUME todo \in Intervals, todo # <<>>, NEW s1 \in Int \X Int, NEW s2 \in Int \X Int
  PROVE  /\ <<s1, s2>> \o Tail(todo) \in Intervals
         /\ Halved(<<s1, s2>> \o Tail(todo), s1, s2)
<1>1. /\ Tail(todo) \in Seq(Int \X Int) /\ Len(Tail(todo)) = Len(todo) - 1
      /\ Len(todo) \in Nat \ {0} /\ <<s1, s2>> \in Seq(Int \X Int) /\ Len(<<s1, s2>>) = 2
      /\ \A k \in 1..(Len(todo) - 1) : Tail(todo)[k] = todo[k + 1]
  BY DEF Intervals
<1>2. ASSUME NEW k \in 3..(Len(todo) + 1)
      PROVE  (<<s1, s2>> \o Tail(todo))[k] = todo[k - 1]
  <2>1. k - 2 \in 1..(Len(todo) - 1) /\ (k - 2) + 1 = k - 1
    BY <1>1
  <2>2. (<<s1, s2>> \o Tail(todo))[k] = Tail(todo)[k - 2]
    BY <1>1
  <2> QED
    BY <1>1, <2>1, <2>2
<1>3. /\ <<s1, s2>> \o Tail(todo) \in Seq(Int \X Int)
      /\ Len(<<s1, s2>> \o Tail(todo)) = Len(todo) + 1
      /\ (<<s1, s2>> \o Tail(todo))[1] = s1
      /\ (<<s1, s2>> \o Tail(todo))[2] = s2
  BY <1>1
<1> QED
  BY <1>2, <1>3 DEF Halved, Intervals

\* The interval is split at the place of its pivot.
LEMMA Splits ==
  ASSUME NEW n \in Nat, todo \in Intervals, todo # <<>>, Fit(todo, n), Nested(todo, n),
         NEW at \in (lo + 1)..(up - 1)
  PROVE  \E s \in Intervals :
           /\ s = (IF at - lo < up - at THEN <<<<lo, at - 1>>, <<at + 1, up>>>>
                   ELSE <<<<at + 1, up>>, <<lo, at - 1>>>>) \o Tail(todo)
           /\ Fit(s, n) /\ Nested(s, n)
           /\ \A x, y : Together(Tail(todo), x, y) => Together(s, x, y)
           /\ \A x, y \in lo..(at - 1) : Together(s, x, y)
           /\ \A x, y \in (at + 1)..up : Together(s, x, y)
           /\ \A x, y \in Int : Together(s, x, y) => Together(todo, x, y)
           /\ \A x \in lo..up : ~Together(s, at, x) /\ ~Together(s, x, at)
<1>1. /\ todo[1] = <<lo, up>> /\ lo \in 1..n /\ up \in 1..n /\ lo <= up
      /\ \A x, y \in lo..up : Together(todo, x, y)
      /\ \A x \in lo..up, y \in Int : ~Together(Tail(todo), x, y) /\ ~Together(Tail(todo), y, x)
      /\ \A x, y : Together(Tail(todo), x, y) => Together(todo, x, y)
  <2>1. Dropped(Tail(todo), todo, 1) /\ Tail(todo) \in Intervals
    BY HeadIs
  <2>2. \A x, y : Together(Tail(todo), x, y) => Together(todo, x, y)
    BY <2>1, DropKeeps
  <2> QED
    BY <2>2, HeadIs
<1>2. lo \in Int /\ up \in Int /\ at \in Int /\ lo < at /\ at < up
  BY <1>1
<1> DEFINE lower == <<lo, at - 1>>
           upper == <<at + 1, up>>
           s == (IF at - lo < up - at THEN <<lower, upper>> ELSE <<upper, lower>>) \o Tail(todo)
           a == IF at - lo < up - at THEN lower ELSE upper
           b == IF at - lo < up - at THEN upper ELSE lower
<1>3. a \in Int \X Int /\ b \in Int \X Int /\ TwoHalves(a, b)
  BY <1>2 DEF TwoHalves, Separate
<1>4. {a, b} = {lower, upper}
  OBVIOUS
<1>5. s = <<a, b>> \o Tail(todo)
  OBVIOUS
<1> HIDE DEF a, b
<1>6. s \in Intervals /\ Halved(s, a, b)
  BY <1>3, <1>5, HalvedSeq
<1> HIDE DEF s
<1>7. /\ Fit(s, n) /\ Nested(s, n)
      /\ \A x, y : Together(Tail(todo), x, y) => Together(s, x, y)
      /\ \A x, y : Together(s, x, y) =>
           Together(Tail(todo), x, y) \/ \E t \in {a, b} : Inside(x, t) /\ Inside(y, t)
  BY <1>3, <1>6, Halves
<1>8. \A x, y : Together(s, x, y) =>
        \/ Together(Tail(todo), x, y)
        \/ Inside(x, lower) /\ Inside(y, lower)
        \/ Inside(x, upper) /\ Inside(y, upper)
  <2> HIDE DEF lower, upper
  <2> QED
    BY <1>4, <1>7
<1>9. /\ 1 \in DOMAIN s /\ 2 \in DOMAIN s /\ s[1] = a /\ s[2] = b
  BY <1>6, SMTT(30) DEF Halved, Intervals
<1>10. \A x, y : (Inside(x, lower) /\ Inside(y, lower)) \/ (Inside(x, upper) /\ Inside(y, upper))
                   => Together(s, x, y)
  <2> HIDE DEF lower, upper
  <2>1. lower \in {a, b} /\ upper \in {a, b}
    BY <1>4
  <2> QED
    BY <1>9, <2>1 DEF Together
<1>11. /\ \A x \in lo..(at - 1) : Inside(x, lower)
       /\ \A x \in (at + 1)..up : Inside(x, upper)
       /\ ~Inside(at, lower) /\ ~Inside(at, upper)
  BY <1>2 DEF Inside
<1>12. ASSUME NEW x \in Int, NEW y \in Int,
              (Inside(x, lower) /\ Inside(y, lower)) \/ (Inside(x, upper) /\ Inside(y, upper))
       PROVE  Together(todo, x, y)
  <2>1. x \in lo..up /\ y \in lo..up
    BY <1>2, <1>12 DEF Inside
  <2> QED
    BY <1>1, <2>1
<1>13. \A x, y \in Int : Together(s, x, y) => Together(todo, x, y)
  <2> HIDE DEF lower, upper
  <2> QED
    BY <1>1, <1>8, <1>12
<1>14. \A x \in lo..up : ~Together(s, at, x) /\ ~Together(s, x, at)
  <2>1. at \in lo..up /\ \A x \in lo..up : x \in Int
    BY <1>2
  <2> QED
    BY <1>1, <1>8, <1>11, <2>1
<1>15. /\ \A x, y \in lo..(at - 1) : Together(s, x, y)
       /\ \A x, y \in (at + 1)..up : Together(s, x, y)
  BY <1>10, <1>11
<1> QED
  BY <1>6, <1>7, <1>13, <1>14, <1>15 DEF s

-----------------------------------------------------------------------------
(***************************************************************************)
(* One interval is sorted, and auxsort goes on with the next.              *)
(***************************************************************************)

LEMMA NextInterval ==
  ASSUME Elements \subseteq Int, MaxLength \in Nat,
         given' \in Seq(Elements), order' \in {"less", "any"}, out'.call = "none", asked' \in Nat,
         p \in Int, i \in Int, j \in Int, pivot \in Int,
         NEW l \in Seq(Elements), Len(l) = Len(given'), Len(l) <= MaxLength,
         \A v \in Elements : Copies(l, v) = Copies(given', v),
         NEW s \in Intervals, Fit(s, Len(l)), Nested(s, Len(l)), AuxSort(l, s),
         asked' + Cardinality(Pairs(s, Len(l))) <= Len(l) * Len(l),
         order' = "less" => InOrderBut(l, s)
  PROVE  ListsTypeOK' /\ SortInv'
<1>1. /\ list' = l /\ todo' \in Intervals
      /\ ask' = IF todo' = <<>> THEN "done" ELSE "ends"
      /\ todo' # <<>> => lo' < up'
      /\ Fit(todo', Len(l)) /\ Nested(todo', Len(l))
      /\ asked' + Cardinality(Pairs(todo', Len(l))) <= Len(l) * Len(l)
      /\ InOrderBut(l, s) => InOrderBut(l, todo')
  BY AuxSorts
<1>2. p' = p /\ i' = i /\ j' = j /\ pivot' = pivot
  BY DEF AuxSort
<1>3. ask' \in {"ends", "done"} /\ (ask' = "done" => todo' = <<>>) /\ (ask' = "ends" => todo' # <<>>)
  BY <1>1
<1>4. ListsTypeOK'
  BY <1>1, <1>2, <1>3 DEF ListsTypeOK, Intervals
<1>5. PlacesInside' /\ ValuesParted' /\ Spent' = 0
  BY <1>1, <1>3 DEF PlacesInside, ValuesParted, Spent, Sorting
<1>6. order' = "less" => InOrderBut(list', todo')
  BY <1>1
<1>7. /\ Cardinality(Pairs(todo', Len(list'))) \in Int /\ Len(list') * Len(list') \in Int
      /\ asked' + Cardinality(Pairs(todo', Len(list'))) <= Len(list') * Len(list') + Spent'
  <2>1. Len(l) \in Nat
    OBVIOUS
  <2>2. Cardinality(Pairs(todo', Len(l))) \in Int /\ Len(l) * Len(l) \in Int
    BY <2>1, PairsFinite
  <2> QED
    BY <1>1, <1>5, <2>2, SMTT(30)
<1>8. (Sorting \/ ask = "done")'
  BY <1>3 DEF Sorting
<1>9. ~(order' = "less" /\ ask' = "invalid")
  BY <1>3
<1> QED
  BY <1>1, <1>4, <1>5, <1>6, <1>7, <1>8, <1>9 DEF SortInv

\* What SortInv says of the sort, for lists of n elements.
LEMMA SortIs ==
  ASSUME ListsTypeOK, SortInv, Sorting
  PROVE  /\ Len(list) \in Nat /\ list \in Seq(Elements) /\ todo \in Intervals /\ todo # <<>>
         /\ Fit(todo, Len(list)) /\ Nested(todo, Len(list))
         /\ lo \in 1..Len(list) /\ up \in 1..Len(list) /\ lo < up
         /\ asked \in Nat /\ Len(list) * Len(list) \in Nat
         /\ Cardinality(Pairs(todo, Len(list))) \in Nat
         /\ asked + Cardinality(Pairs(todo, Len(list))) <= Len(list) * Len(list) + Spent
<1>1. /\ list \in Seq(Elements) /\ todo \in Intervals /\ todo # <<>> /\ lo < up
      /\ Len(list) \in Nat /\ asked \in Nat
      /\ Fit(todo, Len(list)) /\ Nested(todo, Len(list))
  <2>1. list \in Seq(Elements) /\ todo \in Intervals /\ asked \in Nat
    BY DEF ListsTypeOK, Intervals
  <2>2. todo # <<>> /\ lo < up
    BY DEF SortInv, PlacesInside
  <2>3. Fit(todo, Len(list)) /\ Nested(todo, Len(list))
    BY DEF SortInv
  <2> QED
    BY <2>1, <2>2, <2>3
<1>2. lo \in 1..Len(list) /\ up \in 1..Len(list)
  BY <1>1, HeadIs
<1>3. Len(list) * Len(list) \in Nat /\ Cardinality(Pairs(todo, Len(list))) \in Nat
  BY <1>1, PairsFinite
<1>4. asked + Cardinality(Pairs(todo, Len(list))) <= Len(list) * Len(list) + Spent
  BY DEF SortInv
<1> QED
  BY <1>1, <1>2, <1>3, <1>4

LEMMA IntervalEnds ==
  ASSUME Elements \subseteq Int, MaxLength \in Nat, ListsTypeOK, SortInv, out.call = "none", Sorting,
         UNCHANGED <<given, order, out>>, asked' = asked + 1,
         NEW l \in Seq(Elements), Len(l) = Len(list),
         \A v \in Elements : Copies(l, v) = Copies(list, v),
         NEW s \in Intervals, Fit(s, Len(l)), Nested(s, Len(l)), AuxSort(l, s),
         \A x, y \in Int : Together(s, x, y) => Together(todo, x, y),
         NEW at \in lo..up, \A x \in lo..up : ~Together(s, at, x) /\ ~Together(s, x, at),
         Spent \in Int, Spent + 1 <= 2 * (up - lo + 1) - 1,
         order = "less" => InOrderBut(l, s)
  PROVE  ListsTypeOK' /\ SortInv'
<1> DEFINE n == Len(list)
           n2 == Len(list) * Len(list)
           before == Cardinality(Pairs(todo, n))
           after == Cardinality(Pairs(s, n))
<1>1. /\ n \in Nat /\ n2 \in Nat /\ before \in Nat /\ after \in Nat /\ asked \in Nat
      /\ lo \in 1..n /\ up \in 1..n /\ lo < up
      /\ asked + before <= n2 + Spent
      /\ todo \in Intervals /\ todo # <<>> /\ Fit(todo, n)
  BY SortIs, PairsFinite, SMTT(30)
<1>2. after + 2 * (up - lo + 1) - 1 <= before
  <2>1. \A x, y \in lo..up : Together(todo, x, y)
    BY <1>1, HeadIs
  <2> HIDE DEF n
  <2> QED
    BY <1>1, <2>1, PivotPairs
<1>3. asked' + after <= n2
  <2> HIDE DEF n, n2, before, after
  <2> QED
    BY <1>1, <1>2
<1>4. /\ given \in Seq(Elements) /\ order \in {"less", "any"}
      /\ p \in Int /\ i \in Int /\ j \in Int /\ pivot \in Int
  BY DEF ListsTypeOK
<1>5. /\ Len(list) = Len(given) /\ Len(list) <= MaxLength
      /\ \A v \in Elements : Copies(list, v) = Copies(given, v)
  BY DEF SortInv
<1>6. /\ given' = given /\ order' = order /\ out' = out /\ asked' \in Nat
  BY <1>1
<1>7. /\ given' \in Seq(Elements) /\ order' \in {"less", "any"} /\ out'.call = "none"
      /\ Len(l) = Len(given') /\ Len(l) <= MaxLength
      /\ \A v \in Elements : Copies(l, v) = Copies(given', v)
      /\ asked' + Cardinality(Pairs(s, Len(l))) <= Len(l) * Len(l)
      /\ order' = "less" => InOrderBut(l, s)
  BY <1>3, <1>4, <1>5, <1>6
<1> QED
  BY <1>4, <1>6, <1>7, NextInterval

\* There are pairs left for one question more.
LEMMA RoomLeft ==
  ASSUME ListsTypeOK, SortInv, Sorting
  PROVE  /\ Spent \in Nat /\ Spent + 1 <= 2 * (up - lo + 1) - 1
         /\ asked + 1 <= Len(list) * Len(list)
<1> DEFINE n == Len(list)
           n2 == Len(list) * Len(list)
           before == Cardinality(Pairs(todo, n))
           none == Cardinality(Pairs(<<>>, n))
<1>1. /\ n \in Nat /\ n2 \in Nat /\ before \in Nat /\ asked \in Nat
      /\ lo \in 1..n /\ up \in 1..n /\ lo < up
      /\ asked + before <= n2 + Spent
      /\ todo \in Intervals /\ todo # <<>> /\ Fit(todo, n)
  BY SortIs
<1>2. Spent \in Nat /\ Spent + 1 <= 2 * (up - lo + 1) - 1
  <2>1. /\ ask \in {"low", "high"} => p \in (lo + 1)..(up - 1)
        /\ ask \in {"right", "left"} => up - lo >= 3 /\ i \in (lo + 1)..(up - 1)
        /\ ask = "right" => j \in (lo + 1)..(up - 1)
        /\ ask = "left" => j \in lo..(up - 2)
    BY DEF SortInv, PlacesInside
  <2>2. lo \in Int /\ up \in Int /\ lo < up
    BY <1>1
  <2>3. CASE ask = "ends"
    BY <2>2, <2>3 DEF Spent
  <2>4. CASE ask \in {"low", "high"}
    BY <2>1, <2>2, <2>4 DEF Spent
  <2>5. CASE ask = "right"
    BY <2>1, <2>2, <2>5 DEF Spent
  <2>6. CASE ask = "left"
    BY <2>1, <2>2, <2>6 DEF Spent
  <2> QED
    BY <2>3, <2>4, <2>5, <2>6 DEF Sorting
<1>3. none + 2 * (up - lo + 1) - 1 <= before /\ none \in Nat
  <2>1. \A x, y \in lo..up : Together(todo, x, y)
    BY <1>1, HeadIs
  <2>2. \A x, y : ~Together(<<>>, x, y)
    BY DEF Together
  <2>3. lo \in lo..up
    BY <1>1
  <2> HIDE DEF n
  <2>4. none + 2 * (up - lo + 1) - 1 <= before
    BY <1>1, <2>1, <2>2, <2>3, PivotPairs
  <2> QED
    BY <1>1, <2>4, PairsFinite
<1> HIDE DEF n, n2, before, none
<1>4. asked + 1 <= n2
  BY <1>1, <1>2, <1>3
<1> QED
  BY <1>2, <1>4 DEF n2

\* Another question is paid for where Spent goes up.
LEMMA Pays ==
  ASSUME ListsTypeOK, SortInv, Sorting
  PROVE  /\ asked + 1 \in Nat
         /\ \A spent \in Int : spent >= Spent + 1 =>
              asked + 1 + Cardinality(Pairs(todo, Len(list))) <= Len(list) * Len(list) + spent
<1> DEFINE n2 == Len(list) * Len(list)
           before == Cardinality(Pairs(todo, Len(list)))
<1>1. /\ n2 \in Nat /\ before \in Nat /\ asked \in Nat /\ Spent \in Nat
      /\ asked + before <= n2 + Spent
  BY SortIs, RoomLeft
<1> HIDE DEF n2, before
<1>2. asked + 1 \in Nat /\ \A spent \in Int : spent >= Spent + 1 => asked + 1 + before <= n2 + spent
  BY <1>1
<1> QED
  BY <1>2 DEF n2, before

\* The sort of an interval goes on with another question.
LEMMA Asks ==
  ASSUME ListsTypeOK, SortInv, out.call = "none", Sorting,
         UNCHANGED <<given, order, out, todo>>, asked' = asked + 1,
         list' \in Seq(Elements), Len(list') = Len(list),
         \A v \in Elements : Copies(list', v) = Copies(list, v),
         ask' \in {"low", "high", "right", "left"},
         p' \in Int, i' \in Int, j' \in Int, pivot' \in Int,
         PlacesInside', Spent' \in Int, Spent' >= Spent + 1,
         order = "less" => InOrderBut(list', todo) /\ ValuesParted'
  PROVE  ListsTypeOK' /\ SortInv'
<1>1. Fit(todo, Len(list)) /\ Nested(todo, Len(list))
  BY DEF SortInv
<1>2. /\ asked' \in Nat
      /\ asked' + Cardinality(Pairs(todo, Len(list))) <= Len(list) * Len(list) + Spent'
  BY Pays, Zenon
<1>3. ListsTypeOK'
  <2>1. /\ given \in Seq(Elements) /\ order \in {"less", "any"} /\ todo \in Seq(Int \X Int)
        /\ out.call \in {"none", "insert", "move"}
    BY DEF ListsTypeOK
  <2> QED
    BY <1>2, <2>1 DEF ListsTypeOK
<1>4. /\ Len(list) = Len(given) /\ Len(list) <= MaxLength
      /\ \A v \in Elements : Copies(list, v) = Copies(given, v)
  BY DEF SortInv
<1>5. /\ Len(list') = Len(given') /\ Len(list') <= MaxLength
      /\ \A v \in Elements : Copies(list', v) = Copies(given', v)
      /\ Fit(todo', Len(list')) /\ Nested(todo', Len(list'))
      /\ order' = "less" => ask' # "invalid"
      /\ order' = "less" => InOrderBut(list', todo') /\ ValuesParted'
  BY <1>1, <1>4
<1>6. Sorting' /\ asked' + Cardinality(Pairs(todo', Len(list'))) <= Len(list') * Len(list') + Spent'
  BY <1>2 DEF Sorting
<1> QED
  BY <1>3, <1>5, <1>6 DEF SortInv

\* A sort that is refused, or stopped by an error, leaves the list as it is.
LEMMA Stops ==
  ASSUME ListsTypeOK, SortInv, out.call = "none", Sorting,
         UNCHANGED <<given, order, out, list, todo, p, i, j, pivot>>,
         asked' \in {asked, asked + 1}, order = "any",
         ask' \in {"error", "invalid"}
  PROVE  ListsTypeOK' /\ SortInv'
<1>1. /\ asked \in Nat /\ asked + 1 <= Len(list) * Len(list) /\ Len(list) * Len(list) \in Nat
      /\ todo # <<>> /\ lo < up
  BY SortIs, RoomLeft
<1>2. asked' \in Nat /\ asked' <= Len(list) * Len(list)
  BY <1>1
<1>3. ListsTypeOK'
  BY <1>2 DEF ListsTypeOK
<1>4. PlacesInside'
  BY <1>1 DEF PlacesInside, Sorting, lo, up
<1>5. /\ Len(list) = Len(given) /\ Len(list) <= MaxLength
      /\ \A v \in Elements : Copies(list, v) = Copies(given, v)
      /\ Fit(todo, Len(list)) /\ Nested(todo, Len(list))
  BY DEF SortInv
<1>6. ~(Sorting \/ ask = "done")'
  BY DEF Sorting
<1>7. order' # "less"
  OBVIOUS
<1> QED
  BY <1>2, <1>3, <1>4, <1>5, <1>6, <1>7 DEF SortInv

LEMMA ElementsAre ==
  ASSUME NEW S \in SUBSET Int, NEW l \in Seq(S)
  PROVE  \A x \in 1..Len(l) : l[x] \in Int
<1>1. ASSUME NEW x \in 1..Len(l) PROVE l[x] \in S
  OBVIOUS
<1>2. \A x \in S : x \in Int
  OBVIOUS
<1> QED
  BY <1>1, <1>2, Zenon

\* Values that change places in the interval that is sorted.
LEMMA SwapsInside ==
  ASSUME Elements \subseteq Int, ListsTypeOK, SortInv, Sorting, NEW l \in Seq(Elements),
         Len(l) = Len(list), \A v \in Elements : Copies(l, v) = Copies(list, v),
         order = "less" => InOrderBut(l, todo),
         NEW k \in lo..up, NEW m \in lo..up
  PROVE  /\ Swapped(l, k, m) \in Seq(Elements) /\ Len(Swapped(l, k, m)) = Len(list)
         /\ \A v \in Elements : Copies(Swapped(l, k, m), v) = Copies(list, v)
         /\ order = "less" => InOrderBut(Swapped(l, k, m), todo)
         /\ \A x \in lo..up :
              /\ l[x] \in Int /\ Swapped(l, k, m)[x] \in Int
              /\ Swapped(l, k, m)[x] = IF x = m THEN l[k] ELSE IF x = k THEN l[m] ELSE l[x]
<1>1. /\ lo \in 1..Len(l) /\ up \in 1..Len(l) /\ lo < up
      /\ todo \in Intervals /\ todo # <<>> /\ Fit(todo, Len(l))
  BY SortIs
<1>2. lo..up \subseteq 1..Len(l) /\ k \in 1..Len(l) /\ m \in 1..Len(l)
  BY <1>1
<1>3. \A v \in Elements : Copies(Swapped(l, k, m), v) = Copies(list, v)
  BY <1>2, SwapKeeps
<1>4. order = "less" => InOrderBut(Swapped(l, k, m), todo)
  BY <1>1, SwapInOrder
<1>5. /\ Swapped(l, k, m) \in Seq(Elements) /\ Len(Swapped(l, k, m)) = Len(l)
      /\ \A x \in 1..Len(l) :
           Swapped(l, k, m)[x] = IF x = m THEN l[k] ELSE IF x = k THEN l[m] ELSE l[x]
  <2>1. \A a, b \in 1..Len(l) :
           /\ Swapped(l, a, b) \in Seq(Elements)
           /\ Len(Swapped(l, a, b)) = Len(l)
           /\ \A x \in 1..Len(l) :
                Swapped(l, a, b)[x] = IF x = b THEN l[a] ELSE IF x = a THEN l[b] ELSE l[x]
    BY Swaps
  <2> QED
    BY <1>2, <2>1
<1>6. \A x \in 1..Len(l) : l[x] \in Int
  BY ElementsAre
<1> QED
  BY <1>2, <1>3, <1>4, <1>5, <1>6

LEMMA ListNow ==
  ASSUME Elements \subseteq Int, ListsTypeOK, SortInv, Sorting
  PROVE  /\ lo \in Int /\ up \in Int /\ lo < up /\ Len(list) \in Nat
         /\ lo \in lo..up /\ up \in lo..up
         /\ list \in Seq(Elements) /\ \A x \in lo..up : list[x] \in Int
         /\ order = "less" => InOrderBut(list, todo) /\ ValuesParted
         /\ todo \in Intervals /\ todo # <<>>
         /\ p \in Int /\ i \in Int /\ j \in Int /\ pivot \in Int
<1>1. /\ Len(list) \in Nat /\ list \in Seq(Elements) /\ lo \in 1..Len(list) /\ up \in 1..Len(list)
      /\ lo < up /\ todo \in Intervals /\ todo # <<>>
  BY SortIs
<1>2. \A x \in 1..Len(list) : list[x] \in Int
  BY <1>1, ElementsAre
<1>3. order = "less" => InOrderBut(list, todo) /\ ValuesParted
  BY DEF SortInv
<1>4. p \in Int /\ i \in Int /\ j \in Int /\ pivot \in Int
  BY DEF ListsTypeOK
<1>5. /\ lo \in Int /\ up \in Int /\ lo \in lo..up /\ up \in lo..up /\ lo..up \subseteq 1..Len(list)
  BY <1>1
<1> QED
  BY <1>1, <1>2, <1>3, <1>4, <1>5

\* The interval that is sorted is left out of those still to be.
LEMMA TailIs ==
  ASSUME ListsTypeOK, SortInv, Sorting
  PROVE  /\ Tail(todo) \in Intervals
         /\ Fit(Tail(todo), Len(list)) /\ Nested(Tail(todo), Len(list))
         /\ \A x, y \in Int : Together(Tail(todo), x, y) => Together(todo, x, y)
         /\ \A x \in lo..up, y \in Int : ~Together(Tail(todo), x, y) /\ ~Together(Tail(todo), y, x)
<1>1. /\ todo \in Intervals /\ todo # <<>> /\ Len(list) \in Nat
      /\ Fit(todo, Len(list)) /\ Nested(todo, Len(list))
  BY SortIs
<1>2. /\ Tail(todo) \in Intervals /\ Dropped(Tail(todo), todo, 1)
      /\ \A x \in lo..up, y \in Int : ~Together(Tail(todo), x, y) /\ ~Together(Tail(todo), y, x)
  BY <1>1, HeadIs
<1> QED
  BY <1>1, <1>2, DropKeeps

\* An interval whose values are in order is done with.
LEMMA TailNext ==
  ASSUME Elements \subseteq Int, MaxLength \in Nat, ListsTypeOK, SortInv, out.call = "none", Sorting,
         UNCHANGED <<given, order, out>>, asked' = asked + 1,
         NEW l \in Seq(Elements), Len(l) = Len(list),
         \A v \in Elements : Copies(l, v) = Copies(list, v),
         order = "less" => InOrderBut(l, todo) /\ \A x, y \in lo..up : x < y => l[x] <= l[y],
         AuxSort(l, Tail(todo))
  PROVE  ListsTypeOK' /\ SortInv'
<1> DEFINE s == Tail(todo)
<1>1. /\ s \in Intervals /\ Fit(s, Len(list)) /\ Nested(s, Len(list))
      /\ \A x, y \in Int : Together(s, x, y) => Together(todo, x, y)
      /\ \A x \in lo..up, y \in Int : ~Together(s, x, y) /\ ~Together(s, y, x)
  BY TailIs
<1>2. /\ lo \in Int /\ up \in Int /\ lo \in lo..up /\ todo \in Intervals /\ todo # <<>>
      /\ Fit(todo, Len(list)) /\ Len(list) \in Nat
  BY ListNow, SortIs
<1>3. \A x \in lo..up : ~Together(s, lo, x) /\ ~Together(s, x, lo)
  <2>1. \A x \in lo..up : x \in Int
    BY <1>2
  <2> QED
    BY <1>1, <1>2, <2>1
<1>4. ASSUME order = "less" PROVE InOrderBut(l, s)
  <2>1. InOrderBut(l, todo) /\ \A x, y \in lo..up : x < y => l[x] <= l[y]
    BY <1>4
  <2> QED
    BY <1>2, <2>1, OrderInside
<1>5. Spent \in Int /\ Spent + 1 <= 2 * (up - lo + 1) - 1
  BY RoomLeft
<1>6. Fit(s, Len(l)) /\ Nested(s, Len(l))
  BY <1>1
<1> HIDE DEF s
<1>7. AuxSort(l, s)
  BY DEF s
<1> QED
  BY <1>1, <1>2, <1>3, <1>4, <1>5, <1>6, <1>7, IntervalEnds

\* What the answer says where the order is <.
LEMMA AnswerIs ==
  ASSUME NEW answer \in BOOLEAN, SortComp(answer), order = "less"
  PROVE  /\ answer => Asked[1] < Asked[2]
         /\ ~answer => ~(Asked[1] < Asked[2])
<1>1. answer = (Asked[1] < Asked[2])
  BY DEF SortComp
<1> QED
  BY <1>1, Zenon

\* Whatever random number it is given, choosePivot stays between the ends.
LEMMA PivotsInside ==
  ASSUME LuaTableLibAssumption, lo \in Int, up \in Int, up - lo >= 2
  PROVE  Pivots \subseteq (lo + 1)..(up - 1)
<1> DEFINE r4 == (up - lo) \div 4
<1>1. (lo + up) \div 2 \in (lo + 1)..(up - 1)
  OBVIOUS
<1>2. ASSUME up - lo >= RANLIMIT PROVE (lo + r4)..(lo + 3 * r4 - 1) \subseteq (lo + 1)..(up - 1)
  <2>1. up - lo \in Nat /\ up - lo >= 4
    BY <1>2 DEF LuaTableLibAssumption
  <2>2. r4 \in Nat /\ r4 >= 1 /\ 4 * r4 <= up - lo
    BY <2>1
  <2> HIDE DEF r4
  <2>3. lo + r4 >= lo + 1 /\ lo + 3 * r4 - 1 <= up - 1
    BY <2>2
  <2> QED
    BY <2>2, <2>3
<1>3. up - lo \in Int /\ RANLIMIT \in Int
  BY DEF LuaTableLibAssumption
<1> QED
  BY <1>1, <1>2, <1>3 DEF Pivots

LEMMA EndsKeeps ==
  ASSUME LuaTableLibAssumption, Elements \subseteq Int, MaxLength \in Nat, ListsTypeOK, SortInv, out.call = "none",
         UNCHANGED <<given, order, out>>, NEW answer \in BOOLEAN, SortComp(answer), Ends(answer)
  PROVE  ListsTypeOK' /\ SortInv'
<1> DEFINE l == IF answer THEN Swapped(list, lo, up) ELSE list
<1>0. /\ ask = "ends" /\ Sorting /\ asked' = asked + 1
  BY DEF Ends, Sorting, SortComp
<1>1. order = "less" => /\ answer => list[up] < list[lo]
                        /\ ~answer => ~(list[up] < list[lo])
  <2>1. Asked[1] = list[up] /\ Asked[2] = list[lo]
    BY <1>0 DEF Asked
  <2> QED
    BY <2>1, AnswerIs
<1>2. /\ lo \in Int /\ up \in Int /\ lo < up /\ lo \in lo..up /\ up \in lo..up
      /\ list \in Seq(Elements) /\ \A x \in lo..up : list[x] \in Int
      /\ order = "less" => InOrderBut(list, todo)
      /\ p \in Int /\ i \in Int /\ j \in Int /\ pivot \in Int
  BY <1>0, ListNow
<1>3. /\ l \in Seq(Elements) /\ Len(l) = Len(list)
      /\ \A v \in Elements : Copies(l, v) = Copies(list, v)
      /\ order = "less" => InOrderBut(l, todo) /\ l[lo] <= l[up]
  <2>1. CASE answer
    <3>1. /\ Swapped(list, lo, up) \in Seq(Elements) /\ Len(Swapped(list, lo, up)) = Len(list)
          /\ \A v \in Elements : Copies(Swapped(list, lo, up), v) = Copies(list, v)
          /\ order = "less" => InOrderBut(Swapped(list, lo, up), todo)
          /\ \A x \in lo..up : Swapped(list, lo, up)[x] =
               IF x = up THEN list[lo] ELSE IF x = lo THEN list[up] ELSE list[x]
      BY <1>0, <1>2, SwapsInside
    <3>2. Swapped(list, lo, up)[lo] = list[up] /\ Swapped(list, lo, up)[up] = list[lo]
      BY <1>2, <3>1
    <3>3. ASSUME order = "less" PROVE list[up] <= list[lo]
      <4>1. list[up] < list[lo]
        BY <1>1, <2>1, <3>3
      <4>2. list[up] \in Int /\ list[lo] \in Int
        BY <1>2
      <4> QED
        BY <4>1, <4>2
    <3>4. l = Swapped(list, lo, up)
      BY <2>1
    <3> HIDE DEF l
    <3> QED
      BY <3>1, <3>2, <3>3, <3>4
  <2>2. CASE ~answer
    <3>1. l = list
      BY <2>2
    <3>2. order = "less" => list[lo] <= list[up]
      BY <1>1, <1>2, <2>2
    <3> HIDE DEF l
    <3> QED
      BY <1>2, <3>1, <3>2
  <2> QED
    BY <2>1, <2>2
<1>4. IF up - lo = 1 THEN AuxSort(l, Tail(todo))
      ELSE /\ list' = l /\ p' \in Pivots /\ ask' = "low"
           /\ UNCHANGED <<todo, i, j, pivot>>
  BY DEF Ends
<1> HIDE DEF l
<1>5. CASE up - lo = 1
  <2>1. \A x, y \in lo..up : x < y => x = lo /\ y = up
    BY <1>2, <1>5
  <2>2. AuxSort(l, Tail(todo))
    BY <1>4, <1>5
  <2>3. order = "less" => \A x, y \in lo..up : x < y => l[x] <= l[y]
    BY <1>3, <2>1
  <2> QED
    BY <1>0, <1>3, <2>2, <2>3, TailNext
<1>6. CASE up - lo # 1
  <2>1. /\ list' = l /\ p' \in Pivots /\ ask' = "low"
        /\ todo' = todo /\ i' = i /\ j' = j /\ pivot' = pivot
    BY <1>4, <1>6
  <2>2. p' \in (lo + 1)..(up - 1) /\ p' \in Int
    BY <1>2, <1>6, <2>1, PivotsInside
  <2>3. lo' = lo /\ up' = up
    BY <2>1 DEF lo, up
  <2>4. PlacesInside'
    <3>1. todo # <<>>
      BY <1>0, SortIs
    <3> QED
      BY <1>2, <2>1, <2>2, <2>3, <3>1 DEF PlacesInside
  <2>5. Spent' = 1 /\ Spent = 0
    BY <1>0, <2>1 DEF Spent
  <2>6. order = "less" => ValuesParted'
    BY <1>3, <2>1, <2>3 DEF ValuesParted
  <2>7. Spent' \in Int /\ Spent' >= Spent + 1
    BY <2>5
  <2>8. /\ list' \in Seq(Elements) /\ Len(list') = Len(list)
        /\ \A v \in Elements : Copies(list', v) = Copies(list, v)
        /\ order = "less" => InOrderBut(list', todo)
        /\ i' \in Int /\ j' \in Int /\ pivot' \in Int
    BY <1>2, <1>3, <2>1
  <2> QED
    BY <1>0, <2>1, <2>2, <2>4, <2>6, <2>7, <2>8, Asks
<1> QED
  BY <1>5, <1>6

-----------------------------------------------------------------------------
(***************************************************************************)
(* The pivot is chosen and put before the last element.                    *)
(***************************************************************************)

LEMMA Partitions ==
  ASSUME Elements \subseteq Int, MaxLength \in Nat, ListsTypeOK, SortInv, out.call = "none",
         UNCHANGED <<given, order, out>>, asked' = asked + 1, ask \in {"low", "high"},
         NEW l \in Seq(Elements), Len(l) = Len(list),
         \A v \in Elements : Copies(l, v) = Copies(list, v),
         order = "less" => InOrderBut(l, todo) /\ l[lo] <= l[p] /\ l[p] <= l[up],
         Partition(l)
  PROVE  ListsTypeOK' /\ SortInv'
<1> DEFINE r == Swapped(l, p, up - 1)
<1>1. Sorting
  BY DEF Sorting
<1>2. /\ lo \in Int /\ up \in Int /\ lo < up /\ todo # <<>>
      /\ p \in (lo + 1)..(up - 1) /\ i \in Int /\ j \in Int /\ pivot \in Int
  <2>1. p \in (lo + 1)..(up - 1)
    BY DEF SortInv, PlacesInside
  <2> QED
    BY <1>1, <2>1, ListNow
<1>3. p \in lo..up /\ p \in Int /\ up - 1 \in lo..up /\ lo \in lo..up /\ up \in lo..up
  BY <1>2
<1>4. /\ r \in Seq(Elements) /\ Len(r) = Len(list)
      /\ \A v \in Elements : Copies(r, v) = Copies(list, v)
      /\ order = "less" => InOrderBut(r, todo)
      /\ \A x \in lo..up :
           /\ l[x] \in Int /\ r[x] \in Int
           /\ r[x] = IF x = up - 1 THEN l[p] ELSE IF x = p THEN l[up - 1] ELSE l[x]
  <2>1. order = "less" => InOrderBut(l, todo)
    OBVIOUS
  <2>2. \A k, m \in lo..up :
          /\ Swapped(l, k, m) \in Seq(Elements) /\ Len(Swapped(l, k, m)) = Len(list)
          /\ \A v \in Elements : Copies(Swapped(l, k, m), v) = Copies(list, v)
          /\ order = "less" => InOrderBut(Swapped(l, k, m), todo)
          /\ \A x \in lo..up :
               /\ l[x] \in Int /\ Swapped(l, k, m)[x] \in Int
               /\ Swapped(l, k, m)[x] = IF x = m THEN l[k] ELSE IF x = k THEN l[m] ELSE l[x]
    BY <1>1, <2>1, SwapsInside
  <2> HIDE DEF Swapped
  <2> QED
    BY <1>3, <2>2, ZenonT(30)
<1>5. IF up - lo = 2 THEN AuxSort(l, Tail(todo))
      ELSE /\ pivot' = l[p] /\ list' = r /\ i' = lo + 1 /\ j' = up - 1
           /\ ask' = "right" /\ todo' = todo /\ p' = p
  BY DEF Partition
<1> HIDE DEF r
<1>6. CASE up - lo = 2
  <2>1. p = lo + 1 /\ up = lo + 2
    BY <1>2, <1>6
  <2>2. \A x, y \in lo..up : x < y => (x = lo /\ y = p) \/ (x = p /\ y = up) \/ (x = lo /\ y = up)
    BY <1>2, <2>1
  <2>3. ASSUME order = "less", NEW x \in lo..up, NEW y \in lo..up, x < y PROVE l[x] <= l[y]
    <3>1. l[lo] <= l[p] /\ l[p] <= l[up]
      BY <2>3
    <3>2. l[lo] \in Int /\ l[p] \in Int /\ l[up] \in Int
      BY <1>3, <1>4
    <3>3. l[lo] <= l[up]
      BY <3>1, <3>2
    <3> QED
      BY <2>2, <2>3, <3>1, <3>3
  <2>4. AuxSort(l, Tail(todo))
    BY <1>5, <1>6
  <2> QED
    BY <1>1, <2>3, <2>4, TailNext
<1>7. CASE up - lo # 2
  <2>1. /\ pivot' = l[p] /\ list' = r /\ i' = lo + 1 /\ j' = up - 1
        /\ ask' = "right" /\ todo' = todo /\ p' = p
    BY <1>5, <1>7
  <2>2. lo' = lo /\ up' = up
    BY <2>1 DEF lo, up
  <2>3. i' \in Int /\ j' \in Int /\ pivot' \in Int /\ p' \in Int /\ up - lo >= 3
    BY <1>2, <1>3, <1>4, <1>7, <2>1
  <2>4. PlacesInside'
    BY <1>2, <2>1, <2>2, <2>3 DEF PlacesInside
  <2>5. Spent' = 3 /\ Spent \in {1, 2}
    <3>1. Spent' = 3 + ((lo + 1) - lo - 1) + (up - 1 - (up - 1))
      BY <2>1, <2>2 DEF Spent
    <3>2. Spent \in {1, 2}
      BY DEF Spent
    <3> QED
      BY <1>2, <3>1, <3>2
  <2>6. Spent' \in Int /\ Spent' >= Spent + 1
    BY <2>5
  <2>7. ASSUME order = "less" PROVE ValuesParted'
    <3>1. l[lo] <= l[p] /\ l[p] <= l[up]
      BY <2>7
    <3>2. r[up - 1] = l[p] /\ r[lo] = l[lo] /\ r[up] = l[up]
      <4>1. lo # up - 1 /\ lo # p /\ up # up - 1 /\ up # p
        BY <1>2, <2>3
      <4> QED
        BY <1>3, <1>4, <4>1
    <3>3. /\ \A x \in lo..((lo + 1) - 1) : x = lo
          /\ \A x \in ((up - 1) + 1)..up : x = up
      BY <1>2
    <3>4. l[p] <= l[p]
      <4>1. l[p] \in Int
        BY <1>3, <1>4
      <4> QED
        BY <4>1
    <3>5. /\ pivot' = list'[up' - 1] /\ pivot' <= list'[j']
      BY <2>1, <2>2, <3>2, <3>4
    <3>6. /\ \A x \in lo'..(i' - 1) : list'[x] <= pivot'
          /\ \A x \in (j' + 1)..up' : pivot' <= list'[x]
      BY <2>1, <2>2, <3>1, <3>2, <3>3
    <3> QED
      BY <2>1, <3>5, <3>6 DEF ValuesParted
  <2>8. /\ list' \in Seq(Elements) /\ Len(list') = Len(list)
        /\ \A v \in Elements : Copies(list', v) = Copies(list, v)
        /\ order = "less" => InOrderBut(list', todo)
    BY <1>4, <2>1
  <2> QED
    BY <1>1, <2>1, <2>3, <2>4, <2>6, <2>7, <2>8, Asks
<1> QED
  BY <1>6, <1>7

LEMMA LowKeeps ==
  ASSUME Elements \subseteq Int, MaxLength \in Nat, ListsTypeOK, SortInv, out.call = "none",
         UNCHANGED <<given, order, out>>, NEW answer \in BOOLEAN, SortComp(answer), Low(answer)
  PROVE  ListsTypeOK' /\ SortInv'
<1>0. /\ ask = "low" /\ Sorting /\ asked' = asked + 1
  BY DEF Low, Sorting, SortComp
<1>1. order = "less" => /\ answer => list[p] < list[lo]
                        /\ ~answer => ~(list[p] < list[lo])
  <2>1. Asked[1] = list[p] /\ Asked[2] = list[lo]
    BY <1>0 DEF Asked
  <2> QED
    BY <2>1, AnswerIs
<1>2. /\ lo \in Int /\ up \in Int /\ lo < up /\ lo \in lo..up /\ up \in lo..up /\ todo # <<>>
      /\ list \in Seq(Elements) /\ \A x \in lo..up : list[x] \in Int
      /\ order = "less" => InOrderBut(list, todo) /\ ValuesParted
      /\ p \in Int /\ i \in Int /\ j \in Int /\ pivot \in Int
  BY <1>0, ListNow
<1>3. p \in (lo + 1)..(up - 1)
  BY <1>0 DEF SortInv, PlacesInside
<1>4. p \in lo..up /\ p # lo /\ p # up
  BY <1>2, <1>3
<1>5. order = "less" => list[lo] <= list[up]
  BY <1>0, <1>2 DEF ValuesParted
<1>6. list[lo] \in Int /\ list[p] \in Int /\ list[up] \in Int
  BY <1>2, <1>4
<1>7. CASE answer
  <2> DEFINE l == Swapped(list, p, lo)
  <2>1. /\ l \in Seq(Elements) /\ Len(l) = Len(list)
        /\ \A v \in Elements : Copies(l, v) = Copies(list, v)
        /\ order = "less" => InOrderBut(l, todo)
        /\ \A x \in lo..up : l[x] = IF x = lo THEN list[p] ELSE IF x = p THEN list[lo] ELSE list[x]
    BY <1>0, <1>2, <1>4, SwapsInside
  <2>2. Partition(l)
    BY <1>7 DEF Low
  <2> HIDE DEF l
  <2>3. l[lo] = list[p] /\ l[p] = list[lo] /\ l[up] = list[up]
    BY <1>2, <1>4, <2>1
  <2>4. order = "less" => l[lo] <= l[p] /\ l[p] <= l[up]
    <3>1. order = "less" => list[p] < list[lo]
      BY <1>1, <1>7
    <3> QED
      BY <1>5, <1>6, <2>3, <3>1
  <2> QED
    BY <1>0, <2>1, <2>2, <2>4, Partitions
<1>8. CASE ~answer
  <2>1. /\ ask' = "high" /\ list' = list /\ todo' = todo /\ p' = p
        /\ i' = i /\ j' = j /\ pivot' = pivot
    BY <1>8 DEF Low
  <2>2. lo' = lo /\ up' = up
    BY <2>1 DEF lo, up
  <2>3. PlacesInside'
    BY <1>2, <1>3, <2>1, <2>2 DEF PlacesInside
  <2>4. Spent' = 2 /\ Spent = 1
    BY <1>0, <2>1 DEF Spent
  <2>5. Spent' \in Int /\ Spent' >= Spent + 1
    BY <2>4
  <2>6. ASSUME order = "less" PROVE ValuesParted'
    <3>1. ~(list[p] < list[lo])
      BY <1>1, <1>8, <2>6
    <3>2. list[lo] <= list[p]
      BY <1>6, <3>1
    <3> QED
      BY <1>5, <2>1, <2>2, <2>6, <3>2 DEF ValuesParted
  <2>7. /\ list' \in Seq(Elements) /\ Len(list') = Len(list)
        /\ \A v \in Elements : Copies(list', v) = Copies(list, v)
        /\ order = "less" => InOrderBut(list', todo)
        /\ p' \in Int /\ i' \in Int /\ j' \in Int /\ pivot' \in Int
    BY <1>2, <2>1
  <2> QED
    BY <1>0, <2>1, <2>3, <2>5, <2>6, <2>7, Asks
<1> QED
  BY <1>7, <1>8

LEMMA HighKeeps ==
  ASSUME Elements \subseteq Int, MaxLength \in Nat, ListsTypeOK, SortInv, out.call = "none",
         UNCHANGED <<given, order, out>>, NEW answer \in BOOLEAN, SortComp(answer), High(answer)
  PROVE  ListsTypeOK' /\ SortInv'
<1>0. /\ ask = "high" /\ Sorting /\ asked' = asked + 1
  BY DEF High, Sorting, SortComp
<1>1. order = "less" => /\ answer => list[up] < list[p]
                        /\ ~answer => ~(list[up] < list[p])
  <2>1. Asked[1] = list[up] /\ Asked[2] = list[p]
    BY <1>0 DEF Asked
  <2> QED
    BY <2>1, AnswerIs
<1>2. /\ lo \in Int /\ up \in Int /\ lo < up /\ lo \in lo..up /\ up \in lo..up
      /\ list \in Seq(Elements) /\ \A x \in lo..up : list[x] \in Int
      /\ order = "less" => InOrderBut(list, todo) /\ ValuesParted
  BY <1>0, ListNow
<1>3. p \in (lo + 1)..(up - 1)
  BY <1>0 DEF SortInv, PlacesInside
<1>4. p \in lo..up /\ p # lo /\ p # up /\ lo # up
  BY <1>2, <1>3
<1>5. order = "less" => list[lo] <= list[up] /\ list[lo] <= list[p]
  BY <1>0, <1>2 DEF ValuesParted
<1>6. list[lo] \in Int /\ list[p] \in Int /\ list[up] \in Int
  BY <1>2, <1>4
<1>7. CASE answer
  <2> DEFINE l == Swapped(list, p, up)
  <2>1. /\ l \in Seq(Elements) /\ Len(l) = Len(list)
        /\ \A v \in Elements : Copies(l, v) = Copies(list, v)
        /\ order = "less" => InOrderBut(l, todo)
        /\ \A x \in lo..up : l[x] = IF x = up THEN list[p] ELSE IF x = p THEN list[up] ELSE list[x]
    BY <1>0, <1>2, <1>4, SwapsInside
  <2>2. Partition(l)
    BY <1>7 DEF High
  <2> HIDE DEF l
  <2>3. l[lo] = list[lo] /\ l[p] = list[up] /\ l[up] = list[p]
    BY <1>2, <1>4, <2>1
  <2>4. order = "less" => l[lo] <= l[p] /\ l[p] <= l[up]
    <3>1. order = "less" => list[up] < list[p]
      BY <1>1, <1>7
    <3> QED
      BY <1>5, <1>6, <2>3, <3>1
  <2> QED
    BY <1>0, <2>1, <2>2, <2>4, Partitions
<1>8. CASE ~answer
  <2>1. Partition(list)
    BY <1>8 DEF High
  <2>2. order = "less" => list[lo] <= list[p] /\ list[p] <= list[up]
    <3>1. order = "less" => ~(list[up] < list[p])
      BY <1>1, <1>8
    <3> QED
      BY <1>5, <1>6, <3>1
  <2>3. \A v \in Elements : Copies(list, v) = Copies(list, v)
    OBVIOUS
  <2> QED
    BY <1>0, <1>2, <2>1, <2>2, <2>3, Partitions
<1> QED
  BY <1>7, <1>8

-----------------------------------------------------------------------------
(***************************************************************************)
(* The values less than the pivot are put before those that are greater.   *)
(***************************************************************************)

\* What is known while an interval is parted.
LEMMA PartNow ==
  ASSUME Elements \subseteq Int, ListsTypeOK, SortInv, ask \in {"right", "left"}
  PROVE  /\ Sorting /\ lo \in Int /\ up \in Int /\ up - lo >= 3 /\ todo # <<>>
         /\ i \in (lo + 1)..(up - 1) /\ p \in Int /\ j \in Int /\ pivot \in Int
         /\ i \in lo..up /\ lo \in lo..up /\ up \in lo..up /\ up - 1 \in lo..up
         /\ ask = "right" => j \in (lo + 1)..(up - 1) /\ j \in lo..up
         /\ ask = "left" => j \in lo..(up - 2) /\ j \in lo..up
         /\ list \in Seq(Elements) /\ \A x \in lo..up : list[x] \in Int
         /\ order = "less" =>
              /\ InOrderBut(list, todo)
              /\ pivot = list[up - 1]
              /\ \A x \in lo..(i - 1) : list[x] <= pivot
              /\ \A x \in (j + 1)..up : pivot <= list[x]
              /\ ask = "right" => pivot <= list[j]
              /\ ask = "left" => pivot <= list[i]
<1>1. Sorting
  BY DEF Sorting
<1>2. /\ lo \in Int /\ up \in Int /\ lo < up /\ todo # <<>>
      /\ p \in Int /\ j \in Int /\ pivot \in Int
      /\ list \in Seq(Elements) /\ \A x \in lo..up : list[x] \in Int
  BY <1>1, ListNow
<1>3. order = "less" => InOrderBut(list, todo) /\ ValuesParted
  BY <1>1, ListNow
<1>4. /\ up - lo >= 3 /\ i \in (lo + 1)..(up - 1)
      /\ ask = "right" => j \in (lo + 1)..(up - 1)
      /\ ask = "left" => j \in lo..(up - 2)
  BY DEF SortInv, PlacesInside
<1>5. /\ i \in lo..up /\ lo \in lo..up /\ up \in lo..up /\ up - 1 \in lo..up
      /\ ask = "right" => j \in lo..up
      /\ ask = "left" => j \in lo..up
  BY <1>2, <1>4
<1>6. ASSUME order = "less"
      PROVE  /\ pivot = list[up - 1]
             /\ \A x \in lo..(i - 1) : list[x] <= pivot
             /\ \A x \in (j + 1)..up : pivot <= list[x]
             /\ ask = "right" => pivot <= list[j]
             /\ ask = "left" => pivot <= list[i]
  <2>1. ValuesParted
    BY <1>3, <1>6
  <2> QED
    BY <2>1 DEF ValuesParted
<1> QED
  BY <1>1, <1>2, <1>3, <1>4, <1>5, <1>6

LEMMA RightKeeps ==
  ASSUME Elements \subseteq Int, MaxLength \in Nat, ListsTypeOK, SortInv, out.call = "none",
         UNCHANGED <<given, order, out>>, NEW answer \in BOOLEAN, SortComp(answer), Right(answer)
  PROVE  ListsTypeOK' /\ SortInv'
<1>0. ask = "right" /\ asked' = asked + 1
  BY DEF Right, SortComp
<1>1. order = "less" => /\ answer => list[i] < pivot
                        /\ ~answer => ~(list[i] < pivot)
  <2>1. Asked[1] = list[i] /\ Asked[2] = pivot
    BY <1>0 DEF Asked
  <2> QED
    BY <2>1, AnswerIs
<1>2. /\ Sorting /\ lo \in Int /\ up \in Int /\ up - lo >= 3 /\ todo # <<>>
      /\ i \in (lo + 1)..(up - 1) /\ p \in Int /\ j \in (lo + 1)..(up - 1) /\ pivot \in Int
      /\ i \in lo..up /\ list \in Seq(Elements) /\ list[i] \in Int
  BY <1>0, PartNow
<1>3. order = "less" => /\ InOrderBut(list, todo)
                        /\ pivot = list[up - 1] /\ pivot <= list[j]
                        /\ \A x \in lo..(i - 1) : list[x] <= pivot
                        /\ \A x \in (j + 1)..up : pivot <= list[x]
  BY <1>0, PartNow
<1>4. Spent = 3 + (i - lo - 1) + (up - 1 - j)
  BY <1>0 DEF Spent
<1>5. CASE ~answer
  <2>1. /\ ask' = "left" /\ j' = j - 1 /\ list' = list /\ todo' = todo /\ p' = p
        /\ i' = i /\ pivot' = pivot
    BY <1>5 DEF Right
  <2>2. lo' = lo /\ up' = up
    BY <2>1 DEF lo, up
  <2>3. PlacesInside'
    BY <1>2, <2>1, <2>2 DEF PlacesInside
  <2>4. Spent' \in Int /\ Spent' >= Spent + 1
    <3>1. Spent' = 3 + (i - lo - 1) + (up - 1 - (j - 1))
      BY <2>1, <2>2 DEF Spent
    <3> QED
      BY <1>2, <1>4, <3>1
  <2>5. ASSUME order = "less" PROVE ValuesParted'
    <3>1. ~(list[i] < pivot)
      BY <1>1, <1>5, <2>5
    <3>2. pivot <= list[i]
      BY <1>2, <3>1
    <3>3. \A x \in ((j - 1) + 1)..up : x = j \/ x \in (j + 1)..up
      BY <1>2
    <3>4. \A x \in ((j - 1) + 1)..up : pivot <= list[x]
      BY <1>3, <2>5, <3>3
    <3> QED
      BY <1>3, <2>1, <2>2, <2>5, <3>2, <3>4 DEF ValuesParted
  <2>6. /\ list' \in Seq(Elements) /\ Len(list') = Len(list)
        /\ \A v \in Elements : Copies(list', v) = Copies(list, v)
        /\ order = "less" => InOrderBut(list', todo)
        /\ p' \in Int /\ i' \in Int /\ j' \in Int /\ pivot' \in Int
    BY <1>2, <1>3, <2>1
  <2> QED
    BY <1>0, <1>2, <2>1, <2>3, <2>4, <2>5, <2>6, Asks
<1>6. CASE answer /\ i = up - 1
  <2>1. /\ ask' = "invalid" /\ list' = list /\ todo' = todo /\ p' = p
        /\ i' = i /\ j' = j /\ pivot' = pivot
    BY <1>6 DEF Right, InvalidOrder
  <2>2. order # "less"
    <3> SUFFICES ASSUME order = "less" PROVE FALSE
      OBVIOUS
    <3>1. list[i] < pivot
      BY <1>1, <1>6
    <3>2. pivot = list[i]
      BY <1>3, <1>6
    <3> QED
      BY <1>2, <3>1, <3>2
  <2>3. order = "any"
    BY <2>2 DEF ListsTypeOK
  <2>4. asked' \in {asked, asked + 1} /\ ask' \in {"error", "invalid"}
    BY <1>0, <2>1
  <2>5. UNCHANGED <<given, order, out, list, todo, p, i, j, pivot>>
    BY <2>1
  <2> QED
    BY <1>2, <2>3, <2>4, <2>5, Stops
<1>7. CASE answer /\ i # up - 1
  <2>1. /\ ask' = ask /\ i' = i + 1 /\ list' = list /\ todo' = todo /\ p' = p
        /\ j' = j /\ pivot' = pivot
    BY <1>7 DEF Right
  <2>2. lo' = lo /\ up' = up
    BY <2>1 DEF lo, up
  <2>3. PlacesInside'
    BY <1>0, <1>2, <1>7, <2>1, <2>2 DEF PlacesInside
  <2>4. Spent' \in Int /\ Spent' >= Spent + 1
    <3>1. Spent' = 3 + ((i + 1) - lo - 1) + (up - 1 - j)
      BY <1>0, <2>1, <2>2 DEF Spent
    <3> QED
      BY <1>2, <1>4, <3>1
  <2>5. ASSUME order = "less" PROVE ValuesParted'
    <3>1. list[i] < pivot
      BY <1>1, <1>7, <2>5
    <3>2. list[i] <= pivot
      BY <1>2, <3>1
    <3>3. \A x \in lo..((i + 1) - 1) : x = i \/ x \in lo..(i - 1)
      BY <1>2
    <3>4. \A x \in lo..((i + 1) - 1) : list[x] <= pivot
      BY <1>3, <2>5, <3>2, <3>3
    <3> QED
      BY <1>0, <1>3, <2>1, <2>2, <2>5, <3>4 DEF ValuesParted
  <2>6. /\ list' \in Seq(Elements) /\ Len(list') = Len(list)
        /\ \A v \in Elements : Copies(list', v) = Copies(list, v)
        /\ order = "less" => InOrderBut(list', todo)
        /\ p' \in Int /\ i' \in Int /\ j' \in Int /\ pivot' \in Int
    BY <1>2, <1>3, <2>1
  <2>7. ask' \in {"low", "high", "right", "left"}
    BY <1>0, <2>1
  <2> QED
    BY <1>0, <1>2, <2>1, <2>3, <2>4, <2>5, <2>6, <2>7, Asks
<1> QED
  BY <1>5, <1>6, <1>7

\* The pivot comes to its place, and the interval is split there.
LEMMA SplitKeeps ==
  ASSUME Elements \subseteq Int, MaxLength \in Nat, ListsTypeOK, SortInv, out.call = "none",
         UNCHANGED <<given, order, out>>, asked' = asked + 1, ask = "left", j < i,
         order = "less" => list[j] <= pivot,
         Split(Swapped(list, up - 1, i), i)
  PROVE  ListsTypeOK' /\ SortInv'
<1> DEFINE l == Swapped(list, up - 1, i)
           n == Len(list)
<1>1. /\ Sorting /\ lo \in Int /\ up \in Int /\ up - lo >= 3 /\ todo # <<>>
      /\ i \in (lo + 1)..(up - 1) /\ i \in lo..up /\ up - 1 \in lo..up
      /\ j \in lo..(up - 2) /\ list \in Seq(Elements) /\ pivot \in Int
  BY PartNow
<1>2. order = "less" => /\ InOrderBut(list, todo)
                        /\ pivot = list[up - 1] /\ pivot <= list[i]
                        /\ \A x \in lo..(i - 1) : list[x] <= pivot
                        /\ \A x \in (j + 1)..up : pivot <= list[x]
  BY PartNow
<1>3. /\ l \in Seq(Elements) /\ Len(l) = n
      /\ \A v \in Elements : Copies(l, v) = Copies(list, v)
      /\ order = "less" => InOrderBut(l, todo)
      /\ \A x \in lo..up : l[x] = IF x = i THEN list[up - 1] ELSE IF x = up - 1 THEN list[i] ELSE list[x]
      /\ \A x \in lo..up : l[x] \in Int
  <2>1. \A v \in Elements : Copies(list, v) = Copies(list, v)
    OBVIOUS
  <2>2. order = "less" => InOrderBut(list, todo)
    BY <1>2
  <2>3. \A k, m \in lo..up :
          /\ Swapped(list, k, m) \in Seq(Elements) /\ Len(Swapped(list, k, m)) = Len(list)
          /\ \A v \in Elements : Copies(Swapped(list, k, m), v) = Copies(list, v)
          /\ order = "less" => InOrderBut(Swapped(list, k, m), todo)
          /\ \A x \in lo..up :
               /\ list[x] \in Int /\ Swapped(list, k, m)[x] \in Int
               /\ Swapped(list, k, m)[x] = IF x = m THEN list[k] ELSE IF x = k THEN list[m] ELSE list[x]
    BY <1>1, <2>1, <2>2, SwapsInside
  <2> HIDE DEF Swapped
  <2> QED
    BY <1>1, <2>3
<1>4. n \in Nat /\ todo \in Intervals /\ Fit(todo, n) /\ Nested(todo, n)
  BY <1>1, SortIs
<1>5. PICK s \in Intervals :
        /\ s = (IF i - lo < up - i THEN <<<<lo, i - 1>>, <<i + 1, up>>>>
                ELSE <<<<i + 1, up>>, <<lo, i - 1>>>>) \o Tail(todo)
        /\ Fit(s, n) /\ Nested(s, n)
        /\ \A x, y : Together(Tail(todo), x, y) => Together(s, x, y)
        /\ \A x, y \in lo..(i - 1) : Together(s, x, y)
        /\ \A x, y \in (i + 1)..up : Together(s, x, y)
        /\ \A x, y \in Int : Together(s, x, y) => Together(todo, x, y)
        /\ \A x \in lo..up : ~Together(s, i, x) /\ ~Together(s, x, i)
  <2> HIDE DEF n
  <2> QED
    BY <1>1, <1>4, Splits
<1>6. AuxSort(l, s)
  <2>1. s = (IF i - lo < up - i THEN <<<<lo, i - 1>>, <<i + 1, up>>>>
             ELSE <<<<i + 1, up>>, <<lo, i - 1>>>>) \o Tail(todo)
    BY <1>5
  <2> HIDE DEF AuxSort, Swapped, lo, up
  <2> QED
    BY <2>1, Zenon DEF Split
<1>7. /\ Fit(s, Len(l)) /\ Nested(s, Len(l))
      /\ \A x, y \in Int : Together(s, x, y) => Together(todo, x, y)
      /\ \A x \in lo..up : ~Together(s, i, x) /\ ~Together(s, x, i)
      /\ \A x, y : Together(Tail(todo), x, y) => Together(s, x, y)
      /\ \A x, y \in lo..(i - 1) : Together(s, x, y)
      /\ \A x, y \in (i + 1)..up : Together(s, x, y)
  BY <1>3, <1>5, Zenon
<1>8. Fit(todo, Len(l))
  BY <1>3, <1>4, Zenon
<1> HIDE DEF l, n
<1>9. ASSUME order = "less" PROVE InOrderBut(l, s)
  <2>1. \A x \in lo..i : l[x] <= pivot
    <3> SUFFICES ASSUME NEW x \in lo..i PROVE l[x] <= pivot
      OBVIOUS
    <3>1. x \in lo..up /\ (x = i \/ (x # i /\ x # up - 1 /\ x \in lo..(i - 1)))
      BY <1>1
    <3>2. pivot <= pivot /\ pivot = list[up - 1]
      BY <1>1, <1>2, <1>9
    <3>3. CASE x = i
      <4>1. l[x] = list[up - 1]
        BY <1>3, <3>1, <3>3
      <4> QED
        BY <3>2, <4>1
    <3>4. CASE x # i /\ x # up - 1 /\ x \in lo..(i - 1)
      <4>1. l[x] = list[x]
        BY <1>3, <3>1, <3>4
      <4> QED
        BY <1>2, <1>9, <3>4, <4>1
    <3> QED
      BY <3>1, <3>3, <3>4
  <2>2. \A x \in i..up : pivot <= l[x]
    <3> SUFFICES ASSUME NEW x \in i..up PROVE pivot <= l[x]
      OBVIOUS
    <3>1. x \in lo..up /\ (x = i \/ (x # i /\ x \in (j + 1)..up))
      BY <1>1
    <3>2. pivot <= pivot /\ pivot = list[up - 1] /\ pivot <= list[i]
      BY <1>1, <1>2, <1>9
    <3>3. CASE x = i
      <4>1. l[x] = list[up - 1]
        BY <1>3, <3>1, <3>3
      <4> QED
        BY <3>2, <4>1
    <3>4. CASE x # i /\ x \in (j + 1)..up
      <4>1. l[x] = list[x] \/ l[x] = list[i]
        BY <1>3, <3>1, <3>4
      <4> QED
        BY <1>2, <1>9, <3>2, <3>4, <4>1
    <3> QED
      BY <3>1, <3>3, <3>4
  <2>3. ASSUME NEW x \in lo..up, NEW y \in lo..up, x < y, ~Together(s, x, y)
        PROVE  l[x] <= l[y]
    <3>1. x \in lo..(i - 1) \/ x \in i..up
      BY <1>1
    <3>2. y \in (i + 1)..up \/ y \in lo..i
      BY <1>1
    <3>3. ~(x \in lo..(i - 1) /\ y \in lo..(i - 1)) /\ ~(x \in (i + 1)..up /\ y \in (i + 1)..up)
      BY <1>7, <2>3
    <3>4. x \in lo..i /\ y \in i..up
      BY <1>1, <2>3, <3>3
    <3>5. l[x] <= pivot /\ pivot <= l[y] /\ l[x] \in Int /\ l[y] \in Int
      BY <1>3, <2>1, <2>2, <3>4
    <3> QED
      BY <1>1, <3>5
  <2>4. InOrderBut(l, todo)
    BY <1>3, <1>9
  <2>5. \A x, y \in lo..up : x < y /\ ~Together(s, x, y) => l[x] <= l[y]
    BY <2>3
  <2> QED
    BY <1>1, <1>3, <1>4, <1>7, <1>8, <2>4, <2>5, OrderInside, Zenon
<1>10. Spent \in Int /\ Spent + 1 <= 2 * (up - lo + 1) - 1
  BY <1>1, RoomLeft
<1>11. Len(l) = Len(list)
  BY <1>3 DEF n
<1> QED
  BY <1>1, <1>3, <1>6, <1>7, <1>9, <1>10, <1>11, IntervalEnds, Zenon

LEMMA LeftKeeps ==
  ASSUME Elements \subseteq Int, MaxLength \in Nat, ListsTypeOK, SortInv, out.call = "none",
         UNCHANGED <<given, order, out>>, NEW answer \in BOOLEAN, SortComp(answer), Left(answer)
  PROVE  ListsTypeOK' /\ SortInv'
<1>0. ask = "left" /\ asked' = asked + 1
  BY DEF Left, SortComp
<1>1. order = "less" => /\ answer => pivot < list[j]
                        /\ ~answer => ~(pivot < list[j])
  <2>1. Asked[1] = pivot /\ Asked[2] = list[j]
    BY <1>0 DEF Asked
  <2> QED
    BY <2>1, AnswerIs
<1>2. /\ Sorting /\ lo \in Int /\ up \in Int /\ up - lo >= 3 /\ todo # <<>>
      /\ i \in (lo + 1)..(up - 1) /\ p \in Int /\ j \in lo..(up - 2) /\ pivot \in Int
      /\ i \in lo..up /\ j \in lo..up /\ list \in Seq(Elements)
      /\ list[i] \in Int /\ list[j] \in Int
  BY <1>0, PartNow
<1>3. order = "less" => /\ InOrderBut(list, todo)
                        /\ pivot = list[up - 1] /\ pivot <= list[i]
                        /\ \A x \in lo..(i - 1) : list[x] <= pivot
                        /\ \A x \in (j + 1)..up : pivot <= list[x]
  BY <1>0, PartNow
<1>4. Spent = 3 + (i - lo - 1) + (up - 1 - j)
  BY <1>0 DEF Spent
<1>5. CASE answer /\ j < i
  <2>1. /\ ask' = "invalid" /\ list' = list /\ todo' = todo /\ p' = p
        /\ i' = i /\ j' = j /\ pivot' = pivot
    BY <1>5 DEF Left, InvalidOrder
  <2>2. order # "less"
    <3> SUFFICES ASSUME order = "less" PROVE FALSE
      OBVIOUS
    <3>1. pivot < list[j]
      BY <1>1, <1>5
    <3>2. j \in lo..(i - 1)
      BY <1>2, <1>5
    <3>3. list[j] <= pivot
      BY <1>3, <3>2
    <3> QED
      BY <1>2, <3>1, <3>3
  <2>3. order = "any"
    BY <2>2 DEF ListsTypeOK
  <2>4. asked' \in {asked, asked + 1} /\ ask' \in {"error", "invalid"}
    BY <1>0, <2>1
  <2>5. UNCHANGED <<given, order, out, list, todo, p, i, j, pivot>>
    BY <2>1
  <2> QED
    BY <1>2, <2>3, <2>4, <2>5, Stops
<1>6. CASE answer /\ ~(j < i)
  <2>1. /\ ask' = ask /\ j' = j - 1 /\ list' = list /\ todo' = todo /\ p' = p
        /\ i' = i /\ pivot' = pivot
    BY <1>6 DEF Left
  <2>2. lo' = lo /\ up' = up
    BY <2>1 DEF lo, up
  <2>3. PlacesInside'
    BY <1>0, <1>2, <1>6, <2>1, <2>2 DEF PlacesInside
  <2>4. Spent' \in Int /\ Spent' >= Spent + 1
    <3>1. Spent' = 3 + (i - lo - 1) + (up - 1 - (j - 1))
      BY <1>0, <2>1, <2>2 DEF Spent
    <3> QED
      BY <1>2, <1>4, <3>1
  <2>5. ASSUME order = "less" PROVE ValuesParted'
    <3>1. pivot < list[j]
      BY <1>1, <1>6, <2>5
    <3>2. pivot <= list[j]
      BY <1>2, <3>1
    <3>3. \A x \in ((j - 1) + 1)..up : x = j \/ x \in (j + 1)..up
      BY <1>2
    <3>4. \A x \in ((j - 1) + 1)..up : pivot <= list[x]
      BY <1>3, <2>5, <3>2, <3>3
    <3> QED
      BY <1>0, <1>3, <2>1, <2>2, <2>5, <3>4 DEF ValuesParted
  <2>6. /\ list' \in Seq(Elements) /\ Len(list') = Len(list)
        /\ \A v \in Elements : Copies(list', v) = Copies(list, v)
        /\ order = "less" => InOrderBut(list', todo)
        /\ p' \in Int /\ i' \in Int /\ j' \in Int /\ pivot' \in Int
    BY <1>2, <1>3, <2>1
  <2>7. ask' \in {"low", "high", "right", "left"}
    BY <1>0, <2>1
  <2> QED
    BY <1>0, <1>2, <2>1, <2>3, <2>4, <2>5, <2>6, <2>7, Asks
<1>7. ASSUME ~answer, order = "less" PROVE list[j] <= pivot
  <2>1. ~(pivot < list[j])
    BY <1>1, <1>7
  <2> QED
    BY <1>2, <2>1
<1>8. CASE ~answer /\ j < i
  <2>1. Split(Swapped(list, up - 1, i), i)
    BY <1>8 DEF Left
  <2>2. order = "less" => list[j] <= pivot
    BY <1>7, <1>8
  <2> QED
    BY <1>0, <1>8, <2>1, <2>2, SplitKeeps
<1>9. CASE ~answer /\ ~(j < i)
  <2> DEFINE r == Swapped(list, i, j)
  <2>1. /\ ask' = "right" /\ i' = i + 1 /\ list' = r /\ todo' = todo /\ p' = p
        /\ j' = j /\ pivot' = pivot
    BY <1>9 DEF Left
  <2>2. lo' = lo /\ up' = up
    BY <2>1 DEF lo, up
  <2>3. /\ r \in Seq(Elements) /\ Len(r) = Len(list)
        /\ \A v \in Elements : Copies(r, v) = Copies(list, v)
        /\ order = "less" => InOrderBut(r, todo)
        /\ \A x \in lo..up : r[x] = IF x = j THEN list[i] ELSE IF x = i THEN list[j] ELSE list[x]
    <3>1. \A v \in Elements : Copies(list, v) = Copies(list, v)
      OBVIOUS
    <3>2. order = "less" => InOrderBut(list, todo)
      BY <1>3
    <3>3. \A k, m \in lo..up :
            /\ Swapped(list, k, m) \in Seq(Elements) /\ Len(Swapped(list, k, m)) = Len(list)
            /\ \A v \in Elements : Copies(Swapped(list, k, m), v) = Copies(list, v)
            /\ order = "less" => InOrderBut(Swapped(list, k, m), todo)
            /\ \A x \in lo..up :
                 /\ list[x] \in Int /\ Swapped(list, k, m)[x] \in Int
                 /\ Swapped(list, k, m)[x] = IF x = m THEN list[k] ELSE IF x = k THEN list[m] ELSE list[x]
      BY <1>2, <3>1, <3>2, SwapsInside
    <3> HIDE DEF Swapped
    <3> QED
      BY <1>2, <3>3
  <2> HIDE DEF r
  <2>4. PlacesInside'
    BY <1>2, <1>9, <2>1, <2>2 DEF PlacesInside
  <2>5. Spent' \in Int /\ Spent' >= Spent + 1
    <3>1. Spent' = 3 + ((i + 1) - lo - 1) + (up - 1 - j)
      BY <2>1, <2>2 DEF Spent
    <3> QED
      BY <1>2, <1>4, <3>1
  <2>6. ASSUME order = "less" PROVE ValuesParted'
    <3>1. list[j] <= pivot
      BY <1>7, <1>9, <2>6
    <3>2. pivot = r[up - 1]
      <4>1. up - 1 \in lo..up /\ up - 1 # i /\ up - 1 # j
        BY <1>2, <1>9
      <4> QED
        BY <1>3, <2>3, <2>6, <4>1
    <3>3. pivot <= r[j]
      BY <1>2, <1>3, <2>3, <2>6
    <3>4. ASSUME NEW x \in lo..((i + 1) - 1) PROVE r[x] <= pivot
      <4>1. x \in lo..up /\ (x = i \/ (x \in lo..(i - 1) /\ x # i /\ x # j))
        BY <1>2, <1>9
      <4>2. CASE x = i
        <5>1. r[x] = list[j]
          BY <1>2, <2>3, <4>2
        <5> QED
          BY <3>1, <5>1
      <4>3. CASE x \in lo..(i - 1) /\ x # i /\ x # j
        <5>1. r[x] = list[x]
          BY <2>3, <4>1, <4>3
        <5> QED
          BY <1>3, <2>6, <4>3, <5>1
      <4> QED
        BY <4>1, <4>2, <4>3
    <3>5. ASSUME NEW x \in (j + 1)..up PROVE pivot <= r[x]
      <4>1. x \in lo..up /\ x # i /\ x # j
        BY <1>2, <1>9
      <4>2. r[x] = list[x]
        BY <2>3, <4>1
      <4> QED
        BY <1>3, <2>6, <4>2
    <3> QED
      BY <2>1, <2>2, <3>2, <3>3, <3>4, <3>5 DEF ValuesParted
  <2>7. /\ list' \in Seq(Elements) /\ Len(list') = Len(list)
        /\ \A v \in Elements : Copies(list', v) = Copies(list, v)
        /\ order = "less" => InOrderBut(list', todo)
        /\ p' \in Int /\ i' \in Int /\ j' \in Int /\ pivot' \in Int
    BY <1>2, <2>1, <2>3
  <2> QED
    BY <1>0, <1>2, <2>1, <2>4, <2>5, <2>6, <2>7, Asks
<1> QED
  BY <1>5, <1>6, <1>8, <1>9

-----------------------------------------------------------------------------
(***************************************************************************)
(* A sort begins, and each of its steps keeps SortInv.                     *)
(***************************************************************************)

\* The one interval that a sort begins with.
LEMMA Whole ==
  ASSUME NEW n \in Nat, n >= 1
  PROVE  /\ <<<<1, n>>>> \in Intervals /\ Fit(<<<<1, n>>>>, n) /\ Nested(<<<<1, n>>>>, n)
         /\ \A x, y \in 1..n : Together(<<<<1, n>>>>, x, y)
<1> DEFINE s == <<<<1, n>>>>
<1>1. s \in Intervals /\ DOMAIN s = {1} /\ s[1] = <<1, n>> /\ Len(s) = 1
  BY DEF Intervals
<1>2. Fit(s, n)
  BY <1>1 DEF Fit, Intervals
<1>3. Nested(s, n)
  <2>1. s \in [DOMAIN s -> Int \X Int]
    BY <1>1 DEF Intervals
  <2>2. Spans(s, s, n)
    BY <1>1 DEF Spans
  <2> QED
    BY <2>1, <2>2 DEF Nested
<1>4. \A x, y \in 1..n : Together(s, x, y)
  BY <1>1 DEF Together, Inside
<1> QED
  BY <1>1, <1>2, <1>3, <1>4

\* Nothing is left to sort of a list without elements.
LEMMA Nothing ==
  /\ Unsorted(<<<<1, 0>>>>) = <<>> /\ Unsorted(<<>>) = <<>>
  /\ <<>> \in Intervals /\ Fit(<<>>, 0) /\ Nested(<<>>, 0)
<1>1. <<<<1, 0>>>> \in Intervals /\ <<>> \in Intervals
  BY DEF Intervals
<1>2. Unsorted(<<>>) = <<>>
  <2>1. PICK d \in Nat : Dropped(Unsorted(<<>>), <<>>, d)
    BY <1>1, UnsortedIs
  <2>2. Unsorted(<<>>) \in Intervals /\ Len(Unsorted(<<>>)) = 0
    BY <1>1, <2>1, UnsortedIs DEF Dropped
  <2> HIDE DEF Unsorted
  <2> QED
    BY <2>2 DEF Intervals
<1>3. Unsorted(<<<<1, 0>>>>) = <<>>
  <2> DEFINE u == Unsorted(<<<<1, 0>>>>)
  <2>1. u \in Intervals /\ (u # <<>> => Head(u)[1] < Head(u)[2])
    BY <1>1, UnsortedIs
  <2>2. PICK d \in Nat : Dropped(u, <<<<1, 0>>>>, d)
    BY <1>1, UnsortedIs
  <2> HIDE DEF u
  <2>3. \A k \in 1..Len(u) : k + d \in 1..1 /\ u[k] = <<<<1, 0>>>>[k + d]
    BY <2>2 DEF Dropped
  <2>4. ASSUME u # <<>> PROVE FALSE
    <3>1. Head(u) = u[1] /\ 1 \in 1..Len(u)
      BY <2>1, <2>4 DEF Intervals
    <3>2. 1 + d = 1 /\ u[1] = <<<<1, 0>>>>[1 + d]
      BY <2>3, <3>1
    <3>3. u[1] = <<1, 0>>
      BY <3>2
    <3> QED
      BY <2>1, <2>4, <3>1, <3>3
  <2> QED
    BY <2>4 DEF u
<1>4. Fit(<<>>, 0)
  BY <1>1 DEF Fit, Intervals
<1>5. Nested(<<>>, 0)
  <2>1. <<>> \in [DOMAIN <<>> -> Int \X Int] /\ DOMAIN <<>> = {} /\ Len(<<>>) = 0
    OBVIOUS
  <2>2. Spans(<<>>, <<>>, 0)
    BY <2>1 DEF Spans
  <2> QED
    BY <2>1, <2>2 DEF Nested
<1> QED
  BY <1>1, <1>2, <1>3, <1>4, <1>5

LEMMA ListsAre ==
  ASSUME LuaTableLibAssumption, NEW l \in Lists
  PROVE  l \in Seq(Elements) /\ Len(l) \in Nat /\ Len(l) <= MaxLength
<1>1. MaxLength \in Nat
  BY DEF LuaTableLibAssumption
<1>2. PICK n \in 0..MaxLength : l \in [1..n -> Elements]
  BY DEF LuaTableLibAssumption
<1> QED
  BY <1>1, <1>2

LEMMA SortStarts ==
  ASSUME LuaTableLibAssumption, Elements \subseteq Int, MaxLength \in Nat, ListsTypeOK, out.call = "none", Sort
  PROVE  ListsTypeOK' /\ SortInv' /\ out' = out
<1>1. PICK l \in Lists, o \in {"less", "any"} :
        given' = l /\ order' = o /\ AuxSort(l, <<<<1, Len(l)>>>>)
  BY DEF Sort
<1> DEFINE n == Len(l)
<1>2. given' = l /\ order' = o /\ AuxSort(l, <<<<1, n>>>>)
  BY <1>1
<1>3. l \in Seq(Elements) /\ Len(l) = n /\ n \in Nat /\ n <= MaxLength
  BY ListsAre
<1> HIDE DEF n
<1>4. asked' = 0 /\ out' = out
  BY DEF Sort, ListsTypeOK
<1>5. p \in Int /\ i \in Int /\ j \in Int /\ pivot \in Int
  BY DEF ListsTypeOK
<1>6. \E s \in Intervals : Fit(s, n) /\ Nested(s, n) /\ AuxSort(l, s) /\ InOrderBut(l, s)
  <2>1. CASE n = 0
    <3>1. Unsorted(<<<<1, n>>>>) = Unsorted(<<>>)
      BY <2>1, Nothing
    <3>2. AuxSort(l, <<>>)
      BY <1>2, <3>1 DEF AuxSort
    <3>3. InOrderBut(l, <<>>)
      BY <1>3, <2>1 DEF InOrderBut
    <3> QED
      BY <2>1, <3>2, <3>3, Nothing
  <2>2. CASE n >= 1
    <3>1. /\ <<<<1, n>>>> \in Intervals /\ Fit(<<<<1, n>>>>, n) /\ Nested(<<<<1, n>>>>, n)
          /\ \A x, y \in 1..n : Together(<<<<1, n>>>>, x, y)
      BY <1>3, <2>2, Whole
    <3>2. InOrderBut(l, <<<<1, n>>>>)
      BY <1>3, <3>1 DEF InOrderBut
    <3> QED
      BY <1>2, <3>1, <3>2
  <2> QED
    BY <1>3, <2>1, <2>2
<1>7. PICK s \in Intervals : Fit(s, n) /\ Nested(s, n) /\ AuxSort(l, s) /\ InOrderBut(l, s)
  BY <1>6
<1>8. asked' + Cardinality(Pairs(s, Len(l))) <= Len(l) * Len(l)
  <2>1. Cardinality(Pairs(s, n)) \in 0..(n * n) /\ n * n \in Nat
    BY <1>3, PairsFinite
  <2>2. 0 + Cardinality(Pairs(s, n)) <= n * n
    BY <2>1
  <2> QED
    BY <1>3, <1>4, <2>2, Zenon
<1>9. /\ given' \in Seq(Elements) /\ order' \in {"less", "any"} /\ out'.call = "none" /\ asked' \in Nat
      /\ Len(l) = Len(given') /\ Len(l) <= MaxLength
      /\ \A v \in Elements : Copies(l, v) = Copies(given', v)
      /\ Fit(s, Len(l)) /\ Nested(s, Len(l)) /\ AuxSort(l, s)
      /\ order' = "less" => InOrderBut(l, s)
  <2>1. asked' \in Nat
    BY <1>4
  <2> QED
    BY <1>2, <1>3, <1>4, <1>7, <2>1, Zenon
<1>10. ListsTypeOK' /\ SortInv'
  BY <1>3, <1>5, <1>8, <1>9, NextInterval
<1> QED
  BY <1>4, <1>10

LEMMA AnsweredKeeps ==
  ASSUME LuaTableLibAssumption, Elements \subseteq Int, MaxLength \in Nat, ListsTypeOK, SortInv, out.call = "none", Answered
  PROVE  ListsTypeOK' /\ SortInv' /\ out' = out
<1>1. PICK answer \in BOOLEAN :
        /\ SortComp(answer)
        /\ Ends(answer) \/ Low(answer) \/ High(answer) \/ Right(answer) \/ Left(answer)
  BY DEF Answered
<1>2. UNCHANGED <<given, order, out>>
  BY DEF Answered
<1>3. CASE Ends(answer)
  BY <1>1, <1>2, <1>3, EndsKeeps
<1>4. CASE Low(answer)
  BY <1>1, <1>2, <1>4, LowKeeps
<1>5. CASE High(answer)
  BY <1>1, <1>2, <1>5, HighKeeps
<1>6. CASE Right(answer)
  BY <1>1, <1>2, <1>6, RightKeeps
<1>7. CASE Left(answer)
  BY <1>1, <1>2, <1>7, LeftKeeps
<1> QED
  BY <1>1, <1>2, <1>3, <1>4, <1>5, <1>6, <1>7

LEMMA OrderFailsKeeps ==
  ASSUME ListsTypeOK, SortInv, out.call = "none", OrderFails
  PROVE  ListsTypeOK' /\ SortInv' /\ out' = out
<1>1. /\ Sorting /\ order = "any" /\ ask' = "error"
      /\ UNCHANGED <<given, order, out, list, todo, p, i, j, pivot>> /\ asked' = asked
  BY DEF OrderFails
<1>2. asked' \in {asked, asked + 1} /\ ask' \in {"error", "invalid"}
  BY <1>1
<1> QED
  BY <1>1, <1>2, Stops

-----------------------------------------------------------------------------
(***************************************************************************)
(* A sort ends, and does not call itself too deep.                         *)
(***************************************************************************)

LEMMA Power2Is ==
  ASSUME MaxLength \in Nat
  PROVE  Power2[0] = 1 /\ \A k \in 0..MaxLength : /\ Power2[k] \in Nat
                                                  /\ k < MaxLength => Power2[k + 1] = 2 * Power2[k]
<1> DEFINE IsPower(f) == f = [k \in 0..MaxLength |-> IF k = 0 THEN 1 ELSE 2 * f[k - 1]]
           Upto(m) == \E f \in [0..m -> Nat] :
                        f[0] = 1 /\ \A k \in 0..m : k < m => f[k + 1] = 2 * f[k]
           P == {m \in Nat : Upto(m)}
<1>1. 0 \in P
  <2> DEFINE f == [k \in 0..0 |-> 1]
  <2>1. f \in [0..0 -> Nat] /\ f[0] = 1 /\ \A k \in 0..0 : ~(k < 0)
    OBVIOUS
  <2> QED
    BY <2>1
<1>2. ASSUME NEW m \in 0..MaxLength, m \in P, m < MaxLength PROVE m + 1 \in P
  <2>1. PICK f \in [0..m -> Nat] : f[0] = 1 /\ \A k \in 0..m : k < m => f[k + 1] = 2 * f[k]
    BY <1>2
  <2> DEFINE g == [k \in 0..(m + 1) |-> IF k = m + 1 THEN 2 * f[m] ELSE f[k]]
  <2>2. g \in [0..(m + 1) -> Nat] /\ g[0] = 1
    BY <2>1
  <2>3. ASSUME NEW k \in 0..(m + 1), k < m + 1 PROVE g[k + 1] = 2 * g[k]
    <3>1. CASE k = m
      BY <3>1
    <3>2. CASE k < m
      BY <2>1, <3>2
    <3> QED
      BY <2>3, <3>1, <3>2
  <2> HIDE DEF g
  <2>4. Upto(m + 1) /\ m + 1 \in Nat
    BY <2>2, <2>3, SMTT(30)
  <2> QED
    BY <2>4
<1>3. MaxLength \in P
  <2> HIDE DEF P
  <2>1. \A k \in 0..MaxLength : k \in P
    BY <1>1, <1>2, UpTo
  <2> QED
    BY <2>1
<1>4. PICK f \in [0..MaxLength -> Nat] :
        f[0] = 1 /\ \A k \in 0..MaxLength : k < MaxLength => f[k + 1] = 2 * f[k]
  BY <1>3
<1>5. IsPower(f)
  <2>1. ASSUME NEW k \in 0..MaxLength PROVE f[k] = IF k = 0 THEN 1 ELSE 2 * f[k - 1]
    <3>1. CASE k = 0
      BY <1>4, <3>1
    <3>2. CASE k # 0
      <4>1. k - 1 \in 0..MaxLength /\ k - 1 < MaxLength /\ (k - 1) + 1 = k
        BY <3>2
      <4> QED
        BY <1>4, <3>2, <4>1
    <3> QED
      BY <3>1, <3>2
  <2> QED
    BY <2>1
<1>6. IsPower(CHOOSE g : IsPower(g))
  <2> HIDE DEF IsPower
  <2> QED
    BY <1>5, Zenon
<1>7. Power2 = CHOOSE g : IsPower(g)
  BY DEF Power2
<1>8. Power2 = [k \in 0..MaxLength |-> IF k = 0 THEN 1 ELSE 2 * Power2[k - 1]]
  BY <1>6, <1>7, Zenon
<1>9. Power2[0] = 1 /\ \A k \in 0..MaxLength : k < MaxLength => Power2[k + 1] = 2 * Power2[k]
  <2> HIDE DEF Power2
  <2>1. \A k \in 0..MaxLength : Power2[k] = IF k = 0 THEN 1 ELSE 2 * Power2[k - 1]
    BY <1>8
  <2>2. ASSUME NEW k \in 0..MaxLength, k < MaxLength PROVE Power2[k + 1] = 2 * Power2[k]
    <3>1. k + 1 \in 0..MaxLength /\ k + 1 # 0 /\ (k + 1) - 1 = k
      BY <2>2
    <3> QED
      BY <2>1, <3>1
  <2> QED
    BY <2>1, <2>2
<1>10. \A k \in 0..MaxLength : k \in {m \in Nat : Power2[m] \in Nat}
  <2> HIDE DEF Power2
  <2> DEFINE Q == {m \in Nat : Power2[m] \in Nat}
  <2>1. 0 \in Q
    BY <1>9
  <2>2. ASSUME NEW k \in 0..MaxLength, k \in Q, k < MaxLength PROVE k + 1 \in Q
    BY <1>9, <2>2
  <2> HIDE DEF Q
  <2>3. \A k \in 0..MaxLength : k \in Q
    BY <2>1, <2>2, UpTo
  <2> QED
    BY <2>3 DEF Q
<1> QED
  BY <1>9, <1>10

\* Each interval on the stack spans at least twice as much as the one before it.
LEMMA Deep ==
  ASSUME MaxLength \in Nat, NEW n \in Nat, n <= MaxLength, todo \in Intervals, todo # <<>>, lo < up,
         Fit(todo, n), Nested(todo, n)
  PROVE  3 * Power2[Len(todo) - 1] <= n + 1
<1> DEFINE d == Len(todo) - 1
<1>1. /\ d \in Nat /\ Len(todo) = d + 1 /\ DOMAIN todo = 1..(d + 1)
      /\ \A k \in 1..(d + 1) : todo[k] \in Int \X Int
      /\ todo[1] = <<lo, up>> /\ lo \in Int /\ up \in Int
  <2>1. todo[1] = <<lo, up>> /\ lo \in 1..n /\ up \in 1..n
    BY HeadIs
  <2> QED
    BY <2>1 DEF Intervals
<1>2. PICK span \in [1..(d + 1) -> Int \X Int] : Spans(span, todo, n)
  BY <1>1 DEF Nested
<1>3. ASSUME NEW k \in 1..(d + 1)
      PROVE  /\ span[k][1] \in Int /\ span[k][2] \in Int
             /\ todo[k][1] \in Int /\ todo[k][2] \in Int
             /\ 1 <= span[k][1] /\ span[k][2] <= n
             /\ span[k][1] <= todo[k][1] /\ todo[k][2] <= span[k][2]
  <2>1. span[k] \in Int \X Int /\ todo[k] \in Int \X Int /\ k \in DOMAIN todo
    BY <1>1, <1>2
  <2>2. /\ 1 <= span[k][1] /\ span[k][2] <= n
        /\ span[k][1] <= todo[k][1] /\ todo[k][2] <= span[k][2]
    BY <1>2, <2>1, Zenon DEF Spans
  <2> QED
    BY <2>1, <2>2
<1>4. ASSUME NEW k \in 1..d
      PROVE  /\ span[k + 1][1] <= span[k][1] /\ span[k][2] <= span[k + 1][2]
             /\ span[k][2] + 1 < todo[k + 1][1] \/ todo[k + 1][2] + 1 < span[k][1]
             /\ span[k][2] - span[k][1] <= todo[k + 1][2] - todo[k + 1][1]
  <2>1. k \in 1..(Len(todo) - 1)
    BY <1>1
  <2>2. /\ span[k + 1][1] <= span[k][1] /\ span[k][2] <= span[k + 1][2]
        /\ Separate(span[k], todo[k + 1])
        /\ span[k][2] - span[k][1] <= todo[k + 1][2] - todo[k + 1][1]
    BY <1>2, <2>1, Zenon DEF Spans
  <2> QED
    BY <2>2 DEF Separate
<1> HIDE DEF d
<1> DEFINE size(k) == span[k][2] - span[k][1] + 1
<1>5. ASSUME NEW k \in 1..d PROVE size(k + 1) >= 2 * size(k) + 1
  <2>1. k \in 1..(d + 1) /\ k + 1 \in 1..(d + 1)
    BY <1>1
  <2> DEFINE a == span[k][1]  b == span[k][2]
             e == span[k + 1][1]  f == span[k + 1][2]
             g == todo[k + 1][1]  h == todo[k + 1][2]
  <2>2. /\ a \in Int /\ b \in Int /\ e \in Int /\ f \in Int /\ g \in Int /\ h \in Int
        /\ e <= g /\ h <= f
    BY <1>3, <2>1
  <2>3. e <= a /\ b <= f /\ (b + 1 < g \/ h + 1 < a) /\ b - a <= h - g
    BY <1>4
  <2> HIDE DEF a, b, e, f, g, h
  <2>4. f - e + 1 >= 2 * (b - a + 1) + 1
    BY <2>2, <2>3
  <2> QED
    BY <2>4 DEF a, b, e, f
<1>6. size(1) >= 2
  <2>1. /\ span[1][1] \in Int /\ span[1][2] \in Int
        /\ span[1][1] <= todo[1][1] /\ todo[1][2] <= span[1][2]
    BY <1>1, <1>3
  <2>2. todo[1][1] = lo /\ todo[1][2] = up
    BY <1>1
  <2> QED
    BY <1>1, <2>1, <2>2
<1>7. \A k \in 1..(d + 1) : size(k) \in Int /\ size(k) <= n
  BY <1>3
<1> HIDE DEF size
<1>8. Power2[0] = 1 /\ \A k \in 0..MaxLength : /\ Power2[k] \in Nat
                                               /\ k < MaxLength => Power2[k + 1] = 2 * Power2[k]
  BY Power2Is
<1> DEFINE P == {m \in 0..d : size(m + 1) >= m + 2 /\ 3 * Power2[m] <= size(m + 1) + 1}
<1>9. 0 \in P
  BY <1>1, <1>6, <1>7, <1>8, SMTT(30)
<1>10. ASSUME NEW m \in 0..d, m \in P, m < d PROVE m + 1 \in P
  <2>1. m + 1 \in 1..d /\ m + 1 \in 1..(d + 1) /\ m + 2 \in 1..(d + 1) /\ m + 2 = (m + 1) + 1
    BY <1>1, <1>10
  <2>2. size(m + 2) >= 2 * size(m + 1) + 1
    BY <1>5, <2>1
  <2>3. size(m + 1) \in Int /\ size(m + 2) \in Int /\ size(m + 1) <= n
    BY <1>7, <2>1
  <2>4. size(m + 1) >= m + 2 /\ 3 * Power2[m] <= size(m + 1) + 1
    BY <1>10
  <2>5. m \in 0..MaxLength /\ m < MaxLength
    BY <2>3, <2>4
  <2>6. Power2[m] \in Nat /\ Power2[m + 1] = 2 * Power2[m]
    BY <1>8, <2>5
  <2>7. size(m + 2) >= (m + 1) + 2 /\ 3 * Power2[m + 1] <= size(m + 2) + 1
    <3> DEFINE a == size(m + 1)  b == size(m + 2)  c == Power2[m]  e == Power2[m + 1]
    <3>1. /\ a \in Int /\ b \in Int /\ c \in Nat /\ e = 2 * c
          /\ b >= 2 * a + 1 /\ a >= m + 2 /\ 3 * c <= a + 1
      BY <2>2, <2>3, <2>4, <2>6
    <3> HIDE DEF a, b, c, e
    <3>2. b >= (m + 1) + 2 /\ 3 * e <= b + 1
      BY <3>1
    <3> QED
      BY <3>2 DEF b, e
  <2> QED
    BY <2>1, <2>7
<1>11. d \in P
  <2> HIDE DEF P
  <2>1. \A k \in 0..d : k \in P
    BY <1>1, <1>9, <1>10, UpTo
  <2> QED
    BY <1>1, <2>1
<1>12. 3 * Power2[d] <= size(d + 1) + 1 /\ size(d + 1) >= d + 2
  BY <1>11
<1>13. size(d + 1) \in Int /\ size(d + 1) <= n
  BY <1>1, <1>7
<1>14. Power2[d] \in Nat
  BY <1>1, <1>8, <1>12, <1>13
<1>15. 3 * Power2[d] <= n + 1
  BY <1>12, <1>13, <1>14
<1> QED
  BY <1>15 DEF d

\* What ListsKept says of a sort, and of lists before one.
LEMMA SortedLists ==
  ASSUME Elements \subseteq Int, MaxLength \in Nat, ListsTypeOK, SortInv
  PROVE  SortsByLess /\ KeepsValues /\ EndsSoon
<1> DEFINE n == Len(list)
<1>1. /\ list \in Seq(Elements) /\ n \in Nat /\ todo \in Intervals /\ asked \in Nat
      /\ ask = "done" => todo = <<>>
  BY DEF ListsTypeOK, Intervals
<1>2. /\ n <= MaxLength /\ Fit(todo, n) /\ Nested(todo, n)
      /\ \A v \in Elements : Copies(list, v) = Copies(given, v)
      /\ order = "less" => ask # "invalid"
  BY DEF SortInv
<1>3. /\ todo # <<>> => lo < up
      /\ ask \in {"right", "left"} => i \in (lo + 1)..(up - 1)
      /\ ask = "right" => j \in (lo + 1)..(up - 1)
      /\ ask = "left" => j \in lo..(up - 2)
  BY DEF SortInv, PlacesInside
<1>4. SortsByLess
  <2>1. ASSUME order = "less", ask = "done", NEW k \in 1..(n - 1) PROVE list[k] <= list[k + 1]
    <3>1. InOrderBut(list, todo) /\ todo = <<>>
      BY <1>1, <2>1 DEF SortInv
    <3>2. ~Together(todo, k, k + 1)
      BY <3>1 DEF Together
    <3>3. k \in DOMAIN list /\ k + 1 \in DOMAIN list /\ k < k + 1
      BY <1>1
    <3> QED
      BY <3>1, <3>2, <3>3, Zenon DEF InOrderBut
  <2> QED
    BY <1>2, <2>1 DEF SortsByLess
<1>5. KeepsValues
  <2>1. ASSUME ask \in {"right", "left"} PROVE i \in (lo + 1)..(up - 1) /\ j \in lo..(up - 1)
    <3>1. lo \in Int /\ up \in Int
      BY <2>1, PartNow
    <3> QED
      BY <1>3, <2>1, <3>1
  <2> QED
    BY <1>2, <2>1 DEF KeepsValues
<1>6. asked <= n * n
  <2>1. CASE Sorting
    <3>1. asked + 1 <= n * n /\ n * n \in Nat
      BY <2>1, RoomLeft, SortIs
    <3> QED
      BY <1>1, <3>1
  <2>2. CASE ask = "done"
    <3>1. Spent = 0
      BY <2>2 DEF Spent
    <3>2. asked + Cardinality(Pairs(todo, n)) <= n * n + Spent
      BY <2>2 DEF SortInv
    <3>3. Cardinality(Pairs(todo, n)) \in Nat /\ n * n \in Nat
      BY <1>1, PairsFinite
    <3> QED
      BY <1>1, <3>1, <3>2, <3>3
  <2>3. CASE ~(Sorting \/ ask = "done")
    BY <2>3 DEF SortInv
  <2> QED
    BY <2>1, <2>2, <2>3
<1>7. todo # <<>> => 3 * Power2[Len(todo) - 1] <= n + 1
  BY <1>1, <1>2, <1>3, Deep
<1>8. EndsSoon
  BY <1>6, <1>7 DEF EndsSoon
<1> QED
  BY <1>4, <1>5, <1>8

-----------------------------------------------------------------------------
(***************************************************************************)
(* Copies made one element at a time are as if made at once.               *)
(***************************************************************************)

\* The elements from first to last of t have been copied, from as much further on.
Copied(t, first, last, further) ==
  [x \in DOMAIN t |-> IF x \in first..last THEN t[x + further] ELSE t[x]]

\* One more element is copied, from where none has been copied to.
OneMore(t, a, b, a2, b2, x, g) ==
  /\ \A y \in Int : y \in a2..b2 <=> y \in a..b \/ y = x
  /\ x \in DOMAIN t /\ x + g \in DOMAIN t /\ x + g \notin a..b

LEMMA CopiesOne ==
  ASSUME NEW t, DOMAIN t \subseteq Int, NEW a, NEW b, NEW a2, NEW b2, NEW x, NEW g,
         OneMore(t, a, b, a2, b2, x, g)
  PROVE  [Copied(t, a, b, g) EXCEPT ![x] = Copied(t, a, b, g)[x + g]] = Copied(t, a2, b2, g)
<1>0. /\ \A y \in Int : y \in a2..b2 <=> y \in a..b \/ y = x
      /\ x \in DOMAIN t /\ x + g \in DOMAIN t /\ x + g \notin a..b
  BY DEF OneMore
<1>1. Copied(t, a, b, g)[x + g] = t[x + g]
  BY <1>0, Zenon DEF Copied
<1>2. \A y \in DOMAIN t : y = x => y + g = x + g
  OBVIOUS
<1>3. [Copied(t, a, b, g) EXCEPT ![x] = t[x + g]]
        = [y \in DOMAIN t |-> IF y = x THEN t[x + g] ELSE IF y \in a..b THEN t[y + g] ELSE t[y]]
  BY DEF Copied
<1>4. ASSUME NEW y \in DOMAIN t
      PROVE  (IF y = x THEN t[x + g] ELSE IF y \in a..b THEN t[y + g] ELSE t[y])
               = IF y \in a2..b2 THEN t[y + g] ELSE t[y]
  <2>1. y \in Int /\ (y \in a2..b2 <=> y \in a..b \/ y = x)
    BY <1>0
  <2> QED
    BY <1>2, <2>1, Zenon
<1>5. [y \in DOMAIN t |-> IF y = x THEN t[x + g] ELSE IF y \in a..b THEN t[y + g] ELSE t[y]]
        = Copied(t, a2, b2, g)
  BY <1>4, Zenon DEF Copied
<1> QED
  BY <1>1, <1>3, <1>5, Zenon

LEMMA CopiesNone ==
  ASSUME NEW t, t = [x \in DOMAIN t |-> t[x]], NEW a \in Int, NEW b \in Int, NEW g, b < a
  PROVE  Copied(t, a, b, g) = t
<1>1. \A x \in DOMAIN t : x \notin a..b
  OBVIOUS
<1>2. Copied(t, a, b, g) = [x \in DOMAIN t |-> t[x]]
  BY <1>1, Zenon DEF Copied
<1> QED
  BY <1>2, Zenon

\* There are n elements from f on, and from to on.
Both(t, f, to, n) ==
  /\ t = [x \in DOMAIN t |-> t[x]] /\ DOMAIN t \subseteq Int
  /\ f..(f + n - 1) \subseteq DOMAIN t /\ to..(to + n - 1) \subseteq DOMAIN t

LEMMA CopyUpIs ==
  ASSUME NEW t, NEW f \in Int, NEW to \in Int, NEW n \in Nat, Both(t, f, to, n),
         to <= f \/ to > f + n - 1
  PROVE  CopyUp(t, f, to, n) = Copied(t, to, to + n - 1, f - to)
<1> DEFINE Steps(c) == c = [k \in 0..n |-> IF k = 0 THEN t
                                           ELSE [c[k - 1] EXCEPT ![to + k - 1] = c[k - 1][f + k - 1]]]
           now(k) == Copied(t, to, to + k - 1, f - to)
           w == [k \in 0..n |-> now(k)]
<1>0. /\ t = [x \in DOMAIN t |-> t[x]] /\ DOMAIN t \subseteq Int
      /\ f..(f + n - 1) \subseteq DOMAIN t /\ to..(to + n - 1) \subseteq DOMAIN t
  BY DEF Both
<1>1. now(0) = t
  BY <1>0, CopiesNone
<1>2. ASSUME NEW k \in 0..n, k # 0
      PROVE  now(k) = [now(k - 1) EXCEPT ![to + k - 1] = now(k - 1)[f + k - 1]]
  <2> DEFINE x == to + k - 1
             b == to + (k - 1) - 1
  <2>1. x \in Int /\ b \in Int /\ f - to \in Int /\ x + (f - to) = f + k - 1
    OBVIOUS
  <2>2. x \in DOMAIN t /\ x + (f - to) \in DOMAIN t /\ x + (f - to) \notin to..b
    <3>1. x \in to..(to + n - 1) /\ x + (f - to) \in f..(f + n - 1)
      BY <1>2
    <3>2. x + (f - to) \notin to..b
      BY <1>2
    <3> QED
      BY <1>0, <3>1, <3>2
  <2>3. \A y \in Int : y \in to..x <=> y \in to..b \/ y = x
    BY <1>2
  <2> HIDE DEF x, b
  <2>4. [Copied(t, to, b, f - to) EXCEPT ![x] = Copied(t, to, b, f - to)[x + (f - to)]]
          = Copied(t, to, x, f - to)
    <3>1. OneMore(t, to, b, to, x, x, f - to)
      BY <2>2, <2>3, Zenon DEF OneMore
    <3> QED
      BY <1>0, <3>1, CopiesOne
  <2> QED
    BY <2>1, <2>4, Zenon DEF x, b
<1> HIDE DEF now
<1>3. ASSUME NEW c, Steps(c) PROVE \A k \in 0..n : c[k] = now(k)
  <2> DEFINE P == {k \in Nat : c[k] = now(k)}
  <2>1. \A k \in 0..n :
          c[k] = IF k = 0 THEN t ELSE [c[k - 1] EXCEPT ![to + k - 1] = c[k - 1][f + k - 1]]
    BY <1>3
  <2>2. 0 \in P
    <3>1. 0 \in 0..n /\ 0 \in Nat
      OBVIOUS
    <3>2. c[0] = t
      BY <2>1, <3>1, Zenon
    <3> QED
      BY <1>1, <3>1, <3>2, Zenon
  <2>3. ASSUME NEW k \in 0..n, k \in P, k < n PROVE k + 1 \in P
    <3>1. k + 1 \in 0..n /\ k + 1 # 0 /\ (k + 1) - 1 = k
      BY <2>3
    <3>2. c[k] = now(k)
      BY <2>3
    <3>3. c[k + 1] = [c[k] EXCEPT ![to + (k + 1) - 1] = c[k][f + (k + 1) - 1]]
      BY <2>1, <3>1
    <3>4. now(k + 1) = [now(k) EXCEPT ![to + (k + 1) - 1] = now(k)[f + (k + 1) - 1]]
      BY <1>2, <3>1
    <3>5. c[k + 1] = now(k + 1)
      BY <3>2, <3>3, <3>4, Zenon
    <3> QED
      BY <3>1, <3>5
  <2> HIDE DEF P
  <2>4. \A k \in 0..n : k \in P
    BY <2>2, <2>3, UpTo
  <2> QED
    BY <2>4 DEF P
<1>4. Steps(w)
  <2>1. ASSUME NEW k \in 0..n
        PROVE  w[k] = IF k = 0 THEN t ELSE [w[k - 1] EXCEPT ![to + k - 1] = w[k - 1][f + k - 1]]
    <3>1. CASE k = 0
      BY <1>1, <3>1
    <3>2. CASE k # 0
      <4>1. k - 1 \in 0..n
        BY <3>2
      <4>2. w[k] = now(k) /\ w[k - 1] = now(k - 1)
        BY <4>1
      <4> HIDE DEF w
      <4> QED
        BY <1>2, <3>2, <4>2, Zenon
    <3> QED
      BY <3>1, <3>2
  <2>2. w = [k \in 0..n |-> w[k]]
    OBVIOUS
  <2> HIDE DEF w
  <2> QED
    BY <2>1, <2>2, Zenon
<1>5. Steps(CHOOSE c : Steps(c))
  <2> HIDE DEF Steps
  <2> QED
    BY <1>4, Zenon
<1>6. CopyUp(t, f, to, n) = (CHOOSE c : Steps(c))[n]
  BY DEF CopyUp
<1>7. (CHOOSE c : Steps(c))[n] = now(n)
  <2> HIDE DEF Steps
  <2>1. n \in 0..n
    OBVIOUS
  <2> QED
    BY <1>3, <1>5, <2>1, Zenon
<1> QED
  BY <1>6, <1>7, Zenon DEF now

LEMMA CopyDownIs ==
  ASSUME NEW t, NEW f \in Int, NEW to \in Int, NEW n \in Nat, Both(t, f, to, n),
         f <= to
  PROVE  CopyDown(t, f, to, n) = Copied(t, to, to + n - 1, f - to)
<1> DEFINE Steps(c) == c = [k \in 0..n |-> IF k = 0 THEN t
                                           ELSE [c[k - 1] EXCEPT ![to + n - k] = c[k - 1][f + n - k]]]
           now(k) == Copied(t, to + n - k, to + n - 1, f - to)
           w == [k \in 0..n |-> now(k)]
<1>0. /\ t = [x \in DOMAIN t |-> t[x]] /\ DOMAIN t \subseteq Int
      /\ f..(f + n - 1) \subseteq DOMAIN t /\ to..(to + n - 1) \subseteq DOMAIN t
  BY DEF Both
<1>1. now(0) = t
  <2>1. to + n - 0 \in Int /\ to + n - 1 \in Int /\ to + n - 1 < to + n - 0
    OBVIOUS
  <2> QED
    BY <1>0, <2>1, CopiesNone
<1>2. ASSUME NEW k \in 0..n, k # 0
      PROVE  now(k) = [now(k - 1) EXCEPT ![to + n - k] = now(k - 1)[f + n - k]]
  <2> DEFINE x == to + n - k
             a == to + n - (k - 1)
             b == to + n - 1
  <2>1. x \in Int /\ a \in Int /\ b \in Int /\ f - to \in Int /\ x + (f - to) = f + n - k
    OBVIOUS
  <2>2. x \in DOMAIN t /\ x + (f - to) \in DOMAIN t /\ x + (f - to) \notin a..b
    <3>1. x \in to..(to + n - 1) /\ x + (f - to) \in f..(f + n - 1)
      BY <1>2
    <3>2. x + (f - to) \notin a..b
      BY <1>2
    <3> QED
      BY <1>0, <3>1, <3>2
  <2>3. \A y \in Int : y \in x..b <=> y \in a..b \/ y = x
    BY <1>2
  <2> HIDE DEF x, a, b
  <2>4. [Copied(t, a, b, f - to) EXCEPT ![x] = Copied(t, a, b, f - to)[x + (f - to)]]
          = Copied(t, x, b, f - to)
    <3>1. OneMore(t, a, b, x, b, x, f - to)
      BY <2>2, <2>3, Zenon DEF OneMore
    <3> QED
      BY <1>0, <3>1, CopiesOne
  <2> QED
    BY <2>1, <2>4, Zenon DEF x, a, b
<1> HIDE DEF now
<1>3. ASSUME NEW c, Steps(c) PROVE \A k \in 0..n : c[k] = now(k)
  <2> DEFINE P == {k \in Nat : c[k] = now(k)}
  <2>1. \A k \in 0..n :
          c[k] = IF k = 0 THEN t ELSE [c[k - 1] EXCEPT ![to + n - k] = c[k - 1][f + n - k]]
    BY <1>3
  <2>2. 0 \in P
    <3>1. 0 \in 0..n /\ 0 \in Nat
      OBVIOUS
    <3>2. c[0] = t
      BY <2>1, <3>1, Zenon
    <3> QED
      BY <1>1, <3>1, <3>2, Zenon
  <2>3. ASSUME NEW k \in 0..n, k \in P, k < n PROVE k + 1 \in P
    <3>1. k + 1 \in 0..n /\ k + 1 # 0 /\ (k + 1) - 1 = k
      BY <2>3
    <3>2. c[k] = now(k)
      BY <2>3
    <3>3. c[k + 1] = [c[k] EXCEPT ![to + n - (k + 1)] = c[k][f + n - (k + 1)]]
      BY <2>1, <3>1
    <3>4. now(k + 1) = [now(k) EXCEPT ![to + n - (k + 1)] = now(k)[f + n - (k + 1)]]
      BY <1>2, <3>1
    <3>5. c[k + 1] = now(k + 1)
      BY <3>2, <3>3, <3>4, Zenon
    <3> QED
      BY <3>1, <3>5
  <2> HIDE DEF P
  <2>4. \A k \in 0..n : k \in P
    BY <2>2, <2>3, UpTo
  <2> QED
    BY <2>4 DEF P
<1>4. Steps(w)
  <2>1. ASSUME NEW k \in 0..n
        PROVE  w[k] = IF k = 0 THEN t ELSE [w[k - 1] EXCEPT ![to + n - k] = w[k - 1][f + n - k]]
    <3>1. CASE k = 0
      BY <1>1, <3>1
    <3>2. CASE k # 0
      <4>1. k - 1 \in 0..n
        BY <3>2
      <4>2. w[k] = now(k) /\ w[k - 1] = now(k - 1)
        BY <4>1
      <4> HIDE DEF w
      <4> QED
        BY <1>2, <3>2, <4>2, Zenon
    <3> QED
      BY <3>1, <3>2
  <2>2. w = [k \in 0..n |-> w[k]]
    OBVIOUS
  <2> HIDE DEF w
  <2> QED
    BY <2>1, <2>2, Zenon
<1>5. Steps(CHOOSE c : Steps(c))
  <2> HIDE DEF Steps
  <2> QED
    BY <1>4, Zenon
<1>6. CopyDown(t, f, to, n) = (CHOOSE c : Steps(c))[n]
  BY DEF CopyDown
<1>7. (CHOOSE c : Steps(c))[n] = now(n)
  <2> HIDE DEF Steps
  <2>1. n \in 0..n
    OBVIOUS
  <2> QED
    BY <1>3, <1>5, <2>1, Zenon
<1>8. to + n - n = to
  OBVIOUS
<1> QED
  BY <1>6, <1>7, <1>8, Zenon DEF now

\* The element at a place of a list, as insert and remove are to leave it.
LEMMA SameLists ==
  ASSUME NEW S, NEW a \in Seq(S), NEW b \in Seq(S), Len(a) = Len(b),
         \A x \in 1..Len(a) : a[x] = b[x]
  PROVE  a = b
OBVIOUS

Inserted(r, n, l, v, pos) ==
  /\ r \in [1..(n + 1) -> Elements]
  /\ \A x \in 1..(n + 1) : r[x] = IF x < pos THEN l[x] ELSE IF x = pos THEN v ELSE l[x - 1]

LEMMA InsertIs ==
  ASSUME NEW n \in Nat, NEW l \in [1..n -> Elements], NEW v \in Elements, NEW pos \in 1..(n + 1)
  PROVE  Inserted(TInsert(l, pos, v), n, l, v, pos)
<1> DEFINE t == Append(l, v)
           c == CopyDown(t, pos, pos + 1, (n + 1) - pos)
<1>1. l \in Seq(Elements) /\ Len(l) = n
  OBVIOUS
<1>2. /\ t \in [1..(n + 1) -> Elements] /\ t[n + 1] = v
      /\ \A x \in 1..n : t[x] = l[x]
  <2>1. t \in Seq(Elements) /\ Len(t) = n + 1
    BY <1>1
  <2>2. t[n + 1] = v /\ \A x \in 1..n : t[x] = l[x]
    BY <1>1
  <2> HIDE DEF t
  <2> QED
    BY <2>1, <2>2
<1> HIDE DEF t
<1>3. c = Copied(t, pos + 1, pos + 1 + ((n + 1) - pos) - 1, pos - (pos + 1))
  <2>1. /\ t = [x \in DOMAIN t |-> t[x]] /\ DOMAIN t \subseteq Int /\ DOMAIN t = 1..(n + 1)
        /\ pos \in Int /\ pos + 1 \in Int /\ (n + 1) - pos \in Nat /\ pos <= pos + 1
    BY <1>2
  <2>2. /\ pos..(pos + ((n + 1) - pos) - 1) \subseteq DOMAIN t
        /\ (pos + 1)..(pos + 1 + ((n + 1) - pos) - 1) \subseteq DOMAIN t
    BY <2>1
  <2> QED
    <3>1. Both(t, pos, pos + 1, (n + 1) - pos)
      BY <2>1, <2>2, Zenon DEF Both
    <3> QED
      BY <2>1, <3>1, CopyDownIs
<1>4. pos + 1 + ((n + 1) - pos) - 1 = n + 1 /\ pos - (pos + 1) = -1
  OBVIOUS
<1>5. c = [x \in 1..(n + 1) |-> IF x \in (pos + 1)..(n + 1) THEN t[x + (-1)] ELSE t[x]]
  <2>1. c = Copied(t, pos + 1, n + 1, -1)
    BY <1>3, <1>4
  <2>2. DOMAIN t = 1..(n + 1)
    BY <1>2
  <2> QED
    BY <2>1, <2>2, Zenon DEF Copied
<1>6. TInsert(l, pos, v) = [c EXCEPT ![pos] = v]
  BY <1>1 DEF TInsert, t
<1> HIDE DEF c
<1>7. \A x \in 1..(n + 1) : c[x] \in Elements /\ (x > pos => c[x] = l[x - 1]) /\ (x < pos => c[x] = l[x])
  <2> SUFFICES ASSUME NEW x \in 1..(n + 1)
               PROVE  c[x] \in Elements /\ (x > pos => c[x] = l[x - 1]) /\ (x < pos => c[x] = l[x])
    OBVIOUS
  <2>1. CASE x > pos
    <3>1. x \in (pos + 1)..(n + 1) /\ x + (-1) = x - 1 /\ x - 1 \in 1..n
      BY <2>1
    <3>2. c[x] = t[x - 1]
      BY <1>5, <3>1
    <3> QED
      BY <1>2, <2>1, <3>1, <3>2
  <2>2. CASE ~(x > pos)
    <3>1. x \notin (pos + 1)..(n + 1) /\ (x < pos => x \in 1..n)
      BY <2>2
    <3>2. c[x] = t[x]
      BY <1>5, <3>1
    <3> QED
      BY <1>2, <2>2, <3>1, <3>2
  <2> QED
    BY <2>1, <2>2
<1>8. DOMAIN c = 1..(n + 1) /\ c = [x \in 1..(n + 1) |-> c[x]]
  BY <1>5
<1>9. Inserted([c EXCEPT ![pos] = v], n, l, v, pos)
  BY <1>7, <1>8 DEF Inserted
<1> QED
  BY <1>6, <1>9

LEMMA InsertRemoves ==
  ASSUME NEW n \in Nat, NEW l \in [1..n -> Elements], NEW v \in Elements, NEW pos \in 1..(n + 1)
  PROVE  /\ TInsert(l, pos, v) \in Seq(Elements)
         /\ TInsert(l, pos, v) = SubSeq(l, 1, pos - 1) \o <<v>> \o SubSeq(l, pos, Len(l))
         /\ TRemove(TInsert(l, pos, v), pos) = l
<1> DEFINE r == TInsert(l, pos, v)
<1>1. /\ r \in [1..(n + 1) -> Elements]
      /\ \A x \in 1..(n + 1) : r[x] = IF x < pos THEN l[x] ELSE IF x = pos THEN v ELSE l[x - 1]
  <2>1. Inserted(r, n, l, v, pos)
    BY InsertIs
  <2> HIDE DEF r
  <2> QED
    BY <2>1 DEF Inserted
<1> HIDE DEF r
<1>2. r \in Seq(Elements) /\ Len(r) = n + 1 /\ DOMAIN r = 1..(n + 1)
  BY <1>1
<1>3. l \in Seq(Elements) /\ Len(l) = n
  OBVIOUS
<1>4. r = SubSeq(l, 1, pos - 1) \o <<v>> \o SubSeq(l, pos, Len(l))
  <2> DEFINE a == SubSeq(l, 1, pos - 1)
             b == SubSeq(l, pos, n)
             q == a \o <<v>> \o b
  <2>1. /\ a \in Seq(Elements) /\ Len(a) = pos - 1 /\ \A x \in 1..(pos - 1) : a[x] = l[x]
    BY <1>3
  <2>2. /\ b \in Seq(Elements) /\ Len(b) = n - pos + 1
        /\ \A x \in 1..(n - pos + 1) : b[x] = l[pos + x - 1]
    BY <1>3
  <2> HIDE DEF a, b
  <2>3. /\ a \o <<v>> \in Seq(Elements) /\ Len(a \o <<v>>) = pos
        /\ (a \o <<v>>)[pos] = v
        /\ \A x \in 1..(pos - 1) : (a \o <<v>>)[x] = a[x]
    BY <2>1
  <2>4. /\ q \in Seq(Elements) /\ Len(q) = n + 1
        /\ \A x \in 1..pos : q[x] = (a \o <<v>>)[x]
        /\ \A x \in (pos + 1)..(n + 1) : q[x] = b[x - pos]
    BY <2>2, <2>3
  <2>5. ASSUME NEW x \in 1..(n + 1) PROVE r[x] = q[x]
    <3> HIDE DEF q
    <3>1. CASE x < pos
      <4>1. x \in 1..(pos - 1) /\ x \in 1..pos
        BY <3>1
      <4> QED
        BY <1>1, <2>1, <2>3, <2>4, <3>1, <4>1
    <3>2. CASE x = pos
      BY <1>1, <2>3, <2>4, <3>2
    <3>3. CASE x > pos
      <4>1. x \in (pos + 1)..(n + 1) /\ x - pos \in 1..(n - pos + 1) /\ pos + (x - pos) - 1 = x - 1
            /\ ~(x < pos) /\ x # pos
        BY <3>3
      <4>2. r[x] = l[x - 1]
        BY <1>1, <4>1
      <4>3. q[x] = l[x - 1]
        BY <2>2, <2>4, <4>1
      <4> QED
        BY <4>2, <4>3
    <3> QED
      BY <3>1, <3>2, <3>3
  <2>6. r = q
    <3> HIDE DEF q
    <3> QED
      BY <1>2, <2>4, <2>5, SameLists
  <2> QED
    BY <1>3, <2>6 DEF a, b
<1>5. TRemove(r, pos) = l
  <2> DEFINE c == CopyUp(r, pos + 1, pos, (n + 1) - pos)
  <2>1. TRemove(r, pos) = Front(c)
    BY <1>2 DEF TRemove
  <2>2. c = Copied(r, pos, pos + ((n + 1) - pos) - 1, (pos + 1) - pos)
    <3>1. /\ r = [x \in DOMAIN r |-> r[x]] /\ DOMAIN r \subseteq Int
          /\ pos \in Int /\ pos + 1 \in Int /\ (n + 1) - pos \in Nat /\ pos <= pos + 1
      BY <1>1, <1>2
    <3>2. /\ (pos + 1)..((pos + 1) + ((n + 1) - pos) - 1) \subseteq DOMAIN r
          /\ pos..(pos + ((n + 1) - pos) - 1) \subseteq DOMAIN r
      BY <1>2
    <3> QED
      <4>1. Both(r, pos + 1, pos, (n + 1) - pos)
        BY <3>1, <3>2, Zenon DEF Both
      <4> QED
        BY <3>1, <4>1, CopyUpIs
  <2>3. pos + ((n + 1) - pos) - 1 = n /\ (pos + 1) - pos = 1
    OBVIOUS
  <2>4. c = [x \in 1..(n + 1) |-> IF x \in pos..n THEN r[x + 1] ELSE r[x]]
    <3>1. c = Copied(r, pos, n, 1)
      BY <2>2, <2>3
    <3> HIDE DEF c
    <3> QED
      BY <1>2, <3>1, Zenon DEF Copied
  <2> HIDE DEF c
  <2>5. \A x \in 1..(n + 1) : c[x] \in Elements
    <3> SUFFICES ASSUME NEW x \in 1..(n + 1) PROVE c[x] \in Elements
      OBVIOUS
    <3>1. x \in pos..n => x + 1 \in 1..(n + 1)
      OBVIOUS
    <3>2. c[x] = IF x \in pos..n THEN r[x + 1] ELSE r[x]
      BY <2>4
    <3> QED
      BY <1>1, <3>1, <3>2
  <2>6. \A x \in 1..n : c[x] = l[x]
    <3> SUFFICES ASSUME NEW x \in 1..n PROVE c[x] = l[x]
      OBVIOUS
    <3>1. c[x] = IF x \in pos..n THEN r[x + 1] ELSE r[x]
      BY <2>4
    <3>2. CASE x \in pos..n
      <4>1. x + 1 \in 1..(n + 1) /\ ~(x + 1 < pos) /\ x + 1 # pos /\ (x + 1) - 1 = x
        BY <3>2
      <4>2. r[x + 1] = l[x]
        BY <1>1, <4>1
      <4> QED
        BY <3>1, <3>2, <4>2
    <3>3. CASE x \notin pos..n
      <4>1. x \in 1..(n + 1) /\ x < pos
        BY <3>3
      <4>2. r[x] = l[x]
        BY <1>1, <4>1
      <4> QED
        BY <3>1, <3>3, <4>2
    <3> QED
      BY <3>2, <3>3
  <2>7. c \in [1..(n + 1) -> Elements]
    <3>1. DOMAIN c = 1..(n + 1) /\ c = [x \in 1..(n + 1) |-> c[x]]
      BY <2>4
    <3> QED
      BY <2>5, <3>1
  <2>8. c \in Seq(Elements) /\ Len(c) = n + 1
    BY <2>7
  <2>9. SubSeq(c, 1, n) \in Seq(Elements) /\ Len(SubSeq(c, 1, n)) = n
        /\ \A x \in 1..n : SubSeq(c, 1, n)[x] = c[x]
    BY <2>8
  <2>10. Front(c) = SubSeq(c, 1, n)
    <3>1. (n + 1) - 1 = n
      OBVIOUS
    <3> QED
      BY <2>8, <3>1, Zenon DEF Front
  <2>11. SubSeq(c, 1, n) = l
    BY <1>3, <2>6, <2>9, SameLists
  <2> QED
    BY <2>1, <2>10, <2>11
<1> QED
  BY <1>2, <1>4, <1>5 DEF r

LEMMA MoveIs ==
  ASSUME MAXINTEGER \in Nat \ {0}, NEW f \in Numbers, NEW e \in Numbers, NEW to \in Numbers,
         NEW t \in [Numbers -> Int]
  PROVE  /\ TMove(t, f, e, to).numbers \subseteq Numbers
         /\ TMove(t, f, e, to).error = "" =>
              TMove(t, f, e, to).table = [k \in Numbers |-> IF k \in to..(to + e - f)
                                                            THEN t[k - to + f] ELSE t[k]]
         /\ TMove(t, f, e, to).error # "" => e - f + 1 > MAXINTEGER \/ to + e - f > MAXINTEGER
<1> DEFINE n == e - f + 1
           many == f <= 0 /\ e >= MAXINTEGER + f
           wraps == to > MAXINTEGER - n + 1
           upwards == to > e \/ to <= f
           goal == [k \in Numbers |-> IF k \in to..(to + e - f) THEN t[k - to + f] ELSE t[k]]
           m == TMove(t, f, e, to)
<1>1. /\ f \in Int /\ e \in Int /\ to \in Int /\ MAXINTEGER \in Int /\ MAXINTEGER >= 1
      /\ Numbers = (-MAXINTEGER - 1)..MAXINTEGER
      /\ f >= -MAXINTEGER - 1 /\ e <= MAXINTEGER /\ to >= -MAXINTEGER - 1 /\ to <= MAXINTEGER
      /\ f <= MAXINTEGER /\ e >= -MAXINTEGER - 1
  BY DEF Numbers, MININTEGER
<1>2. t = [k \in DOMAIN t |-> t[k]] /\ DOMAIN t = Numbers /\ DOMAIN t \subseteq Int
  BY <1>1
<1>10. /\ e < f => ~(e >= f)
       /\ ~(e < f) => e >= f
  BY <1>1
<1>3. CASE e < f
  <2>1. m = [error |-> "", table |-> t, numbers |-> {}]
    BY <1>3, <1>10, Zenon DEF TMove
  <2>2. \A k \in Numbers : k \notin to..(to + e - f)
    BY <1>1, <1>3
  <2>3. goal = [k \in Numbers |-> t[k]]
    BY <2>2, Zenon
  <2>4. goal = t
    BY <1>2, <2>3
  <2> HIDE DEF goal, m
  <2>5. m.numbers \subseteq Numbers /\ m.error = "" /\ m.table = goal
    BY <2>1, <2>4
  <2> QED
    BY <2>5 DEF m, goal
<1>4. CASE e >= f /\ many
  <2>1. m = [error |-> "toomany", table |-> t, numbers |-> {}]
    BY <1>4, <1>10, Zenon DEF TMove
  <2>2. e - f + 1 > MAXINTEGER
    BY <1>1, <1>4
  <2> HIDE DEF m
  <2>3. m.numbers \subseteq Numbers /\ m.error # ""
    BY <2>1
  <2> QED
    BY <2>2, <2>3 DEF m
<1>5. ASSUME e >= f, ~many
      PROVE  n \in Numbers /\ MAXINTEGER - n \in Numbers /\ n >= 1 /\ n \in Nat
  <2>1. n >= 1 /\ n <= MAXINTEGER
    BY <1>1, <1>5
  <2> QED
    BY <1>1, <2>1
<1>6. CASE e >= f /\ ~many /\ wraps
  <2>1. m = [error |-> "wraps", table |-> t, numbers |-> {n, MAXINTEGER - n}]
    BY <1>6, <1>10, Zenon DEF TMove
  <2>2. to + e - f > MAXINTEGER
    BY <1>1, <1>6
  <2> HIDE DEF m, n, many, wraps
  <2>3. m.numbers \subseteq Numbers /\ m.error # ""
    BY <1>5, <1>6, <2>1
  <2> QED
    BY <2>2, <2>3 DEF m
<1>7. CASE e >= f /\ ~many /\ ~wraps
  <2> DEFINE c == IF upwards THEN CopyUp(t, f, to, n) ELSE CopyDown(t, f, to, n)
  <2>1. m = [error |-> "", numbers |-> {n, MAXINTEGER - n, f + n - 1, to + n - 1}, table |-> c]
    BY <1>7, <1>10, Zenon DEF TMove
  <2>2. n \in Numbers /\ MAXINTEGER - n \in Numbers /\ n >= 1 /\ n \in Nat
    BY <1>5, <1>7
  <2>3. f + n - 1 = e /\ to + n - 1 = to + e - f /\ to + n - 1 <= MAXINTEGER
    BY <1>1, <1>7
  <2>4. f + n - 1 \in Numbers /\ to + n - 1 \in Numbers
    BY <1>1, <2>2, <2>3
  <2>5. f..(f + n - 1) \subseteq DOMAIN t /\ to..(to + n - 1) \subseteq DOMAIN t
    BY <1>1, <1>2, <2>3
  <2> HIDE DEF n
  <2>9. Both(t, f, to, n)
    BY <1>2, <2>5, Zenon DEF Both
  <2> USE DEF n
  <2>6. c = Copied(t, to, to + n - 1, f - to)
    <3>1. CASE upwards
      <4>1. to <= f \/ to > f + n - 1
        BY <2>3, <3>1
      <4> HIDE DEF n
      <4>2. CopyUp(t, f, to, n) = Copied(t, to, to + n - 1, f - to)
        BY <1>1, <2>2, <2>9, <4>1, CopyUpIs
      <4> QED
        BY <3>1, <4>2
    <3>2. CASE ~upwards
      <4>1. f <= to
        BY <1>1, <3>2
      <4> HIDE DEF n
      <4>2. CopyDown(t, f, to, n) = Copied(t, to, to + n - 1, f - to)
        BY <1>1, <2>2, <2>9, <4>1, CopyDownIs
      <4> QED
        BY <3>2, <4>2
    <3> QED
      BY <3>1, <3>2
  <2>7. Copied(t, to, to + n - 1, f - to) = goal
    <3>1. \A k \in Numbers : k + (f - to) = k - to + f
      BY <1>1
    <3> HIDE DEF n
    <3>2. Copied(t, to, to + n - 1, f - to)
            = [k \in Numbers |-> IF k \in to..(to + n - 1) THEN t[k + (f - to)] ELSE t[k]]
      BY <1>2, Zenon DEF Copied
    <3>3. \A k \in Numbers : (IF k \in to..(to + n - 1) THEN t[k + (f - to)] ELSE t[k])
                              = IF k \in to..(to + e - f) THEN t[k - to + f] ELSE t[k]
      BY <2>3, <3>1, Zenon
    <3> QED
      BY <3>2, <3>3, Zenon
  <2> HIDE DEF goal, m, c, n
  <2>8. m.numbers \subseteq Numbers /\ m.error = "" /\ m.table = goal
    BY <2>1, <2>2, <2>4, <2>6, <2>7
  <2> QED
    BY <2>8 DEF m, goal
<1> HIDE DEF n, many, wraps, m, goal
<1> QED
  BY <1>3, <1>4, <1>6, <1>7, <1>10, Zenon

-----------------------------------------------------------------------------
(***************************************************************************)
(* ListsInv holds from the beginning and every step keeps it.              *)
(***************************************************************************)

LEMMA InitLists ==
  ASSUME LuaTableLibAssumption, Init
  PROVE  ListsInv
<1>1. MaxLength \in Nat
  BY DEF LuaTableLibAssumption
<1>2. Len(list) = 0 /\ todo = <<>> /\ list = given /\ asked = 0 /\ ask = "idle" /\ out.call = "none"
  BY DEF Init
<1>3. ListsTypeOK
  BY DEF Init, ListsTypeOK
<1>4. Fit(todo, Len(list)) /\ Nested(todo, Len(list))
  BY <1>2, Nothing
<1>5. PlacesInside
  BY <1>2 DEF PlacesInside, Sorting
<1>6. ~(Sorting \/ ask = "done") /\ asked <= Len(list) * Len(list)
  BY <1>2 DEF Sorting
<1>7. SortInv
  BY <1>1, <1>2, <1>4, <1>5, <1>6 DEF SortInv
<1>8. CopiesAtOnce
  BY <1>2 DEF CopiesAtOnce
<1> QED
  BY <1>3, <1>7, <1>8 DEF ListsInv

LEMMA InsertAndRemoveKeeps ==
  ASSUME LuaTableLibAssumption, ListsInv, InsertAndRemove
  PROVE  ListsInv'
<1>1. PICK l \in Lists, v \in Elements :
        \E pos \in 1..(Len(l) + 1) :
          /\ given' = l
          /\ list' = TInsert(l, pos, v)
          /\ out' = [call |-> "insert", pos |-> pos, value |-> v, removed |-> TRemove(list', pos)]
  BY DEF InsertAndRemove
<1>2. PICK pos \in 1..(Len(l) + 1) :
          /\ given' = l
          /\ list' = TInsert(l, pos, v)
          /\ out' = [call |-> "insert", pos |-> pos, value |-> v, removed |-> TRemove(list', pos)]
  BY <1>1
<1>3. Len(l) \in Nat /\ l \in Seq(Elements) /\ l \in [1..Len(l) -> Elements]
  <2>1. Len(l) \in Nat /\ l \in Seq(Elements)
    BY ListsAre
  <2> QED
    BY <2>1
<1>4. /\ TInsert(l, pos, v) \in Seq(Elements)
      /\ TInsert(l, pos, v) = SubSeq(l, 1, pos - 1) \o <<v>> \o SubSeq(l, pos, Len(l))
      /\ TRemove(TInsert(l, pos, v), pos) = l
  BY <1>3, InsertRemoves
<1>5. out'.call = "insert" /\ out'.pos = pos /\ out'.value = v /\ out'.removed = TRemove(list', pos)
  BY <1>2
<1>6. /\ ask' = "done" /\ order' = order /\ todo' = todo /\ p' = p /\ i' = i /\ j' = j
      /\ pivot' = pivot /\ asked' = asked /\ ask = "idle"
  BY DEF InsertAndRemove
<1>7. ListsTypeOK
  BY DEF ListsInv
<1>8. ListsTypeOK'
  <2>1. /\ order \in {"less", "any"} /\ todo = <<>> /\ asked = 0 /\ todo \in Seq(Int \X Int)
        /\ p \in Int /\ i \in Int /\ j \in Int /\ pivot \in Int
    BY <1>6, <1>7 DEF ListsTypeOK
  <2>2. given' \in Seq(Elements) /\ list' \in Seq(Elements)
    BY <1>2, <1>3, <1>4, Zenon
  <2> QED
    BY <1>5, <1>6, <2>1, <2>2 DEF ListsTypeOK
<1>9. CopiesAtOnce'
  <2>1. /\ list' = SubSeq(given', 1, out'.pos - 1) \o <<out'.value>>
                     \o SubSeq(given', out'.pos, Len(given'))
        /\ out'.removed = given'
    BY <1>2, <1>4, <1>5, Zenon
  <2>2. out'.call # "move"
    BY <1>5
  <2> QED
    BY <2>1, <2>2, Zenon DEF CopiesAtOnce
<1>10. out'.call # "none"
  BY <1>5
<1> QED
  BY <1>8, <1>9, <1>10, Zenon DEF ListsInv

LEMMA MoveKeeps ==
  ASSUME LuaTableLibAssumption, ListsInv, Move
  PROVE  ListsInv'
<1>1. PICK f \in Numbers, e \in Numbers, to \in Numbers :
        out' = [call |-> "move", f |-> f, e |-> e, to |-> to, was |-> [k \in Numbers |-> k],
                does |-> TMove([k \in Numbers |-> k], f, e, to)]
  BY DEF Move
<1> DEFINE t == [k \in Numbers |-> k]
<1>2. t \in [Numbers -> Int] /\ MAXINTEGER \in Nat \ {0}
  BY DEF Numbers, MININTEGER, LuaTableLibAssumption
<1> HIDE DEF t
<1>3. /\ TMove(t, f, e, to).numbers \subseteq Numbers
      /\ TMove(t, f, e, to).error = "" =>
           TMove(t, f, e, to).table = [k \in Numbers |-> IF k \in to..(to + e - f)
                                                         THEN t[k - to + f] ELSE t[k]]
      /\ TMove(t, f, e, to).error # "" => e - f + 1 > MAXINTEGER \/ to + e - f > MAXINTEGER
  BY <1>2, MoveIs
<1>4. /\ out'.call = "move" /\ out'.f = f /\ out'.e = e /\ out'.to = to /\ out'.was = t
      /\ out'.does = TMove(t, f, e, to)
  BY <1>1 DEF t
<1>5. /\ ask' = "done" /\ given' = given /\ list' = list /\ order' = order /\ todo' = todo
      /\ p' = p /\ i' = i /\ j' = j /\ pivot' = pivot /\ asked' = asked /\ ask = "idle"
  BY DEF Move
<1>6. ListsTypeOK'
  <2>1. ListsTypeOK
    BY DEF ListsInv
  <2> QED
    BY <1>4, <1>5, <2>1 DEF ListsTypeOK
<1>7. /\ out'.does.numbers \subseteq Numbers
      /\ out'.does.error = "" =>
           out'.does.table = [k \in Numbers |-> IF k \in out'.to..(out'.to + out'.e - out'.f)
                                                THEN out'.was[k - out'.to + out'.f] ELSE out'.was[k]]
      /\ out'.does.error # "" => out'.e - out'.f + 1 > MAXINTEGER \/ out'.to + out'.e - out'.f > MAXINTEGER
  BY <1>3, <1>4, Zenon
<1>8. out'.call # "insert" /\ out'.call # "none"
  BY <1>4
<1>9. CopiesAtOnce'
  BY <1>7, <1>8, Zenon DEF CopiesAtOnce
<1> QED
  BY <1>6, <1>8, <1>9, Zenon DEF ListsInv

LEMMA StepLists ==
  ASSUME LuaTableLibAssumption, ListsInv, [Next]_vars
  PROVE  ListsInv'
<1>1. Elements \subseteq Int /\ MaxLength \in Nat /\ ListsTypeOK
  BY DEF LuaTableLibAssumption, ListsInv
<1>2. Sorting \/ ask = "idle" => out.call = "none"
  BY <1>1 DEF ListsTypeOK, Sorting
<1>3. out.call = "none" => SortInv
  BY DEF ListsInv
<1>4. ASSUME ListsTypeOK', SortInv', out' = out, out.call = "none" PROVE ListsInv'
  <2>1. CopiesAtOnce'
    BY <1>4 DEF CopiesAtOnce
  <2> QED
    BY <1>4, <2>1, Zenon DEF ListsInv
<1>5. CASE Sort
  <2>1. out.call = "none"
    BY <1>2, <1>5 DEF Sort
  <2> QED
    BY <1>1, <1>4, <1>5, <2>1, SortStarts
<1>6. CASE Answered
  <2>1. out.call = "none"
    BY <1>2, <1>6 DEF Answered
  <2> QED
    BY <1>1, <1>3, <1>4, <1>6, <2>1, AnsweredKeeps
<1>7. CASE OrderFails
  <2>1. out.call = "none"
    BY <1>2, <1>7 DEF OrderFails
  <2> QED
    BY <1>1, <1>3, <1>4, <1>7, <2>1, OrderFailsKeeps
<1>8. CASE InsertAndRemove
  BY <1>8, InsertAndRemoveKeeps
<1>9. CASE Move
  BY <1>9, MoveKeeps
<1>10. CASE UNCHANGED vars
  BY <1>10 DEF vars, ListsInv, ListsTypeOK, SortInv, PlacesInside, ValuesParted, Spent, Sorting,
               lo, up, CopiesAtOnce
<1> QED
  BY <1>5, <1>6, <1>7, <1>8, <1>9, <1>10 DEF Next

LEMMA ListsInvGives ==
  ASSUME LuaTableLibAssumption, ListsInv
  PROVE  ListsKept
<1>1. Elements \subseteq Int /\ MaxLength \in Nat /\ ListsTypeOK /\ CopiesAtOnce
  BY DEF LuaTableLibAssumption, ListsInv
<1>2. CASE out.call = "none"
  <2>1. SortsByLess /\ KeepsValues /\ EndsSoon
    BY <1>1, <1>2, SortedLists DEF ListsInv
  <2> QED
    BY <1>1, <2>1 DEF ListsKept
<1>3. CASE out.call # "none"
  <2>1. ask = "done" /\ asked = 0 /\ todo = <<>> /\ list \in Seq(Elements)
    BY <1>1, <1>3 DEF ListsTypeOK
  <2>2. asked <= Len(list) * Len(list)
    <3>1. Len(list) \in Nat /\ Len(list) * Len(list) \in Nat
      BY <2>1, PairsFinite
    <3> QED
      BY <2>1, <3>1
  <2>3. EndsSoon
    BY <2>1, <2>2 DEF EndsSoon
  <2>4. SortsByLess /\ KeepsValues
    BY <1>3, <2>1 DEF SortsByLess, KeepsValues
  <2> QED
    BY <1>1, <2>3, <2>4 DEF ListsKept
<1> QED
  BY <1>2, <1>3

\* Whatever the order function answers and wherever it stops a sort, lists keep their values
\* and no place outside the interval is looked at; a sort asks at most n * n questions, calls
\* itself no deeper than the logarithm of n, and by < it sorts; insert, remove and move do as
\* if all were copied at once (ltablib.c).
THEOREM ListsAreKept ==
  ASSUME LuaTableLibAssumption
  PROVE  Spec => []ListsKept
<1>1. Init => ListsInv
  BY InitLists
<1>2. ListsInv /\ [Next]_vars => ListsInv'
  BY StepLists
<1>3. ListsInv => ListsKept
  BY ListsInvGives
<1> QED
  BY <1>1, <1>2, <1>3, PTL DEF Spec
=============================================================================
