---------------------------- MODULE HeaderProofs ----------------------------
(***************************************************************************)
(* Proofs about http_header.c: what init_header and execute_script do with *)
(* a request, for every set of messages and every limit, and what threads  *)
(* that race over the tables of valid verbs and versions find in them, for *)
(* any number of threads, requests and words.                              *)
(***************************************************************************)
EXTENDS AnalyzeMethod, ValidMap, FiniteSetTheorems, WellFoundedInduction, TLAPS

-----------------------------------------------------------------------------
(***************************************************************************)
(* What tokenizer returns, for every string and every limit.  Its rounds   *)
(* are a recursive function; that there is one, and what its values are,   *)
(* is proved from the least place at which it could go wrong.              *)
(***************************************************************************)

\* Induction up to n, for a set of numbers.
LEMMA UpTo ==
  ASSUME NEW n \in Nat, NEW P, n >= 1 => 1 \in P,
         \A k \in 1..n : k \in P /\ k < n => k + 1 \in P
  PROVE  \A k \in 1..n : k \in P
<1> DEFINE Others == {k \in 1..n : k \notin P}
<1> SUFFICES ASSUME Others # {} PROVE FALSE
  OBVIOUS
<1>1. Others \subseteq Nat
  OBVIOUS
<1>2. PICK k \in Others : \A j \in Others : ~(<<j, k>> \in OpToRel(<, Nat))
  BY <1>1, NatLessThanWellFounded, WFMin
<1>3. k \in 1..n /\ k \notin P
  BY <1>2
<1>4. k # 1
  BY <1>3
<1>5. k - 1 \in 1..n /\ k - 1 < n /\ (k - 1) + 1 = k /\ k - 1 < k /\ k - 1 \in Nat /\ k \in Nat
  BY <1>3, <1>4
<1>6. <<k - 1, k>> \in OpToRel(<, Nat)
  BY <1>5 DEF OpToRel
<1>7. k - 1 \in P
  BY <1>2, <1>5, <1>6
<1> QED
  BY <1>3, <1>5, <1>7

Follows(f, n, first, step) ==
  \A k \in 1..n : f[k] = IF k = 1 THEN first ELSE step[<<f[k - 1], k>>]

\* A value for each place, from the one before it.
LEMMA Recursion ==
  ASSUME NEW n \in Nat \ {0}, NEW S, NEW first \in S, NEW step \in [S \X (1..n) -> S]
  PROVE  \E f \in [1..n -> S] : Follows(f, n, first, step)
<1> DEFINE Solves(m, f) ==
             \A k \in 1..m : f[k] = IF k = 1 THEN first ELSE step[<<f[k - 1], k>>]
           P == {m \in 1..n : \E f \in [1..m -> S] : Solves(m, f)}
<1>1. 1 \in P
  <2>1. [k \in 1..1 |-> first] \in [1..1 -> S] /\ Solves(1, [k \in 1..1 |-> first])
    OBVIOUS
  <2>2. 1 \in 1..n
    OBVIOUS
  <2> HIDE DEF Solves
  <2> QED
    BY <2>1, <2>2
<1>2. ASSUME NEW m \in 1..n, m \in P, m < n PROVE m + 1 \in P
  <2>1. PICK f \in [1..m -> S] : Solves(m, f)
    BY <1>2
  <2> DEFINE v == step[<<f[m], m + 1>>]
             g == [k \in 1..(m + 1) |-> IF k \in 1..m THEN f[k] ELSE v]
  <2>2. v \in S
    BY <1>2
  <2>3. g \in [1..(m + 1) -> S]
    BY <2>2
  <2>4. ASSUME NEW k \in 1..(m + 1)
        PROVE  g[k] = IF k = 1 THEN first ELSE step[<<g[k - 1], k>>]
    <3>1. CASE k \in 1..m
      <4>1. k # 1 => k - 1 \in 1..m /\ k - 1 \in 1..(m + 1)
        BY <3>1
      <4> QED
        BY <2>1, <3>1, <4>1
    <3>2. CASE k = m + 1
      <4>1. m \in 1..m /\ m \in 1..(m + 1) /\ k - 1 = m /\ k # 1 /\ k \notin 1..m
        BY <3>2
      <4> QED
        BY <3>2, <4>1
    <3> QED
      BY <3>1, <3>2
  <2> HIDE DEF g
  <2>5. m + 1 \in 1..n
    BY <1>2
  <2> QED
    BY <2>3, <2>4, <2>5
<1> HIDE DEF Solves
<1>3. \A k \in 1..n : k \in P
  <2> HIDE DEF P
  <2> QED
    BY <1>1, <1>2, UpTo
<1>4. n \in P
  BY <1>3
<1> QED
  BY <1>4 DEF Solves, Follows

-----------------------------------------------------------------------------

\* The rounds of the loop: a sequence of pieces after each.
LEMMA RoundsAre ==
  ASSUME NEW S, NEW pieces \in Seq(S), pieces # <<>>, NEW lines \in BOOLEAN
  PROVE  \A k \in 1..Len(pieces) :
            /\ Rounds(pieces, lines)[k] \in Seq(S)
            /\ Rounds(pieces, lines)[k] =
                 IF k = 1 THEN <<pieces[1]>>
                 ELSE NextToken(Rounds(pieces, lines)[k - 1], pieces, k, lines)
<1> DEFINE n == Len(pieces)
           step == [x \in Seq(S) \X (1..n) |-> NextToken(x[1], pieces, x[2], lines)]
<1>1. n \in Nat \ {0} /\ pieces[1] \in S /\ <<pieces[1]>> \in Seq(S)
  OBVIOUS
<1>2. step \in [Seq(S) \X (1..n) -> Seq(S)]
  <2>1. ASSUME NEW x \in Seq(S) \X (1..n)
        PROVE  NextToken(x[1], pieces, x[2], lines) \in Seq(S)
    <3>1. x[1] \in Seq(S) /\ pieces[x[2]] \in S
      OBVIOUS
    <3> QED
      BY <3>1 DEF NextToken
  <2> QED
    BY <2>1
<1>3. \A r \in Seq(S), k \in 1..n : step[<<r, k>>] = NextToken(r, pieces, k, lines)
  OBVIOUS
<1> HIDE DEF step, n
<1>4. PICK f \in [1..n -> Seq(S)] :
             \A k \in 1..n : f[k] = IF k = 1 THEN <<pieces[1]>> ELSE step[<<f[k - 1], k>>]
  <2> DEFINE T == Seq(S)
             first == <<pieces[1]>>
  <2>1. first \in T /\ step \in [T \X (1..n) -> T] /\ n \in Nat \ {0}
    BY <1>1, <1>2
  <2> HIDE DEF T, first
  <2>2. \E f \in [1..n -> T] : Follows(f, n, first, step)
    BY <2>1, Recursion
  <2> QED
    BY <2>2 DEF T, first, Follows
<1>5. \A k \in 1..n : f[k] = IF k = 1 THEN <<pieces[1]>>
                             ELSE NextToken(f[k - 1], pieces, k, lines)
  <2>1. \A k \in 1..n : k # 1 => k - 1 \in 1..n
    BY <1>1
  <2> QED
    BY <2>1, <1>3, <1>4
<1> DEFINE Is(R) == R = [k \in 1..n |-> IF k = 1 THEN <<pieces[1]>>
                                        ELSE NextToken(R[k - 1], pieces, k, lines)]
<1>6. Is(f)
  BY <1>5
<1>7. Is(CHOOSE R : Is(R))
  BY <1>6, Zenon
<1>8. Rounds(pieces, lines) = CHOOSE R : Is(R)
  BY DEF Rounds, n
<1> DEFINE R == Rounds(pieces, lines)
<1>9. R = [k \in 1..n |-> IF k = 1 THEN <<pieces[1]>>
                          ELSE NextToken(R[k - 1], pieces, k, lines)]
  BY <1>7, <1>8
<1>10. \A k \in 1..n : R[k] = IF k = 1 THEN <<pieces[1]>>
                              ELSE NextToken(R[k - 1], pieces, k, lines)
  <2> HIDE DEF R
  <2> QED
    BY <1>9
<1> HIDE DEF R, n
<1> DEFINE P == {k \in 1..n : R[k] \in Seq(S)}
<1>11. 1 \in P
  <2>1. 1 \in 1..n
    BY <1>1
  <2>2. R[1] = <<pieces[1]>>
    BY <1>10, <2>1
  <2> QED
    BY <1>1, <2>1, <2>2
<1>12. ASSUME NEW k \in 1..n, k \in P, k < n PROVE k + 1 \in P
  <2>1. k + 1 \in 1..n /\ k + 1 # 1 /\ (k + 1) - 1 = k
    BY <1>1, <1>12
  <2>2. R[k + 1] = NextToken(R[k], pieces, k + 1, lines)
    BY <1>10, <2>1
  <2>3. pieces[k + 1] \in S
    BY <2>1 DEF n
  <2>4. R[k] \in Seq(S)
    BY <1>12
  <2>5. NextToken(R[k], pieces, k + 1, lines) \in Seq(S)
    <3> DEFINE r == R[k]
    <3>1. r \in Seq(S)
      BY <2>4
    <3> HIDE DEF r
    <3>2. NextToken(r, pieces, k + 1, lines) \in {r, Append(r, pieces[k + 1])}
      BY DEF NextToken
    <3>3. Append(r, pieces[k + 1]) \in Seq(S)
      BY <2>3, <3>1
    <3> QED
      BY <3>1, <3>2, <3>3 DEF r
  <2> QED
    BY <2>1, <2>2, <2>5
<1>13. \A k \in 1..n : k \in P
  <2> HIDE DEF P
  <2> QED
    BY <1>1, <1>11, <1>12, UpTo
<1> QED
  BY <1>10, <1>13 DEF R, n

-----------------------------------------------------------------------------

\* The places that are wanted, up to one.
UpToPlace(wanted, k) == {j \in wanted : j =< k}

\* Ranks grow with the places, by one from each that is wanted to the next.
LEMMA Ranks ==
  ASSUME NEW n \in Nat, NEW wanted \in SUBSET (1..n)
  PROVE  /\ IsFiniteSet(wanted) /\ Cardinality(wanted) \in Nat
         /\ \A k : IsFiniteSet(UpToPlace(wanted, k)) /\ Rank(wanted, k) \in Nat
         /\ \A k : Rank(wanted, k) = Cardinality(UpToPlace(wanted, k))
         /\ Rank(wanted, n) = Cardinality(wanted)
         /\ \A k \in 1..n : k + 1 \in wanted => Rank(wanted, k + 1) = Rank(wanted, k) + 1
         /\ \A k \in 1..n : k + 1 \notin wanted => Rank(wanted, k + 1) = Rank(wanted, k)
         /\ \A j, k \in 1..n : j =< k => Rank(wanted, j) =< Rank(wanted, k)
         /\ \A j, k \in wanted : j < k => Rank(wanted, j) < Rank(wanted, k)
         /\ \A k \in wanted : Rank(wanted, k) >= 1
<1>1. \A x \in wanted : x \in Int /\ x =< n
  OBVIOUS
<1>2. IsFiniteSet(wanted)
  BY FS_Interval, FS_Subset, 1 \in Int, n \in Int
<1>3. \A k : IsFiniteSet(UpToPlace(wanted, k))
  BY <1>2, FS_Subset DEF UpToPlace
<1>4. Cardinality(wanted) \in Nat /\ \A k : Cardinality(UpToPlace(wanted, k)) \in Nat
  BY <1>2, <1>3, FS_CardinalityType
<1>5. \A k : Rank(wanted, k) = Cardinality(UpToPlace(wanted, k))
  BY DEF Rank, UpToPlace
<1>6. Rank(wanted, n) = Cardinality(wanted)
  <2>1. UpToPlace(wanted, n) = wanted
    BY <1>1 DEF UpToPlace
  <2> QED
    BY <1>5, <2>1
<1>7. ASSUME NEW k \in 1..n, k + 1 \in wanted
      PROVE  Rank(wanted, k + 1) = Rank(wanted, k) + 1
  <2>1. UpToPlace(wanted, k + 1) = UpToPlace(wanted, k) \union {k + 1}
    <3>1. \A x \in wanted : x =< k + 1 <=> x =< k \/ x = k + 1
      BY <1>1
    <3> QED
      BY <1>7, <3>1 DEF UpToPlace
  <2>2. k + 1 \notin UpToPlace(wanted, k)
    BY DEF UpToPlace
  <2> QED
    BY <1>3, <1>5, <2>1, <2>2, FS_AddElement
<1>8. ASSUME NEW k \in 1..n, k + 1 \notin wanted
      PROVE  Rank(wanted, k + 1) = Rank(wanted, k)
  <2>1. UpToPlace(wanted, k + 1) = UpToPlace(wanted, k)
    <3>1. \A x \in wanted : x =< k + 1 <=> x =< k
      BY <1>1, <1>8
    <3> QED
      BY <3>1 DEF UpToPlace
  <2> QED
    BY <1>5, <2>1
<1>9. ASSUME NEW j \in 1..n, NEW k \in 1..n, j =< k
      PROVE  UpToPlace(wanted, j) \subseteq UpToPlace(wanted, k)
  <2>1. \A x \in wanted : x =< j => x =< k
    BY <1>1, <1>9
  <2> QED
    BY <2>1 DEF UpToPlace
<1>10. ASSUME NEW j \in 1..n, NEW k \in 1..n, j =< k
      PROVE  Rank(wanted, j) =< Rank(wanted, k)
  BY <1>3, <1>5, <1>9, <1>10, FS_Subset
<1>11. ASSUME NEW j \in wanted, NEW k \in wanted, j < k
      PROVE  Rank(wanted, j) < Rank(wanted, k)
  <2>1. j \in 1..n /\ k \in 1..n /\ j =< k
    BY <1>11
  <2>2. UpToPlace(wanted, j) \subseteq UpToPlace(wanted, k)
    BY <1>9, <2>1
  <2>3. k \in UpToPlace(wanted, k) /\ k \notin UpToPlace(wanted, j)
    BY <1>1, <1>11 DEF UpToPlace
  <2>4. UpToPlace(wanted, j) # UpToPlace(wanted, k)
    BY <2>3
  <2>5. Cardinality(UpToPlace(wanted, j)) =< Cardinality(UpToPlace(wanted, k))
        /\ Cardinality(UpToPlace(wanted, j)) # Cardinality(UpToPlace(wanted, k))
    BY <1>3, <2>2, <2>4, FS_Subset
  <2> QED
    BY <1>4, <1>5, <2>5
<1>12. ASSUME NEW k \in wanted
      PROVE  Rank(wanted, k) >= 1
  <2>1. UpToPlace(wanted, k) # {}
    BY DEF UpToPlace
  <2>2. Cardinality(UpToPlace(wanted, k)) # 0
    BY <1>3, <2>1, FS_EmptySet
  <2> QED
    BY <1>4, <1>5, <2>2
<1> QED
  BY <1>2, <1>3, <1>4, <1>5, <1>6, <1>7, <1>8, <1>11, <1>12, <1>10

\* Up to place k the tokens are those that are wanted, up to the most that are kept.
Sofar(pieces, wanted, tokens, k) ==
  LET most == MAX_HEADER_HEADERS + 2
  IN /\ Len(tokens) = IF Rank(wanted, k) > most THEN most ELSE Rank(wanted, k)
     /\ \A j \in UpToPlace(wanted, k) :
          Rank(wanted, j) =< most => tokens[Rank(wanted, j)] = pieces[j]
     /\ \A m \in 1..Len(tokens) : \E j \in UpToPlace(wanted, k) : Rank(wanted, j) = m

\* One more place, which comes to be a token just if it is wanted.
LEMMA Further ==
  ASSUME TokenizerAssumption, NEW S, NEW pieces \in Seq(S), NEW lines \in BOOLEAN,
         NEW tokens \in Seq(S), NEW k \in 1..Len(pieces), k < Len(pieces),
         Sofar(pieces, Wanted(pieces, lines), tokens, k)
  PROVE  Sofar(pieces, Wanted(pieces, lines), NextToken(tokens, pieces, k + 1, lines), k + 1)
<1> DEFINE W    == Wanted(pieces, lines)
           most == MAX_HEADER_HEADERS + 2
           next == NextToken(tokens, pieces, k + 1, lines)
<1>1. W \in SUBSET (1..Len(pieces)) /\ Len(pieces) \in Nat /\ most \in Nat
  BY DEF Wanted, TokenizerAssumption
<1>2. k + 1 \in 1..Len(pieces) /\ k + 1 # 1 /\ k \in 1..Len(pieces)
  OBVIOUS
<1>3. Full(tokens) <=> Len(tokens) >= most
  BY DEF Full, TokenizerAssumption
<1>4. k + 1 \in W <=> /\ ~(k + 1 < Len(pieces) /\ pieces[k + 1] = Blank)
                     /\ ~(k + 1 = Len(pieces) /\ NoNextToken(pieces[k + 1], lines))
  BY <1>2 DEF Wanted, NoNextToken
<1>5. next = IF Full(tokens) \/ k + 1 \notin W THEN tokens ELSE Append(tokens, pieces[k + 1])
  BY <1>4 DEF NextToken
<1>6. /\ Len(tokens) = IF Rank(W, k) > most THEN most ELSE Rank(W, k)
      /\ \A j \in UpToPlace(W, k) : Rank(W, j) =< most => tokens[Rank(W, j)] = pieces[j]
      /\ \A m \in 1..Len(tokens) : \E j \in UpToPlace(W, k) : Rank(W, j) = m
  BY DEF Sofar
<1>7. \A j \in UpToPlace(W, k + 1) : j \in UpToPlace(W, k) \/ (j = k + 1 /\ k + 1 \in W)
  <2>1. \A j \in W : j =< k + 1 => j =< k \/ j = k + 1
    BY <1>1
  <2> QED
    BY <2>1 DEF UpToPlace
<1>8. UpToPlace(W, k) \subseteq UpToPlace(W, k + 1)
  BY <1>1 DEF UpToPlace
<1>9. k + 1 \in W => k + 1 \in UpToPlace(W, k + 1)
  BY DEF UpToPlace
<1> HIDE DEF W, most, next
<1>10. \A x : Rank(W, x) \in Nat
  BY <1>1, Ranks
<1>11. \A j \in W : Rank(W, j) >= 1
  BY <1>1, Ranks
<1>12. UpToPlace(W, k) \subseteq W
  BY DEF UpToPlace
<1>13. Sofar(pieces, W, next, k + 1)
  <2>1. CASE k + 1 \notin W
    <3>1. Rank(W, k + 1) = Rank(W, k) /\ next = tokens
      BY SMTT(20), <1>1, <1>5, <2>1, Ranks
    <3> QED
      BY <1>6, <1>7, <1>8, <2>1, <3>1 DEF Sofar, most
  <2>2. CASE k + 1 \in W /\ Full(tokens)
    <3>1. Rank(W, k + 1) = Rank(W, k) + 1 /\ next = tokens
      BY <1>1, <1>5, <2>2, Ranks
    <3>2. Rank(W, k) >= most /\ Len(tokens) = most
      BY <1>1, <1>3, <1>6, <1>10, <2>2
    <3>3. Rank(W, k + 1) > most
      BY <1>1, <1>10, <3>1, <3>2
    <3> QED
      BY <1>1, <1>6, <1>7, <1>8, <1>10, <3>1, <3>2, <3>3 DEF Sofar, most
  <2>3. CASE k + 1 \in W /\ ~Full(tokens)
    <3>1. Rank(W, k + 1) = Rank(W, k) + 1 /\ next = Append(tokens, pieces[k + 1])
      BY <1>1, <1>5, <2>3, Ranks
    <3>2. Rank(W, k) < most /\ Len(tokens) = Rank(W, k)
      BY <1>1, <1>3, <1>6, <1>10, <2>3
    <3>3. pieces[k + 1] \in S /\ tokens \in Seq(S)
      BY <1>2
    <3>4. /\ Len(next) = Len(tokens) + 1
          /\ next[Len(tokens) + 1] = pieces[k + 1]
          /\ \A m \in 1..Len(tokens) : next[m] = tokens[m]
      BY <3>1, <3>3
    <3>5. Len(next) = IF Rank(W, k + 1) > most THEN most ELSE Rank(W, k + 1)
      BY <1>1, <1>10, <3>1, <3>2, <3>4
    <3>6. ASSUME NEW j \in UpToPlace(W, k + 1), Rank(W, j) =< most
          PROVE  next[Rank(W, j)] = pieces[j]
      <4>1. CASE j = k + 1
        BY <3>1, <3>2, <3>4, <4>1
      <4>2. CASE j \in UpToPlace(W, k)
        <5>1. PICK l \in Nat : l = Rank(W, j)
          BY <1>10
        <5>2. Rank(W, j) =< Rank(W, k)
          <6>1. j \in 1..Len(pieces) /\ j =< k
            BY <1>1, <4>2 DEF UpToPlace
          <6> QED
            BY <1>1, <1>2, <6>1, Ranks
        <5>3. Rank(W, j) \in 1..Len(tokens)
          BY <1>10, <1>11, <1>12, <3>2, <4>2, <5>2
        <5> QED
          BY <1>6, <3>4, <3>6, <4>2, <5>3
      <4> QED
        BY <1>7, <4>1, <4>2
    <3>7. ASSUME NEW m \in 1..Len(next)
          PROVE  \E j \in UpToPlace(W, k + 1) : Rank(W, j) = m
      <4>1. m \in 1..Len(tokens) \/ m = Len(tokens) + 1
        BY <3>2, <3>4, <1>10
      <4> QED
        BY <1>6, <1>8, <1>9, <2>3, <3>1, <3>2, <4>1
    <3> QED
      BY <3>5, <3>6, <3>7 DEF Sofar, most
  <2> QED
    BY <2>1, <2>2, <2>3
<1> QED
  BY <1>13 DEF W, next

\* What tokenizer returns for a string that is not refused at once.
LEMMA TokenizeAll ==
  ASSUME TokenizerAssumption, NEW S, NEW pieces \in Seq(S), pieces # <<>>,
         NEW lines \in BOOLEAN
  PROVE  /\ Tokenize(pieces, lines) \in Seq(S)
         /\ Sofar(pieces, Wanted(pieces, lines), Tokenize(pieces, lines), Len(pieces))
<1> DEFINE n == Len(pieces)
           W == Wanted(pieces, lines)
           R == Rounds(pieces, lines)
<1>1. W \in SUBSET (1..n) /\ n \in Nat /\ 1 \in 1..n
  BY DEF Wanted
<1>2. \A k \in 1..n : /\ R[k] \in Seq(S)
                      /\ R[k] = IF k = 1 THEN <<pieces[1]>>
                                ELSE NextToken(R[k - 1], pieces, k, lines)
  BY RoundsAre
<1>3. CASE n = 1 /\ NoNextToken(pieces[1], lines)
  <2>1. W = {} /\ Tokenize(pieces, lines) = <<>>
    BY <1>1, <1>3 DEF Wanted, NoNextToken, Tokenize
  <2>2. Rank(W, n) = 0
    BY <2>1, FS_EmptySet DEF Rank
  <2> QED
    BY <2>1, <2>2 DEF Sofar, UpToPlace, TokenizerAssumption
<1>4. CASE ~(n = 1 /\ NoNextToken(pieces[1], lines))
  <2>1. 1 \in W
    <3>1. n = 1 \/ n > 1
      BY <1>1
    <3>2. CASE n = 1
      <4>1. ~lines /\ pieces[1] # Blank /\ 1 \in DOMAIN pieces
        BY <1>1, <1>4, <3>2 DEF NoNextToken
      <4> QED
        BY <4>1 DEF Wanted
    <3>3. CASE n > 1
      <4>1. 1 # Len(pieces) /\ Len(pieces) > 1 /\ 1 \in DOMAIN pieces
        BY <1>1, <3>3
      <4> QED
        BY <4>1 DEF Wanted
    <3> QED
      BY <3>1, <3>2, <3>3
  <2>2. Tokenize(pieces, lines) = R[n]
    BY <1>4 DEF Tokenize
  <2> DEFINE P == {k \in 1..n : Sofar(pieces, W, R[k], k)}
  <2> HIDE DEF W, R, n
  <2>3. 1 \in P
    <3>1. UpToPlace(W, 1) = {1}
      <4>1. \A x \in W : x =< 1 => x = 1
        BY <1>1 DEF W
      <4> QED
        BY <2>1, <4>1 DEF UpToPlace
    <3>2. Rank(W, 1) = 1
      <4>1. W \in SUBSET (1..n) /\ n \in Nat
        BY <1>1
      <4>2. Rank(W, 1) = Cardinality(UpToPlace(W, 1))
        BY <4>1, Ranks
      <4> QED
        BY <3>1, <4>2, FS_Singleton
    <3>3. R[1] = <<pieces[1]>>
      BY <1>1, <1>2
    <3>4. Sofar(pieces, W, <<pieces[1]>>, 1)
      <4>1. MAX_HEADER_HEADERS + 2 > 1
        BY DEF TokenizerAssumption
      <4>2. Len(<<pieces[1]>>) = 1 /\ <<pieces[1]>>[1] = pieces[1]
        OBVIOUS
      <4>3. \A m \in 1..Len(<<pieces[1]>>) : m = 1
        BY <4>2
      <4> QED
        BY <3>1, <3>2, <4>1, <4>2, <4>3 DEF Sofar
    <3> QED
      BY <1>1, <3>3, <3>4
  <2>4. ASSUME NEW k \in 1..n, k \in P, k < n PROVE k + 1 \in P
    <3>1. k + 1 \in 1..n /\ k + 1 # 1 /\ (k + 1) - 1 = k
      BY <1>1, <2>4
    <3>2. R[k + 1] = NextToken(R[k], pieces, k + 1, lines) /\ R[k] \in Seq(S)
      BY <1>2, <3>1
    <3>3. Sofar(pieces, W, R[k], k)
      BY <2>4
    <3>4. Sofar(pieces, W, NextToken(R[k], pieces, k + 1, lines), k + 1)
      BY <2>4, <3>2, <3>3, Further DEF n, W
    <3> QED
      BY <3>1, <3>2, <3>4
  <2>5. \A k \in 1..n : k \in P
    <3> HIDE DEF P
    <3> QED
      BY <1>1, <2>3, <2>4, UpTo
  <2>6. n \in 1..n
    BY <1>1
  <2> QED
    BY <1>2, <2>2, <2>5, <2>6 DEF n, W
<1> QED
  BY <1>3, <1>4

-----------------------------------------------------------------------------

\* A string that is cut comes to the pieces it should, for every string, limit and way
\* of cutting: what the three branches of tokenizer do for the first, the middle and the
\* last piece is splitting (str_utils.c:6-104).
THEOREM TokenizerSplits ==
  ASSUME TokenizerAssumption, NEW S, NEW pieces \in Seq(S), pieces # <<>>,
         NEW lines \in BOOLEAN
  PROVE  SplitsRight(pieces, lines)
<1> DEFINE W      == Wanted(pieces, lines)
           tokens == Tokenize(pieces, lines)
           n      == Len(pieces)
<1>1. W \in SUBSET (1..n) /\ n \in Nat
  BY DEF Wanted
<1>2. Sofar(pieces, W, tokens, n)
  BY TokenizeAll
<1> HIDE DEF W, tokens, n
<1>3. Rank(W, n) = Cardinality(W)
  BY <1>1, Ranks
<1>4. UpToPlace(W, n) = W
  <2>1. \A k \in W : k =< n
    BY <1>1
  <2> QED
    BY <2>1 DEF UpToPlace
<1>5. /\ Len(tokens) = IF Cardinality(W) > MAX_HEADER_HEADERS + 2
                       THEN MAX_HEADER_HEADERS + 2 ELSE Cardinality(W)
      /\ \A k \in W : Rank(W, k) =< MAX_HEADER_HEADERS + 2 => tokens[Rank(W, k)] = pieces[k]
  BY <1>2, <1>3, <1>4 DEF Sofar
<1> QED
  BY <1>5 DEF SplitsRight, W, tokens

\* What its callers need: how many tokens there are, and that each of them is the piece
\* at a place of its own.
LEMMA Tokens ==
  ASSUME TokenizerAssumption, NEW S, NEW pieces \in Seq(S), pieces # <<>>,
         NEW lines \in BOOLEAN
  PROVE  LET wanted == Wanted(pieces, lines)
             tokens == Tokenize(pieces, lines)
         IN /\ tokens \in Seq(S)
            /\ wanted \in SUBSET (1..Len(pieces))
            /\ IsFiniteSet(wanted) /\ Cardinality(wanted) \in Nat
            /\ Len(tokens) = IF Cardinality(wanted) > MAX_HEADER_HEADERS + 2
                             THEN MAX_HEADER_HEADERS + 2 ELSE Cardinality(wanted)
            /\ \A m \in 1..Len(tokens) :
                 \E k \in wanted : Rank(wanted, k) = m /\ tokens[m] = pieces[k]
            /\ Cardinality(wanted) =< MAX_HEADER_HEADERS + 2 =>
                 \A k \in wanted : /\ Rank(wanted, k) \in 1..Len(tokens)
                                  /\ tokens[Rank(wanted, k)] = pieces[k]
            /\ \A j, k \in wanted : j < k => Rank(wanted, j) < Rank(wanted, k)
<1> DEFINE W      == Wanted(pieces, lines)
           tokens == Tokenize(pieces, lines)
           n      == Len(pieces)
           most   == MAX_HEADER_HEADERS + 2
<1>1. W \in SUBSET (1..n) /\ n \in Nat /\ most \in Nat
  BY DEF Wanted, TokenizerAssumption
<1>2. Sofar(pieces, W, tokens, n) /\ tokens \in Seq(S)
  BY TokenizeAll
<1>3. SplitsRight(pieces, lines)
  BY TokenizerSplits
<1>4. /\ Len(tokens) = IF Cardinality(W) > most THEN most ELSE Cardinality(W)
      /\ \A k \in W : Rank(W, k) =< most => tokens[Rank(W, k)] = pieces[k]
  BY <1>3 DEF SplitsRight
<1> HIDE DEF W, tokens, n, most
<1>5. /\ IsFiniteSet(W) /\ Cardinality(W) \in Nat /\ Rank(W, n) = Cardinality(W)
      /\ \A k : Rank(W, k) \in Nat
      /\ \A k \in W : Rank(W, k) >= 1
      /\ \A j, k \in W : j < k => Rank(W, j) < Rank(W, k)
      /\ \A j, k \in 1..n : j =< k => Rank(W, j) =< Rank(W, k)
  BY <1>1, Ranks
<1>6. ASSUME NEW m \in 1..Len(tokens)
      PROVE  \E k \in W : Rank(W, k) = m /\ tokens[m] = pieces[k]
  <2>1. PICK k \in UpToPlace(W, n) : Rank(W, k) = m
    BY <1>2 DEF Sofar
  <2>2. m =< most
    BY <1>1, <1>4, <1>5
  <2> QED
    BY <1>4, <2>1, <2>2 DEF UpToPlace
<1>7. ASSUME Cardinality(W) =< most, NEW k \in W
      PROVE  Rank(W, k) \in 1..Len(tokens) /\ tokens[Rank(W, k)] = pieces[k]
  <2>1. k \in 1..n /\ n \in 1..n /\ k =< n
    BY <1>1
  <2>2. Rank(W, k) =< Cardinality(W)
    BY <1>5, <2>1
  <2>3. Len(tokens) = Cardinality(W)
    BY <1>1, <1>4, <1>5, <1>7
  <2>4. Rank(W, k) =< most
    BY <1>1, <1>5, <1>7, <2>2
  <2> QED
    BY <1>4, <1>5, <2>2, <2>3, <2>4
<1> QED
  BY <1>1, <1>2, <1>4, <1>5, <1>6, <1>7 DEF W, tokens, n, most

-----------------------------------------------------------------------------
(***************************************************************************)
(* init_header and execute_script.                                         *)
(***************************************************************************)

\* Before the parameters are counted there are none.
NoneYet ==
  pc \in {"idle", "start", "base", "headers", "query"} =>
    url_params_tokens = 0 /\ url_params_ordered = <<>>

\* While they are stored, as many tags have been as rounds of the loop have ended.
StoredSoFar ==
  pc = "params" =>
    /\ rc = 0
    /\ i \in Nat \ {0}
    /\ url_params_ordered \in Seq(Tags \union {NoTag})
    /\ Len(url_params_ordered) = i - 1

\* After an error there are none, or some that the loop did not come to.
NoneOrMissing ==
  pc = "signature" /\ rc # 0 =>
    \/ url_params_tokens = 0 /\ url_params_ordered = <<>>
    \/ Len(url_params_ordered) # url_params_tokens

\* Errors are found before "signature".
NoErrorYet == pc \in {"idle", "start", "base", "headers", "query"} => rc = 0

BareInv ==
  /\ NoneYet
  /\ StoredSoFar
  /\ NoneOrMissing
  /\ NoErrorYet
  /\ RefusedRunsBare

USE DEF vars, hh

\* A request that is called for has as many tags as parameters; if it was refused these
\* are none.
LEMMA CallStep ==
  ASSUME BareInv, Call
  PROVE  BareInv'
  <1>1. pc = "signature" /\ pc' = "called" /\ rc' = rc
    BY DEF Call
  <1>2. Len(url_params_ordered) = url_params_tokens
    BY DEF Call, HasSignature
  <1>3. NoneYet' /\ StoredSoFar' /\ NoneOrMissing' /\ NoErrorYet'
    BY <1>1 DEF NoneYet, StoredSoFar, NoneOrMissing, NoErrorYet
  <1>4. RefusedRunsBare'
    <2> SUFFICES ASSUME rc # 0
                 PROVE  /\ call'.params = {}
                        /\ call'.nargs = IF call'.body THEN 1 ELSE 0
      BY <1>1 DEF RefusedRunsBare
    <2>1. url_params_tokens = 0 /\ url_params_ordered = <<>>
      BY <1>1, <1>2 DEF BareInv, NoneOrMissing
    <2>2. {url_params_ordered[k] : k \in DOMAIN url_params_ordered} = {}
      BY <2>1
    <2> DEFINE bodyExists == url_body /\ content_length # -1
    <2>3. call' = [script |-> epnt,
                   params |-> {<<t, url_params_values[t]>> :
                                 t \in {url_params_ordered[k] : k \in DOMAIN url_params_ordered}},
                   body   |-> bodyExists,
                   nargs  |-> url_params_tokens + (IF bodyExists THEN 1 ELSE 0)]
      BY DEF Call
    <2>4. call' = [script |-> epnt, params |-> {}, body |-> bodyExists,
                   nargs  |-> 0 + (IF bodyExists THEN 1 ELSE 0)]
      BY <2>1, <2>2, <2>3
    <2>5. call'.params = {} /\ call'.body = bodyExists
      BY <2>4
    <2>6. call'.nargs = 0 + (IF bodyExists THEN 1 ELSE 0)
      BY <2>4
    <2>7. 0 + (IF bodyExists THEN 1 ELSE 0) = IF bodyExists THEN 1 ELSE 0
      <3>1. CASE bodyExists
        BY <3>1
      <3>2. CASE ~bodyExists
        BY <3>2
      <3> QED
        BY <3>1, <3>2
    <2> HIDE DEF bodyExists
    <2> QED
      BY <2>5, <2>6, <2>7
  <1> QED
    BY <1>3, <1>4 DEF BareInv

LEMMA InitHeaderStep ==
  ASSUME BareInv, InitHeader
  PROVE  BareInv'
  <1>1. CASE FailStart
    BY <1>1 DEF BareInv, NoneYet, StoredSoFar, NoneOrMissing, NoErrorYet,
                RefusedRunsBare, FailStart, Return
  <1>2. CASE PassStart \/ RootBase \/ PathBase \/ OtherHeader \/ EndHeaders
    BY <1>2 DEF BareInv, NoneYet, StoredSoFar, NoneOrMissing, NoErrorYet,
                RefusedRunsBare, PassStart, RootBase, PathBase, OtherHeader,
                EndHeaders, Header
  <1>3. CASE DeepBase \/ BadHeader \/ NoQuery \/ TooManyParams
    BY <1>3 DEF BareInv, NoneYet, StoredSoFar, NoneOrMissing, NoErrorYet,
                RefusedRunsBare, DeepBase, BadHeader, NoQuery, TooManyParams,
                Header, Return
  <1>4. CASE ContentLength \/ \E e \in Endpoints : Endpoint(e)
    BY <1>4 DEF BareInv, NoneYet, StoredSoFar, NoneOrMissing, NoErrorYet,
                RefusedRunsBare, ContentLength, Endpoint, Header
  <1>5. CASE Query
    <2>1. pc = "query" /\ pc' = "params" /\ i' = 1 /\ rc' = rc
      BY <1>5 DEF Query
    <2>2. rc' = 0 /\ url_params_ordered' = <<>>
      BY <1>5, <2>1 DEF Query, BareInv, NoneYet, NoErrorYet
    <2> QED
      BY <2>1, <2>2 DEF BareInv, NoneYet, StoredSoFar, NoneOrMissing, NoErrorYet,
                        RefusedRunsBare
  <1>6. CASE FailParam
    <2>1. pc = "params" /\ i =< url_params_tokens /\ pc' = "signature"
      BY <1>6 DEF FailParam, AtParam, Return
    <2>2. i \in Nat /\ Len(url_params_ordered) = i - 1
      BY <2>1 DEF BareInv, StoredSoFar
    <2>3. Len(url_params_ordered) # url_params_tokens
      <3> SUFFICES ASSUME Len(url_params_ordered) = url_params_tokens PROVE FALSE
        OBVIOUS
      <3>1. i =< i - 1
        BY <2>1, <2>2
      <3> QED
        BY <3>1, <2>2
    <2>4. UNCHANGED <<url_params_ordered, url_params_tokens>>
      BY <1>6 DEF FailParam
    <2> QED
      BY <2>1, <2>3, <2>4 DEF BareInv, NoneYet, StoredSoFar, NoneOrMissing, NoErrorYet,
                              RefusedRunsBare
  <1>7. ASSUME NEW p \in Param, StoreParam(p) PROVE BareInv'
    <2>1. pc = "params" /\ pc' = "params" /\ i' = i + 1 /\ rc' = rc
      BY <1>7 DEF StoreParam, AtParam
    <2>2. p.tag \in Tags \union {NoTag}
      BY DEF Param
    <2>3. url_params_ordered' = Append(url_params_ordered, p.tag)
      BY <1>7 DEF StoreParam
    <2>4. StoredSoFar'
      BY <2>1, <2>2, <2>3 DEF BareInv, StoredSoFar
    <2> QED
      BY <2>1, <2>4 DEF BareInv, NoneYet, NoneOrMissing, NoErrorYet, RefusedRunsBare
  <1>8. ASSUME NEW p \in Param, SingleParam(p) PROVE BareInv'
    BY <1>8 DEF BareInv, NoneYet, StoredSoFar, NoneOrMissing, NoErrorYet,
                RefusedRunsBare, SingleParam
  <1>9. CASE EndParams
    BY <1>9 DEF BareInv, NoneYet, StoredSoFar, NoneOrMissing, NoErrorYet,
                RefusedRunsBare, EndParams, Return
  <1> QED
    BY <1>1, <1>2, <1>3, <1>4, <1>5, <1>6, <1>7, <1>8, <1>9 DEF InitHeader

LEMMA BareAlways == Spec => []BareInv
  <1>1. Init => BareInv
    BY DEF Init, BareInv, NoneYet, StoredSoFar, NoneOrMissing, NoErrorYet, RefusedRunsBare
  <1>2. BareInv /\ [Next]_vars => BareInv'
    <2> SUFFICES ASSUME BareInv, [Next]_vars PROVE BareInv'
      OBVIOUS
    <2>1. CASE Receive
      BY <2>1 DEF BareInv, NoneYet, StoredSoFar, NoneOrMissing, NoErrorYet,
                  RefusedRunsBare, Receive
    <2>2. CASE InitHeader
      BY <2>2, InitHeaderStep
    <2>3. CASE NoSignature
      BY <2>3 DEF BareInv, NoneYet, StoredSoFar, NoneOrMissing, NoErrorYet,
                  RefusedRunsBare, NoSignature
    <2>4. CASE Call
      BY <2>4, CallStep
    <2>5. CASE UNCHANGED vars
      BY <2>5 DEF BareInv, NoneYet, StoredSoFar, NoneOrMissing, NoErrorYet, RefusedRunsBare
    <2> QED
      BY <2>1, <2>2, <2>3, <2>4, <2>5 DEF Next
  <1> QED
    BY <1>1, <1>2, PTL DEF Spec

\* analyze_method goes on when init_header has refused a request, but then the script is
\* called without parameters: never with those that were stored before the error.
THEOREM RefusedNeverHalf == Spec => []RefusedRunsBare
  <1>1. BareInv => RefusedRunsBare
    BY DEF BareInv
  <1> QED
    BY <1>1, BareAlways, PTL

-----------------------------------------------------------------------------
(***************************************************************************)
(* What tokenizer makes of a message.                                      *)
(***************************************************************************)

Pieces(m) == <<FirstLine>> \o m.headers \o <<Blank>> \o m.body

Piece == Lines \union {FirstLine, Blank}

\* Where the header and the body of a message are among its lines.
LEMMA PiecesAre ==
  ASSUME NEW m, IsMessage(m)
  PROVE  /\ Pieces(m) \in Seq(Piece) /\ Pieces(m) # <<>>
         /\ Len(Pieces(m)) = Len(m.headers) + 2 + Len(m.body)
         /\ Len(m.headers) \in Nat /\ Len(m.body) \in Nat \ {0}
         /\ Pieces(m)[1] = FirstLine
         /\ \A k \in 1..Len(m.headers) : Pieces(m)[k + 1] = m.headers[k]
         /\ Pieces(m)[Len(m.headers) + 2] = Blank
         /\ \A k \in 1..Len(m.body) : Pieces(m)[Len(m.headers) + 2 + k] = m.body[k]
  <1> DEFINE headers == m.headers
             body    == m.body
             a       == <<FirstLine>> \o headers
             b       == a \o <<Blank>>
  <1>1. headers \in Seq(Piece) /\ body \in Seq(Piece) /\ body # <<>>
    <2>1. m.headers \in Seq(Lines) /\ m.body \in Seq(Lines \union {Blank}) /\ m.body # <<>>
      BY DEF IsMessage
    <2> HIDE DEF Lines
    <2> QED
      BY <2>1 DEF Piece
  <1>2. FirstLine \in Piece /\ Blank \in Piece
    BY DEF Piece
  <1>3. Pieces(m) = b \o body
    BY DEF Pieces
  <1> HIDE DEF headers, body, Piece
  <1>4. /\ a \in Seq(Piece) /\ Len(a) = Len(headers) + 1 /\ a[1] = FirstLine
        /\ \A k \in 1..Len(headers) : a[k + 1] = headers[k]
    BY <1>1, <1>2
  <1> HIDE DEF a
  <1>5. /\ b \in Seq(Piece) /\ Len(b) = Len(headers) + 2
        /\ b[Len(headers) + 2] = Blank
        /\ \A k \in 1..(Len(headers) + 1) : b[k] = a[k]
    BY <1>1, <1>2, <1>4
  <1> HIDE DEF b
  <1>6. /\ b \o body \in Seq(Piece) /\ Len(b \o body) = Len(headers) + 2 + Len(body)
        /\ \A k \in 1..Len(body) : (b \o body)[Len(headers) + 2 + k] = body[k]
        /\ \A k \in 1..(Len(headers) + 2) : (b \o body)[k] = b[k]
    <2>1. /\ b \o body \in Seq(Piece) /\ Len(b \o body) = Len(b) + Len(body)
          /\ \A k \in 1..Len(b) : (b \o body)[k] = b[k]
          /\ \A k \in 1..Len(body) : (b \o body)[Len(b) + k] = body[k]
      <3>1. b \in Seq(Piece) /\ body \in Seq(Piece)
        BY <1>1, <1>5
      <3> QED
        BY <3>1
    <2> QED
      BY <1>5, <2>1
  <1>7. Len(headers) \in Nat /\ Len(body) \in Nat \ {0}
    BY <1>1
  <1> DEFINE pieces == b \o body
  <1> HIDE DEF pieces
  <1>8. pieces[1] = FirstLine /\ pieces[Len(headers) + 2] = Blank
    BY <1>4, <1>5, <1>6, <1>7 DEF pieces
  <1>9. ASSUME NEW k \in 1..Len(headers) PROVE pieces[k + 1] = headers[k]
    <2>1. k + 1 \in 1..(Len(headers) + 1) /\ k + 1 \in 1..(Len(headers) + 2)
      BY <1>7
    <2> QED
      BY <1>4, <1>5, <1>6, <2>1 DEF pieces
  <1>10. pieces # <<>>
    BY <1>6, <1>7 DEF pieces
  <1> QED
    BY <1>3, <1>6, <1>7, <1>8, <1>9, <1>10 DEF pieces, headers, body

\* The lines that should be tokens: the first, the header's, and those of the body that
\* are ended and not empty.
LEMMA WantedLines ==
  ASSUME AnalyzeMethodAssumption, IsMessage(msg)
  PROVE  LET h == Len(msg.headers)
             W == Wanted(Pieces(msg), TRUE)
         IN /\ 1 \in W
            /\ \A k \in DOMAIN msg.headers : k + 1 \in W
            /\ \A k \in BodyLines : h + 2 + k \in W
            /\ \A j \in W : \/ j = 1
                            \/ \E k \in DOMAIN msg.headers : j = k + 1
                            \/ \E k \in BodyLines : j = h + 2 + k
            /\ IsFiniteSet(BodyLines)
            /\ Cardinality(W) = 1 + h + Cardinality(BodyLines)
  <1> DEFINE h == Len(msg.headers)
             b == Len(msg.body)
             W == Wanted(Pieces(msg), TRUE)
             B == BodyLines
  <1>1. /\ h \in Nat /\ b \in Nat \ {0}
        /\ DOMAIN Pieces(msg) = 1..(h + 2 + b) /\ Len(Pieces(msg)) = h + 2 + b
        /\ Pieces(msg)[1] = FirstLine
        /\ Pieces(msg)[h + 2] = Blank
        /\ \A k \in 1..h : Pieces(msg)[k + 1] = msg.headers[k]
        /\ \A k \in 1..b : Pieces(msg)[h + 2 + k] = msg.body[k]
    <2>1. Pieces(msg) \in Seq(Piece) /\ Len(Pieces(msg)) = h + 2 + b
      BY PiecesAre
    <2>2. DOMAIN Pieces(msg) = 1..(h + 2 + b)
      BY <2>1
    <2> QED
      BY <2>1, <2>2, PiecesAre
  <1>2. DOMAIN msg.headers = 1..h /\ \A k \in 1..h : msg.headers[k] # Blank
    <2>1. msg.headers \in Seq(Lines) /\ Blank \notin Lines
      BY DEF IsMessage, AnalyzeMethodAssumption
    <2> HIDE DEF Lines
    <2> QED
      BY <2>1
  <1>3. B = {k \in 1..(b - 1) : msg.body[k] # Blank}
    BY DEF BodyLines
  <1>4. FirstLine # Blank
    BY DEF AnalyzeMethodAssumption
  <1>5. /\ \A j \in W : /\ j \in 1..(h + 2 + b)
                        /\ j # h + 2 + b
                        /\ Pieces(msg)[j] # Blank \/ j = 1
        /\ \A j \in 1..(h + 2 + b) : j # h + 2 + b /\ Pieces(msg)[j] # Blank => j \in W
    <2> DEFINE p == Pieces(msg)
               n == h + 2 + b
    <2>1. DOMAIN p = 1..n /\ Len(p) = n
      BY <1>1
    <2> HIDE DEF p, n
    <2> QED
      BY <2>1 DEF Wanted, p, n
  <1> HIDE DEF h, b, W, B
  <1>6. 1 \in W
    BY <1>1, <1>4, <1>5
  <1>7. ASSUME NEW k \in 1..h PROVE k + 1 \in W
    <2>1. k + 1 \in 1..(h + 2 + b) /\ k + 1 # h + 2 + b
      BY <1>1
    <2>2. Pieces(msg)[k + 1] # Blank
      BY <1>1, <1>2
    <2> QED
      BY <1>5, <2>1, <2>2
  <1>8. ASSUME NEW k \in B PROVE h + 2 + k \in W
    <2>1. k \in 1..(b - 1) /\ k \in 1..b /\ msg.body[k] # Blank
      BY <1>1, <1>3
    <2> QED
      BY <1>1, <1>5, <2>1
  <1>9. ASSUME NEW j \in W
        PROVE  j = 1 \/ (\E k \in 1..h : j = k + 1) \/ (\E k \in B : j = h + 2 + k)
    <2>1. j \in 1..(h + 2 + b) /\ j # h + 2 + b /\ (Pieces(msg)[j] # Blank \/ j = 1)
      BY <1>5
    <2>2. CASE j \in 2..(h + 1)
      <3>1. j - 1 \in 1..h /\ j = (j - 1) + 1
        BY <1>1, <2>2
      <3> QED
        BY <3>1
    <2>3. CASE j > h + 2
      <3>1. j - h - 2 \in 1..(b - 1) /\ j - h - 2 \in 1..b /\ j = h + 2 + (j - h - 2)
        <4>1. h \in Nat /\ b \in Nat /\ j \in 1..(h + 2 + b) /\ j # h + 2 + b
          BY <1>1, <2>1
        <4>2. h \in Nat /\ b \in Nat /\ j \in Int /\ j > h + 2 /\ j < h + 2 + b
          BY <4>1, <2>3
        <4> QED
          BY <4>2
      <3>2. msg.body[j - h - 2] # Blank
        BY <1>1, <2>1, <2>3, <3>1
      <3> QED
        BY <1>3, <3>1, <3>2
    <2>4. j # h + 2
      BY <1>1, <2>1
    <2> QED
      BY <1>1, <2>1, <2>2, <2>3, <2>4
  <1>10. IsFiniteSet(B) /\ Cardinality(B) \in Nat
    <2>1. IsFiniteSet(1..(b - 1))
      BY <1>1, FS_Interval
    <2> QED
      BY <1>3, <2>1, FS_Subset, FS_CardinalityType
  <1>11. Cardinality(W) = 1 + h + Cardinality(B)
    <2> DEFINE f == [k \in B |-> h + 2 + k]
               T == {h + 2 + k : k \in B}
               H == 1..(h + 1)
    <2>1. \A k \in B : k \in Nat /\ k >= 1
      BY <1>1, <1>3
    <2>2. f \in Bijection(B, T)
      <3>1. \A j, k \in B : h + 2 + j = h + 2 + k => j = k
        BY <1>1, <2>1
      <3> QED
        BY <3>1 DEF Bijection, Injection, Surjection, IsInjective
    <2>3. IsFiniteSet(T) /\ Cardinality(T) = Cardinality(B)
      BY <1>10, <2>2, FS_Bijection DEF ExistsBijection
    <2>4. IsFiniteSet(H) /\ Cardinality(H) = h + 1
      BY <1>1, FS_Interval
    <2>5. H \intersect T = {}
      BY <1>1, <2>1
    <2>6. W = H \union T
      <3>1. \A j \in W : j \in H \/ j \in T
        BY <1>1, <1>9
      <3>2. \A j \in H : j = 1 \/ \E k \in 1..h : j = k + 1
        <4>1. \A j \in H : j # 1 => j - 1 \in 1..h /\ j = (j - 1) + 1
          BY <1>1
        <4> QED
          BY <4>1
      <3> QED
        BY <1>6, <1>7, <1>8, <3>1, <3>2
    <2> HIDE DEF H, T
    <2> QED
      <3>1. Cardinality(H \union T) = Cardinality(H) + Cardinality(T) - Cardinality(H \intersect T)
        BY <2>3, <2>4, FS_Union
      <3>2. Cardinality(H \intersect T) = 0
        BY <2>5, FS_EmptySet
      <3> QED
        BY <1>1, <1>10, <2>3, <2>4, <2>6, <3>1, <3>2
  <1> QED
    BY <1>2, <1>6, <1>7, <1>8, <1>9, <1>10, <1>11 DEF h, b, W, B

\* The lines that are looked at are the header's and those of the body that are ended,
\* and if there are not too many, they are all of those.
LEMMA HeaderLinesAre ==
  ASSUME TokenizerAssumption, AnalyzeMethodAssumption, IsMessage(msg)
  PROVE  /\ HeaderLines(msg) \in Seq(Lines)
         /\ Len(HeaderLines(msg)) > MAX_HEADER_HEADERS <=>
              Len(msg.headers) + Cardinality(BodyLines) > MAX_HEADER_HEADERS
         /\ \A k \in DOMAIN HeaderLines(msg) : HasLine(HeaderLines(msg)[k])
         /\ Len(HeaderLines(msg)) =< MAX_HEADER_HEADERS =>
              \A line : HasLine(line) => \E k \in DOMAIN HeaderLines(msg) :
                                           HeaderLines(msg)[k] = line
  <1> DEFINE h      == Len(msg.headers)
             W      == Wanted(Pieces(msg), TRUE)
             B      == BodyLines
             tokens == Tokenize(Pieces(msg), TRUE)
             lines  == HeaderLines(msg)
             max    == MAX_HEADER_HEADERS
             R(k)   == Rank(W, k)
  <1>1. Pieces(msg) \in Seq(Piece) /\ Pieces(msg) # <<>>
    BY PiecesAre
  <1>2. /\ tokens \in Seq(Piece)
        /\ W \in SUBSET (1..Len(Pieces(msg))) /\ IsFiniteSet(W) /\ Cardinality(W) \in Nat
        /\ Len(tokens) = IF Cardinality(W) > max + 2 THEN max + 2 ELSE Cardinality(W)
        /\ \A m \in 1..Len(tokens) : \E k \in W : R(k) = m /\ tokens[m] = Pieces(msg)[k]
        /\ Cardinality(W) =< max + 2 =>
             \A k \in W : R(k) \in 1..Len(tokens) /\ tokens[R(k)] = Pieces(msg)[k]
        /\ \A j, k \in W : j < k => R(j) < R(k)
    BY ZenonT(30), <1>1, Tokens
  <1>3. /\ 1 \in W
        /\ \A k \in DOMAIN msg.headers : k + 1 \in W
        /\ \A k \in B : h + 2 + k \in W
        /\ \A j \in W : \/ j = 1
                        \/ \E k \in DOMAIN msg.headers : j = k + 1
                        \/ \E k \in B : j = h + 2 + k
        /\ IsFiniteSet(B)
        /\ Cardinality(W) = 1 + h + Cardinality(B)
    BY WantedLines
  <1>4. lines = Tail(tokens)
    BY DEF HeaderLines, Pieces
  <1>5. /\ h \in Nat /\ Cardinality(B) \in Nat /\ max \in Nat
        /\ \A k \in DOMAIN msg.headers : k \in 1..h /\ Pieces(msg)[k + 1] = msg.headers[k]
        /\ \A k \in B : k \in 1..Len(msg.body) /\ Pieces(msg)[h + 2 + k] = msg.body[k]
    <2>1. msg.headers \in Seq(Lines)
      BY DEF IsMessage
    <2>2. DOMAIN msg.headers = 1..h
      BY <2>1
    <2>3. \A k \in B : k \in 1..Len(msg.body)
      BY PiecesAre DEF BodyLines
    <2> QED
      BY <1>3, <2>2, <2>3, PiecesAre, FS_CardinalityType DEF TokenizerAssumption
  <1>6. \A k \in DOMAIN msg.headers : HasLine(msg.headers[k])
    BY DEF HasLine
  <1>7. \A k \in B : HasLine(msg.body[k])
    BY DEF HasLine
  <1>8. \A line : HasLine(line) => \/ \E k \in DOMAIN msg.headers : msg.headers[k] = line
                                  \/ \E k \in B : msg.body[k] = line
    BY DEF HasLine
  <1>9. \A line : HasLine(line) => line \in Lines
    <2>1. msg.headers \in Seq(Lines) /\ msg.body \in Seq(Lines \union {Blank})
      BY DEF IsMessage
    <2>2. \A k \in B : k \in DOMAIN msg.body /\ msg.body[k] # Blank
      BY <1>5, <2>1 DEF BodyLines
    <2> HIDE DEF Lines
    <2> QED
      BY <1>8, <2>1, <2>2
  <1> HIDE DEF h, W, B, tokens, lines, max, HasLine, Piece, Lines
  <1>10. \A k \in W : k \in Nat /\ k >= 1
    <2>1. Len(Pieces(msg)) \in Nat
      BY PiecesAre
    <2> QED
      BY <1>2, <2>1
  <1>11. Len(tokens) >= 1
    BY <1>2, <1>3, <1>5
  <1>12. /\ Len(lines) = Len(tokens) - 1 /\ DOMAIN lines = 1..(Len(tokens) - 1)
         /\ lines \in Seq(Piece)
         /\ \A k \in 1..(Len(tokens) - 1) : lines[k] = tokens[k + 1]
    BY <1>2, <1>4, <1>11
  <1>13. R(1) = 1
    <2>1. \A k \in W : R(k) \in Nat /\ R(k) >= 1
      <3>1. Len(Pieces(msg)) \in Nat
        BY PiecesAre
      <3> QED
        BY <1>2, <3>1, Ranks
    <2>2. PICK k \in W : R(k) = 1
      BY <1>2, <1>11
    <2> QED
      BY <1>2, <1>3, <1>10, <2>1, <2>2
  <1>14. ASSUME NEW m \in DOMAIN lines PROVE HasLine(lines[m])
    <2>1. m + 1 \in 1..Len(tokens) /\ lines[m] = tokens[m + 1] /\ m + 1 # 1
      BY SMTT(20), <1>12, <1>11, <1>2
    <2>2. PICK k \in W : R(k) = m + 1 /\ tokens[m + 1] = Pieces(msg)[k]
      BY <1>2, <2>1
    <2>3. k # 1
      BY <1>13, <2>1, <2>2
    <2> QED
      BY <1>3, <1>5, <1>6, <1>7, <2>1, <2>2, <2>3
  <1>15. Len(lines) > max <=> h + Cardinality(B) > max
    BY <1>2, <1>3, <1>5, <1>12
  <1>16. ASSUME Len(lines) =< max, NEW line, HasLine(line)
         PROVE  \E k \in DOMAIN lines : lines[k] = line
    <2>1. Cardinality(W) =< max + 2
      BY <1>2, <1>5, <1>12, <1>16
    <2>2. ASSUME NEW k \in W, k # 1, Pieces(msg)[k] = line
          PROVE  \E j \in DOMAIN lines : lines[j] = line
      <3>1. R(k) \in 1..Len(tokens) /\ tokens[R(k)] = line /\ R(k) > 1
        BY <1>2, <1>3, <1>10, <1>13, <2>1, <2>2
      <3>2. R(k) - 1 \in 1..(Len(tokens) - 1) /\ (R(k) - 1) + 1 = R(k)
        BY SMTT(20), <3>1, <1>2
      <3> QED
        BY <1>12, <3>1, <3>2
    <2>3. CASE \E k \in DOMAIN msg.headers : msg.headers[k] = line
      <3>1. PICK k \in DOMAIN msg.headers : msg.headers[k] = line
        BY <2>3
      <3>2. k + 1 \in W /\ k + 1 # 1 /\ Pieces(msg)[k + 1] = line
        BY <1>3, <1>5, <3>1
      <3> QED
        BY <2>2, <3>2
    <2>4. CASE \E k \in B : msg.body[k] = line
      <3>1. PICK k \in B : msg.body[k] = line
        BY <2>4
      <3>2. h + 2 + k \in W /\ h + 2 + k # 1 /\ Pieces(msg)[h + 2 + k] = line
        BY <1>3, <1>5, <3>1
      <3> QED
        BY <2>2, <3>2
    <2> QED
      BY <1>8, <1>16, <2>3, <2>4
  <1>17. lines \in Seq(Lines)
    <2>1. \A k \in 1..Len(lines) : lines[k] \in Lines
      BY <1>9, <1>12, <1>14
    <2> QED
      BY <1>12, <2>1
  <1> QED
    BY <1>14, <1>15, <1>16, <1>17 DEF h, B, lines, max

\* The parameters that are looked at: which they are, and that there are too many of
\* them just if there are in the message.
LEMMA UrlParamsAre ==
  ASSUME TokenizerAssumption, AnalyzeMethodAssumption, IsMessage(msg)
  PROVE  LET W      == Wanted(msg.params, FALSE)
             tokens == UrlParams(msg)
             most   == MAX_HEADER_URL_PARAMETERS
         IN /\ msg.params = <<>> => W = {} /\ Cardinality(W) = 0
            /\ msg.params # <<>> =>
                 /\ tokens \in Seq(Param \union {BadParam, Blank})
                 /\ IsFiniteSet(W) /\ Cardinality(W) \in Nat
                 /\ Len(tokens) - 1 > most <=> Cardinality(W) > most + 1
                 /\ \A m \in 1..Len(tokens) :
                      \E k \in W : Rank(W, k) = m /\ tokens[m] = msg.params[k]
                 /\ \A j, k \in W : j < k => Rank(W, j) < Rank(W, k)
                 /\ W \in SUBSET (1..Len(msg.params))
                 /\ Len(tokens) - 1 =< most =>
                      /\ Len(tokens) = Cardinality(W)
                      /\ \A k \in W : /\ Rank(W, k) \in 1..Len(tokens)
                                      /\ tokens[Rank(W, k)] = msg.params[k]
  <1> DEFINE S      == Param \union {BadParam, Blank}
             W      == Wanted(msg.params, FALSE)
             tokens == Tokenize(msg.params, FALSE)
             max    == MAX_HEADER_HEADERS
             most   == MAX_HEADER_URL_PARAMETERS
  <1>1. msg.params \in Seq(S)
    BY DEF IsMessage
  <1>2. max \in Nat /\ most \in 1..max
    BY DEF TokenizerAssumption, AnalyzeMethodAssumption
  <1>3. CASE msg.params = <<>>
    <2>1. W = {}
      BY <1>3 DEF Wanted
    <2> QED
      BY <1>3, <2>1, FS_EmptySet
  <1>4. CASE msg.params # <<>>
    <2> HIDE DEF S
    <2>1. /\ tokens \in Seq(S)
          /\ W \in SUBSET (1..Len(msg.params))
          /\ IsFiniteSet(W) /\ Cardinality(W) \in Nat
          /\ Len(tokens) = IF Cardinality(W) > max + 2 THEN max + 2 ELSE Cardinality(W)
          /\ \A m \in 1..Len(tokens) :
               \E k \in W : Rank(W, k) = m /\ tokens[m] = msg.params[k]
          /\ Cardinality(W) =< max + 2 =>
               \A k \in W : /\ Rank(W, k) \in 1..Len(tokens)
                           /\ tokens[Rank(W, k)] = msg.params[k]
          /\ \A j, k \in W : j < k => Rank(W, j) < Rank(W, k)
      BY <1>1, <1>4, Tokens
    <2> HIDE DEF W, tokens, max, most
    <2>2. Len(tokens) - 1 > most <=> Cardinality(W) > most + 1
      BY <1>2, <2>1
    <2>3. Len(tokens) - 1 =< most => Len(tokens) = Cardinality(W) /\ Cardinality(W) =< max + 2
      BY <1>2, <2>1
    <2> QED
      BY <1>4, <2>1, <2>2, <2>3 DEF W, tokens, max, most, S, UrlParams
  <1> QED
    BY <1>3, <1>4

LEMMA NoMessageIs ==
  IsMessage(NoMessage)
  <1>1. <<Blank>> \in Seq(Lines \union {Blank}) \ {<<>>}
    OBVIOUS
  <1>2. <<>> \in Seq(Lines) /\ <<>> \in Seq(Param \union {BadParam, Blank})
    OBVIOUS
  <1> HIDE DEF Lines, Param
  <1> QED
    BY <1>1, <1>2 DEF IsMessage, NoMessage, Bases

\* The code and the tokens of every request, whatever else is the case.
LEMMA MessageStep ==
  ASSUME AnalyzeMethodAssumption, IsMessage(msg), [Next]_vars
  PROVE  IsMessage(msg')
  <1>1. msg' = msg \/ msg' \in Messages
    BY DEF Next, Receive, InitHeader, FailStart, PassStart, RootBase, DeepBase, PathBase,
           BadHeader, ContentLength, OtherHeader, EndHeaders, Endpoint, NoQuery,
           TooManyParams, Query, FailParam, EndParams, StoreParam, SingleParam,
           NoSignature, Call
  <1> QED
    BY <1>1 DEF AnalyzeMethodAssumption

LEMMA MessageAlways ==
  ASSUME AnalyzeMethodAssumption
  PROVE  Spec => []IsMessage(msg)
  <1>1. Init => IsMessage(msg)
    BY NoMessageIs DEF Init
  <1>2. IsMessage(msg) /\ [Next]_vars => IsMessage(msg)'
    BY MessageStep
  <1> QED
    BY <1>1, <1>2, PTL DEF Spec

\* The lines and the parameters of every message that is received are cut as they should
\* be, for every set of messages: neither what begins a path nor what ends a message is
\* lost or doubled (http_header.c:76, 409).
THEOREM MessagesSplit ==
  ASSUME TokenizerAssumption, AnalyzeMethodAssumption
  PROVE  Spec => []TokensRight
  <1>1. IsMessage(msg) => TokensRight
    <2> SUFFICES ASSUME IsMessage(msg) PROVE TokensRight
      OBVIOUS
    <2>1. SplitsRight(Pieces(msg), TRUE)
      BY PiecesAre, TokenizerSplits
    <2>2. msg.params # <<>> => SplitsRight(msg.params, FALSE)
      <3>1. msg.params \in Seq(Param \union {BadParam, Blank})
        BY DEF IsMessage
      <3> QED
        BY <3>1, TokenizerSplits
    <2> QED
      BY <2>1, <2>2 DEF TokensRight, Pieces
  <1>2. Spec => []IsMessage(msg)
    BY MessageAlways
  <1> QED
    BY <1>1, <1>2, PTL

-----------------------------------------------------------------------------
(***************************************************************************)
(* Types, and how many arguments are announced.                            *)
(***************************************************************************)

\* Each step keeps the types; that the loop stores no more tags than there are
\* parameters rests on where it is (BareInv).
LEMMA TypeStep ==
  ASSUME TokenizerAssumption, AnalyzeMethodAssumption, TypeOK, BareInv, [Next]_vars
  PROVE  TypeOK'
  <1> DEFINE Rest ==
               /\ pc \in PCs
               /\ i \in Nat
               /\ rc \in -119..0
               /\ url_base \in BOOLEAN
               /\ url_body \in BOOLEAN
               /\ content_length \in -1..1
               /\ epnt \in Endpoints \union {NoEndpoint}
               /\ url_params_tokens \in 0..(MAX_HEADER_HEADERS + 1)
               /\ url_params_ordered \in Seq(Tags \union {NoTag})
               /\ url_params_values \in [Tags \union {NoTag} -> Values \union {Garbled, NoValue}]
               /\ call.params \subseteq Tags \X (Values \union {Garbled})
               /\ call.nargs \in 0..(MAX_HEADER_HEADERS + 2)
               /\ Len(url_params_ordered) =< url_params_tokens
  <1>1. IsMessage(msg) /\ Rest
    BY DEF TypeOK
  <1>2. IsMessage(msg')
    BY <1>1, MessageStep
  <1>3. IsMessage(msg') /\ Rest' => TypeOK'
    BY DEF TypeOK
  <1>4. IsMessage(msg)' <=> IsMessage(msg')
    OBVIOUS
  <1>5. MAX_HEADER_HEADERS \in Nat /\ MAX_HEADER_URL_PARAMETERS \in 1..MAX_HEADER_HEADERS
    BY DEF TokenizerAssumption, AnalyzeMethodAssumption
  <1>6. CASE Receive \/ UNCHANGED vars
    BY ZenonT(30), <1>1, <1>2, <1>3, <1>6 DEF Receive, PCs
  <1>7. CASE FailStart
    <2>1. /\ rc' = rc \/ \E n \in DOMAIN StartChecks : rc' = StartChecks[n][2]
          /\ pc' \in {"signature", "crashed"}
          /\ url_body' \in BOOLEAN
          /\ UNCHANGED <<msg, i, url_base, content_length, epnt, url_params_tokens,
                         url_params_ordered, url_params_values, call>>
      BY <1>7, <1>1 DEF FailStart, Return, Failing, IsMessage
    <2>2. \A n \in DOMAIN StartChecks : StartChecks[n][2] \in -119..0
      BY DEF StartChecks
    <2>3. rc' \in -119..0
      BY ZenonT(30), <1>1, <2>1, <2>2
    <2>4. pc' \in PCs
      BY <2>1 DEF PCs
    <2> QED
      BY <1>1, <1>2, <1>3, <2>1, <2>3, <2>4
  <1>8. CASE PassStart
    <2>1. msg.carries \in BOOLEAN
      BY <1>1 DEF IsMessage
    <2> QED
      BY <1>1, <1>2, <1>3, <1>8, <2>1 DEF PassStart, PCs
  <1>9. CASE RootBase \/ EndHeaders
    BY ZenonT(30), <1>1, <1>2, <1>3, <1>9 DEF RootBase, EndHeaders, PCs
  <1>10. CASE OtherHeader
    BY <1>1, <1>2, <1>3, <1>10 DEF OtherHeader
  <1>11. CASE PathBase
    BY <1>1, <1>2, <1>3, <1>11 DEF PathBase, PCs
  <1>12. CASE ContentLength
    BY <1>1, <1>2, <1>3, <1>12 DEF ContentLength
  <1>13. CASE DeepBase \/ BadHeader
    <2>1. rc' \in -119..0 /\ pc' \in PCs
      <3>1. rc' \in {rc, -113, -117, -118, -119} /\ pc' \in {"signature", "crashed"}
        BY <1>13 DEF DeepBase, BadHeader, Return
      <3> QED
        BY <1>1, <3>1 DEF PCs
    <2>2. UNCHANGED <<msg, i, hh, call>>
      BY <1>13 DEF DeepBase, BadHeader
    <2> QED
      BY <1>1, <1>2, <1>3, <2>1, <2>2
  <1>14. CASE \E e \in Endpoints : Endpoint(e)
    BY <1>1, <1>2, <1>3, <1>14 DEF Endpoint
  <1>15. CASE NoQuery \/ TooManyParams \/ FailParam \/ EndParams
    BY <1>1, <1>2, <1>3, <1>15 DEF NoQuery, TooManyParams, FailParam, EndParams, Return, PCs
  <1>16. CASE Query
    <2>1. UrlParams(msg) \in Seq(Param \union {BadParam, Blank})
      BY <1>1, <1>16, UrlParamsAre DEF Query
    <2>2. Len(UrlParams(msg)) \in 0..(MAX_HEADER_HEADERS + 1)
      <3>1. Len(UrlParams(msg)) \in Nat
        BY <2>1
      <3>2. Len(UrlParams(msg)) - 1 =< MAX_HEADER_URL_PARAMETERS
        BY <1>16 DEF Query
      <3> QED
        BY <1>5, <3>1, <3>2
    <2>3. /\ url_params_ordered = <<>> /\ url_params_ordered' = <<>>
          /\ url_params_tokens' = Len(UrlParams(msg)) /\ i' = 1 /\ pc' = "params"
          /\ UNCHANGED <<msg, rc, url_base, url_body, content_length, epnt,
                         url_params_values, call>>
      BY <1>16 DEF Query, BareInv, NoneYet
    <2> QED
      BY <1>1, <1>2, <1>3, <2>2, <2>3 DEF PCs
  <1>17. ASSUME NEW p \in Param, StoreParam(p) PROVE TypeOK'
    <2>1. p.tag \in Tags \union {NoTag} /\ p.value \in Values
      BY DEF Param
    <2>2. /\ url_params_ordered' = Append(url_params_ordered, p.tag)
          /\ i' = i + 1 /\ pc = "params" /\ i =< url_params_tokens
          /\ UNCHANGED <<msg, pc, rc, url_base, url_body, content_length, epnt,
                         url_params_tokens, call>>
      BY <1>17 DEF StoreParam, AtParam
    <2>3. url_params_ordered' \in Seq(Tags \union {NoTag})
      BY <1>1, <2>1, <2>2
    <2>4. Len(url_params_ordered') =< url_params_tokens'
      <3>1. Len(url_params_ordered) = i - 1
        BY <2>2 DEF BareInv, StoredSoFar
      <3>2. Len(url_params_ordered') = i
        BY <1>1, <2>2, <3>1
      <3> QED
        BY <2>2, <3>2
    <2>5. url_params_values' \in [Tags \union {NoTag} -> Values \union {Garbled, NoValue}]
      <3>1. PICK v \in {p.value} \union (IF p.value \in Unended THEN {Garbled} ELSE {}) :
                   url_params_values' = [url_params_values EXCEPT ![p.tag] = v]
        BY <1>17 DEF StoreParam
      <3>2. v \in Values \union {Garbled, NoValue}
        BY <2>1, <3>1
      <3> QED
        BY <1>1, <2>1, <3>1, <3>2
    <2> QED
      BY <1>1, <1>2, <1>3, <2>2, <2>3, <2>4, <2>5
  <1>18. ASSUME NEW p \in Param, SingleParam(p) PROVE TypeOK'
    BY <1>1, <1>2, <1>3, <1>18 DEF SingleParam, PCs
  <1>19. CASE NoSignature
    BY <1>1, <1>2, <1>3, <1>19 DEF NoSignature, PCs
  <1>20. CASE Call
    <2> DEFINE tags == {url_params_ordered[k] : k \in DOMAIN url_params_ordered}
               params == {<<t, url_params_values[t]>> : t \in tags}
               body == url_body /\ content_length # -1
               nargs == url_params_tokens + (IF body THEN 1 ELSE 0)
    <2>1. call' = [script |-> epnt, params |-> params, body |-> body, nargs |-> nargs]
      BY <1>20 DEF Call
    <2>2. tags \subseteq Tags
      <3>1. \A k \in DOMAIN url_params_ordered :
               url_params_ordered[k] \in Tags \union {NoTag} /\ url_params_ordered[k] # NoTag
        BY <1>1, <1>20 DEF Call, HasSignature
      <3> QED
        BY <3>1
    <2>3. \A t \in tags : url_params_values[t] \in Values \union {Garbled}
      <3>1. \A t \in tags : url_params_values[t] \in Values \union {Garbled, NoValue}
        BY <1>1, <2>2
      <3>2. \A t \in tags : url_params_values[t] # NoValue
        BY <1>20 DEF Call, HasSignature
      <3> QED
        BY <3>1, <3>2
    <2> HIDE DEF tags
    <2>4. params \subseteq Tags \X (Values \union {Garbled})
      BY <2>2, <2>3
    <2> HIDE DEF params, body
    <2>5. nargs \in 0..(MAX_HEADER_HEADERS + 2)
      BY <1>1, <1>5
    <2> HIDE DEF nargs
    <2>6. call'.params = params /\ call'.nargs = nargs
      BY <2>1
    <2>7. UNCHANGED <<msg, i, rc, hh>> /\ pc' = "called"
      BY <1>20 DEF Call
    <2> QED
      BY <1>1, <1>2, <1>3, <2>4, <2>5, <2>6, <2>7 DEF PCs
  <1> QED
    BY <1>6, <1>7, <1>8, <1>9, <1>13, <1>14, <1>15, <1>16, <1>17, <1>18, <1>19, <1>20,
       <1>11, <1>12, <1>10 DEF Next, InitHeader

\* All the variables keep their types, and no request stores more tags than it has
\* parameters.
THEOREM TypesHold ==
  ASSUME TokenizerAssumption, AnalyzeMethodAssumption
  PROVE  Spec => []TypeOK
  <1>1. Init => TypeOK
    <2> SUFFICES ASSUME Init PROVE TypeOK
      OBVIOUS
    <2>1. IsMessage(msg)
      BY NoMessageIs DEF Init
    <2>2. MAX_HEADER_HEADERS \in Nat
      BY DEF TokenizerAssumption
    <2>3. url_params_values \in [Tags \union {NoTag} -> Values \union {Garbled, NoValue}]
      BY DEF Init, EmptyTable
    <2>4. url_params_ordered \in Seq(Tags \union {NoTag}) /\ Len(url_params_ordered) = 0
      BY DEF Init
    <2>5. call.params = {} /\ call.nargs = 0
      BY DEF Init, NoCall
    <2>6. /\ pc \in PCs /\ i \in Nat /\ rc \in -119..0 /\ content_length \in -1..1
          /\ url_params_tokens = 0 /\ url_params_tokens \in 0..(MAX_HEADER_HEADERS + 1)
          /\ url_base \in BOOLEAN /\ url_body \in BOOLEAN
          /\ epnt \in Endpoints \union {NoEndpoint}
      <3>1. 0 \in 0..(MAX_HEADER_HEADERS + 1) /\ 0 \in -119..0 /\ 0 \in -1..1
        BY <2>2
      <3> QED
        BY <3>1 DEF Init, PCs
    <2>7. call.nargs \in 0..(MAX_HEADER_HEADERS + 2)
      BY <2>2, <2>5
    <2> QED
      BY <2>1, <2>3, <2>4, <2>5, <2>6, <2>7 DEF TypeOK
  <1>2. TypeOK /\ BareInv /\ [Next]_vars => TypeOK'
    BY TypeStep
  <1> QED
    BY <1>1, <1>2, BareAlways, PTL DEF Spec

\* What is pushed has been announced, for every message: names that come twice are
\* counted twice and pushed once, so there may be fewer arguments than were announced
\* but never more (run_lua.c:39-58).
THEOREM EnoughAnnounced ==
  ASSUME TokenizerAssumption, AnalyzeMethodAssumption
  PROVE  Spec => []AnnouncesEnough
  <1>1. Init => AnnouncesEnough
    BY DEF Init, AnnouncesEnough
  <1>2. TypeOK /\ AnnouncesEnough /\ [Next]_vars => AnnouncesEnough'
    <2> SUFFICES ASSUME TypeOK, AnnouncesEnough, [Next]_vars PROVE AnnouncesEnough'
      OBVIOUS
    <2>1. CASE Call
      <3> DEFINE n == Len(url_params_ordered)
                 tags == {url_params_ordered[k] : k \in DOMAIN url_params_ordered}
                 params == {<<t, url_params_values[t]>> : t \in tags}
                 body == url_body /\ content_length # -1
                 f == [k \in 1..n |->
                         <<url_params_ordered[k], url_params_values[url_params_ordered[k]]>>]
      <3>1. n \in Nat /\ DOMAIN url_params_ordered = 1..n /\ n = url_params_tokens
        BY <2>1 DEF TypeOK, Call, HasSignature
      <3>2. call' = [script |-> epnt, params |-> params, body |-> body,
                     nargs |-> url_params_tokens + (IF body THEN 1 ELSE 0)]
        BY <2>1 DEF Call
      <3>3. call'.params = params /\ call'.body = body
            /\ call'.nargs = n + (IF body THEN 1 ELSE 0)
        BY <3>1, <3>2
      <3>4. f \in Surjection(1..n, params)
        <4>1. \A k \in 1..n : f[k] \in params
          BY <3>1
        <4>2. \A x \in params : \E k \in 1..n : f[k] = x
          BY <3>1
        <4> HIDE DEF params
        <4> QED
          BY <4>1, <4>2 DEF Surjection
      <3>5. IsFiniteSet(1..n) /\ Cardinality(1..n) = n
        BY <3>1, FS_Interval
      <3>6. IsFiniteSet(params) /\ Cardinality(params) =< Cardinality(1..n)
        BY <3>4, <3>5, FS_Surjection
      <3>7. Cardinality(params) \in Nat
        BY <3>6, FS_CardinalityType
      <3> HIDE DEF params, body, n
      <3>8. Cardinality(params) + (IF body THEN 1 ELSE 0) =< n + (IF body THEN 1 ELSE 0)
        BY <3>1, <3>5, <3>6, <3>7
      <3> QED
        BY <3>3, <3>8 DEF AnnouncesEnough
    <2>2. CASE ~Call
      <3>1. UNCHANGED call /\ (pc' = "called" => pc = "called")
        BY <2>2 DEF Next, Receive, InitHeader, FailStart, PassStart, RootBase, DeepBase,
               PathBase, BadHeader, ContentLength, OtherHeader, EndHeaders, Endpoint,
               NoQuery, TooManyParams, Query, FailParam, EndParams, StoreParam,
               SingleParam, NoSignature, Return
      <3> QED
        BY <3>1 DEF AnnouncesEnough
    <2> QED
      BY <2>1, <2>2
  <1> QED
    BY <1>1, <1>2, TypesHold, PTL DEF Spec

-----------------------------------------------------------------------------
(***************************************************************************)
(* Codes: at each place of init_header, what has been found to be right.   *)
(***************************************************************************)

BadLines == {"malformed", "bad_length", "bad_endpoint"}

CheckedStart == pc \in {"base", "headers", "query", "params"} => Failing(msg) = {}

\* The headers up to the loop's, and all of them after it but for "/".
CheckedHeaders ==
  /\ pc = "headers" =>
       /\ msg.base # "deep"
       /\ i \in Nat \ {0}
       /\ \A k \in DOMAIN HeaderLines(msg) : k < i => HeaderLines(msg)[k] \notin BadLines
  /\ pc \in {"query", "params"} =>
       /\ msg.base # "deep"
       /\ \/ msg.base = "root"
          \/ \A k \in DOMAIN HeaderLines(msg) : HeaderLines(msg)[k] \notin BadLines

CheckedParams ==
  pc = "params" =>
    /\ msg.params # <<>>
    /\ url_params_tokens = Len(UrlParams(msg))
    /\ Len(UrlParams(msg)) - 1 =< MAX_HEADER_URL_PARAMETERS
    /\ \A k \in DOMAIN UrlParams(msg) : k < i => UrlParams(msg)[k] \notin {BadParam, Blank}

CodeInv == CheckedStart /\ CheckedHeaders /\ CheckedParams /\ RightCode

\* A message in which no check fails has none of the faults.
LEMMA NothingBad ==
  ASSUME TokenizerAssumption, AnalyzeMethodAssumption, IsMessage(msg), Failing(msg) = {},
         msg.base # "deep",
         \/ msg.base = "root"
         \/ \A k \in DOMAIN HeaderLines(msg) : HeaderLines(msg)[k] \notin BadLines,
         msg.params # <<>> =>
           /\ Len(UrlParams(msg)) - 1 =< MAX_HEADER_URL_PARAMETERS
           /\ \A k \in DOMAIN UrlParams(msg) : UrlParams(msg)[k] \notin {BadParam, Blank},
         NEW code, Bad(code)
  PROVE  code \in -119..-117 /\ msg.base = "root"
  <1> DEFINE W      == Wanted(msg.params, FALSE)
             tokens == UrlParams(msg)
             most   == MAX_HEADER_URL_PARAMETERS
  <1>1. Len(msg.headers) + Cardinality(BodyLines) \in Nat /\ MAX_HEADER_HEADERS \in Nat
        /\ most \in Nat
    <2>1. Len(msg.headers) \in Nat
      BY PiecesAre
    <2>2. IsFiniteSet(BodyLines)
      BY WantedLines
    <2>3. Cardinality(BodyLines) \in Nat
      BY <2>2, FS_CardinalityType
    <2> QED
      BY <2>1, <2>3 DEF TokenizerAssumption, AnalyzeMethodAssumption
  <1>2. \A n \in DOMAIN StartChecks : StartChecks[n][1] \notin msg.faults
    BY DEF Failing
  <1>3. Len(msg.headers) + Cardinality(BodyLines) =< MAX_HEADER_HEADERS
        /\ Len(HeaderLines(msg)) =< MAX_HEADER_HEADERS
    <2>1. 3 \in DOMAIN StartChecks /\ StartChecks[3][1] = "lines"
      BY DEF StartChecks
    <2>2. ~(Len(HeaderLines(msg)) > MAX_HEADER_HEADERS)
      BY <2>1 DEF Failing
    <2>3. Len(HeaderLines(msg)) \in Nat /\ MAX_HEADER_HEADERS \in Nat
      BY HeaderLinesAre DEF TokenizerAssumption
    <2>4. ~(Len(msg.headers) + Cardinality(BodyLines) > MAX_HEADER_HEADERS)
      BY <2>2, HeaderLinesAre
    <2> QED
      BY <1>1, <2>2, <2>3, <2>4
  <1>4. msg.base = "root" \/ \A line \in BadLines : ~HasLine(line)
    BY <1>3, HeaderLinesAre
  <1>5. /\ msg.params = <<>> => Cardinality(W) = 0
        /\ msg.params # <<>> =>
             /\ tokens \in Seq(Param \union {BadParam, Blank})
             /\ Cardinality(W) \in Nat
             /\ Len(tokens) - 1 =< most
             /\ Len(tokens) = Cardinality(W)
             /\ \A k \in W : /\ Rank(W, k) \in 1..Len(tokens)
                             /\ tokens[Rank(W, k)] = msg.params[k]
    BY UrlParamsAre
  <1>6. Cardinality(W) \in Nat /\ Cardinality(W) =< most + 1
    <2> HIDE DEF W, tokens, most
    <2> QED
      BY <1>1, <1>5
  <1>7. ASSUME NEW k \in DOMAIN msg.params,
               \/ msg.params[k] = BadParam
               \/ k = 1 /\ msg.params[k] = Blank /\ Len(msg.params) > 1
        PROVE  FALSE
    <2>1. msg.params \in Seq(Param \union {BadParam, Blank})
      BY DEF IsMessage
    <2>2. msg.params # <<>>
      BY <1>7
    <2>3. BadParam # Blank
      BY DEF AnalyzeMethodAssumption
    <2>4. k \in W
      BY <1>7, <2>3 DEF Wanted
    <2>5. Rank(W, k) \in 1..Len(tokens) /\ tokens[Rank(W, k)] = msg.params[k]
      BY <1>5, <2>2, <2>4
    <2>6. tokens \in Seq(Param \union {BadParam, Blank})
      BY <1>5, <2>2
    <2>7. Rank(W, k) \in DOMAIN tokens
      <3> HIDE DEF W, tokens
      <3> QED
        BY <2>5, <2>6
    <2> QED
      BY <1>7, <2>2, <2>5, <2>7
  <1>8. CASE \E n \in DOMAIN StartChecks :
               StartChecks[n][2] = code /\ StartChecks[n][1] \in msg.faults
    BY <1>2, <1>8
  <1>9. CASE code = -102 /\ Len(msg.headers) + Cardinality(BodyLines) > MAX_HEADER_HEADERS
    BY <1>1, <1>3, <1>9
  <1>10. CASE \/ code = -117 /\ HasLine("malformed")
              \/ code = -118 /\ HasLine("bad_length")
              \/ code = -119 /\ HasLine("bad_endpoint")
    BY <1>4, <1>10 DEF BadLines
  <1>11. ~(Cardinality(W) > most + 1)
    <2> HIDE DEF W, most
    <2> QED
      BY <1>1, <1>6
  <1> QED
    BY <1>7, <1>8, <1>9, <1>10, <1>11 DEF Bad

\* What is returned when the last parameter has been stored, or there is none.
LEMMA CodeZero ==
  ASSUME TokenizerAssumption, AnalyzeMethodAssumption, IsMessage(msg), BareInv, CodeInv,
         \/ pc = "query" /\ msg.params = <<>>
         \/ pc = "params" /\ i > url_params_tokens
  PROVE  \A code : Bad(code) => code \in -119..-117 /\ msg.base = "root"
  <1>1. /\ Failing(msg) = {} /\ msg.base # "deep"
        /\ \/ msg.base = "root"
           \/ \A k \in DOMAIN HeaderLines(msg) : HeaderLines(msg)[k] \notin BadLines
    BY DEF CodeInv, CheckedStart, CheckedHeaders
  <1>2. ASSUME msg.params # <<>>
        PROVE  /\ Len(UrlParams(msg)) - 1 =< MAX_HEADER_URL_PARAMETERS
               /\ \A k \in DOMAIN UrlParams(msg) : UrlParams(msg)[k] \notin {BadParam, Blank}
    <2>1. /\ pc = "params" /\ i > Len(UrlParams(msg)) /\ i \in Nat
          /\ Len(UrlParams(msg)) - 1 =< MAX_HEADER_URL_PARAMETERS
      BY <1>2 DEF CodeInv, CheckedParams, BareInv, StoredSoFar
    <2>2. UrlParams(msg) \in Seq(Param \union {BadParam, Blank})
      BY <1>2, UrlParamsAre
    <2>3. \A k \in DOMAIN UrlParams(msg) : k < i
      BY <2>1, <2>2
    <2> QED
      BY <2>1, <2>3 DEF CodeInv, CheckedParams
  <1> QED
    BY <1>1, <1>2, NothingBad

\* Faults are those of the message alone.
LEMMA SameFaults ==
  ASSUME UNCHANGED msg
  PROVE  \A code : Bad(code)' <=> Bad(code)
  <1>1. BodyLines' = BodyLines
    BY DEF BodyLines
  <1>2. \A line : HasLine(line)' <=> HasLine(line)
    BY <1>1 DEF HasLine
  <1>3. /\ HasLine("malformed")' <=> HasLine("malformed")
        /\ HasLine("bad_length")' <=> HasLine("bad_length")
        /\ HasLine("bad_endpoint")' <=> HasLine("bad_endpoint")
    BY <1>2
  <1> DEFINE Opening(m, code) ==
               \E n \in DOMAIN StartChecks :
                 StartChecks[n][2] = code /\ StartChecks[n][1] \in m.faults
             Query116(m) ==
               \E k \in DOMAIN m.params :
                 \/ m.params[k] = BadParam
                 \/ k = 1 /\ m.params[k] = Blank /\ Len(m.params) > 1
             Count(m) == Cardinality(Wanted(m.params, FALSE)) > MAX_HEADER_URL_PARAMETERS + 1
             Few(m, b) == Len(m.headers) + Cardinality(b) > MAX_HEADER_HEADERS
  <1>4. \A code : Bad(code) <=>
          \/ Opening(msg, code)
          \/ code = -102 /\ Few(msg, BodyLines)
          \/ code = -113 /\ msg.base = "deep"
          \/ code = -117 /\ HasLine("malformed")
          \/ code = -118 /\ HasLine("bad_length")
          \/ code = -119 /\ HasLine("bad_endpoint")
          \/ code = -115 /\ Count(msg)
          \/ code = -116 /\ Query116(msg)
    BY Zenon DEF Bad
  <1>5. \A code : Bad(code)' <=>
          \/ Opening(msg', code)
          \/ code = -102 /\ Few(msg', BodyLines')
          \/ code = -113 /\ msg'.base = "deep"
          \/ code = -117 /\ HasLine("malformed")'
          \/ code = -118 /\ HasLine("bad_length")'
          \/ code = -119 /\ HasLine("bad_endpoint")'
          \/ code = -115 /\ Count(msg')
          \/ code = -116 /\ Query116(msg')
    BY Zenon DEF Bad
  <1> HIDE DEF Opening, Query116, Count, Few
  <1>6. msg' = msg
    OBVIOUS
  <1> QED
    BY <1>1, <1>3, <1>4, <1>5, <1>6

\* A step that returns a code, of a fault that the message has, or 0 when there is none.
LEMMA CodeReturned ==
  ASSUME UNCHANGED msg, pc' = "signature", rc' # 0 => Bad(rc'),
         rc' = 0 => \A code : Bad(code) => code \in -119..-117 /\ msg.base = "root"
  PROVE  CodeInv'
  <1>1. RightCode'
    BY SameFaults DEF RightCode
  <1> QED
    BY <1>1 DEF CodeInv, CheckedStart, CheckedHeaders, CheckedParams

\* One round of the loop over the headers, with a line that is not wrong.
LEMMA HeaderStep ==
  ASSUME TokenizerAssumption, AnalyzeMethodAssumption, IsMessage(msg), CodeInv,
         NEW line, line \notin BadLines, Header(line), i' = i + 1, UNCHANGED <<msg, pc>>
  PROVE  CodeInv'
  <1>1. pc = "headers" /\ i \in Nat \ {0} /\ HeaderLines(msg)[i] = line
    BY DEF Header, CodeInv, CheckedHeaders
  <1>2. HeaderLines(msg) \in Seq(Lines)
    BY HeaderLinesAre
  <1>3. \A k \in DOMAIN HeaderLines(msg) : k < i + 1 => HeaderLines(msg)[k] \notin BadLines
    <2>1. \A k \in DOMAIN HeaderLines(msg) : k < i + 1 => k < i \/ k = i
      BY <1>1, <1>2
    <2> QED
      BY <1>1, <2>1 DEF CodeInv, CheckedHeaders
  <1>4. i + 1 \in Nat \ {0}
    BY <1>1
  <1> QED
    BY <1>1, <1>3, <1>4 DEF CodeInv, CheckedStart, CheckedHeaders, CheckedParams, RightCode

LEMMA CodeStep ==
  ASSUME TokenizerAssumption, AnalyzeMethodAssumption, IsMessage(msg), BareInv, CodeInv,
         [Next]_vars
  PROVE  CodeInv'
  <1>1. CASE UNCHANGED vars
    <2>1. RightCode'
      BY <1>1, SameFaults DEF CodeInv, RightCode
    <2> QED
      BY <1>1, <2>1 DEF CodeInv, CheckedStart, CheckedHeaders, CheckedParams
  <1>2. CASE Receive
    BY <1>2 DEF Receive, CodeInv, CheckedStart, CheckedHeaders, CheckedParams, RightCode
  <1>3. CASE FailStart
    <2>1. PICK n \in Failing(msg) :
             \/ Return(StartChecks[n][2])
             \/ MayCrash(StartChecks[n][1]) /\ pc' = "crashed" /\ UNCHANGED rc
      BY <1>3 DEF FailStart
    <2>2. n \in DOMAIN StartChecks
      BY DEF Failing
    <2>3. StartChecks[n][2] # 0
      BY <2>2 DEF StartChecks
    <2>4. Bad(StartChecks[n][2])
      <3>1. CASE StartChecks[n][1] \in msg.faults
        BY <2>2, <3>1 DEF Bad
      <3>2. CASE StartChecks[n][1] = "lines" /\ Len(HeaderLines(msg)) > MAX_HEADER_HEADERS
        <4>1. StartChecks[n][2] = -102
          <5>1. \A k \in DOMAIN StartChecks : StartChecks[k][1] = "lines" => k = 3
            BY DEF StartChecks
          <5>2. StartChecks[3][2] = -102
            BY DEF StartChecks
          <5> QED
            BY <2>2, <3>2, <5>1, <5>2
        <4>2. Len(msg.headers) + Cardinality(BodyLines) > MAX_HEADER_HEADERS
          BY <3>2, HeaderLinesAre
        <4> QED
          BY <4>1, <4>2 DEF Bad
      <3> QED
        BY <3>1, <3>2 DEF Failing
    <2>5. CASE Return(StartChecks[n][2])
      BY <1>3, <2>3, <2>4, <2>5, CodeReturned DEF Return, FailStart
    <2>6. CASE pc' = "crashed"
      BY <2>6 DEF CodeInv, CheckedStart, CheckedHeaders, CheckedParams, RightCode
    <2> QED
      BY <2>1, <2>5, <2>6
  <1>4. CASE PassStart
    BY <1>4 DEF PassStart, CodeInv, CheckedStart, CheckedHeaders, CheckedParams, RightCode
  <1>5. CASE RootBase
    BY <1>5 DEF RootBase, CodeInv, CheckedStart, CheckedHeaders, CheckedParams, RightCode
  <1>6. CASE DeepBase
    <2>1. Bad(-113)
      BY <1>6 DEF DeepBase, Bad
    <2>2. CASE Return(-113)
      BY <1>6, <2>1, <2>2, CodeReturned DEF Return, DeepBase
    <2>3. CASE pc' = "crashed"
      BY <2>3 DEF CodeInv, CheckedStart, CheckedHeaders, CheckedParams, RightCode
    <2> QED
      BY <1>6, <2>2, <2>3 DEF DeepBase
  <1>7. CASE PathBase
    <2>1. pc = "base" /\ pc' \in {"headers", "crashed"} /\ i' = 1 /\ msg' = msg
          /\ msg.base # "deep"
      BY <1>7 DEF PathBase
    <2>2. HeaderLines(msg) \in Seq(Lines)
      BY HeaderLinesAre
    <2>3. \A k \in DOMAIN HeaderLines(msg) : ~(k < 1)
      BY <2>2
    <2> QED
      BY <2>1, <2>3 DEF CodeInv, CheckedStart, CheckedHeaders, CheckedParams, RightCode
  <1>8. CASE BadHeader
    <2>1. PICK line \in BadLines :
             /\ Header(line)
             /\ Return(IF line = "malformed" THEN -117
                       ELSE IF line = "bad_length" THEN -118 ELSE -119)
      BY <1>8 DEF BadHeader, BadLines
    <2>2. HasLine(line)
      <3>1. HeaderLines(msg) \in Seq(Lines)
        BY HeaderLinesAre
      <3>2. i \in DOMAIN HeaderLines(msg) /\ HeaderLines(msg)[i] = line
        BY <2>1, <3>1 DEF Header, CodeInv, CheckedHeaders
      <3> QED
        BY <3>2, HeaderLinesAre
    <2>3. Bad(rc') /\ rc' # 0 /\ pc' = "signature"
      BY <2>1, <2>2 DEF Return, Bad, BadLines
    <2> QED
      BY <1>8, <2>3, CodeReturned DEF BadHeader
  <1>9. CASE ContentLength \/ OtherHeader \/ \E e \in Endpoints : Endpoint(e)
    <2>1. \A e \in Endpoints : e \notin BadLines
      BY DEF AnalyzeMethodAssumption, BadLines
    <2>2. "length" \notin BadLines /\ "other" \notin BadLines
      BY DEF BadLines
    <2>3. \E line : line \notin BadLines /\ Header(line) /\ i' = i + 1 /\ UNCHANGED <<msg, pc>>
      BY <1>9, <2>1, <2>2 DEF ContentLength, OtherHeader, Endpoint
    <2> QED
      BY <2>3, HeaderStep
  <1>10. CASE EndHeaders
    <2>1. pc = "headers" /\ i > Len(HeaderLines(msg)) /\ pc' = "query" /\ msg' = msg
      BY <1>10 DEF EndHeaders
    <2>2. HeaderLines(msg) \in Seq(Lines)
      BY HeaderLinesAre
    <2>3. i \in Nat
      BY <2>1 DEF CodeInv, CheckedHeaders
    <2>4. \A k \in DOMAIN HeaderLines(msg) : k < i
      BY <2>1, <2>2, <2>3
    <2> QED
      BY <2>1, <2>4 DEF CodeInv, CheckedStart, CheckedHeaders, CheckedParams, RightCode
  <1>11. CASE NoQuery \/ EndParams
    <2>1. \A code : Bad(code) => code \in -119..-117 /\ msg.base = "root"
      BY <1>11, CodeZero DEF NoQuery, EndParams
    <2> QED
      BY <1>11, <2>1, CodeReturned DEF NoQuery, EndParams, Return
  <1>12. CASE TooManyParams
    <2>1. Cardinality(Wanted(msg.params, FALSE)) > MAX_HEADER_URL_PARAMETERS + 1
      BY <1>12, UrlParamsAre DEF TooManyParams
    <2>2. Bad(-115)
      BY <2>1 DEF Bad
    <2> QED
      BY <1>12, <2>2, CodeReturned DEF TooManyParams, Return
  <1>13. CASE Query
    <2>1. /\ pc = "query" /\ msg.params # <<>> /\ pc' = "params" /\ i' = 1 /\ msg' = msg
          /\ url_params_tokens' = Len(UrlParams(msg))
          /\ Len(UrlParams(msg)) - 1 =< MAX_HEADER_URL_PARAMETERS
      BY <1>13 DEF Query
    <2>2. UrlParams(msg) \in Seq(Param \union {BadParam, Blank})
      BY <2>1, UrlParamsAre
    <2>3. \A k \in DOMAIN UrlParams(msg) : ~(k < 1)
      BY <2>2
    <2> QED
      BY <2>1, <2>3 DEF CodeInv, CheckedStart, CheckedHeaders, CheckedParams, RightCode
  <1>14. CASE FailParam
    <2>1. /\ pc = "params" /\ i =< url_params_tokens /\ i \in Nat \ {0}
          /\ msg.params # <<>> /\ url_params_tokens = Len(UrlParams(msg))
          /\ UrlParams(msg)[i] \in {BadParam, Blank}
      BY <1>14 DEF FailParam, AtParam, CodeInv, CheckedParams, BareInv, StoredSoFar
    <2>2. UrlParams(msg) \in Seq(Param \union {BadParam, Blank})
      BY <2>1, UrlParamsAre
    <2>3. i \in 1..Len(UrlParams(msg))
      BY <2>1, <2>2
    <2>4. PICK k \in Wanted(msg.params, FALSE) : UrlParams(msg)[i] = msg.params[k]
      BY <2>1, <2>3, UrlParamsAre
    <2>5. k \in DOMAIN msg.params
          /\ (msg.params[k] # Blank \/ (k = 1 /\ Len(msg.params) > 1))
      BY DEF Wanted
    <2>6. Bad(-116)
      BY <2>1, <2>4, <2>5 DEF Bad
    <2> QED
      BY <1>14, <2>6, CodeReturned DEF FailParam, Return
  <1>15. ASSUME NEW p \in Param, StoreParam(p) PROVE CodeInv'
    <2>1. /\ pc = "params" /\ pc' = "params" /\ i' = i + 1 /\ p = UrlParams(msg)[i]
          /\ msg' = msg /\ url_params_tokens' = url_params_tokens
      BY <1>15 DEF StoreParam, AtParam
    <2>2. p \notin {BadParam, Blank}
      BY DEF AnalyzeMethodAssumption
    <2>3. i \in Nat /\ msg.params # <<>>
      BY <2>1 DEF BareInv, StoredSoFar, CodeInv, CheckedParams
    <2>4. UrlParams(msg) \in Seq(Param \union {BadParam, Blank})
      BY <2>3, UrlParamsAre
    <2>5. \A k \in DOMAIN UrlParams(msg) : k < i + 1 => k < i \/ k = i
      BY <2>3, <2>4
    <2>6. CheckedParams'
      BY <2>1, <2>2, <2>5 DEF CodeInv, CheckedParams
    <2> QED
      BY <2>1, <2>6 DEF CodeInv, CheckedStart, CheckedHeaders, RightCode
  <1>16. ASSUME NEW p \in Param, SingleParam(p) PROVE CodeInv'
    BY <1>16 DEF SingleParam, CodeInv, CheckedStart, CheckedHeaders, CheckedParams, RightCode
  <1>17. CASE NoSignature
    BY <1>17 DEF NoSignature, CodeInv, CheckedStart, CheckedHeaders, CheckedParams, RightCode
  <1>18. CASE Call
    <2>1. pc = "signature" /\ pc' = "called" /\ UNCHANGED <<msg, rc>>
      BY <1>18 DEF Call
    <2>2. RightCode'
      BY <2>1, SameFaults DEF CodeInv, RightCode
    <2> QED
      BY <2>1, <2>2 DEF CodeInv, CheckedStart, CheckedHeaders, CheckedParams
  <1> QED
    BY <1>1, <1>2, <1>3, <1>4, <1>5, <1>6, <1>7, <1>8, <1>9, <1>10, <1>11, <1>12, <1>13,
       <1>14, <1>15, <1>16, <1>17, <1>18 DEF Next, InitHeader

LEMMA CodeAlways ==
  ASSUME TokenizerAssumption, AnalyzeMethodAssumption
  PROVE  Spec => []CodeInv
  <1>1. Init => CodeInv
    BY DEF Init, CodeInv, CheckedStart, CheckedHeaders, CheckedParams, RightCode
  <1>2. IsMessage(msg) /\ BareInv /\ CodeInv /\ [Next]_vars => CodeInv'
    BY CodeStep
  <1> QED
    BY <1>1, <1>2, MessageAlways, BareAlways, PTL DEF Spec

\* init_header returns the code of a fault that the message has, and 0 only for one that
\* has none, but for "/", whose headers are not looked at: for every set of messages
\* and every limit (http_header.c:41).
THEOREM CodesTrue ==
  ASSUME TokenizerAssumption, AnalyzeMethodAssumption
  PROVE  Spec => []RightCode
  <1>1. CodeInv => RightCode
    BY DEF CodeInv
  <1> QED
    BY <1>1, CodeAlways, PTL

-----------------------------------------------------------------------------
(***************************************************************************)
(* A request with nothing wrong, from its first line to its script.        *)
(***************************************************************************)

Filled ==
  pc \in {"base", "headers", "query", "params", "signature"} =>
    url_base /\ url_body = msg.carries

\* A length has been given by a header up to the loop's, or at all after it.
LengthGiven ==
  /\ pc = "headers" =>
       (content_length # -1 <=>
          \E k \in DOMAIN HeaderLines(msg) : k < i /\ HeaderLines(msg)[k] = "length")
  /\ pc \in {"query", "params", "signature"} =>
       (content_length # -1 <=>
          \E k \in DOMAIN HeaderLines(msg) : HeaderLines(msg)[k] = "length")

\* The tags that have been stored are those of the parameters, each with the value of the
\* last one that was stored under it.
StoredRight ==
  pc \in {"params", "signature"} =>
    /\ msg.params = <<>> => url_params_ordered = <<>>
    /\ msg.params # <<>> =>
         \A k \in DOMAIN url_params_ordered :
           /\ k \in DOMAIN UrlParams(msg)
           /\ url_params_ordered[k] = UrlParams(msg)[k].tag
           /\ url_params_values[url_params_ordered[k]] # NoValue
           /\ (\A l \in DOMAIN url_params_ordered :
                 l > k => url_params_ordered[l] # url_params_ordered[k])
              => url_params_values[url_params_ordered[k]] = UrlParams(msg)[k].value

AllStored ==
  pc = "signature" =>
    /\ Len(url_params_ordered) = url_params_tokens
    /\ url_params_tokens = IF msg.params = <<>> THEN 0 ELSE Len(UrlParams(msg))

CalledRight ==
  pc = "called" =>
    /\ call.params = Asked(msg)
    /\ call.body = (msg.carries /\ \E k \in DOMAIN HeaderLines(msg) :
                                     HeaderLines(msg)[k] = "length")

PlainRun ==
  /\ pc # "crashed"
  /\ Filled
  /\ LengthGiven
  /\ StoredRight
  /\ AllStored
  /\ CalledRight

PlainInv == Plain(msg) => PlainRun

LEMMA SamePlain ==
  ASSUME UNCHANGED msg
  PROVE  Plain(msg)' <=> Plain(msg)
  <1> DEFINE Rest(m) ==
               /\ m.base = "path"
               /\ \A k \in DOMAIN m.params : m.params[k] # Blank =>
                     m.params[k].tag # NoTag /\ m.params[k].value \notin Unended
               /\ Cardinality({k \in DOMAIN m.params : m.params[k] # Blank}) # 1
  <1>1. Plain(msg) <=> (\A code \in Codes : ~Bad(code)) /\ Rest(msg)
    BY Zenon DEF Plain
  <1>2. Plain(msg)' <=> (\A code \in Codes : ~Bad(code)') /\ Rest(msg')
    BY Zenon DEF Plain
  <1> HIDE DEF Rest
  <1>3. msg' = msg
    OBVIOUS
  <1> QED
    BY <1>1, <1>2, <1>3, SameFaults

\* What is looked at of such a request: all the parameters that are not empty, each of
\* them with a name and a value that fits.
LEMMA PlainIs ==
  ASSUME TokenizerAssumption, AnalyzeMethodAssumption, IsMessage(msg), Plain(msg)
  PROVE  LET W      == Wanted(msg.params, FALSE)
             tokens == UrlParams(msg)
         IN /\ Failing(msg) = {} /\ msg.base = "path"
            /\ W = {k \in DOMAIN msg.params : msg.params[k] # Blank}
            /\ \A k \in W : /\ msg.params[k] \in Param
                            /\ msg.params[k].tag # NoTag
                            /\ msg.params[k].value \in Values \ Unended
            /\ msg.params # <<>> =>
                 /\ tokens \in Seq(Param \union {BadParam, Blank})
                 /\ Len(tokens) # 1
                 /\ \A m \in 1..Len(tokens) :
                      \E k \in W : Rank(W, k) = m /\ tokens[m] = msg.params[k]
                 /\ \A k \in W : /\ Rank(W, k) \in 1..Len(tokens)
                                 /\ tokens[Rank(W, k)] = msg.params[k]
                 /\ \A j, k \in W : j < k => Rank(W, j) < Rank(W, k)
                 /\ W \in SUBSET (1..Len(msg.params))
  <1> DEFINE W      == Wanted(msg.params, FALSE)
             tokens == UrlParams(msg)
             most   == MAX_HEADER_URL_PARAMETERS
  <1>1. \A code \in Codes : ~Bad(code)
    BY DEF Plain
  <1>2. /\ -102 \in Codes /\ -115 \in Codes /\ -116 \in Codes
        /\ \A n \in DOMAIN StartChecks : StartChecks[n][2] \in Codes
    <2>1. /\ 3 \in DOMAIN StartChecks /\ StartChecks[3][2] = -102
      BY DEF StartChecks
    <2>2. \A n \in DOMAIN StartChecks : StartChecks[n][2] \in Codes
      BY Zenon DEF Codes
    <2>3. -115 \in -119..-115 /\ -116 \in -119..-115
      OBVIOUS
    <2>4. -115 \in Codes /\ -116 \in Codes
      BY <2>3 DEF Codes
    <2> QED
      BY <2>1, <2>2, <2>4
  <1>3. Failing(msg) = {}
    <2>1. SUFFICES ASSUME NEW n \in Failing(msg) PROVE FALSE
      OBVIOUS
    <2>2. n \in DOMAIN StartChecks
      BY DEF Failing
    <2>3. CASE StartChecks[n][1] \in msg.faults
      BY <1>1, <1>2, <2>2, <2>3 DEF Bad
    <2>4. CASE Len(HeaderLines(msg)) > MAX_HEADER_HEADERS
      <3>1. Len(msg.headers) + Cardinality(BodyLines) > MAX_HEADER_HEADERS
        BY <2>4, HeaderLinesAre
      <3> QED
        BY <1>1, <1>2, <3>1 DEF Bad
    <2> QED
      BY <2>3, <2>4 DEF Failing
  <1>4. msg.params \in Seq(Param \union {BadParam, Blank})
    BY DEF IsMessage
  <1>5. ASSUME NEW k \in DOMAIN msg.params
        PROVE  /\ msg.params[k] # BadParam
               /\ ~(k = 1 /\ msg.params[k] = Blank /\ Len(msg.params) > 1)
    BY <1>1, <1>2, <1>5 DEF Bad
  <1>6. W = {k \in DOMAIN msg.params : msg.params[k] # Blank}
    BY <1>5 DEF Wanted
  <1>7. ASSUME NEW k \in W
        PROVE  /\ msg.params[k] \in Param
               /\ msg.params[k].tag # NoTag
               /\ msg.params[k].value \in Values \ Unended
    <2>1. k \in DOMAIN msg.params /\ msg.params[k] # Blank
      BY <1>6
    <2>2. msg.params[k] \in Param
      <3> HIDE DEF W
      <3>1. msg.params[k] \in Param \union {BadParam, Blank}
        BY <1>4, <2>1
      <3> QED
        BY <1>5, <2>1, <3>1
    <2>3. msg.params[k].value \in Values
      BY <2>2 DEF Param
    <2> QED
      BY <2>1, <2>2, <2>3 DEF Plain
  <1>8. ~(Cardinality(W) > most + 1)
    BY <1>1, <1>2 DEF Bad
  <1>9. Cardinality(W) # 1
    BY <1>6 DEF Plain
  <1>10. most \in Nat
    BY DEF TokenizerAssumption, AnalyzeMethodAssumption
  <1>11. ASSUME msg.params # <<>>
         PROVE  /\ tokens \in Seq(Param \union {BadParam, Blank})
                /\ Len(tokens) - 1 =< most
    <2>1. /\ tokens \in Seq(Param \union {BadParam, Blank})
          /\ Len(tokens) - 1 > most <=> Cardinality(W) > most + 1
      BY <1>11, UrlParamsAre
    <2> HIDE DEF most, tokens
    <2>2. Len(tokens) \in Nat
      BY <2>1
    <2>3. ~(Len(tokens) - 1 > most)
      BY <1>8, <2>1, Zenon
    <2>4. Len(tokens) - 1 =< most
      BY <1>10, <2>2, <2>3
    <2> QED
      BY <2>1, <2>4
  <1>12. msg.params # <<>> =>
           /\ Len(tokens) = Cardinality(W)
           /\ \A m \in 1..Len(tokens) :
                \E k \in W : Rank(W, k) = m /\ tokens[m] = msg.params[k]
           /\ \A k \in W : /\ Rank(W, k) \in 1..Len(tokens)
                           /\ tokens[Rank(W, k)] = msg.params[k]
           /\ \A j, k \in W : j < k => Rank(W, j) < Rank(W, k)
           /\ W \in SUBSET (1..Len(msg.params))
    BY <1>11, UrlParamsAre
  <1>13. msg.base = "path"
    BY DEF Plain
  <1> HIDE DEF W, tokens
  <1>14. msg.params # <<>> => Len(tokens) # 1
    BY <1>9, <1>12
  <1> QED
    BY <1>3, <1>6, <1>7, <1>11, <1>12, <1>13, <1>14 DEF W, tokens

\* A set of numbers up to n has a largest one.
LEMMA Largest ==
  ASSUME NEW n \in Nat, NEW S \in SUBSET (1..n), S # {}
  PROVE  \E k \in S : \A l \in S : l =< k
  <1> DEFINE D == {n - k : k \in S}
  <1>1. D \subseteq Nat /\ D # {}
    <2>1. \A k \in S : n - k \in Nat
      OBVIOUS
    <2> QED
      BY <2>1
  <1>2. PICK d \in D : \A e \in D : ~(<<e, d>> \in OpToRel(<, Nat))
    BY <1>1, NatLessThanWellFounded, WFMin
  <1>3. PICK k \in S : d = n - k
    BY <1>2
  <1>4. ASSUME NEW l \in S PROVE l =< k
    <2>1. n - l \in D /\ n - l \in Nat /\ d \in Nat
      BY <1>1, <1>2
    <2>2. ~(n - l < d)
      BY <1>2, <2>1 DEF OpToRel
    <2> QED
      BY <1>3, <2>2
  <1> QED
    BY <1>4

\* Steps that return do so with 0, because a code would be that of a fault.
LEMMA PlainReturn ==
  ASSUME Plain(msg), UNCHANGED msg, RightCode', pc' = "signature"
  PROVE  rc' = 0
  <1>1. rc' # 0 => Bad(rc')
    <2>1. rc' # 0 => Bad(rc)'
      BY DEF RightCode
    <2> QED
      BY <2>1, SameFaults DEF Bad
  <1>2. Bad(rc') => rc' \in Codes
    <2>1. rc' \in {-102, -113} \union -119..-115 => rc' \in Codes
      <3>1. 3 \in DOMAIN StartChecks /\ StartChecks[3][2] = -102
        BY DEF StartChecks
      <3> QED
        BY <3>1 DEF Codes
    <2>2. Bad(rc') => \/ rc' \in {-102, -113, -117, -118, -119, -115, -116}
                     \/ \E n \in DOMAIN StartChecks : StartChecks[n][2] = rc'
      BY DEF Bad
    <2> QED
      BY <2>1, <2>2 DEF Codes
  <1> QED
    BY <1>1, <1>2 DEF Plain

\* One more parameter is stored.
LEMMA PlainStore ==
  ASSUME TokenizerAssumption, AnalyzeMethodAssumption, TypeOK, BareInv, CodeInv,
         Plain(msg), PlainRun, NEW p \in Param, StoreParam(p)
  PROVE  PlainRun'
  <1> DEFINE tokens == UrlParams(msg)
             n      == Len(url_params_ordered)
  <1>1. /\ pc = "params" /\ i =< url_params_tokens /\ p = tokens[i]
        /\ url_params_ordered' = Append(url_params_ordered, p.tag)
        /\ UNCHANGED <<msg, pc, rc, url_base, url_body, content_length, epnt,
                       url_params_tokens, call>>
    BY DEF StoreParam, AtParam
  <1>2. IsMessage(msg) /\ url_params_ordered \in Seq(Tags \union {NoTag})
    BY DEF TypeOK
  <1>3. /\ msg.params # <<>> /\ url_params_tokens = Len(tokens)
        /\ i \in Nat \ {0} /\ n = i - 1
    BY <1>1 DEF BareInv, StoredSoFar, CodeInv, CheckedParams
  <1>4. tokens \in Seq(Param \union {BadParam, Blank})
    BY <1>2, <1>3, UrlParamsAre
  <1>5. i \in DOMAIN tokens /\ n \in Nat
    BY <1>1, <1>3, <1>4
  <1>6. p.tag \in Tags \union {NoTag} /\ p.value \in Values \ Unended
    <2>1. i \in 1..Len(tokens)
      BY <1>4, <1>5
    <2>2. PICK k \in Wanted(msg.params, FALSE) : tokens[i] = msg.params[k]
      BY <1>2, <1>3, <2>1, UrlParamsAre
    <2>3. p.value \in Values \ Unended
      BY <1>1, <1>2, <2>2, PlainIs
    <2> QED
      BY <2>3 DEF Param
  <1>7. url_params_values' = [url_params_values EXCEPT ![p.tag] = p.value]
    BY <1>6 DEF StoreParam
  <1>8. p.value # NoValue
    BY <1>6 DEF AnalyzeMethodAssumption
  <1>9. \A t \in Tags \union {NoTag} :
          url_params_values'[t] = IF t = p.tag THEN p.value ELSE url_params_values[t]
    BY <1>7 DEF TypeOK
  <1>10. /\ DOMAIN url_params_ordered = 1..n /\ DOMAIN url_params_ordered' = 1..i
         /\ url_params_ordered'[i] = p.tag
         /\ \A k \in 1..n : /\ url_params_ordered'[k] = url_params_ordered[k]
                            /\ url_params_ordered[k] \in Tags \union {NoTag}
    <2>1. n + 1 = i
      BY <1>3
    <2>2. /\ DOMAIN url_params_ordered = 1..n
          /\ \A k \in 1..n : url_params_ordered[k] \in Tags \union {NoTag}
      BY <1>2
    <2>3. /\ DOMAIN Append(url_params_ordered, p.tag) = 1..(n + 1)
          /\ Append(url_params_ordered, p.tag)[n + 1] = p.tag
          /\ \A k \in 1..n : Append(url_params_ordered, p.tag)[k] = url_params_ordered[k]
      <3>1. p.tag \in Tags \union {NoTag} /\ url_params_ordered \in Seq(Tags \union {NoTag})
        BY <1>2, <1>6
      <3> DEFINE T == Tags \union {NoTag}
      <3> HIDE DEF T
      <3>2. p.tag \in T /\ url_params_ordered \in Seq(T)
        BY <3>1 DEF T
      <3> QED
        BY <3>2
    <2> QED
      BY <1>1, <2>1, <2>2, <2>3
  <1> HIDE DEF n, tokens
  <1>11. ASSUME NEW k \in 1..i
         PROVE  /\ k \in DOMAIN tokens
                /\ url_params_ordered'[k] = tokens[k].tag
                /\ url_params_values'[url_params_ordered'[k]] # NoValue
                /\ (\A l \in 1..i : l > k => url_params_ordered'[l] # url_params_ordered'[k])
                   => url_params_values'[url_params_ordered'[k]] = tokens[k].value
    <2>1. CASE k = i
      BY <1>1, <1>5, <1>6, <1>8, <1>9, <1>10, <2>1
    <2>2. CASE k # i
      <3>1. k \in 1..n /\ i > k /\ i \in 1..i
        BY <1>3, <2>2
      <3>2. /\ k \in DOMAIN tokens
            /\ url_params_ordered[k] = tokens[k].tag
            /\ url_params_values[url_params_ordered[k]] # NoValue
            /\ (\A l \in 1..n : l > k => url_params_ordered[l] # url_params_ordered[k])
               => url_params_values[url_params_ordered[k]] = tokens[k].value
        BY <1>1, <1>3, <1>10, <3>1 DEF PlainRun, StoredRight, tokens
      <3>3. url_params_ordered'[k] = url_params_ordered[k]
            /\ url_params_ordered[k] \in Tags \union {NoTag}
        BY <1>10, <3>1
      <3>4. url_params_values'[url_params_ordered'[k]] # NoValue
        BY <1>8, <1>9, <3>2, <3>3
      <3>5. ASSUME \A l \in 1..i : l > k => url_params_ordered'[l] # url_params_ordered'[k]
            PROVE  url_params_values'[url_params_ordered'[k]] = tokens[k].value
        <4>1. url_params_ordered[k] # p.tag
          BY <1>10, <3>1, <3>3, <3>5
        <4>2. \A l \in 1..n : l \in 1..i
          BY <1>3
        <4>3. \A l \in 1..n : l > k => url_params_ordered[l] # url_params_ordered[k]
          BY <1>10, <3>3, <3>5, <4>2
        <4> QED
          BY <1>9, <3>2, <3>3, <4>1, <4>3
      <3> QED
        BY <3>2, <3>3, <3>4, <3>5
    <2> QED
      BY <2>1, <2>2
  <1>12. StoredRight'
    <2>1. msg' = msg /\ msg.params # <<>> /\ DOMAIN url_params_ordered' = 1..i
      BY <1>1, <1>3, <1>10
    <2>2. UrlParams(msg)' = tokens
      BY <2>1 DEF tokens
    <2> QED
      BY <2>1, <2>2, <1>11 DEF StoredRight
  <1> QED
    BY <1>1, <1>12 DEF PlainRun, Filled, LengthGiven, AllStored, CalledRight

\* What was stored is what was asked for.
LEMMA PlainCall ==
  ASSUME TokenizerAssumption, AnalyzeMethodAssumption, TypeOK, Plain(msg), PlainRun, Call
  PROVE  PlainRun'
  <1> DEFINE W      == Wanted(msg.params, FALSE)
             tokens == UrlParams(msg)
             n      == Len(url_params_ordered)
             tags   == {url_params_ordered[k] : k \in DOMAIN url_params_ordered}
             params == {<<t, url_params_values[t]>> : t \in tags}
             body   == url_body /\ content_length # -1
             last(j) == \A l \in DOMAIN msg.params :
                          l > j /\ msg.params[l] # Blank => msg.params[l].tag # msg.params[j].tag
             kept   == {j \in DOMAIN msg.params : msg.params[j] # Blank /\ last(j)}
             asked  == {<<msg.params[j].tag, msg.params[j].value>> : j \in kept}
  <1>1. IsMessage(msg) /\ DOMAIN url_params_ordered = 1..n /\ n \in Nat
    BY DEF TypeOK
  <1>2. pc = "signature" /\ pc' = "called" /\ UNCHANGED <<msg, i, rc, hh>>
    BY DEF Call
  <1>3. call'.params = params /\ call'.body = body
    <2>1. call' = [script |-> epnt, params |-> params, body |-> body,
                   nargs |-> url_params_tokens + (IF body THEN 1 ELSE 0)]
      BY DEF Call
    <2> HIDE DEF params, body
    <2> QED
      BY <2>1
  <1>4. body = (msg.carries /\ \E k \in DOMAIN HeaderLines(msg) : HeaderLines(msg)[k] = "length")
    <2>1. url_body = msg.carries /\ msg.carries \in BOOLEAN
      BY <1>1, <1>2 DEF PlainRun, Filled, IsMessage
    <2>2. content_length # -1 <=>
            \E k \in DOMAIN HeaderLines(msg) : HeaderLines(msg)[k] = "length"
      BY <1>2 DEF PlainRun, LengthGiven
    <2> QED
      BY <2>1, <2>2
  <1>5. asked = Asked(msg)
    BY Zenon DEF Asked
  <1>6. params = asked
    <2>1. CASE msg.params = <<>>
      <3>1. url_params_ordered = <<>>
        BY <1>2, <2>1 DEF PlainRun, StoredRight
      <3>2. tags = {} /\ kept = {}
        BY <2>1, <3>1
      <3> HIDE DEF tags, kept
      <3> QED
        BY <3>2
    <2>2. CASE msg.params # <<>>
      <3>1. /\ W = {k \in DOMAIN msg.params : msg.params[k] # Blank}
            /\ \A m \in 1..Len(tokens) :
                 \E k \in W : Rank(W, k) = m /\ tokens[m] = msg.params[k]
            /\ \A k \in W : /\ Rank(W, k) \in 1..Len(tokens)
                            /\ tokens[Rank(W, k)] = msg.params[k]
            /\ \A j, k \in W : j < k => Rank(W, j) < Rank(W, k)
            /\ W \in SUBSET (1..Len(msg.params))
        BY <1>1, <2>2, PlainIs
      <3>2. n = Len(tokens)
        BY <1>2, <2>2 DEF PlainRun, AllStored
      <3>3. \A k \in 1..n :
              /\ url_params_ordered[k] = tokens[k].tag
              /\ (\A l \in 1..n : l > k => url_params_ordered[l] # url_params_ordered[k])
                 => url_params_values[url_params_ordered[k]] = tokens[k].value
        BY <1>1, <1>2, <2>2 DEF PlainRun, StoredRight
      <3>4. \A k \in W : k \in Int /\ k \in DOMAIN msg.params /\ msg.params[k] # Blank
        <4>1. Len(msg.params) \in Nat
          BY <1>1 DEF IsMessage
        <4> HIDE DEF W, tokens
        <4>2. \A k \in W : k \in Int
          BY <3>1, <4>1
        <4> QED
          BY <3>1, <4>2
      <3>5. \A k \in DOMAIN msg.params : msg.params[k] # Blank => k \in W
        BY <3>1
      <3> HIDE DEF W, tokens, n
      <3>6. ASSUME NEW x \in params PROVE x \in asked
        <4>1. PICK k0 \in 1..n :
                 x = <<url_params_ordered[k0], url_params_values[url_params_ordered[k0]]>>
          BY <1>1
        <4> DEFINE S == {l \in 1..n : url_params_ordered[l] = url_params_ordered[k0]}
        <4>2. PICK k \in S : \A l \in S : l =< k
          <5>1. S \in SUBSET (1..n) /\ S # {} /\ n \in Nat
            BY <1>1
          <5> HIDE DEF S
          <5> QED
            BY <5>1, Largest
        <4>3. k \in 1..n /\ url_params_ordered[k] = url_params_ordered[k0]
          OBVIOUS
        <4>4. \A l \in 1..n : l > k => url_params_ordered[l] # url_params_ordered[k]
          <5>1. ASSUME NEW l \in 1..n, l > k, url_params_ordered[l] = url_params_ordered[k]
                PROVE  FALSE
            <6>1. l \in S
              BY <4>3, <5>1
            <6>2. l =< k
              BY <4>2, <6>1
            <6> QED
              BY <1>1, <4>3, <5>1, <6>2
          <5> QED
            BY <5>1
        <4>5. x = <<tokens[k].tag, tokens[k].value>>
          BY <3>3, <4>1, <4>3, <4>4
        <4>6. PICK j \in W : Rank(W, j) = k /\ tokens[k] = msg.params[j]
          BY <3>1, <3>2, <4>3
        <4>7. last(j)
          <5>1. ASSUME NEW l \in DOMAIN msg.params, l > j, msg.params[l] # Blank
                PROVE  msg.params[l].tag # msg.params[j].tag
            <6>1. l \in W
              BY <3>5, <5>1
            <6>2. /\ Rank(W, l) \in 1..n /\ tokens[Rank(W, l)] = msg.params[l]
                  /\ Rank(W, l) > k
              BY <3>1, <3>2, <3>4, <4>6, <5>1, <6>1
            <6> QED
              BY <3>3, <4>3, <4>4, <4>6, <6>2
          <5> QED
            BY <5>1
        <4>8. j \in kept
          BY <3>4, <4>7
        <4> HIDE DEF kept
        <4> QED
          BY <4>5, <4>6, <4>8
      <3>7. ASSUME NEW x \in asked PROVE x \in params
        <4>1. PICK j \in kept : x = <<msg.params[j].tag, msg.params[j].value>>
          OBVIOUS
        <4>2. j \in W /\ last(j)
          BY <3>5
        <4> DEFINE k == Rank(W, j)
        <4>3. k \in 1..n /\ tokens[k] = msg.params[j]
          BY <3>1, <3>2, <4>2
        <4> HIDE DEF k
        <4>4. ASSUME NEW l \in 1..n, l > k PROVE url_params_ordered[l] # url_params_ordered[k]
          <5>1. PICK m \in W : Rank(W, m) = l /\ tokens[l] = msg.params[m]
            BY <3>1, <3>2
          <5>2. m > j
            <6>1. ~(m < j)
              BY <1>1, <3>1, <4>2, <4>3, <4>4, <5>1 DEF k
            <6>2. m # j
              BY <1>1, <4>3, <4>4, <5>1 DEF k
            <6>3. m \in Int /\ j \in Int
              BY <3>4, <4>2
            <6> QED
              BY <6>1, <6>2, <6>3
          <5>3. msg.params[m].tag # msg.params[j].tag
            BY <3>4, <4>2, <5>2
          <5> QED
            BY <3>3, <4>3, <5>1, <5>3
        <4>5. url_params_values[url_params_ordered[k]] = tokens[k].value
              /\ url_params_ordered[k] = tokens[k].tag
          BY <3>3, <4>3, <4>4
        <4>6. x = <<url_params_ordered[k], url_params_values[url_params_ordered[k]]>>
          BY <4>1, <4>3, <4>5
        <4>7. url_params_ordered[k] \in tags
          BY <1>1, <4>3
        <4> HIDE DEF tags
        <4> QED
          BY <4>6, <4>7
      <3> HIDE DEF params, asked
      <3> QED
        BY <3>6, <3>7
    <2> QED
      BY <2>1, <2>2
  <1> HIDE DEF params, body, asked
  <1>7. CalledRight'
    BY <1>2, <1>3, <1>4, <1>5, <1>6 DEF CalledRight
  <1> QED
    BY <1>2, <1>7 DEF PlainRun, Filled, LengthGiven, StoredRight, AllStored

LEMMA PlainStep ==
  ASSUME TokenizerAssumption, AnalyzeMethodAssumption, TypeOK, BareInv, CodeInv, CodeInv',
         PlainInv, [Next]_vars
  PROVE  PlainInv'
  <1> SUFFICES ASSUME Plain(msg)' PROVE PlainRun'
    BY DEF PlainInv
  <1>1. CASE Receive
    BY <1>1 DEF Receive, PlainRun, Filled, LengthGiven, StoredRight, AllStored, CalledRight
  <1>2. CASE UNCHANGED msg /\ ~Receive
    <2>1. Plain(msg) /\ PlainRun /\ IsMessage(msg)
      BY <1>2, SamePlain DEF PlainInv, TypeOK
    <2>2. Failing(msg) = {} /\ msg.base = "path"
      BY <2>1, PlainIs
    <2>3. HeaderLines(msg) \in Seq(Lines)
      BY <2>1, HeaderLinesAre
    <2>4. pc' = "signature" => rc' = 0
      BY <1>2, <2>1, PlainReturn DEF CodeInv
    <2>5. CASE UNCHANGED vars
      BY <2>1, <2>5 DEF PlainRun, Filled, LengthGiven, StoredRight, AllStored, CalledRight
    <2>6. CASE FailStart
      BY <2>2, <2>6 DEF FailStart
    <2>7. CASE PassStart
      BY <2>1, <2>7 DEF PassStart, PlainRun, Filled, LengthGiven, StoredRight, AllStored,
                        CalledRight
    <2>8. CASE RootBase \/ DeepBase
      BY <2>2, <2>8 DEF RootBase, DeepBase
    <2>9. CASE PathBase
      <3>1. pc = "base" /\ pc' = "headers" /\ i' = 1 /\ content_length' = -1
            /\ UNCHANGED <<msg, url_base, url_body>>
        BY <2>2, <2>9 DEF PathBase
      <3>2. ~(\E k \in DOMAIN HeaderLines(msg) : k < 1 /\ HeaderLines(msg)[k] = "length")
        BY <2>3
      <3> QED
        BY <2>1, <3>1, <3>2 DEF PlainRun, Filled, LengthGiven, StoredRight, AllStored,
                                CalledRight
    <2>10. CASE BadHeader
      <3>1. pc' = "signature" /\ rc' # 0
        BY <2>10 DEF BadHeader, Return
      <3> QED
        BY <2>4, <3>1
    <2>11. ASSUME NEW line, Header(line), i' = i + 1, UNCHANGED <<msg, pc, url_base, url_body>>,
                  content_length' = IF line = "length" THEN 1 ELSE content_length
           PROVE  PlainRun'
      <3>1. pc = "headers" /\ HeaderLines(msg)[i] = line /\ i =< Len(HeaderLines(msg))
        BY <2>11 DEF Header
      <3>2. i \in Nat \ {0}
        BY <3>1 DEF CodeInv, CheckedHeaders
      <3>3. /\ i \in DOMAIN HeaderLines(msg)
            /\ \A k \in DOMAIN HeaderLines(msg) : k < i + 1 <=> k < i \/ k = i
        BY <2>3, <3>1, <3>2
      <3>4. content_length # -1 <=>
              \E k \in DOMAIN HeaderLines(msg) : k < i /\ HeaderLines(msg)[k] = "length"
        BY <2>1, <3>1 DEF PlainRun, LengthGiven
      <3>5. content_length' # -1 <=>
              \E k \in DOMAIN HeaderLines(msg) : k < i + 1 /\ HeaderLines(msg)[k] = "length"
        <4>1. CASE line = "length"
          <5>1. content_length' # -1
            BY <2>11, <4>1
          <5> QED
            BY <3>1, <3>3, <4>1, <5>1
        <4>2. CASE line # "length"
          <5>1. content_length' = content_length
            BY <2>11, <4>2
          <5> QED
            BY <3>1, <3>3, <3>4, <4>2, <5>1
        <4> QED
          BY <4>1, <4>2
      <3> QED
        BY <2>1, <2>11, <3>1, <3>5 DEF PlainRun, Filled, LengthGiven, StoredRight, AllStored,
                                       CalledRight
    <2>12. CASE ContentLength
      BY <2>11, <2>12 DEF ContentLength
    <2>13. CASE OtherHeader
      BY <2>11, <2>13 DEF OtherHeader
    <2>14. ASSUME NEW e \in Endpoints, Endpoint(e) PROVE PlainRun'
      <3>1. e # "length"
        BY DEF AnalyzeMethodAssumption
      <3> QED
        BY <2>11, <2>14, <3>1 DEF Endpoint
    <2>15. CASE EndHeaders
      <3>1. /\ pc = "headers" /\ pc' = "query" /\ i > Len(HeaderLines(msg))
            /\ UNCHANGED <<msg, url_base, url_body, content_length>>
        BY <2>15 DEF EndHeaders
      <3>2. i \in Nat
        BY <3>1 DEF CodeInv, CheckedHeaders
      <3>3. \A k \in DOMAIN HeaderLines(msg) : k < i
        BY <2>3, <3>1, <3>2
      <3> QED
        BY <2>1, <3>1, <3>3 DEF PlainRun, Filled, LengthGiven, StoredRight, AllStored,
                                CalledRight
    <2>16. CASE NoQuery
      <3>1. /\ pc = "query" /\ pc' = "signature" /\ msg.params = <<>>
            /\ UNCHANGED <<msg, hh>>
        BY <2>16 DEF NoQuery, Return
      <3>2. url_params_tokens = 0 /\ url_params_ordered = <<>>
        BY <3>1 DEF BareInv, NoneYet
      <3> QED
        BY <2>1, <3>1, <3>2 DEF PlainRun, Filled, LengthGiven, StoredRight, AllStored,
                                CalledRight
    <2>17. CASE TooManyParams \/ FailParam
      <3>1. pc' = "signature" /\ rc' # 0
        BY <2>17 DEF TooManyParams, FailParam, Return
      <3> QED
        BY <2>4, <3>1
    <2>18. CASE Query
      <3>1. /\ pc = "query" /\ pc' = "params"
            /\ UNCHANGED <<msg, url_base, url_body, content_length, url_params_ordered>>
        BY <2>18 DEF Query
      <3>2. url_params_ordered = <<>> /\ DOMAIN url_params_ordered = {}
        BY <3>1 DEF BareInv, NoneYet
      <3> QED
        BY <2>1, <3>1, <3>2 DEF PlainRun, Filled, LengthGiven, StoredRight, AllStored,
                                CalledRight
    <2>19. ASSUME NEW p \in Param, StoreParam(p) PROVE PlainRun'
      BY <2>1, <2>19, PlainStore
    <2>20. ASSUME NEW p \in Param, SingleParam(p) PROVE PlainRun'
      <3>1. pc = "params" /\ url_params_tokens = 1
        BY <2>20 DEF SingleParam, AtParam, NoEntries
      <3>2. msg.params # <<>> /\ url_params_tokens = Len(UrlParams(msg))
        BY <3>1 DEF CodeInv, CheckedParams
      <3> QED
        BY <2>1, <3>1, <3>2, PlainIs
    <2>21. CASE EndParams
      <3>1. /\ pc = "params" /\ pc' = "signature" /\ i > url_params_tokens
            /\ UNCHANGED <<msg, hh>>
        BY <2>21 DEF EndParams, Return
      <3>2. /\ msg.params # <<>> /\ url_params_tokens = Len(UrlParams(msg))
            /\ i \in Nat /\ Len(url_params_ordered) = i - 1
        BY <3>1 DEF BareInv, StoredSoFar, CodeInv, CheckedParams
      <3>3. Len(url_params_ordered) = url_params_tokens
        <4>1. Len(url_params_ordered) =< url_params_tokens /\ url_params_tokens \in Int
          BY DEF TypeOK, TokenizerAssumption
        <4> QED
          BY <3>1, <3>2, <4>1
      <3> QED
        BY <2>1, <3>1, <3>2, <3>3 DEF PlainRun, Filled, LengthGiven, StoredRight, AllStored,
                                      CalledRight
    <2>22. CASE NoSignature
      <3>1. pc = "signature" /\ ~HasSignature
        BY <2>22 DEF NoSignature
      <3>2. url_base /\ Len(url_params_ordered) = url_params_tokens
        BY <2>1, <3>1 DEF PlainRun, Filled, AllStored
      <3>3. ASSUME NEW k \in DOMAIN url_params_ordered
            PROVE  /\ url_params_ordered[k] # NoTag
                   /\ url_params_values[url_params_ordered[k]] # NoValue
        <4>1. msg.params # <<>>
          BY <2>1, <3>1 DEF PlainRun, StoredRight
        <4>2. /\ k \in DOMAIN UrlParams(msg) /\ url_params_ordered[k] = UrlParams(msg)[k].tag
              /\ url_params_values[url_params_ordered[k]] # NoValue
          BY <2>1, <3>1, <4>1 DEF PlainRun, StoredRight
        <4>3. k \in 1..Len(UrlParams(msg))
          <5>1. UrlParams(msg) \in Seq(Param \union {BadParam, Blank})
            BY <2>1, <4>1, PlainIs
          <5> QED
            BY <4>2, <5>1
        <4>4. PICK j \in Wanted(msg.params, FALSE) : UrlParams(msg)[k] = msg.params[j]
          BY <2>1, <4>1, <4>3, PlainIs
        <4>5. msg.params[j].tag # NoTag
          BY <2>1, PlainIs
        <4> QED
          BY <4>2, <4>4, <4>5
      <3>4. HasSignature
        BY <2>2, <3>2, <3>3 DEF HasSignature
      <3> QED
        BY <3>1, <3>4
    <2>23. CASE Call
      BY <2>1, <2>23, PlainCall
    <2> QED
      BY <1>2, <2>5, <2>6, <2>7, <2>8, <2>9, <2>10, <2>12, <2>13, <2>14, <2>15, <2>16, <2>17,
         <2>18, <2>19, <2>20, <2>21, <2>22, <2>23 DEF Next, InitHeader
  <1>3. Receive \/ UNCHANGED msg
    BY DEF Next, InitHeader, FailStart, PassStart, RootBase, DeepBase, PathBase,
           BadHeader, ContentLength, OtherHeader, EndHeaders, Endpoint, NoQuery,
           TooManyParams, Query, FailParam, EndParams, StoreParam, SingleParam,
           NoSignature, Call
  <1> QED
    BY <1>1, <1>2, <1>3

\* A request with nothing wrong always comes to its script, with each of its parameters,
\* a name that comes twice with its last value, and with its body just if it has one and
\* a header says how long it is: for every set of messages and every limit
\* (server.c:105-116).
THEOREM CalledRightly ==
  ASSUME TokenizerAssumption, AnalyzeMethodAssumption
  PROVE  Spec => []CalledAsAsked
  <1>1. Init => PlainInv
    BY DEF Init, PlainInv, PlainRun, Filled, LengthGiven, StoredRight, AllStored, CalledRight
  <1>2. /\ TypeOK /\ BareInv /\ CodeInv /\ PlainInv /\ [Next]_vars /\ CodeInv'
        => PlainInv'
    BY PlainStep
  <1>3. PlainInv => CalledAsAsked
    BY DEF PlainInv, PlainRun, CalledRight, CalledAsAsked
  <1> QED
    BY <1>1, <1>2, <1>3, TypesHold, BareAlways, CodeAlways, PTL DEF Spec

-----------------------------------------------------------------------------
(***************************************************************************)
(* The tables of valid verbs and versions, of any number of threads.       *)
(***************************************************************************)

LocalType == [word : Words \union {NoWord}, n : Nat, table : Nat, array : Nat,
              capacity : Nat, slot : Nat, length : Nat]
TableType == [entries : Nat \ {0}, capacity : Nat \ {0}, length : Nat]
Arrays    == UNION {[Slots(c) -> Entry] : c \in Nat \ {0}}
Probing   == {"probe", "count", "length", "key", "value"}

\* What a thread at p has in its hands, l, when the global table is m and there are so
\* many tables and arrays.
Hands(p, l, m, made, given) ==
  /\ p \in Filling \union Expanding \union {"expand"} => l.n \in 1..Len(Valid)
  /\ p \in Places \ {"idle", "create", "next"} => l.table \in 1..made
  /\ p = "next" => m # 0 /\ l.n # 0
  /\ p \in Probing \union Expanding => l.array \in 1..given
  /\ p \in Expanding => l.capacity # 0
  /\ p # "idle" => l.word \in Words

HandsRight(p, l) == Hands(p, l, map, Len(tables), Len(arrays))

\* MapTypeOK with the types of tables, arrays and local variables, by induction.
SharedRight ==
  /\ map \in 0..Len(tables)
  /\ Len(tables) # 0 => map # 0
  /\ tables \in Seq(TableType)
  /\ arrays \in Seq(Arrays)
  /\ \A m \in 1..Len(tables) : tables[m].entries \in 1..Len(arrays)
  /\ freed \subseteq 1..Len(arrays)

TypeInv ==
  /\ SharedRight
  /\ crashed \in BOOLEAN
  /\ at \in [Threads -> Places]
  /\ verdict \in [Threads -> {"none", "valid", "not_allowed"}]
  /\ requests \in 0..MaxRequests
  /\ overlapped \in [Threads -> BOOLEAN]
  /\ local \in [Threads -> LocalType]
  /\ \A t \in Threads : HandsRight(at[t], local[t])

-----------------------------------------------------------------------------

\* A new element at the end of a sequence.
LEMMA AppendIs ==
  ASSUME NEW S, NEW s \in Seq(S), NEW x \in S
  PROVE  /\ Append(s, x) \in Seq(S)
         /\ Len(s) \in Nat
         /\ Len(Append(s, x)) = Len(s) + 1
         /\ \A k \in 1..Len(s) : Append(s, x)[k] = s[k]
         /\ Append(s, x)[Len(s) + 1] = x
OBVIOUS

\* One element of a sequence is another one.
LEMMA PutIs ==
  ASSUME NEW S, NEW s \in Seq(S), NEW k \in 1..Len(s), NEW x \in S
  PROVE  /\ [s EXCEPT ![k] = x] \in Seq(S)
         /\ Len([s EXCEPT ![k] = x]) = Len(s)
         /\ DOMAIN [s EXCEPT ![k] = x] = DOMAIN s
OBVIOUS

\* A new array is an array.
LEMMA EmptyIs ==
  ASSUME NEW c \in Nat \ {0}
  PROVE  EmptyArray(c) \in Arrays /\ DOMAIN EmptyArray(c) = Slots(c)
         /\ \A s \in Slots(c) : EmptyArray(c)[s] = NoEntry
<1>1. EmptyArray(c) \in [Slots(c) -> Entry]
  BY DEF EmptyArray, Slots, NoEntry, Entry
<1> QED
  BY <1>1 DEF Arrays, EmptyArray, Slots

\* A store to a slot of an array, or beside it, leaves an array.
LEMMA StoreIs ==
  ASSUME NEW e \in Arrays, NEW s
  PROVE  /\ \A entry \in Entry : [e EXCEPT ![s] = entry] \in Arrays
         /\ [e EXCEPT ![s].stored = TRUE] \in Arrays
         /\ \A w \in ValidWords : [e EXCEPT ![s].key = w] \in Arrays
<1>1. PICK c \in Nat \ {0} : e \in [Slots(c) -> Entry]
  BY DEF Arrays
<1> HIDE DEF Slots
<1>2. ASSUME NEW entry \in Entry
      PROVE  [e EXCEPT ![s] = entry] \in [Slots(c) -> Entry]
  BY <1>1
<1>3. [e EXCEPT ![s].stored = TRUE] \in [Slots(c) -> Entry]
  BY <1>1 DEF Entry
<1>4. ASSUME NEW w \in ValidWords
      PROVE  [e EXCEPT ![s].key = w] \in [Slots(c) -> Entry]
  BY <1>1 DEF Entry
<1> QED
  BY <1>2, <1>3, <1>4 DEF Arrays

\* A local variable that is a number, stored to.
LEMMA LocalIs ==
  ASSUME NEW l \in LocalType
  PROVE  /\ l.word \in Words \union {NoWord} /\ l.n \in Nat /\ l.table \in Nat /\ l.array \in Nat
         /\ l.capacity \in Nat /\ l.slot \in Nat /\ l.length \in Nat
         /\ \A x \in Nat :
              /\ [l EXCEPT !.n = x] \in LocalType
              /\ [l EXCEPT !.table = x] \in LocalType
              /\ [l EXCEPT !.slot = x] \in LocalType
              /\ [l EXCEPT !.length = x] \in LocalType
              /\ \A y, z \in Nat :
                   [l EXCEPT !.array = x, !.capacity = y, !.slot = z] \in LocalType
         /\ \A k \in Nat : Locals(l.word, k) \in LocalType
<1> DEFINE W == Words \union {NoWord}
<1>1. l \in [word : W, n : Nat, table : Nat, array : Nat, capacity : Nat, slot : Nat, length : Nat]
  BY DEF LocalType
<1> HIDE DEF W
<1>2. /\ l.word \in W /\ l.n \in Nat /\ l.table \in Nat /\ l.array \in Nat
      /\ l.capacity \in Nat /\ l.slot \in Nat /\ l.length \in Nat
  BY <1>1
<1>3. ASSUME NEW x \in Nat
      PROVE  /\ [l EXCEPT !.n = x] \in LocalType
             /\ [l EXCEPT !.table = x] \in LocalType
             /\ [l EXCEPT !.slot = x] \in LocalType
             /\ [l EXCEPT !.length = x] \in LocalType
  BY <1>1 DEF LocalType, W
<1>4. ASSUME NEW x \in Nat, NEW y \in Nat, NEW z \in Nat
      PROVE  [l EXCEPT !.array = x, !.capacity = y, !.slot = z] \in LocalType
  BY <1>1 DEF LocalType, W
<1>5. ASSUME NEW k \in Nat
      PROVE  Locals(l.word, k) \in LocalType
  BY <1>2 DEF LocalType, Locals, W
<1> QED
  BY <1>2, <1>3, <1>4, <1>5 DEF W

\* What SharedRight says of a table.
LEMMA TableIs ==
  ASSUME SharedRight
  PROVE  /\ \A m \in 1..Len(tables) :
              /\ tables[m] \in TableType /\ tables[m].entries \in 1..Len(arrays)
              /\ tables[m].entries \in Nat /\ tables[m].capacity \in Nat \ {0}
              /\ tables[m].length \in Nat
         /\ map \in 0..Len(tables) /\ map \in Nat /\ Len(tables) \in Nat /\ Len(arrays) \in Nat
<1>1. ASSUME NEW m \in 1..Len(tables)
      PROVE  tables[m] \in TableType
  BY DEF SharedRight
<1>2. Len(tables) \in Nat /\ Len(arrays) \in Nat
  BY DEF SharedRight
<1>3. \A table \in TableType : table.entries \in Nat /\ table.capacity \in Nat \ {0}
                              /\ table.length \in Nat
  BY DEF TableType
<1>4. /\ \A m \in 1..Len(tables) : tables[m].entries \in 1..Len(arrays)
      /\ map \in 0..Len(tables)
  BY DEF SharedRight
<1> QED
  BY <1>1, <1>2, <1>3, <1>4

LEMMA HashIs ==
  ASSUME IndexInside, NEW w \in Words \union ValidWords, NEW c \in Nat \ {0}
  PROVE  HashIndex(w, c) \in Slots(c) /\ HashIndex(w, c) \in Nat
<1>1. HashIndex(w, c) \in 0..(c - 1)
  BY DEF IndexInside
<1> QED
  BY <1>1 DEF Slots

-----------------------------------------------------------------------------

LEMMA TypeInit == ASSUME ValidMapAssumption, MapInit PROVE TypeInv
<1> USE DEF MapInit
<1>1. SharedRight
  BY DEF SharedRight
<1>2. Locals(NoWord, 0) \in LocalType
  BY DEF Locals, LocalType
<1>3. HandsRight("idle", Locals(NoWord, 0))
  BY DEF HandsRight, Hands, Places, Filling, Expanding, Probing
<1>4. "idle" \in Places
  BY DEF Places
<1>5. /\ at \in [Threads -> Places] /\ local \in [Threads -> LocalType]
      /\ \A t \in Threads : HandsRight(at[t], local[t])
  BY <1>2, <1>3, <1>4
<1>6. requests \in 0..MaxRequests
  BY DEF ValidMapAssumption
<1> QED
  BY <1>1, <1>5, <1>6 DEF TypeInv

\* A step of thread t, which comes to p with l in its hands, when tables and arrays are
\* right after it and none has gone.
LEMMA Frame ==
  ASSUME TypeInv, NEW t \in Threads, NEW p \in Places, NEW l \in LocalType,
         at' = [at EXCEPT ![t] = p], local' = [local EXCEPT ![t] = l],
         SharedRight', Len(tables) =< Len(tables'), Len(arrays) =< Len(arrays'),
         map # 0 => map' # 0,
         Hands(p, l, map', Len(tables'), Len(arrays')), crashed' \in BOOLEAN, requests' \in 0..MaxRequests,
         overlapped' \in [Threads -> BOOLEAN],
         verdict' \in [Threads -> {"none", "valid", "not_allowed"}]
  PROVE  TypeInv'
<1>1. at' \in [Threads -> Places] /\ local' \in [Threads -> LocalType]
  BY DEF TypeInv
<1>2. HandsRight(at[t], local[t])'
  <2>1. at'[t] = p /\ local'[t] = l
    BY DEF TypeInv
  <2> QED
    BY <2>1 DEF HandsRight, Hands
<1>3. ASSUME NEW u \in Threads, u # t
      PROVE  HandsRight(at[u], local[u])'
  <2>1. at'[u] = at[u] /\ local'[u] = local[u]
    BY <1>3 DEF TypeInv
  <2>2. HandsRight(at[u], local[u])
    BY DEF TypeInv
  <2>3. Len(tables) \in Nat /\ Len(arrays) \in Nat /\ Len(tables') \in Nat /\ Len(arrays') \in Nat
    BY DEF TypeInv, SharedRight
  <2> QED
    BY <2>1, <2>2, <2>3 DEF HandsRight, Hands
<1> QED
  BY <1>1, <1>2, <1>3 DEF TypeInv

\* Steps that change no more than what one thread has in its hands.
LEMMA LocalStep ==
  ASSUME ValidMapAssumption, IndexInside, TypeInv, NEW t \in Threads,
         \/ NextWord(t) \/ EnterSet(t) \/ FetchEntries(t) \/ ReadLength(t)
         \/ EndMove(t) \/ SetAstray(t) \/ EnterGet(t) \/ Look(t) \/ LookAstray(t)
  PROVE  TypeInv'
<1> DEFINE to(p, l) == /\ p \in Places /\ l \in LocalType /\ HandsRight(p, l)
                       /\ at' = [at EXCEPT ![t] = p] /\ local' = [local EXCEPT ![t] = l]
                       /\ UNCHANGED <<shared, requests, overlapped>>
                       /\ verdict' \in [Threads -> {"none", "valid", "not_allowed"}]
<1>1. ASSUME NEW p, NEW l, to(p, l)
      PROVE  TypeInv'
  <2>1. /\ UNCHANGED <<map, tables, arrays, freed, crashed, requests, overlapped>>
    BY <1>1 DEF shared
  <2>2. Len(tables) \in Nat /\ Len(arrays) \in Nat
    BY DEF TypeInv, SharedRight
  <2>3. SharedRight'
    BY <2>1 DEF TypeInv, SharedRight
  <2>4. Hands(p, l, map', Len(tables'), Len(arrays'))
    BY <1>1, <2>1 DEF HandsRight, Hands
  <2>5. /\ crashed' \in BOOLEAN /\ requests' \in 0..MaxRequests
        /\ overlapped' \in [Threads -> BOOLEAN]
    BY <2>1 DEF TypeInv
  <2>6. /\ p \in Places /\ l \in LocalType
        /\ at' = [at EXCEPT ![t] = p] /\ local' = [local EXCEPT ![t] = l]
        /\ verdict' \in [Threads -> {"none", "valid", "not_allowed"}]
    BY <1>1
  <2>7. Len(tables) =< Len(tables') /\ Len(arrays) =< Len(arrays') /\ (map # 0 => map' # 0)
    BY <2>1, <2>2
  <2> HIDE DEF to
  <2> QED
    BY <2>3, <2>4, <2>5, <2>6, <2>7, Frame
<1> HIDE DEF to
<1>2. /\ at[t] \in Places /\ local[t] \in LocalType /\ HandsRight(at[t], local[t])
      /\ at \in [Threads -> Places] /\ local \in [Threads -> LocalType]
      /\ verdict \in [Threads -> {"none", "valid", "not_allowed"}]
      /\ Len(Valid) \in Nat
  BY DEF TypeInv, ValidMapAssumption
<1>3. /\ \A m \in 1..Len(tables) :
           /\ tables[m] \in TableType /\ tables[m].entries \in 1..Len(arrays)
           /\ tables[m].entries \in Nat /\ tables[m].capacity \in Nat \ {0}
           /\ tables[m].length \in Nat
      /\ map \in 0..Len(tables) /\ map \in Nat /\ Len(tables) \in Nat
      /\ (Len(tables) # 0 => map # 0)
  BY TableIs DEF TypeInv, SharedRight
<1>4. /\ "idle" \in Places /\ "next" \in Places /\ "set" \in Places /\ "fetch" \in Places /\ "probe" \in Places
      /\ "count" \in Places /\ "length" \in Places /\ "get" \in Places /\ "look" \in Places
      /\ "expand" \in Places /\ "free" \in Places
  BY DEF Places
<1>5. local' = local => local' = [local EXCEPT ![t] = local[t]]
  BY <1>2
<1>6. at' = at => at' = [at EXCEPT ![t] = at[t]]
  BY <1>2
<1> USE DEF At, Goto, HandsRight, Hands, Filling, Expanding, Probing, Places
<1>7. CASE NextWord(t)
  <2> DEFINE l == [local[t] EXCEPT !.table = map]
  <2>1. l \in LocalType
    BY <1>2, <1>3, LocalIs
  <2>2. local' = [local EXCEPT ![t] = l]
    BY <1>2, <1>7 DEF NextWord
  <2>3. l.table = map /\ l.n = local[t].n /\ map # 0 /\ local[t].n # 0
        /\ l.word = local[t].word /\ local[t].word \in Words
    BY <1>2, <1>7 DEF NextWord, LocalType
  <2>4. HandsRight("get", l)
    BY <1>2, <1>3, <2>3
  <2>5. CASE Goto(t, "set") /\ local[t].n =< Len(Valid)
    <3>1. HandsRight("set", l)
      <4>1. local[t].n \in Nat
        BY <1>2, LocalIs
      <4> QED
        BY <1>2, <1>3, <2>3, <2>5, <4>1
    <3>2. to("set", l)
      BY <1>2, <1>4, <1>7, <2>1, <2>2, <2>5, <3>1 DEF NextWord, to
    <3> QED
      BY <1>1, <3>2
  <2>6. CASE Goto(t, "get")
    <3>1. to("get", l)
      BY <1>2, <1>4, <1>7, <2>1, <2>2, <2>4, <2>6 DEF NextWord, to
    <3> QED
      BY <1>1, <3>1
  <2> QED
    BY <1>7, <2>5, <2>6 DEF NextWord
<1>8. CASE EnterSet(t)
  <2>1. HandsRight("fetch", local[t]) /\ HandsRight("expand", local[t])
    BY <1>2, <1>8 DEF EnterSet
  <2>2. to("fetch", local[t]) \/ to("expand", local[t])
    BY <1>2, <1>4, <1>5, <1>8, <2>1 DEF EnterSet, to
  <2> QED
    BY <1>1, <2>2
<1>9. CASE FetchEntries(t)
  <2> DEFINE l == [local[t] EXCEPT !.array = Table(t).entries, !.capacity = Table(t).capacity,
                                   !.slot = HashIndex(Word(t), Table(t).capacity)]
  <2>1. local[t].table \in 1..Len(tables) /\ local[t].n \in 1..Len(Valid)
        /\ local[t].word \in Words
    BY <1>2, <1>9 DEF FetchEntries
  <2>2. Word(t) \in ValidWords
    BY <2>1 DEF Word, ValidWords
  <2>3. HashIndex(Word(t), Table(t).capacity) \in Nat
    BY <1>3, <2>1, <2>2, HashIs DEF Table
  <2>4. l \in LocalType
    BY <1>2, <1>3, <2>1, <2>3, LocalIs DEF Table
  <2>5. local' = [local EXCEPT ![t] = l]
    BY <1>2, <1>9 DEF FetchEntries
  <2>6. l.array = Table(t).entries /\ l.n = local[t].n /\ l.table = local[t].table
        /\ l.word = local[t].word
    BY <1>2 DEF LocalType
  <2>7. HandsRight("probe", l)
    BY <1>3, <2>1, <2>6 DEF Table
  <2>8. to("probe", l)
    BY <1>2, <1>4, <1>9, <2>4, <2>5, <2>7 DEF FetchEntries, to
  <2> QED
    BY <1>1, <2>8
<1>10. CASE ReadLength(t)
  <2> DEFINE l == [local[t] EXCEPT !.length = Table(t).length]
  <2>1. local[t].table \in 1..Len(tables) /\ HandsRight("count", local[t])
    BY <1>2, <1>10 DEF ReadLength
  <2>2. l \in LocalType
    BY <1>2, <1>3, <2>1, LocalIs DEF Table
  <2>3. local' = [local EXCEPT ![t] = l]
    BY <1>2, <1>10 DEF ReadLength
  <2>4. l.array = local[t].array /\ l.n = local[t].n /\ l.table = local[t].table
        /\ l.word = local[t].word
    BY <1>2 DEF LocalType
  <2>5. HandsRight("length", l)
    BY <2>1, <2>4
  <2>6. to("length", l)
    BY <1>2, <1>4, <1>10, <2>2, <2>3, <2>5 DEF ReadLength, to
  <2> QED
    BY <1>1, <2>6
<1>11. CASE EndMove(t)
  <2>1. HandsRight("free", local[t])
    BY <1>2, <1>11 DEF EndMove
  <2>2. to("free", local[t])
    BY <1>2, <1>4, <1>5, <1>11, <2>1 DEF EndMove, to, shared
  <2> QED
    BY <1>1, <2>2
<1>12. CASE SetAstray(t)
  <2> DEFINE l == Locals(local[t].word, local[t].n + 1)
  <2>1. HandsRight(at[t], local[t]) /\ at[t] \in {"probe", "key", "value"}
    BY <1>2, <1>12 DEF SetAstray
  <2>2. local[t].n \in Nat /\ local[t].n + 1 \in Nat /\ l \in LocalType
    <3>1. local[t].n \in Nat
      BY <1>2, LocalIs
    <3>2. local[t].n + 1 \in Nat
      BY <3>1
    <3>3. \A k \in Nat : Locals(local[t].word, k) \in LocalType
      BY <1>2, LocalIs
    <3> QED
      BY <3>1, <3>2, <3>3
  <2>3. l.n = local[t].n + 1 /\ l.word = local[t].word
    BY DEF Locals
  <2>4. HandsRight("next", l) /\ HandsRight("count", local[t])
    BY <1>3, <2>1, <2>2, <2>3
  <2>5. to("next", l) \/ to("count", local[t])
    BY <1>2, <1>4, <1>5, <1>12, <2>2, <2>4 DEF SetAstray, SetReturns, to
  <2> QED
    BY <1>1, <2>5
<1>13. CASE EnterGet(t)
  <2> DEFINE l == [local[t] EXCEPT !.slot = HashIndex(local[t].word, Table(t).capacity)]
  <2>1. local[t].table \in 1..Len(tables) /\ local[t].word \in Words
    BY <1>2, <1>13 DEF EnterGet
  <2>2. HashIndex(local[t].word, Table(t).capacity) \in Nat
    BY <1>3, <2>1, HashIs DEF Table
  <2>3. l \in LocalType
    BY <1>2, <2>2, LocalIs
  <2>4. local' = [local EXCEPT ![t] = l]
    BY <1>2, <1>13 DEF EnterGet
  <2>5. l.table = local[t].table
        /\ l.word = local[t].word
    BY <1>2 DEF LocalType
  <2>6. HandsRight("look", l)
    BY <2>1, <2>5
  <2>7. to("look", l)
    BY <1>2, <1>4, <1>13, <2>3, <2>4, <2>6 DEF EnterGet, to
  <2> QED
    BY <1>1, <2>7
<1>14. ASSUME NEW v \in {"valid", "not_allowed"}, Answer(t, v),
              UNCHANGED <<shared, requests, overlapped>>
       PROVE  TypeInv'
  <2> DEFINE l == Locals(local[t].word, 0)
  <2>1. l \in LocalType /\ HandsRight("idle", l)
    BY <1>2, LocalIs
  <2>2. to("idle", l)
    BY <1>2, <1>4, <1>14, <2>1 DEF Answer, to
  <2> QED
    BY <1>1, <2>2
<1>15. CASE Look(t)
  <2> DEFINE l == [local[t] EXCEPT !.slot = NextSlot(@, Table(t).capacity)]
  <2>1. NextSlot(local[t].slot, Table(t).capacity) \in Nat
    <3>1. local[t].slot \in Nat
      BY <1>2, LocalIs
    <3> QED
      BY <3>1 DEF NextSlot
  <2>2. l \in LocalType
    BY <1>2, <2>1, LocalIs
  <2>3. HandsRight("look", l)
    <3>1. local[t].table \in 1..Len(tables) /\ local[t].word \in Words
      BY <1>2, <1>15 DEF Look
    <3>2. l.table = local[t].table /\ l.word = local[t].word
      BY <1>2 DEF LocalType
    <3> QED
      BY <3>1, <3>2
  <2>4. CASE /\ local' = [local EXCEPT ![t].slot = NextSlot(@, Table(t).capacity)]
             /\ UNCHANGED <<at, verdict>>
    <3>1. local' = [local EXCEPT ![t] = l]
      BY <1>2, <2>4
    <3>2. to("look", l)
      BY <1>2, <1>4, <1>6, <1>15, <2>2, <2>3, <2>4, <3>1 DEF Look, to
    <3> QED
      BY <1>1, <3>2
  <2>5. CASE \E v \in {"valid", "not_allowed"} : Answer(t, v)
    BY <1>14, <1>15, <2>5 DEF Look
  <2> QED
    BY <1>15, <2>4, <2>5 DEF Look
<1>16. CASE LookAstray(t)
  BY <1>14, <1>16 DEF LookAstray
<1> QED
  BY <1>7, <1>8, <1>9, <1>10, <1>11, <1>12, <1>13, <1>15, <1>16

\* Steps that change the entries of one array, or make a new one of thread t.
LEMMA ArrayStep ==
  ASSUME ValidMapAssumption, IndexInside, TypeInv, NEW t \in Threads,
         ProbeSet(t) \/ StoreKey(t) \/ StoreValue(t) \/ Expand(t) \/ Move(t)
  PROVE  TypeInv'
<1> DEFINE after(p, l) == Hands(p, l, map', Len(tables'), Len(arrays'))
           to(p, l) == /\ p \in Places /\ l \in LocalType /\ after(p, l)
                       /\ at' = [at EXCEPT ![t] = p] /\ local' = [local EXCEPT ![t] = l]
                       /\ UNCHANGED <<map, tables, freed, crashed, requests, overlapped, verdict>>
                       /\ arrays' \in Seq(Arrays) /\ Len(arrays) =< Len(arrays')
<1>1. ASSUME NEW p, NEW l, to(p, l)
      PROVE  TypeInv'
  <2>1. UNCHANGED <<map, tables, freed, crashed, requests, overlapped, verdict>>
        /\ arrays' \in Seq(Arrays) /\ Len(arrays) =< Len(arrays') /\ Len(arrays') \in Nat
    BY <1>1
  <2>2. Len(tables) \in Nat /\ Len(arrays) \in Nat
    BY DEF TypeInv, SharedRight
  <2>3. SharedRight'
    BY <2>1, <2>2 DEF TypeInv, SharedRight
  <2>4. /\ crashed' \in BOOLEAN /\ requests' \in 0..MaxRequests
        /\ overlapped' \in [Threads -> BOOLEAN]
        /\ verdict' \in [Threads -> {"none", "valid", "not_allowed"}]
    BY <2>1 DEF TypeInv
  <2>5. /\ p \in Places /\ l \in LocalType /\ after(p, l)
        /\ at' = [at EXCEPT ![t] = p] /\ local' = [local EXCEPT ![t] = l]
    BY <1>1
  <2>6. Len(tables) =< Len(tables') /\ (map # 0 => map' # 0)
    BY <2>1, <2>2
  <2> HIDE DEF to
  <2> QED
    BY <2>1, <2>3, <2>4, <2>5, <2>6, Frame
<1> HIDE DEF to
<1>2. /\ at[t] \in Places /\ local[t] \in LocalType /\ HandsRight(at[t], local[t])
      /\ at \in [Threads -> Places] /\ local \in [Threads -> LocalType]
      /\ arrays \in Seq(Arrays) /\ Len(arrays) \in Nat /\ Len(Valid) \in Nat
  BY DEF TypeInv, SharedRight, ValidMapAssumption
<1>3. /\ \A m \in 1..Len(tables) :
           tables[m].entries \in 1..Len(arrays) /\ tables[m].capacity \in Nat \ {0}
      /\ Len(tables) \in Nat /\ (Len(tables) # 0 => map # 0)
  BY TableIs DEF TypeInv, SharedRight
<1>4. local' = local => local' = [local EXCEPT ![t] = local[t]]
  BY <1>2
<1>5. at' = at => at' = [at EXCEPT ![t] = at[t]]
  BY <1>2
<1>6. /\ "next" \in Places /\ "count" \in Places /\ "probe" \in Places /\ "value" \in Places
      /\ "move" \in Places
  BY DEF Places
<1>7. \A a \in 1..Len(arrays) : \A e \in Arrays :
         [arrays EXCEPT ![a] = e] \in Seq(Arrays) /\ Len([arrays EXCEPT ![a] = e]) = Len(arrays)
  BY <1>2, PutIs
<1>8. ASSUME NEW p, NEW l, HandsRight(p, l), UNCHANGED <<map, tables>>, Len(arrays) =< Len(arrays'),
             Len(arrays') \in Nat
      PROVE  after(p, l)
  BY <1>2, <1>8 DEF HandsRight, Hands
\* Where ht_set returns.
<1>9. ASSUME SetReturns(t), at[t] \in {"probe", "value"},
             UNCHANGED <<map, tables, freed, crashed, verdict, requests, overlapped>>,
             arrays' \in Seq(Arrays), Len(arrays') = Len(arrays)
      PROVE  TypeInv'
  <2> DEFINE l == Locals(local[t].word, local[t].n + 1)
  <2>1. local[t].n \in Nat /\ local[t].n + 1 \in Nat
    <3>1. local[t].n \in Nat
      BY <1>2, LocalIs
    <3> QED
      BY <3>1
  <2>2. l \in LocalType
    <3>1. \A k \in Nat : Locals(local[t].word, k) \in LocalType
      BY <1>2, LocalIs
    <3> QED
      BY <2>1, <3>1
  <2>3. l.n = local[t].n + 1 /\ l.word = local[t].word
    BY DEF Locals
  <2>4. HandsRight("next", l)
    BY <1>2, <1>3, <1>9, <2>1, <2>3 DEF HandsRight, Hands, Filling, Expanding, Probing, Places
  <2>5. after("next", l)
    BY <1>2, <1>8, <1>9, <2>4
  <2>6. to("next", l)
    BY <1>2, <1>6, <1>9, <2>2, <2>5 DEF SetReturns, Goto, to
  <2> QED
    BY <1>1, <2>6
<1>10. CASE ProbeSet(t)
  <2> DEFINE a == local[t].array
             s == local[t].slot
  <2>1. at[t] = "probe" /\ a \in 1..Len(arrays)
        /\ UNCHANGED <<map, tables, freed, crashed, verdict, requests, overlapped>>
    BY <1>2, <1>10 DEF ProbeSet, At, HandsRight, Hands, Probing
  <2>2. arrays[a] \in Arrays
    BY <1>2, <2>1
  <2>3. CASE Goto(t, "count") /\ UNCHANGED <<arrays, local>>
    <3>1. HandsRight("count", local[t])
      BY <1>2, <2>1 DEF HandsRight, Hands, Filling, Expanding, Probing, Places
    <3>2. after("count", local[t])
      BY <1>2, <1>8, <2>1, <2>3, <3>1
    <3>3. to("count", local[t])
      BY <1>2, <1>4, <1>6, <2>1, <2>3, <3>2 DEF Goto, to
    <3> QED
      BY <1>1, <3>3
  <2>4. CASE arrays' = [arrays EXCEPT ![a][s].stored = TRUE] /\ SetReturns(t)
    <3>1. [arrays[a] EXCEPT ![s].stored = TRUE] \in Arrays
      BY <2>2, StoreIs
    <3>2. arrays' = [arrays EXCEPT ![a] = [arrays[a] EXCEPT ![s].stored = TRUE]]
      BY <2>4
    <3>3. arrays' \in Seq(Arrays) /\ Len(arrays') = Len(arrays)
      BY <1>7, <2>1, <3>1, <3>2
    <3> QED
      BY <1>9, <2>1, <2>4, <3>3
  <2>5. CASE /\ local' = [local EXCEPT ![t].slot = NextSlot(s, local[t].capacity)]
             /\ UNCHANGED <<arrays, at>>
    <3> DEFINE l == [local[t] EXCEPT !.slot = NextSlot(s, local[t].capacity)]
    <3>1. NextSlot(s, local[t].capacity) \in Nat
      <4>1. s \in Nat
        BY <1>2, LocalIs
      <4> QED
        BY <4>1 DEF NextSlot
    <3>2. l \in LocalType
      BY <1>2, <3>1, LocalIs
    <3>3. /\ l.n = local[t].n /\ l.table = local[t].table /\ l.array = local[t].array
          /\ l.word = local[t].word
      BY <1>2 DEF LocalType
    <3>4. HandsRight("probe", l)
      BY <1>2, <2>1, <3>3 DEF HandsRight, Hands, Filling, Expanding, Probing, Places
    <3>5. after("probe", l)
      BY <1>2, <1>8, <2>1, <2>5, <3>4
    <3>6. local' = [local EXCEPT ![t] = l]
      BY <1>2, <2>5
    <3>7. to("probe", l)
      BY <1>2, <1>5, <1>6, <2>1, <2>5, <3>2, <3>5, <3>6 DEF to
    <3> QED
      BY <1>1, <3>7
  <2> QED
    BY <1>10, <2>3, <2>4, <2>5 DEF ProbeSet
<1>11. CASE StoreKey(t)
  <2> DEFINE a == local[t].array
             s == local[t].slot
  <2>1. /\ at[t] = "key" /\ a \in 1..Len(arrays) /\ local[t].n \in 1..Len(Valid)
        /\ UNCHANGED <<map, tables, freed, crashed, local, verdict, requests, overlapped>>
        /\ arrays' = [arrays EXCEPT ![a][s].key = Word(t)]
    BY <1>2, <1>11 DEF StoreKey, At, HandsRight, Hands, Probing, Filling
  <2>2. Word(t) \in ValidWords
    BY <2>1 DEF Word, ValidWords
  <2>3. [arrays[a] EXCEPT ![s].key = Word(t)] \in Arrays
    <3>1. arrays[a] \in Arrays
      BY <1>2, <2>1
    <3> QED
      BY <2>2, <3>1, StoreIs
  <2>4. arrays' = [arrays EXCEPT ![a] = [arrays[a] EXCEPT ![s].key = Word(t)]]
    BY <2>1
  <2>5. arrays' \in Seq(Arrays) /\ Len(arrays') = Len(arrays)
    BY <1>7, <2>1, <2>3, <2>4
  <2>6. HandsRight("value", local[t])
    BY <1>2, <2>1 DEF HandsRight, Hands, Filling, Expanding, Probing, Places
  <2>7. after("value", local[t])
    BY <1>2, <1>8, <2>1, <2>5, <2>6
  <2>8. to("value", local[t])
    BY <1>2, <1>4, <1>6, <1>11, <2>1, <2>5, <2>7 DEF StoreKey, Goto, to
  <2> QED
    BY <1>1, <2>8
<1>12. CASE StoreValue(t)
  <2> DEFINE a == local[t].array
             s == local[t].slot
  <2>1. /\ at[t] = "value" /\ a \in 1..Len(arrays)
        /\ UNCHANGED <<map, tables, freed, crashed, verdict, requests, overlapped>>
        /\ arrays' = [arrays EXCEPT ![a][s].stored = TRUE] /\ SetReturns(t)
    BY <1>2, <1>12 DEF StoreValue, At, HandsRight, Hands, Probing
  <2>2. [arrays[a] EXCEPT ![s].stored = TRUE] \in Arrays
    <3>1. arrays[a] \in Arrays
      BY <1>2, <2>1
    <3> QED
      BY <3>1, StoreIs
  <2>3. arrays' = [arrays EXCEPT ![a] = [arrays[a] EXCEPT ![s].stored = TRUE]]
    BY <2>1
  <2>4. arrays' \in Seq(Arrays) /\ Len(arrays') = Len(arrays)
    BY <1>7, <2>1, <2>2, <2>3
  <2> QED
    BY <1>9, <2>1, <2>4
<1>13. CASE Expand(t)
  <2> DEFINE c == 2 * Table(t).capacity
             l == [local[t] EXCEPT !.array = Len(arrays) + 1, !.capacity = c, !.slot = 0]
  <2>1. /\ at[t] = "expand" /\ local[t].table \in 1..Len(tables)
        /\ UNCHANGED <<map, tables, freed, crashed, verdict, requests, overlapped>>
        /\ arrays' = Append(arrays, EmptyArray(c))
        /\ at' = [at EXCEPT ![t] = "move"]
    BY <1>2, <1>13 DEF Expand, At, Goto, HandsRight, Hands, Places
  <2>2. c \in Nat \ {0}
    BY <1>3, <2>1 DEF Table
  <2>3. EmptyArray(c) \in Arrays
    BY <2>2, EmptyIs
  <2>4. arrays' \in Seq(Arrays) /\ Len(arrays') = Len(arrays) + 1
    BY <1>2, <2>1, <2>3, AppendIs
  <2>5. l \in LocalType
    <3>1. Len(arrays) + 1 \in Nat /\ c \in Nat /\ 0 \in Nat
      BY <1>2, <2>2
    <3>2. \A x, y, z \in Nat :
            [local[t] EXCEPT !.array = x, !.capacity = y, !.slot = z] \in LocalType
      BY <1>2, LocalIs
    <3> HIDE DEF c
    <3> QED
      BY <3>1, <3>2
  <2>6. /\ l.n = local[t].n /\ l.table = local[t].table /\ l.array = Len(arrays) + 1
        /\ l.word = local[t].word /\ l.capacity = c
    BY <1>2 DEF LocalType
  <2>7. after("move", l)
    BY <1>2, <2>1, <2>2, <2>4, <2>6 DEF HandsRight, Hands, Filling, Expanding, Probing, Places
  <2>8. local' = [local EXCEPT ![t] = l]
    BY <1>2, <1>13 DEF Expand
  <2>9. to("move", l)
    <3>1. Len(arrays) =< Len(arrays')
      BY <1>2, <2>4
    <3> HIDE DEF l
    <3> QED
      BY <1>6, <2>1, <2>4, <2>5, <2>7, <2>8, <3>1 DEF to
  <2> QED
    BY <1>1, <2>9
<1>14. CASE Move(t)
  <2> DEFINE l     == [local[t] EXCEPT !.slot = @ + 1]
             a     == local[t].array
             from  == arrays[Table(t).entries]
             entry == from[local[t].slot]
  <2>1. /\ at[t] = "move" /\ local[t].table \in 1..Len(tables) /\ a \in 1..Len(arrays)
        /\ UNCHANGED <<map, tables, freed, crashed, at, verdict, requests, overlapped>>
        /\ local' = [local EXCEPT ![t].slot = @ + 1]
    BY <1>2, <1>14 DEF Move, At, HandsRight, Hands, Places, Expanding
  <2>2. arrays[a] \in Arrays /\ from \in Arrays
    BY <1>2, <1>3, <2>1 DEF Table
  <2>3. arrays' \in Seq(Arrays) /\ Len(arrays') = Len(arrays)
    <3>1. CASE UNCHANGED arrays
      BY <1>2, <3>1
    <3>2. CASE /\ local[t].slot \in DOMAIN from
               /\ arrays' = [arrays EXCEPT
                    ![a][Place(arrays[a], local[t].capacity, entry.key)] = entry]
      <4> DEFINE x == Place(arrays[a], local[t].capacity, entry.key)
      <4>1. entry \in Entry
        BY <2>2, <3>2 DEF Arrays
      <4>2. [arrays[a] EXCEPT ![x] = entry] \in Arrays
        BY <2>2, <4>1, StoreIs
      <4>3. arrays' = [arrays EXCEPT ![a] = [arrays[a] EXCEPT ![x] = entry]]
        BY <3>2
      <4> QED
        BY <1>7, <2>1, <4>2, <4>3
    <3> QED
      BY <1>14, <3>1, <3>2 DEF Move
  <2>4. l \in LocalType
    <3>1. local[t].slot + 1 \in Nat
      <4>1. local[t].slot \in Nat
        BY <1>2, LocalIs
      <4> QED
        BY <4>1
    <3> QED
      BY <1>2, <3>1, LocalIs
  <2>5. /\ l.n = local[t].n /\ l.table = local[t].table /\ l.array = local[t].array
        /\ l.word = local[t].word /\ l.capacity = local[t].capacity
    BY <1>2 DEF LocalType
  <2>6. HandsRight("move", l)
    BY <1>2, <2>1, <2>5 DEF HandsRight, Hands, Filling, Expanding, Probing, Places
  <2>7. after("move", l)
    BY <1>2, <1>8, <2>1, <2>3, <2>6
  <2>8. local' = [local EXCEPT ![t] = l]
    BY <1>2, <2>1
  <2>9. to("move", l)
    BY <1>2, <1>5, <1>6, <2>1, <2>3, <2>4, <2>7, <2>8 DEF to
  <2> QED
    BY <1>1, <2>9
<1> QED
  BY <1>10, <1>11, <1>12, <1>13, <1>14

\* The other steps: they change the tables, what is freed or the requests.
LEMMA TableStep ==
  ASSUME ValidMapAssumption, IndexInside, TypeInv, NEW t \in Threads,
         \/ \E w \in Words : Start(t, w)
         \/ CreateMap(t) \/ WriteLength(t) \/ FreeEntries(t)
         \/ PublishEntries(t) \/ PublishCapacity(t)
  PROVE  TypeInv'
<1> DEFINE after(p, l) == Hands(p, l, map', Len(tables'), Len(arrays'))
<1>1. /\ at[t] \in Places /\ local[t] \in LocalType /\ HandsRight(at[t], local[t])
      /\ at \in [Threads -> Places] /\ local \in [Threads -> LocalType]
      /\ arrays \in Seq(Arrays) /\ Len(arrays) \in Nat /\ Len(Valid) \in Nat
      /\ tables \in Seq(TableType) /\ Len(tables) \in Nat /\ freed \subseteq 1..Len(arrays)
  BY DEF TypeInv, SharedRight, ValidMapAssumption
<1>2. /\ \A m \in 1..Len(tables) :
           tables[m].entries \in 1..Len(arrays) /\ tables[m].capacity \in Nat \ {0}
      /\ map \in 0..Len(tables) /\ (Len(tables) # 0 => map # 0)
  BY TableIs DEF TypeInv, SharedRight
<1>3. /\ crashed \in BOOLEAN /\ requests \in 0..MaxRequests
      /\ overlapped \in [Threads -> BOOLEAN]
      /\ verdict \in [Threads -> {"none", "valid", "not_allowed"}]
  BY DEF TypeInv
<1>4. /\ "create" \in Places /\ "next" \in Places /\ "key" \in Places /\ "entries" \in Places
      /\ "capacity" \in Places /\ "fetch" \in Places
  BY DEF Places
<1>5. local' = local => local' = [local EXCEPT ![t] = local[t]]
  BY <1>1
<1>6. at' = at => at' = [at EXCEPT ![t] = at[t]]
  BY <1>1
\* One table is changed, and its entries are an array that there is.
<1>7. ASSUME NEW m \in 1..Len(tables), NEW table \in TableType, table.entries \in 1..Len(arrays),
             tables' = [tables EXCEPT ![m] = table], UNCHANGED <<map, arrays>>,
             freed' \subseteq 1..Len(arrays)
      PROVE  SharedRight' /\ Len(tables') = Len(tables)
  <2>1. tables' \in Seq(TableType) /\ Len(tables') = Len(tables)
    BY <1>1, <1>7, PutIs
  <2>2. \A k \in 1..Len(tables) : tables'[k].entries \in 1..Len(arrays)
    BY <1>1, <1>2, <1>7
  <2> QED
    BY <1>1, <1>2, <1>7, <2>1, <2>2 DEF SharedRight
\* A thread that changes a table, or nothing but what is freed, keeps its local variables.
<1>8. ASSUME NEW p \in Places, UNCHANGED <<map, arrays, local, verdict, requests, overlapped>>,
             SharedRight', Len(tables') = Len(tables), crashed' \in BOOLEAN,
             HandsRight(p, local[t]), at' = [at EXCEPT ![t] = p]
      PROVE  TypeInv'
  <2> DEFINE l == local[t]
  <2>1. after(p, l)
    BY <1>8 DEF HandsRight
  <2>2. l \in LocalType /\ local' = [local EXCEPT ![t] = l]
    BY <1>1, <1>8
  <2>3. /\ requests' \in 0..MaxRequests /\ overlapped' \in [Threads -> BOOLEAN]
        /\ verdict' \in [Threads -> {"none", "valid", "not_allowed"}]
    BY <1>3, <1>8
  <2>4. Len(tables) =< Len(tables') /\ Len(arrays) =< Len(arrays') /\ (map # 0 => map' # 0)
    BY <1>1, <1>8
  <2> HIDE DEF l
  <2> QED
    BY <1>8, <2>1, <2>2, <2>3, <2>4, Frame
<1>9. ASSUME NEW w \in Words, Start(t, w)
      PROVE  TypeInv'
  <2> DEFINE l == Locals(w, 0)
  <2>1. l \in LocalType /\ l.word = w
    BY DEF Locals, LocalType
  <2>2. /\ UNCHANGED <<map, tables, arrays, freed, crashed>>
        /\ at' = [at EXCEPT ![t] = "create"] /\ local' = [local EXCEPT ![t] = l]
        /\ requests' = requests + 1 /\ requests < MaxRequests
        /\ verdict' = [verdict EXCEPT ![t] = "none"]
    BY <1>9 DEF Start, Goto, shared
  <2>3. SharedRight'
    BY <2>2 DEF TypeInv, SharedRight
  <2>4. after("create", l)
    BY <2>1 DEF Hands, Filling, Expanding, Probing, Places
  <2>5. requests' \in 0..MaxRequests
    BY <1>3, <2>2 DEF ValidMapAssumption
  <2>6. overlapped' \in [Threads -> BOOLEAN]
    <3>1. \A u \in Threads : (\E o \in Threads : Busy(o)) \in BOOLEAN
                             /\ (overlapped[u] \/ Busy(u)) \in BOOLEAN
      OBVIOUS
    <3> QED
      BY <1>9, <3>1, Zenon DEF Start
  <2>7. verdict' \in [Threads -> {"none", "valid", "not_allowed"}] /\ crashed' \in BOOLEAN
    BY <1>3, <2>2
  <2>8. Len(tables) =< Len(tables') /\ Len(arrays) =< Len(arrays') /\ (map # 0 => map' # 0)
    BY <1>1, <2>2
  <2> HIDE DEF l
  <2> QED
    BY <1>4, <2>1, <2>2, <2>3, <2>4, <2>5, <2>6, <2>7, <2>8, Frame
<1>10. CASE CreateMap(t)
  <2> DEFINE table == [entries |-> Len(arrays) + 1, capacity |-> InitCap, length |-> 0]
             l     == [local[t] EXCEPT !.n = 1]
  <2>1. /\ arrays' = Append(arrays, EmptyArray(InitCap)) /\ tables' = Append(tables, table)
        /\ map' = Len(tables) + 1 /\ at[t] = "create"
        /\ at' = [at EXCEPT ![t] = "next"] /\ local' = [local EXCEPT ![t] = l]
        /\ UNCHANGED <<freed, crashed, verdict, requests, overlapped>>
    BY <1>1, <1>10 DEF CreateMap, Goto, At
  <2>2. table \in TableType /\ table.entries = Len(arrays) + 1
    BY <1>1 DEF TableType, ValidMapAssumption
  <2>3. EmptyArray(InitCap) \in Arrays
    BY EmptyIs DEF ValidMapAssumption
  <2>4. /\ tables' \in Seq(TableType) /\ Len(tables') = Len(tables) + 1
        /\ \A k \in 1..Len(tables) : tables'[k] = tables[k]
        /\ tables'[Len(tables) + 1] = table
    <3> HIDE DEF table
    <3> QED
      BY <1>1, <2>1, <2>2, AppendIs
  <2>5. arrays' \in Seq(Arrays) /\ Len(arrays') = Len(arrays) + 1
    BY <1>1, <2>1, <2>3, AppendIs
  <2>6. \A k \in 1..Len(tables') : tables'[k].entries \in 1..Len(arrays')
    <3>1. ASSUME NEW k \in 1..Len(tables)
          PROVE  tables'[k].entries \in 1..Len(arrays')
      <4>1. tables[k].entries \in 1..Len(arrays) /\ tables'[k] = tables[k]
        BY <1>2, <2>4
      <4> QED
        BY <1>1, <2>5, <4>1
    <3>2. tables'[Len(tables) + 1].entries \in 1..Len(arrays')
      BY <1>1, <2>2, <2>4, <2>5
    <3> QED
      BY <1>1, <2>4, <3>1, <3>2
  <2>7. SharedRight'
    BY <1>1, <2>1, <2>4, <2>5, <2>6 DEF SharedRight
  <2>8. l \in LocalType
    BY <1>1, LocalIs
  <2>9. l.n = 1 /\ l.word = local[t].word /\ local[t].word \in Words
    BY <1>1, <2>1 DEF LocalType, HandsRight, Hands
  <2>10. after("next", l)
    BY <1>1, <2>1, <2>9 DEF Hands, Filling, Expanding, Probing, Places
  <2>11. Len(tables) =< Len(tables') /\ Len(arrays) =< Len(arrays') /\ (map # 0 => map' # 0)
    BY <1>1, <2>1, <2>4, <2>5
  <2>12. /\ requests' \in 0..MaxRequests /\ overlapped' \in [Threads -> BOOLEAN]
         /\ verdict' \in [Threads -> {"none", "valid", "not_allowed"}] /\ crashed' \in BOOLEAN
    BY <1>3, <2>1
  <2> HIDE DEF l
  <2> QED
    BY <1>4, <2>1, <2>7, <2>8, <2>10, <2>11, <2>12, Frame
<1>11. CASE WriteLength(t)
  <2> DEFINE m == local[t].table
             x == local[t].length + 1
  <2>1. /\ m \in 1..Len(tables) /\ HandsRight("key", local[t])
        /\ tables' = [tables EXCEPT ![m].length = x]
        /\ at' = [at EXCEPT ![t] = "key"]
        /\ UNCHANGED <<map, arrays, freed, crashed, local, verdict, requests, overlapped>>
    BY <1>1, <1>11 DEF WriteLength, At, Goto, HandsRight, Hands, Places, Filling, Expanding, Probing
  <2>2. x \in Nat
    <3>1. local[t].length \in Nat
      BY <1>1, LocalIs
    <3> QED
      BY <3>1
  <2>3. [tables[m] EXCEPT !.length = x] \in TableType
        /\ [tables[m] EXCEPT !.length = x].entries = tables[m].entries
    <3>1. tables[m] \in TableType
      BY <1>1, <2>1
    <3> HIDE DEF x
    <3> QED
      BY <2>2, <3>1 DEF TableType
  <2>4. tables' = [tables EXCEPT ![m] = [tables[m] EXCEPT !.length = x]]
    BY <2>1
  <2>5. SharedRight' /\ Len(tables') = Len(tables)
    <3>1. PICK table : table = [tables[m] EXCEPT !.length = x]
      OBVIOUS
    <3> QED
      BY <1>1, <1>2, <1>7, <2>1, <2>3, <2>4, <3>1
  <2> QED
    BY <1>3, <1>4, <1>8, <2>1, <2>5
<1>12. CASE FreeEntries(t)
  <2>1. /\ local[t].table \in 1..Len(tables) /\ at[t] = "free"
        /\ UNCHANGED <<map, tables, arrays, local, verdict, requests, overlapped>>
    BY <1>1, <1>12 DEF FreeEntries, At, HandsRight, Hands, Places
  <2>2. /\ freed' \subseteq 1..Len(arrays) /\ crashed' \in BOOLEAN
        /\ at' = [at EXCEPT ![t] = "entries"] \/ at' = [at EXCEPT ![t] = "free"]
    BY <1>1, <1>2, <1>3, <1>6, <1>12, <2>1 DEF FreeEntries, Goto, Table
  <2>3. SharedRight'
    BY <2>1, <2>2 DEF TypeInv, SharedRight
  <2>4. HandsRight("entries", local[t]) /\ HandsRight("free", local[t])
    BY <1>1, <2>1 DEF HandsRight, Hands, Places, Filling, Expanding, Probing
  <2> QED
    BY <1>1, <1>4, <1>8, <2>1, <2>2, <2>3, <2>4
<1>13. CASE PublishEntries(t)
  <2> DEFINE m == local[t].table
             a == local[t].array
  <2>1. /\ m \in 1..Len(tables) /\ a \in 1..Len(arrays) /\ HandsRight("capacity", local[t])
        /\ tables' = [tables EXCEPT ![m].entries = a]
        /\ at' = [at EXCEPT ![t] = "capacity"]
        /\ UNCHANGED <<map, arrays, freed, crashed, local, verdict, requests, overlapped>>
    BY <1>1, <1>13
       DEF PublishEntries, At, Goto, HandsRight, Hands, Places, Filling, Expanding, Probing
  <2>2. [tables[m] EXCEPT !.entries = a] \in TableType
        /\ [tables[m] EXCEPT !.entries = a].entries = a
    <3>1. tables[m] \in TableType /\ a \in Nat \ {0}
      BY <1>1, <2>1
    <3> HIDE DEF a
    <3> QED
      BY <3>1 DEF TableType
  <2>3. tables' = [tables EXCEPT ![m] = [tables[m] EXCEPT !.entries = a]]
    BY <2>1
  <2>4. SharedRight' /\ Len(tables') = Len(tables)
    <3>1. PICK table : table = [tables[m] EXCEPT !.entries = a]
      OBVIOUS
    <3> QED
      BY <1>1, <1>7, <2>1, <2>2, <2>3, <3>1
  <2> QED
    BY <1>3, <1>4, <1>8, <2>1, <2>4
<1>14. CASE PublishCapacity(t)
  <2> DEFINE m == local[t].table
             c == local[t].capacity
  <2>1. /\ m \in 1..Len(tables) /\ c # 0 /\ HandsRight("fetch", local[t])
        /\ tables' = [tables EXCEPT ![m].capacity = c]
        /\ at' = [at EXCEPT ![t] = "fetch"]
        /\ UNCHANGED <<map, arrays, freed, crashed, local, verdict, requests, overlapped>>
    BY <1>1, <1>14
       DEF PublishCapacity, At, Goto, HandsRight, Hands, Places, Filling, Expanding, Probing
  <2>2. [tables[m] EXCEPT !.capacity = c] \in TableType
        /\ [tables[m] EXCEPT !.capacity = c].entries = tables[m].entries
    <3>1. tables[m] \in TableType
      BY <1>1, <2>1
    <3>2. c \in Nat
      BY <1>1, LocalIs
    <3> HIDE DEF c
    <3> QED
      BY <2>1, <3>1, <3>2 DEF TableType
  <2>3. tables' = [tables EXCEPT ![m] = [tables[m] EXCEPT !.capacity = c]]
    BY <2>1
  <2>4. SharedRight' /\ Len(tables') = Len(tables)
    <3>1. PICK table : table = [tables[m] EXCEPT !.capacity = c]
      OBVIOUS
    <3> QED
      BY <1>1, <1>2, <1>7, <2>1, <2>2, <2>3, <3>1
  <2> QED
    BY <1>3, <1>4, <1>8, <2>1, <2>4
<1> QED
  BY <1>9, <1>10, <1>11, <1>12, <1>13, <1>14

LEMMA MapTypeStep ==
  ASSUME ValidMapAssumption, IndexInside, TypeInv, [MapNext]_mapVars
  PROVE  TypeInv'
<1>1. CASE UNCHANGED mapVars
  BY <1>1 DEF mapVars, shared, TypeInv, SharedRight, HandsRight
<1>2. ASSUME NEW t \in Threads, Step(t) \/ \E w \in Words : Start(t, w)
      PROVE  TypeInv'
  BY <1>2, LocalStep, ArrayStep, TableStep DEF Step
<1> QED
  BY <1>1, <1>2 DEF MapNext

LEMMA TypeAlways ==
  ASSUME ValidMapAssumption, IndexInside
  PROVE  MapSpec => []TypeInv
<1>1. MapInit => TypeInv
  BY TypeInit
<1>2. TypeInv /\ [MapNext]_mapVars => TypeInv'
  BY MapTypeStep
<1> QED
  BY <1>1, <1>2, PTL DEF MapSpec

LEMMA TypeGives == ASSUME TypeInv PROVE MapTypeOK
<1>1. \A m \in 1..Len(tables) :
        /\ tables[m].entries \in 1..Len(arrays)
        /\ tables[m].capacity \in Nat \ {0}
        /\ tables[m].length \in Nat
  BY TableIs DEF TypeInv
<1>2. ASSUME NEW a \in 1..Len(arrays), NEW s \in DOMAIN arrays[a]
      PROVE  arrays[a][s] \in Entry
  <2>1. arrays[a] \in Arrays
    BY DEF TypeInv, SharedRight
  <2> QED
    BY <2>1 DEF Arrays
<1>3. ASSUME NEW t \in Threads
      PROVE  /\ at[t] \in Filling => local[t].n \in 1..Len(Valid)
             /\ at[t] \in Places \ {"idle", "create", "next"} => local[t].table \in 1..Len(tables)
  BY DEF TypeInv, HandsRight, Hands
<1>4. map \in 0..Len(tables) /\ freed \subseteq 1..Len(arrays)
  BY DEF TypeInv, SharedRight
<1> QED
  BY <1>1, <1>2, <1>3, <1>4 DEF TypeInv, MapTypeOK, Filling

-----------------------------------------------------------------------------

\* One slot more is passed, until the search comes round to where it began.
LEMMA PassedNext ==
  ASSUME ValidMapAssumption, NEW h \in Slots(InitCap), NEW s \in Slots(InitCap)
  PROVE  /\ NextSlot(s, InitCap) \in Slots(InitCap)
         /\ Passed(h, NextSlot(s, InitCap)) \subseteq Passed(h, s) \union {s}
         /\ Passed(h, s) \subseteq Slots(InitCap)
         /\ Passed(h, h) = {}
<1>1. InitCap \in Nat \ {0}
  BY DEF ValidMapAssumption
<1>2. h \in Nat /\ s \in Nat /\ h < InitCap /\ s < InitCap
  BY <1>1 DEF Slots
<1>3. NextSlot(s, InitCap) \in Slots(InitCap)
  BY <1>1, <1>2 DEF Slots, NextSlot
<1>4. CASE s + 1 >= InitCap
  BY <1>1, <1>2, <1>3, <1>4 DEF Slots, NextSlot, Passed
<1>5. CASE s + 1 < InitCap
  BY <1>1, <1>2, <1>3, <1>5 DEF Slots, NextSlot, Passed
<1> QED
  BY <1>1, <1>2, <1>4, <1>5

\* Of two slots, a search that begins at h comes to one before the other.
LEMMA PassedFirst ==
  ASSUME ValidMapAssumption, NEW h \in Slots(InitCap), NEW s \in Slots(InitCap),
         NEW x \in Slots(InitCap), x # s
  PROVE  x \in Passed(h, s) \/ s \in Passed(h, x)
<1>1. /\ InitCap \in Nat \ {0} /\ h \in Nat /\ s \in Nat /\ x \in Nat
      /\ h < InitCap /\ s < InitCap /\ x < InitCap
  BY DEF ValidMapAssumption, Slots
<1> QED
  BY <1>1 DEF Passed

\* The search for w that has come to an empty slot has looked where w could be.
LEMMA NotThere ==
  ASSUME ValidMapAssumption, IndexInside, NEW e, NEW open, EntriesInOrder(e, open),
         NEW w \in Words \union ValidWords, NEW s \in Slots(InitCap),
         Searching(e, w, s), e[s].key = NoWord
  PROVE  \A x \in Slots(InitCap) : e[x].key # w
<1> SUFFICES ASSUME NEW x \in Slots(InitCap), e[x].key = w
             PROVE  FALSE
  OBVIOUS
<1>1. w # NoWord
  BY DEF ValidMapAssumption
<1>2. HashIndex(w, InitCap) \in Slots(InitCap)
  BY HashIs DEF ValidMapAssumption
<1>3. x \notin Passed(HashIndex(w, InitCap), s)
  BY DEF Searching
<1>4. s \in Passed(HashIndex(w, InitCap), x)
  BY <1>1, <1>2, <1>3, PassedFirst
<1>5. e[s].key # NoWord
  BY <1>1, <1>4 DEF EntriesInOrder, Slots
<1> QED
  BY <1>5

\* A slot that is not what the search looks for is passed.
LEMMA SearchOn ==
  ASSUME ValidMapAssumption, IndexInside, NEW e, NEW w \in Words \union ValidWords,
         NEW s, Searching(e, w, s), e[s].key \notin {NoWord, w}
  PROVE  Searching(e, w, NextSlot(s, InitCap))
<1>1. HashIndex(w, InitCap) \in Slots(InitCap) /\ s \in Slots(InitCap)
  BY HashIs DEF ValidMapAssumption, Searching, Slots
<1>2. /\ NextSlot(s, InitCap) \in Slots(InitCap)
      /\ Passed(HashIndex(w, InitCap), NextSlot(s, InitCap))
           \subseteq Passed(HashIndex(w, InitCap), s) \union {s}
  BY <1>1, PassedNext
<1>3. \A j \in Passed(HashIndex(w, InitCap), s) : e[j].key \notin {NoWord, w}
  BY DEF Searching
<1>4. \A j \in Passed(HashIndex(w, InitCap), NextSlot(s, InitCap)) : e[j].key \notin {NoWord, w}
  BY <1>2, <1>3
<1> QED
  BY <1>2, <1>4 DEF Searching, Slots

LEMMA SearchBegins ==
  ASSUME ValidMapAssumption, IndexInside, NEW e, NEW w \in Words \union ValidWords
  PROVE  Searching(e, w, HashIndex(w, InitCap))
<1>1. HashIndex(w, InitCap) \in Slots(InitCap)
  BY HashIs DEF ValidMapAssumption
<1> QED
  BY <1>1, PassedNext DEF Searching, Slots

\* What a store to a slot of the entries e makes of them.
KeyPut(e, s, w, f) ==
  /\ f \in [Slots(InitCap) -> Entry]
  /\ f[s].key = w
  /\ \A x \in Slots(InitCap) : x # s => f[x] = e[x]

LEMMA KeyPutIs ==
  ASSUME ValidMapAssumption, NEW e \in [Slots(InitCap) -> Entry], NEW s \in Slots(InitCap),
         NEW w \in ValidWords
  PROVE  KeyPut(e, s, w, [e EXCEPT ![s].key = w])
<1>1. [e[s] EXCEPT !.key = w] \in Entry /\ [e[s] EXCEPT !.key = w].key = w
  <2>1. e[s] \in Entry
    OBVIOUS
  <2> QED
    BY <2>1 DEF Entry
<1>2. PICK entry \in Entry : entry.key = w /\ entry = [e[s] EXCEPT !.key = w]
  BY <1>1
<1> HIDE DEF Slots
<1>3. KeyPut(e, s, w, [e EXCEPT ![s] = entry])
  BY <1>2 DEF KeyPut
<1> QED
  BY <1>2, <1>3

ValuePut(e, s, f) ==
  /\ f \in [Slots(InitCap) -> Entry]
  /\ f[s].key = e[s].key /\ f[s].stored
  /\ \A x \in Slots(InitCap) : x # s => f[x] = e[x]

LEMMA ValuePutIs ==
  ASSUME NEW e \in [Slots(InitCap) -> Entry], NEW s \in Slots(InitCap)
  PROVE  ValuePut(e, s, [e EXCEPT ![s].stored = TRUE])
<1>1. [e[s] EXCEPT !.stored = TRUE] \in Entry /\ [e[s] EXCEPT !.stored = TRUE].stored
      /\ [e[s] EXCEPT !.stored = TRUE].key = e[s].key
  <2>1. e[s] \in Entry
    OBVIOUS
  <2> QED
    BY <2>1 DEF Entry
<1>2. PICK entry \in Entry : /\ entry.key = e[s].key /\ entry.stored
                             /\ entry = [e[s] EXCEPT !.stored = TRUE]
  BY <1>1
<1> HIDE DEF Slots
<1>3. ValuePut(e, s, [e EXCEPT ![s] = entry])
  BY <1>2 DEF ValuePut
<1> QED
  BY <1>2, <1>3

\* The key is stored where the search for it has ended.
LEMMA KeyStored ==
  ASSUME ValidMapAssumption, IndexInside, NEW e, EntriesInOrder(e, InitCap), NEW w \in ValidWords,
         NEW s, Searching(e, w, s), e[s].key = NoWord, NEW f, KeyPut(e, s, w, f)
  PROVE  /\ EntriesInOrder(f, s)
         /\ f[s].key = w
         /\ \A x \in Slots(InitCap) : e[x].key # NoWord => f[x].key = e[x].key
<1>1. e \in [Slots(InitCap) -> Entry] /\ s \in Slots(InitCap) /\ w # NoWord
  BY DEF EntriesInOrder, Searching, Slots, ValidMapAssumption
<1>5. f \in [Slots(InitCap) -> Entry] /\ f[s].key = w
      /\ \A x \in Slots(InitCap) : x # s => f[x] = e[x]
  BY DEF KeyPut
<1>6. ASSUME NEW x \in Slots(InitCap), f[x].key # NoWord
      PROVE  /\ x # s => f[x].stored
             /\ \A j \in Passed(HashIndex(f[x].key, InitCap), x) : f[j].key # NoWord
  <2>1. f[x].key \in ValidWords
    <3>1. f[x] \in Entry
      BY <1>5
    <3> QED
      BY <1>6, <3>1 DEF Entry
  <2>2. Passed(HashIndex(f[x].key, InitCap), x) \subseteq Slots(InitCap)
    <3>1. HashIndex(f[x].key, InitCap) \in Slots(InitCap)
      BY <2>1, HashIs DEF ValidMapAssumption
    <3> QED
      BY <3>1, PassedNext
  <2>3. \A j \in Slots(InitCap) : e[j].key # NoWord => f[j].key # NoWord
    BY <1>1, <1>5
  <2>4. CASE x = s
    <3>1. \A j \in Passed(HashIndex(w, InitCap), s) : e[j].key # NoWord
      BY DEF Searching
    <3> QED
      BY <1>5, <2>2, <2>3, <2>4, <3>1
  <2>5. CASE x # s
    <3>1. f[x] = e[x]
      BY <1>5, <2>5
    <3>2. e[x].stored /\ \A j \in Passed(HashIndex(e[x].key, InitCap), x) : e[j].key # NoWord
      BY <1>6, <3>1 DEF EntriesInOrder, Slots
    <3> QED
      BY <2>2, <2>3, <3>1, <3>2
  <2> QED
    BY <2>4, <2>5
<1>7. EntriesInOrder(f, s)
  BY <1>5, <1>6 DEF EntriesInOrder, Slots
<1> QED
  BY <1>1, <1>5, <1>7

\* The value is stored where its key is.
LEMMA ValueStored ==
  ASSUME ValidMapAssumption, IndexInside, NEW e, NEW s \in Slots(InitCap),
         NEW open, open = InitCap \/ open = s, EntriesInOrder(e, open),
         NEW f, ValuePut(e, s, f)
  PROVE  /\ EntriesInOrder(f, InitCap)
         /\ \A x \in Slots(InitCap) : f[x].key = e[x].key
<1>1. e \in [Slots(InitCap) -> Entry]
  BY DEF EntriesInOrder, Slots
<1>5. f \in [Slots(InitCap) -> Entry] /\ f[s].key = e[s].key /\ f[s].stored
      /\ \A x \in Slots(InitCap) : x # s => f[x] = e[x]
  BY DEF ValuePut
<1>6. \A x \in Slots(InitCap) : f[x].key = e[x].key
  BY <1>5
<1>7. ASSUME NEW x \in Slots(InitCap), f[x].key # NoWord
      PROVE  /\ f[x].stored
             /\ \A j \in Passed(HashIndex(f[x].key, InitCap), x) : f[j].key # NoWord
  <2>1. /\ x # s => e[x].stored
        /\ \A j \in Passed(HashIndex(e[x].key, InitCap), x) : e[j].key # NoWord
    BY <1>6, <1>7 DEF EntriesInOrder, Slots
  <2>2. Passed(HashIndex(f[x].key, InitCap), x) \subseteq Slots(InitCap)
    <3>1. f[x] \in Entry
      BY <1>5
    <3>2. f[x].key \in ValidWords
      BY <1>7, <3>1 DEF Entry
    <3>3. HashIndex(f[x].key, InitCap) \in Slots(InitCap)
      BY <3>2, HashIs DEF ValidMapAssumption
    <3> QED
      BY <3>3, PassedNext
  <2> QED
    BY <1>5, <1>6, <2>1, <2>2
<1>8. EntriesInOrder(f, InitCap)
  BY <1>5, <1>7 DEF EntriesInOrder, Slots
<1> QED
  BY <1>6, <1>8

-----------------------------------------------------------------------------

\* A thread that serves a request, with what it works on in order.
Works(t) ==
  /\ local[t].word \in Words
  /\ at[t] \in {"next", "get", "look"} \union Filling
  /\ InOrder(t)

\* A step of a thread that works alone keeps what it works on in order, or gives the
\* right answer.
LEMMA WorksOn ==
  ASSUME ValidMapAssumption, IndexInside, RoomForAll, TypeInv, NEW t \in Threads,
         Works(t) \/ (at[t] = "create" /\ local[t].word \in Words), Step(t)
  PROVE  IF at'[t] = "idle" THEN verdict'[t] = RightVerdict(local'[t].word) ELSE Works(t)'
<1> DEFINE table == tables[map]
           e     == arrays[table.entries]
           l     == local[t]
           w     == Valid[l.n]
<1> HIDE DEF table, e, l, w
<1>1. /\ at \in [Threads -> Places] /\ local \in [Threads -> LocalType] /\ l \in LocalType
      /\ verdict \in [Threads -> {"none", "valid", "not_allowed"}]
      /\ Len(arrays) \in Nat /\ Len(tables) \in Nat /\ Len(Valid) \in Nat
      /\ arrays \in Seq(Arrays) /\ tables \in Seq(TableType)
      /\ freed \subseteq 1..Len(arrays) /\ InitCap \in Nat \ {0}
  BY DEF TypeInv, SharedRight, ValidMapAssumption, l
<1>2. l.n \in Nat /\ l.slot \in Nat /\ l.length \in Nat
  BY <1>1, LocalIs
\* What is in order after a step.
<1>3. ASSUME NEW p \in {"next", "get", "look"} \union Filling, NEW k, k.word \in Words,
             at'[t] = p, local'[t] = k,
             map' \in 1..Len(tables'), NEW table2, NEW e2,
             table2 = tables'[map'], table2.entries \in (1..Len(arrays')) \ freed',
             table2.capacity = InitCap, e2 = arrays'[table2.entries],
             Order(p, k, map', table2, e2)
      PROVE  at'[t] # "idle" /\ Works(t)'
  BY <1>3 DEF Works, InOrder, Filling
<1>4. CASE CreateMap(t)
  <2> DEFINE new == [entries |-> Len(arrays) + 1, capacity |-> InitCap, length |-> 0]
             k   == [l EXCEPT !.n = 1]
  <2>1. /\ arrays' = Append(arrays, EmptyArray(InitCap)) /\ tables' = Append(tables, new)
        /\ map' = Len(tables) + 1 /\ freed' = freed
        /\ at'[t] = "next" /\ local'[t] = k /\ at[t] = "create"
    BY <1>1, <1>4 DEF CreateMap, Goto, At, l
  <2>2. k.n = 1 /\ k.word = l.word /\ l.word \in Words
    BY <1>1, <2>1 DEF LocalType, Works, Filling, l
  <2>3. EmptyArray(InitCap) \in Arrays /\ new \in TableType
    BY <1>1, EmptyIs DEF TableType
  <2>4. /\ Len(tables') = Len(tables) + 1 /\ tables'[map'] = new
        /\ Len(arrays') = Len(arrays) + 1 /\ arrays'[Len(arrays) + 1] = EmptyArray(InitCap)
    <3> HIDE DEF new
    <3> QED
      BY <1>1, <2>1, <2>3, AppendIs
  <2>5. EntriesInOrder(EmptyArray(InitCap), InitCap)
    <3>1. \A s \in Slots(InitCap) : EmptyArray(InitCap)[s] = NoEntry
      BY <1>1, EmptyIs
    <3>2. EmptyArray(InitCap) \in [Slots(InitCap) -> Entry]
      BY DEF EmptyArray, Slots, NoEntry, Entry
    <3> QED
      BY <3>1, <3>2 DEF EntriesInOrder, NoEntry, Slots
  <2>6. new.entries = Len(arrays) + 1 /\ new.capacity = InitCap /\ new.length = 0
    OBVIOUS
  <2> HIDE DEF new, k
  <2>7. Order("next", k, map', new, EmptyArray(InitCap))
    BY <1>1, <2>2, <2>5, <2>6 DEF Order, Filling
  <2>8. new.entries \in (1..Len(arrays')) \ freed' /\ map' \in 1..Len(tables')
    BY <1>1, <2>1, <2>4, <2>6
  <2> QED
    BY <1>3, <2>1, <2>2, <2>4, <2>6, <2>7, <2>8
\* What is in order before it.
<1>5. ASSUME at[t] # "create"
      PROVE  /\ l.word \in Words /\ at[t] \in {"next", "get", "look"} \union Filling
             /\ map \in 1..Len(tables) /\ table.entries \in (1..Len(arrays)) \ freed
             /\ table.capacity = InitCap /\ table.length \in Nat
             /\ Order(at[t], l, map, table, e)
             /\ at[t] # "next" => l.table = map /\ Table(t) = table
             /\ Word(t) = w
  <2>1. Works(t)
    BY <1>5
  <2>2. table.length \in Nat
    BY <2>1, TableIs DEF TypeInv, Works, InOrder, table
  <2>3. Order(at[t], l, map, table, e)
    BY <2>1 DEF Works, InOrder, table, e, l
  <2>4. at[t] # "next" => l.table = map
    BY <2>3 DEF Order
  <2> QED
    BY <2>1, <2>2, <2>3, <2>4 DEF Works, InOrder, table, e, l, w, Table, Word
\* A step that changes nothing that threads share.
<1>6. ASSUME at[t] # "create", UNCHANGED shared,
             NEW p \in {"next", "get", "look"} \union Filling, NEW k, k.word = l.word,
             at' = [at EXCEPT ![t] = p], local' = [local EXCEPT ![t] = k],
             Order(p, k, map, table, e)
      PROVE  at'[t] # "idle" /\ Works(t)'
  <2>1. at'[t] = p /\ local'[t] = k
    BY <1>1, <1>6
  <2>2. /\ map' = map /\ tables' = tables /\ arrays' = arrays /\ freed' = freed
    BY <1>6 DEF shared
  <2>3. table = tables'[map'] /\ e = arrays'[table.entries] /\ k.word \in Words
    BY <1>5, <1>6, <2>2 DEF table, e
  <2> QED
    BY <1>3, <1>5, <1>6, <2>1, <2>2, <2>3
<1>7. local' = local => local' = [local EXCEPT ![t] = l]
  BY <1>1 DEF l
<1>8. at' = at => at' = [at EXCEPT ![t] = at[t]]
  BY <1>1
<1>9. CASE NextWord(t)
  <2> DEFINE k == [l EXCEPT !.table = map]
  <2>1. /\ at[t] = "next" /\ local' = [local EXCEPT ![t] = k] /\ UNCHANGED shared
        /\ \/ l.n =< Len(Valid) /\ at' = [at EXCEPT ![t] = "set"]
           \/ l.n > Len(Valid) /\ at' = [at EXCEPT ![t] = "get"]
    BY <1>1, <1>9 DEF NextWord, At, Goto, l
  <2>2. k.n = l.n /\ k.table = map /\ k.word = l.word
    BY <1>1 DEF LocalType
  <2>3. Order("next", l, map, table, e)
    BY <1>5, <2>1
  <2> HIDE DEF k
  <2>4. /\ l.n =< Len(Valid) => Order("set", k, map, table, e)
        /\ l.n > Len(Valid) => Order("get", k, map, table, e)
    BY <1>1, <1>2, <2>2, <2>3 DEF Order, Filling
  <2> QED
    BY <1>6, <2>1, <2>2, <2>4 DEF Filling
<1>10. CASE EnterSet(t)
  <2>1. /\ at[t] = "set" /\ local' = local /\ UNCHANGED shared
        /\ at' = [at EXCEPT ![t] = IF Table(t).length >= Table(t).capacity \div 2
                                     THEN "expand" ELSE "fetch"]
    BY <1>10 DEF EnterSet, At, Goto
  <2>2. Order("set", l, map, table, e) /\ Table(t) = table
    BY <1>5, <2>1
  <2>3. l.n =< Len(Valid) /\ table.length =< l.n - 1
    BY <1>1, <1>2, <2>2 DEF Order, Filling
  <2>4. table.length < InitCap \div 2
    <3>1. \A n, c \in Nat : 2 * n =< c => n =< c \div 2 /\ c \div 2 \in Nat
      OBVIOUS
    <3>2. Len(Valid) =< InitCap \div 2 /\ InitCap \div 2 \in Nat
      BY <1>1, <3>1 DEF RoomForAll
    <3> QED
      BY <1>1, <1>2, <1>5, <2>1, <2>3, <3>2
  <2>5. at' = [at EXCEPT ![t] = "fetch"]
    <3>1. Table(t).length = table.length /\ Table(t).capacity = InitCap
      BY <1>5, <2>1, <2>2
    <3>2. ~(Table(t).length >= Table(t).capacity \div 2)
      <4>1. InitCap \div 2 \in Nat /\ table.length \in Nat
        BY <1>1, <1>5, <2>1
      <4> QED
        BY <2>4, <3>1, <4>1
    <3> QED
      BY <2>1, <3>2
  <2>6. Order("fetch", l, map, table, e)
    BY <2>2 DEF Order, Filling
  <2> QED
    BY <1>6, <1>7, <2>1, <2>5, <2>6 DEF Filling
<1>11. CASE FetchEntries(t)
  <2> DEFINE k == [l EXCEPT !.array = table.entries, !.capacity = InitCap,
                            !.slot = HashIndex(w, InitCap)]
  <2>1. /\ at[t] = "fetch" /\ UNCHANGED shared /\ at' = [at EXCEPT ![t] = "probe"]
        /\ local' = [local EXCEPT ![t] = k]
    <3>1. at[t] = "fetch"
      BY <1>11 DEF FetchEntries, At
    <3>2. Table(t) = table /\ table.capacity = InitCap /\ Word(t) = w
      BY <1>5, <3>1
    <3> QED
      BY <1>1, <1>11, <3>1, <3>2 DEF FetchEntries, Goto, l
  <2>2. /\ k.n = l.n /\ k.table = l.table /\ k.word = l.word /\ k.array = table.entries
        /\ k.capacity = InitCap /\ k.slot = HashIndex(w, InitCap)
    BY <1>1 DEF LocalType
  <2>3. Order("fetch", l, map, table, e)
    BY <1>5, <2>1
  <2>4. w \in ValidWords
    BY <1>1, <1>2, <2>3 DEF Order, Filling, w, ValidWords
  <2>5. Searching(e, w, k.slot) /\ k.slot \in 0..(InitCap - 1)
    BY <2>2, <2>4, SearchBegins DEF Searching
  <2> HIDE DEF k
  <2>6. Valid[k.n] = w
    BY <2>2 DEF w
  <2>7. Order("probe", k, map, table, e)
    BY <2>2, <2>3, <2>5, <2>6 DEF Order, Filling
  <2> QED
    BY <1>6, <2>1, <2>2, <2>7 DEF Filling
\* ht_set returns: one word more is in the table.
<1>12. ASSUME at[t] \in {"probe", "value"}, SetReturns(t),
              UNCHANGED <<map, tables, freed>>, NEW f,
              arrays' = [arrays EXCEPT ![table.entries] = f],
              EntriesInOrder(f, InitCap), \E s \in Slots(InitCap) : f[s].key = w,
              \A k \in 1..(l.n - 1) : \E s \in Slots(InitCap) : f[s].key = Valid[k]
       PROVE  at'[t] # "idle" /\ Works(t)'
  <2> DEFINE k == Locals(l.word, l.n + 1)
  <2>1. at'[t] = "next" /\ local'[t] = k
    BY <1>1, <1>12 DEF SetReturns, Goto, l
  <2>2. k.n = l.n + 1 /\ k.word = l.word
    BY DEF Locals
  <2>3. Order(at[t], l, map, table, e)
    BY <1>5, <1>12
  <2>4. /\ l.n \in 1..(Len(Valid) + 1) /\ l.n # Len(Valid) + 1 /\ table.length =< l.n
    BY SMTT(20), <1>2, <1>5, <1>12, <2>3 DEF Order, Filling
  <2> HIDE DEF k
  <2>5. \A j \in 1..(k.n - 1) : \E s \in 0..(InitCap - 1) : f[s].key = Valid[j]
    <3>1. ASSUME NEW j \in 1..(k.n - 1)
          PROVE  j = l.n \/ j \in 1..(l.n - 1)
      BY <1>2, <2>2
    <3> QED
      BY <1>12, <3>1 DEF w, Slots
  <2>6. Order("next", k, map, table, f)
    <3>1. k.n \in 1..(Len(Valid) + 1) /\ table.length =< k.n - 1
      BY SMTT(20), <1>1, <1>2, <1>5, <1>12, <2>2, <2>4
    <3> QED
      BY <1>12, <2>5, <3>1 DEF Order, Filling
  <2>7. /\ map' \in 1..Len(tables') /\ table = tables'[map'] /\ f = arrays'[table.entries]
        /\ table.entries \in (1..Len(arrays')) \ freed'
    <3>1. table.entries \in (1..Len(arrays)) \ freed
      BY <1>5, <1>12
    <3>2. Len(arrays') = Len(arrays) /\ arrays'[table.entries] = f
      BY <1>1, <1>12, <3>1
    <3> QED
      BY <1>5, <1>12, <3>1, <3>2 DEF table
  <2> QED
    BY <1>3, <1>5, <1>12, <2>1, <2>2, <2>6, <2>7
<1>13. CASE ProbeSet(t)
  <2> DEFINE s == l.slot
  <2>1. /\ at[t] = "probe" /\ UNCHANGED <<map, tables, freed, crashed>> /\ l.array = local[t].array
    BY <1>13 DEF ProbeSet, At, l
  <2>2. /\ Order("probe", l, map, table, e) /\ l.word \in Words
        /\ Word(t) = w
    BY <1>5, <2>1
  <2>3. /\ l.array = table.entries /\ l.capacity = InitCap /\ s \in Slots(InitCap)
        /\ l.n \in 1..Len(Valid) /\ EntriesInOrder(e, InitCap) /\ Searching(e, w, s)
        /\ \A k \in 1..(l.n - 1) : \E x \in Slots(InitCap) : e[x].key = Valid[k]
    BY <1>1, <1>2, <2>2 DEF Order, Filling, Slots, w
  <2>4. w \in ValidWords
    BY <2>3 DEF w, ValidWords
  <2>5. arrays[local[t].array] = e /\ local[t].slot = s
    BY <2>3 DEF e, l
  <2>6. CASE e[s].key = NoWord /\ Goto(t, "count") /\ UNCHANGED <<arrays, local>>
    <3>1. Order("count", l, map, table, e)
      BY <2>2, <2>6 DEF Order, Filling
    <3> QED
      BY <1>6, <1>7, <2>1, <2>6, <3>1 DEF Filling, Goto, shared
  <2>7. CASE e[s].key = w /\ arrays' = [arrays EXCEPT ![l.array][s].stored = TRUE] /\ SetReturns(t)
    <3>1. arrays' = [arrays EXCEPT ![table.entries] = [e EXCEPT ![s].stored = TRUE]]
      BY <2>3, <2>7 DEF e
    <3>2. PICK f : f = [e EXCEPT ![s].stored = TRUE]
      OBVIOUS
    <3>3. EntriesInOrder(f, InitCap) /\ \A x \in Slots(InitCap) : f[x].key = e[x].key
      <4>1. EntriesInOrder(e, InitCap) /\ s \in Slots(InitCap)
        BY <2>3
      <4>2. ValuePut(e, s, f)
        BY <3>2, <4>1, ValuePutIs DEF EntriesInOrder, Slots
      <4> HIDE DEF s
      <4> QED
        BY <4>1, <4>2, ValueStored
    <3>4. /\ f[s].key = w
          /\ \A k \in 1..(l.n - 1) : \E x \in Slots(InitCap) : f[x].key = Valid[k]
      BY <2>3, <2>7, <3>3
    <3> QED
      <4>1. arrays' = [arrays EXCEPT ![table.entries] = f] /\ \E x \in Slots(InitCap) : f[x].key = w
        BY <2>3, <3>1, <3>2, <3>4
      <4> HIDE DEF s
      <4> QED
        BY <1>12, <2>1, <2>7, <3>3, <3>4, <4>1
  <2>8. CASE /\ e[s].key \notin {NoWord, w} /\ UNCHANGED <<arrays, at>>
             /\ local' = [local EXCEPT ![t].slot = NextSlot(s, l.capacity)]
    <3> DEFINE k == [l EXCEPT !.slot = NextSlot(s, InitCap)]
    <3>1. Searching(e, w, NextSlot(s, InitCap))
      BY <2>3, <2>4, <2>8, SearchOn
    <3>2. /\ k.n = l.n /\ k.table = l.table /\ k.word = l.word /\ k.array = l.array
          /\ k.capacity = l.capacity /\ k.slot = NextSlot(s, InitCap)
      BY <1>1 DEF LocalType
    <3>3. local' = [local EXCEPT ![t] = k]
      BY <1>1, <2>3, <2>8 DEF l
    <3> HIDE DEF k
    <3>4. Searching(e, Valid[k.n], k.slot) /\ k.slot \in 0..(InitCap - 1)
      BY <3>1, <3>2 DEF Searching, w
    <3>5. Order("probe", k, map, table, e)
      BY <2>2, <3>2, <3>4 DEF Order, Filling
    <3> QED
      BY <1>6, <1>8, <2>1, <2>8, <3>2, <3>3, <3>5 DEF Filling, shared
  <2> QED
    <3>1. l = local[t]
      BY DEF l
    <3> QED
      BY <1>13, <2>2, <2>5, <2>6, <2>7, <2>8, <3>1 DEF ProbeSet
<1>14. CASE ReadLength(t)
  <2> DEFINE k == [l EXCEPT !.length = table.length]
  <2>1. at[t] = "count" /\ UNCHANGED shared /\ at' = [at EXCEPT ![t] = "length"]
    BY <1>14 DEF ReadLength, At, Goto
  <2>2. Order("count", l, map, table, e) /\ Table(t) = table
    BY <1>5, <2>1
  <2>3. local' = [local EXCEPT ![t] = k]
    BY <1>1, <1>14, <2>2 DEF ReadLength, l
  <2>4. /\ k.n = l.n /\ k.table = l.table /\ k.word = l.word /\ k.array = l.array
        /\ k.capacity = l.capacity /\ k.slot = l.slot /\ k.length = table.length
    BY <1>1 DEF LocalType
  <2> HIDE DEF k
  <2>5. Order("length", k, map, table, e)
    BY <2>2, <2>4 DEF Order, Filling
  <2> QED
    BY <1>6, <2>1, <2>3, <2>4, <2>5 DEF Filling
<1>15. CASE WriteLength(t)
  <2> DEFINE table2 == [table EXCEPT !.length = l.length + 1]
  <2>1. /\ at[t] = "length" /\ UNCHANGED <<map, arrays, freed>>
        /\ at'[t] = "key" /\ local'[t] = l
        /\ tables' = [tables EXCEPT ![l.table].length = l.length + 1]
    BY <1>1, <1>15 DEF WriteLength, At, Goto, l
  <2>2. /\ Order("length", l, map, table, e) /\ l.table = map /\ map \in 1..Len(tables)
        /\ table.entries \in (1..Len(arrays)) \ freed /\ l.word \in Words
        /\ table.capacity = InitCap /\ table \in TableType
    BY <1>1, <1>5, <2>1 DEF table
  <2>3. /\ table2.entries = table.entries /\ table2.capacity = table.capacity
        /\ table2.length = l.length + 1
    BY <2>2 DEF TableType
  <2>4. tables'[map] = table2 /\ Len(tables') = Len(tables)
    BY <1>1, <2>1, <2>2 DEF table
  <2> HIDE DEF table2
  <2>5. table2.length =< l.n
    BY SMTT(20), <1>2, <1>5, <2>1, <2>2, <2>3 DEF Order
  <2>6. Order("key", l, map, table2, e)
    BY <2>2, <2>3, <2>5 DEF Order, Filling
  <2>7. e = arrays'[table2.entries]
    BY <2>1, <2>3 DEF e
  <2> QED
    BY <1>3, <2>1, <2>2, <2>3, <2>4, <2>6, <2>7 DEF Filling
<1>16. CASE StoreKey(t)
  <2> DEFINE s == l.slot
  <2>0. PICK f : f = [e EXCEPT ![s].key = w]
    OBVIOUS
  <2>1. /\ at[t] = "key" /\ UNCHANGED <<map, tables, freed>>
        /\ at'[t] = "value" /\ local'[t] = l
        /\ arrays' = [arrays EXCEPT ![l.array][s].key = Word(t)]
    BY <1>1, <1>16 DEF StoreKey, At, Goto, l
  <2>2. /\ Order("key", l, map, table, e) /\ Word(t) = w /\ map \in 1..Len(tables)
        /\ table.entries \in (1..Len(arrays)) \ freed /\ l.word \in Words
        /\ table.capacity = InitCap
    BY <1>5, <2>1
  <2>3. /\ l.array = table.entries /\ s \in Slots(InitCap) /\ e[s].key = NoWord
        /\ l.n \in 1..Len(Valid) /\ EntriesInOrder(e, InitCap) /\ Searching(e, w, s)
        /\ \A k \in 1..(l.n - 1) : \E x \in Slots(InitCap) : e[x].key = Valid[k]
    BY <1>1, <1>2, <2>2 DEF Order, Filling, Slots, w
  <2>4. w \in ValidWords /\ \A k \in 1..(l.n - 1) : Valid[k] # NoWord
    <3>1. \A k \in 1..Len(Valid) : Valid[k] \in ValidWords /\ Valid[k] # NoWord
      BY DEF ValidWords, ValidMapAssumption
    <3>2. \A k \in 1..(l.n - 1) : k \in 1..Len(Valid)
      BY <1>1, <2>3
    <3> QED
      BY <2>3, <3>1, <3>2 DEF w
  <2>5. /\ EntriesInOrder(f, s) /\ f[s].key = w
        /\ \A x \in Slots(InitCap) : e[x].key # NoWord => f[x].key = e[x].key
    <3>1. /\ EntriesInOrder(e, InitCap) /\ w \in ValidWords /\ Searching(e, w, s)
          /\ e[s].key = NoWord
      BY <2>3, <2>4
    <3>2. KeyPut(e, s, w, f)
      <4>1. e \in [Slots(InitCap) -> Entry] /\ s \in Slots(InitCap)
        BY <3>1 DEF EntriesInOrder, Searching, Slots
      <4> HIDE DEF s
      <4> QED
        BY <2>0, <3>1, <4>1, KeyPutIs
    <3> HIDE DEF s
    <3> QED
      BY <3>1, <3>2, KeyStored
  <2>6. arrays' = [arrays EXCEPT ![table.entries] = f]
    BY <2>0, <2>1, <2>2, <2>3 DEF e
  <2>7. arrays'[table.entries] = f /\ Len(arrays') = Len(arrays)
    BY <1>1, <2>2, <2>6
  <2>8. \A k \in 1..(l.n - 1) : \E x \in 0..(InitCap - 1) : f[x].key = Valid[k]
    BY SMTT(20), <2>3, <2>4, <2>5 DEF Slots
  <2>9. Order("value", l, map, table, f)
    BY <2>2, <2>5, <2>8 DEF Order, Filling, w
  <2>10. map' \in 1..Len(tables') /\ table = tables'[map']
    BY <2>1, <2>2 DEF table
  <2> QED
    BY <1>3, <2>1, <2>2, <2>7, <2>9, <2>10 DEF Filling
<1>17. CASE StoreValue(t)
  <2> DEFINE s == l.slot
  <2>1. /\ at[t] = "value" /\ UNCHANGED <<map, tables, freed>> /\ SetReturns(t)
        /\ arrays' = [arrays EXCEPT ![l.array][s].stored = TRUE]
    BY <1>17 DEF StoreValue, At, l
  <2>2. Order("value", l, map, table, e)
    BY <1>5, <2>1
  <2>3. /\ l.array = table.entries /\ s \in Slots(InitCap) /\ e[s].key = w
        /\ EntriesInOrder(e, s)
        /\ \A k \in 1..(l.n - 1) : \E x \in Slots(InitCap) : e[x].key = Valid[k]
    BY <2>2 DEF Order, Slots, w
  <2>4. arrays' = [arrays EXCEPT ![table.entries] = [e EXCEPT ![s].stored = TRUE]]
    BY <2>1, <2>3 DEF e
  <2>0. PICK f : f = [e EXCEPT ![s].stored = TRUE]
    OBVIOUS
  <2>5. EntriesInOrder(f, InitCap) /\ \A x \in Slots(InitCap) : f[x].key = e[x].key
    <3>1. EntriesInOrder(e, s) /\ s \in Slots(InitCap)
      BY <2>3
    <3>2. ValuePut(e, s, f)
      BY <2>0, <3>1, ValuePutIs DEF EntriesInOrder, Slots
    <3> HIDE DEF s
    <3> QED
      BY <3>1, <3>2, ValueStored
  <2>6. /\ f[s].key = w
        /\ \A k \in 1..(l.n - 1) : \E x \in Slots(InitCap) : f[x].key = Valid[k]
    BY <2>3, <2>5
  <2> QED
    <3>1. arrays' = [arrays EXCEPT ![table.entries] = f] /\ \E x \in Slots(InitCap) : f[x].key = w
      BY <2>0, <2>3, <2>4, <2>6
    <3> HIDE DEF s
    <3> QED
      BY <1>12, <2>1, <2>5, <2>6, <3>1
<1>18. CASE EnterGet(t)
  <2> DEFINE k == [l EXCEPT !.slot = HashIndex(l.word, InitCap)]
  <2>1. at[t] = "get" /\ UNCHANGED shared /\ at' = [at EXCEPT ![t] = "look"]
    BY <1>18 DEF EnterGet, At, Goto
  <2>2. /\ Order("get", l, map, table, e) /\ Table(t) = table /\ table.capacity = InitCap
        /\ l.word \in Words
    BY <1>5, <2>1
  <2>3. local' = [local EXCEPT ![t] = k]
    BY <1>1, <1>18, <2>2 DEF EnterGet, l
  <2>4. /\ k.n = l.n /\ k.table = l.table /\ k.word = l.word
        /\ k.slot = HashIndex(l.word, InitCap)
    BY <1>1 DEF LocalType
  <2> HIDE DEF k
  <2>5. Searching(e, k.word, k.slot)
    BY <2>2, <2>4, SearchBegins
  <2>6. Order("look", k, map, table, e)
    BY <2>2, <2>4, <2>5 DEF Order, Filling
  <2> QED
    BY <1>6, <2>1, <2>3, <2>4, <2>6
\* The thread is before an entry of its own table.
<1>19. ASSUME at[t] = "look"
       PROVE  /\ Order("look", l, map, table, e) /\ l.slot \in Slots(InitCap)
              /\ EntriesInOrder(e, InitCap) /\ Searching(e, l.word, l.slot) /\ l.word \in Words
              /\ Table(t) = table /\ arrays[Table(t).entries] = e
              /\ \A k \in 1..Len(Valid) : \E x \in Slots(InitCap) : e[x].key = Valid[k]
  <2>1. Order("look", l, map, table, e) /\ l.word \in Words /\ Table(t) = table
    BY <1>5, <1>19
  <2>2. l.n = Len(Valid) + 1
    BY <2>1 DEF Order
  <2>3. l.n - 1 = Len(Valid)
    BY <1>1, <2>2
  <2> QED
    BY <2>1, <2>3 DEF Order, Searching, Slots, e
<1>20. CASE Look(t)
  <2> DEFINE s == l.slot
  <2>1. at[t] = "look" /\ UNCHANGED shared
    BY <1>20 DEF Look, At
  <2>2. CASE e[s].key = NoWord /\ Answer(t, "not_allowed")
    <3>1. \A x \in Slots(InitCap) : e[x].key # l.word
      BY <1>19, <2>1, <2>2, NotThere
    <3>2. l.word \notin ValidWords
      BY <1>19, <2>1, <3>1 DEF ValidWords
    <3>3. /\ at'[t] = "idle" /\ verdict'[t] = "not_allowed"
          /\ local'[t] = Locals(l.word, 0)
      BY <1>1, <2>2 DEF Answer, Goto, l
    <3> QED
      BY <3>2, <3>3 DEF RightVerdict, Locals
  <2>3. CASE e[s].key = l.word /\ Answer(t, IF e[s].stored THEN "valid" ELSE "not_allowed")
    <3>1. e[s].key # NoWord /\ e[s].key \in ValidWords \union {NoWord}
      <4>1. e[s] \in Entry
        BY <1>19, <2>1 DEF EntriesInOrder, Slots
      <4> QED
        BY <1>19, <2>1, <2>3, <4>1 DEF Entry, ValidMapAssumption
    <3>2. l.word \in ValidWords /\ e[s].stored
      BY <1>19, <2>1, <2>3, <3>1 DEF EntriesInOrder, Slots
    <3>3. /\ at'[t] = "idle" /\ verdict'[t] = "valid"
          /\ local'[t] = Locals(l.word, 0)
      BY <1>1, <2>3, <3>2 DEF Answer, Goto, l
    <3> QED
      BY <3>2, <3>3 DEF RightVerdict, Locals
  <2>4. CASE /\ e[s].key \notin {NoWord, l.word} /\ UNCHANGED <<at, verdict>>
             /\ local' = [local EXCEPT ![t].slot = NextSlot(@, Table(t).capacity)]
    <3> DEFINE k == [l EXCEPT !.slot = NextSlot(s, InitCap)]
    <3>1. Searching(e, l.word, NextSlot(s, InitCap))
      BY <1>19, <2>1, <2>4, SearchOn
    <3>2. /\ k.n = l.n /\ k.table = l.table /\ k.word = l.word
          /\ k.slot = NextSlot(s, InitCap)
      BY <1>1 DEF LocalType
    <3>3. local' = [local EXCEPT ![t] = k]
      BY <1>1, <1>5, <1>19, <2>1, <2>4 DEF l
    <3> HIDE DEF k
    <3>4. Order("look", k, map, table, e)
      BY <1>19, <2>1, <3>1, <3>2 DEF Order, Filling
    <3> QED
      BY <1>6, <1>8, <2>1, <2>4, <3>2, <3>3, <3>4
  <2> QED
    BY <1>19, <1>20, <2>1, <2>2, <2>3, <2>4 DEF Look, l
\* What a thread that works alone does not come to.
<1>21. ~Expand(t) /\ ~Move(t) /\ ~EndMove(t) /\ ~FreeEntries(t) /\ ~PublishEntries(t)
       /\ ~PublishCapacity(t)
  <2>1. at[t] \notin {"expand", "move", "free", "entries", "capacity"}
    BY <1>5 DEF Filling
  <2> QED
    BY <2>1 DEF Expand, Move, EndMove, FreeEntries, PublishEntries, PublishCapacity, At
<1>22. ~SetAstray(t)
  <2>1. SUFFICES ASSUME SetAstray(t) PROVE FALSE
    OBVIOUS
  <2>2. at[t] \in {"probe", "key", "value"} /\ Astray(local[t].array, local[t].slot)
    BY <2>1 DEF SetAstray
  <2>3. /\ Order(at[t], l, map, table, e) /\ table.entries \in (1..Len(arrays)) \ freed
    BY <1>5, <2>2
  <2>4. l.array = table.entries /\ l.slot \in 0..(InitCap - 1) /\ DOMAIN e = 0..(InitCap - 1)
    BY <2>2, <2>3 DEF Order, EntriesInOrder
  <2> QED
    BY <2>2, <2>3, <2>4 DEF Astray, l, e
<1>23. ~LookAstray(t)
  <2>1. SUFFICES ASSUME LookAstray(t) PROVE FALSE
    OBVIOUS
  <2>2. at[t] = "look" /\ Astray(Table(t).entries, local[t].slot)
    BY <2>1 DEF LookAstray, At
  <2>3. /\ table.entries \in (1..Len(arrays)) \ freed /\ Table(t) = table
        /\ l.slot \in 0..(InitCap - 1) /\ DOMAIN e = 0..(InitCap - 1)
    BY <1>5, <1>19, <2>2 DEF EntriesInOrder, Slots
  <2> QED
    BY <2>2, <2>3 DEF Astray, l, e
<1> QED
  BY <1>4, <1>9, <1>10, <1>11, <1>13, <1>14, <1>15, <1>16, <1>17, <1>18, <1>20, <1>21, <1>22,
     <1>23 DEF Step

LEMMA AloneStep ==
  ASSUME ValidMapAssumption, IndexInside, RoomForAll, TypeInv, AloneInv, RightWhenAlone,
         [MapNext]_mapVars
  PROVE  AloneInv' /\ RightWhenAlone'
<1>1. CASE UNCHANGED mapVars
  BY <1>1 DEF mapVars, shared, AloneInv, Alone, Busy, InOrder, RightWhenAlone
<1>2. /\ at \in [Threads -> Places] /\ local \in [Threads -> LocalType]
      /\ overlapped \in [Threads -> BOOLEAN]
      /\ verdict \in [Threads -> {"none", "valid", "not_allowed"}]
  BY DEF TypeInv
\* A request begins.
<1>3. ASSUME NEW t \in Threads, NEW w \in Words, Start(t, w)
      PROVE  AloneInv' /\ RightWhenAlone'
  <2>1. /\ at[t] = "idle" /\ at' = [at EXCEPT ![t] = "create"]
        /\ local' = [local EXCEPT ![t] = Locals(w, 0)]
        /\ verdict' = [verdict EXCEPT ![t] = "none"]
    BY <1>3 DEF Start, At, Goto
  <2>2. \A u \in Threads : overlapped'[u] <=>
           IF u = t THEN \E o \in Threads : Busy(o) ELSE overlapped[u] \/ Busy(u)
    BY <1>3, Zenon DEF Start
  <2>3. \A u \in Threads : u # t => /\ at'[u] = at[u] /\ local'[u] = local[u]
                                    /\ verdict'[u] = verdict[u]
    BY <1>2, <2>1
  <2>4. at'[t] = "create" /\ verdict'[t] = "none" /\ local'[t].word = w
    BY <1>2, <2>1 DEF Locals
  <2>5. ASSUME NEW u \in Threads
        PROVE  Alone(u)'
    <3>1. CASE u = t
      <4>1. ~overlapped'[t] => \A o \in Threads \ {t} : ~Busy(o)'
        BY <2>2, <2>3 DEF Busy
      <4> QED
        BY <2>4, <3>1, <4>1 DEF Alone, Busy
    <3>2. CASE u # t
      BY <2>2, <2>3, <3>2 DEF Alone, Busy
    <3> QED
      BY <3>1, <3>2
  <2>6. ASSUME NEW u \in Threads, at'[u] = "idle", verdict'[u] # "none", ~overlapped'[u]
        PROVE  verdict'[u] = RightVerdict(local'[u].word)
    <3>1. u # t
      BY <2>4, <2>6
    <3>2. at[u] = "idle" /\ verdict[u] # "none" /\ ~overlapped[u]
      BY <2>2, <2>3, <2>6, <3>1
    <3> QED
      BY <2>3, <3>1, <3>2 DEF RightWhenAlone
  <2> QED
    BY <2>5, <2>6 DEF AloneInv, RightWhenAlone
\* A request goes on.
<1>4. ASSUME NEW t \in Threads, Step(t)
      PROVE  AloneInv' /\ RightWhenAlone'
  <2>1. Busy(t) /\ overlapped' = overlapped
    BY <1>4 DEF Step, Busy, At, CreateMap, NextWord, EnterSet, FetchEntries, ProbeSet, ReadLength,
                WriteLength, StoreKey, StoreValue, Expand, Move, EndMove, FreeEntries,
                PublishEntries, PublishCapacity, SetAstray, EnterGet, Look, LookAstray
  <2>2. \A u \in Threads : u # t => /\ at'[u] = at[u] /\ local'[u] = local[u]
                                    /\ verdict'[u] = verdict[u]
    <3>1. \/ at' = at \/ \E p : at' = [at EXCEPT ![t] = p]
      BY <1>4 DEF Step, Goto, CreateMap, NextWord, EnterSet, FetchEntries, ProbeSet, ReadLength,
                  WriteLength, StoreKey, StoreValue, Expand, Move, EndMove, FreeEntries,
                  PublishEntries, PublishCapacity, SetAstray, EnterGet, Look, LookAstray,
                  SetReturns, Answer
    <3>2. \/ local' = local \/ \E l : local' = [local EXCEPT ![t] = l]
      BY <1>4 DEF Step, CreateMap, NextWord, EnterSet, FetchEntries, ProbeSet, ReadLength,
                  WriteLength, StoreKey, StoreValue, Expand, Move, EndMove, FreeEntries,
                  PublishEntries, PublishCapacity, SetAstray, EnterGet, Look, LookAstray,
                  SetReturns, Answer
    <3>3. \/ verdict' = verdict \/ \E v : verdict' = [verdict EXCEPT ![t] = v]
      BY <1>4 DEF Step, CreateMap, NextWord, EnterSet, FetchEntries, ProbeSet, ReadLength,
                  WriteLength, StoreKey, StoreValue, Expand, Move, EndMove, FreeEntries,
                  PublishEntries, PublishCapacity, SetAstray, EnterGet, Look, LookAstray,
                  SetReturns, Answer
    <3> QED
      BY <1>2, <3>1, <3>2, <3>3
  <2>3. ASSUME ~overlapped[t]
        PROVE  /\ \A u \in Threads \ {t} : ~Busy(u)
               /\ Works(t) \/ (at[t] = "create" /\ local[t].word \in Words)
    BY <2>1, <2>3 DEF AloneInv, Alone, Works
  <2>4. ASSUME ~overlapped[t]
        PROVE  IF at'[t] = "idle" THEN verdict'[t] = RightVerdict(local'[t].word)
                                  ELSE Works(t)'
    BY <1>4, <2>3, <2>4, WorksOn
  <2>5. ASSUME NEW u \in Threads
        PROVE  Alone(u)'
    <3>1. CASE u = t
      <4>1. ASSUME Busy(t)', ~overlapped'[t]
            PROVE  Works(t)' /\ \A o \in Threads \ {t} : ~Busy(o)'
        BY <2>1, <2>2, <2>3, <2>4, <4>1 DEF Busy
      <4> QED
        BY <3>1, <4>1 DEF Alone, Works
    <3>2. CASE u # t
      <4>1. ~Busy(u) \/ overlapped[u]
        BY <2>1, <3>2 DEF AloneInv, Alone
      <4>2. ~Busy(u)' \/ overlapped'[u]
        BY <2>1, <2>2, <3>2, <4>1 DEF Busy
      <4> QED
        BY <4>2 DEF Alone
    <3> QED
      BY <3>1, <3>2
  <2>6. ASSUME NEW u \in Threads, at'[u] = "idle", verdict'[u] # "none", ~overlapped'[u]
        PROVE  verdict'[u] = RightVerdict(local'[u].word)
    <3>1. CASE u = t
      BY <2>1, <2>4, <2>6, <3>1
    <3>2. CASE u # t
      BY <2>1, <2>2, <2>6, <3>2 DEF RightWhenAlone
    <3> QED
      BY <3>1, <3>2
  <2> QED
    BY <2>5, <2>6 DEF AloneInv, RightWhenAlone
<1> QED
  BY <1>1, <1>3, <1>4 DEF MapNext

LEMMA AloneAlways ==
  ASSUME ValidMapAssumption, IndexInside, RoomForAll
  PROVE  MapSpec => [](TypeInv /\ AloneInv /\ RightWhenAlone)
<1>1. MapInit => AloneInv /\ RightWhenAlone
  BY DEF MapInit, AloneInv, Alone, Busy, RightWhenAlone
<1>2. TypeInv /\ AloneInv /\ RightWhenAlone /\ [MapNext]_mapVars => AloneInv' /\ RightWhenAlone'
  BY AloneStep
<1>3. MapInit => TypeInv
  BY TypeInit
<1>4. TypeInv /\ [MapNext]_mapVars => TypeInv'
  BY MapTypeStep
<1> QED
  BY <1>1, <1>2, <1>3, <1>4, PTL DEF MapSpec

\* A request that no other one overlaps gets the right verdict on its verb or version,
\* whatever earlier races have left in tables and arrays (http_header.c:13-39, ht.c:67-166).
THEOREM AloneIsRight ==
  ASSUME ValidMapAssumption, IndexInside, RoomForAll
  PROVE  MapSpec => []RightWhenAlone
BY AloneAlways, PTL

LEMMA GrowsOnly == ASSUME AloneInv, TypeInv PROVE GrowsOnlyInRaces
<1> SUFFICES ASSUME NEW t \in Threads,
                    at[t] \in {"expand", "move", "free", "entries", "capacity"}, ~overlapped[t]
             PROVE  FALSE
  BY DEF GrowsOnlyInRaces
<1> QED
  BY DEF AloneInv, Alone, Busy, Filling

\* A table grows, and an array is freed, only when requests overlap, however many threads
\* there are; nothing is ever stored that is not a table, an entry or a word (ht.c:151-162).
THEOREM GrowInRaces ==
  ASSUME ValidMapAssumption, IndexInside, RoomForAll
  PROVE  MapSpec => [](MapTypeOK /\ GrowsOnlyInRaces)
<1>1. TypeInv /\ AloneInv => MapTypeOK /\ GrowsOnlyInRaces
  BY TypeGives, GrowsOnly
<1> QED
  BY <1>1, AloneAlways, PTL

-----------------------------------------------------------------------------

\* What a step of thread t does to the words it may yet count.
LEMMA StepShape ==
  ASSUME TypeInv, NEW t \in Threads, Step(t)
  PROVE  /\ \A u \in Threads : u # t => at'[u] = at[u] /\ local'[u] = local[u]
         /\ \/ at'[t] \in {"get", "look", "idle"} /\ map' = map
            \/ at'[t] = "next" /\ map' = Len(tables) + 1 /\ at[t] = "create"
            \/ /\ at[t] = "next" /\ at'[t] = "set" /\ map' = map
               /\ local'[t].table = map /\ local'[t].n = local[t].n
            \/ /\ at[t] \in Filling \union Expanding \union {"expand"}
               /\ at'[t] \in Filling \union Expanding \union {"expand"}
               /\ at[t] \in {"key", "value"} => at'[t] \in {"key", "value"}
               /\ local'[t].table = local[t].table /\ local'[t].n = local[t].n /\ map' = map
            \/ /\ at[t] \in Filling /\ at'[t] = "next" /\ map' = map
               /\ local'[t].n = local[t].n + 1
<1>1. /\ at \in [Threads -> Places] /\ local \in [Threads -> LocalType] /\ local[t] \in LocalType
  BY DEF TypeInv
<1> USE DEF At, Goto, Filling, Expanding, shared
<1>2. CASE CreateMap(t)
  BY <1>1, <1>2 DEF CreateMap
<1>3. CASE NextWord(t)
  BY <1>1, <1>3 DEF NextWord, LocalType
<1>4. CASE EnterSet(t)
  BY <1>1, <1>4 DEF EnterSet
<1>5. CASE FetchEntries(t)
  BY <1>1, <1>5 DEF FetchEntries, LocalType
<1>6. CASE ProbeSet(t)
  BY <1>1, <1>6 DEF ProbeSet, SetReturns, Locals, LocalType
<1>7. CASE ReadLength(t)
  BY <1>1, <1>7 DEF ReadLength, LocalType
<1>8. CASE WriteLength(t)
  BY <1>1, <1>8 DEF WriteLength
<1>9. CASE StoreKey(t)
  BY <1>1, <1>9 DEF StoreKey
<1>10. CASE StoreValue(t)
  BY <1>1, <1>10 DEF StoreValue, SetReturns, Locals
<1>11. CASE Expand(t)
  BY <1>1, <1>11 DEF Expand, LocalType
<1>12. CASE Move(t)
  BY <1>1, <1>12 DEF Move, LocalType
<1>13. CASE EndMove(t)
  BY <1>1, <1>13 DEF EndMove
<1>14. CASE FreeEntries(t)
  BY <1>1, <1>14 DEF FreeEntries
<1>15. CASE PublishEntries(t)
  BY <1>1, <1>15 DEF PublishEntries
<1>16. CASE PublishCapacity(t)
  BY <1>1, <1>16 DEF PublishCapacity
<1>17. CASE SetAstray(t)
  BY <1>1, <1>17 DEF SetAstray, SetReturns, Locals
<1>18. CASE EnterGet(t)
  BY <1>1, <1>18 DEF EnterGet
<1>19. CASE Look(t)
  BY <1>1, <1>19 DEF Look, Answer
<1>20. CASE LookAstray(t)
  BY <1>1, <1>20 DEF LookAstray, Answer
<1> QED
  BY <1>2, <1>3, <1>4, <1>5, <1>6, <1>7, <1>8, <1>9, <1>10, <1>11, <1>12, <1>13, <1>14, <1>15,
     <1>16, <1>17, <1>18, <1>19, <1>20 DEF Step

\* A table that there was before has no word more to be counted.
LEMMA PendingShrinks ==
  ASSUME TypeInv, NEW t \in Threads, Step(t) \/ \E w \in Words : Start(t, w),
         NEW m \in 1..Len(tables), NEW u \in Threads, NEW k \in 1..Len(Valid),
         MayCount(u, k, m)'
  PROVE  MayCount(u, k, m)
<1>1. m # Len(tables) + 1 /\ Len(tables) \in Nat /\ k \in Nat /\ m \in Nat
  BY TableIs DEF TypeInv
<1>2. local[t].n \in Nat
  BY LocalIs DEF TypeInv
<1>3. CASE \E w \in Words : Start(t, w)
  <2>1. at[t] = "idle" /\ at' = [at EXCEPT ![t] = "create"] /\ map' = map
    BY <1>3 DEF Start, At, Goto, shared
  <2>2. at \in [Threads -> Places] /\ local \in [Threads -> LocalType]
    BY DEF TypeInv
  <2>3. at'[t] = "create" /\ (u # t => at'[u] = at[u])
    BY <2>1, <2>2
  <2>4. u # t => local'[u] = local[u]
    BY <1>3, <2>2 DEF Start
  <2> QED
    BY <2>1, <2>3, <2>4 DEF MayCount, Filling, Expanding
<1>4. CASE Step(t)
  <2>1. /\ \A o \in Threads : o # t => at'[o] = at[o] /\ local'[o] = local[o]
        /\ map' = map \/ map' = Len(tables) + 1
    BY <1>4, StepShape
  <2>2. CASE u # t
    <3>1. at'[u] = at[u] /\ local'[u] = local[u]
      BY <2>1, <2>2
    <3> QED
      BY <1>1, <2>1, <3>1 DEF MayCount
  <2>3. CASE u = t
    <3> DEFINE All == Filling \union Expanding \union {"expand"}
    <3>1. CASE at'[t] \in {"get", "look", "idle"}
      BY <2>3, <3>1 DEF MayCount, Filling, Expanding
    <3>2. CASE at'[t] = "next" /\ map' = Len(tables) + 1
      BY <1>1, <2>3, <3>2 DEF MayCount, Filling, Expanding
    <3>3. CASE /\ at[t] = "next" /\ at'[t] = "set" /\ map' = map
               /\ local'[t].table = map /\ local'[t].n = local[t].n
      BY <2>3, <3>3 DEF MayCount, Filling, Expanding
    <3>4. CASE /\ at[t] \in All /\ at'[t] \in All
               /\ at[t] \in {"key", "value"} => at'[t] \in {"key", "value"}
               /\ local'[t].table = local[t].table /\ local'[t].n = local[t].n /\ map' = map
      BY <1>1, <1>2, <2>3, <3>4 DEF MayCount, Filling, Expanding
    <3>5. CASE /\ at[t] \in Filling /\ at'[t] = "next" /\ map' = map
               /\ local'[t].n = local[t].n + 1
      BY <1>1, <1>2, <2>3, <3>5 DEF MayCount, Filling, Expanding
    <3> QED
      BY <1>4, <3>1, <3>2, <3>3, <3>4, <3>5, StepShape
  <2> QED
    BY <2>2, <2>3
<1> QED
  BY <1>3, <1>4

\* What there is to count is finite, and no more than all words for all threads.
LEMMA PendingCounts ==
  ASSUME ValidMapAssumption, TwoThreads, NEW S \in SUBSET (Threads \X (1..Len(Valid)))
  PROVE  IsFiniteSet(S) /\ Cardinality(S) \in Nat /\ Cardinality(S) =< AllWords /\ AllWords \in Nat
<1>1. Len(Valid) \in Nat
  BY DEF ValidMapAssumption
<1>2. IsFiniteSet(1..Len(Valid)) /\ Cardinality(1..Len(Valid)) = Len(Valid)
  <2>1. 1 \in Int /\ Len(Valid) \in Int
    BY <1>1
  <2>2. /\ IsFiniteSet(1..Len(Valid))
        /\ Cardinality(1..Len(Valid)) = IF 1 > Len(Valid) THEN 0 ELSE Len(Valid) - 1 + 1
    BY <2>1, FS_Interval
  <2> QED
    BY <1>1, <2>2
<1>3. IsFiniteSet(Threads)
  BY DEF TwoThreads
<1>4. /\ IsFiniteSet(Threads \X (1..Len(Valid)))
      /\ Cardinality(Threads \X (1..Len(Valid))) = AllWords
  BY <1>2, <1>3, FS_Product DEF AllWords
<1> HIDE DEF AllWords
<1>5. IsFiniteSet(S) /\ Cardinality(S) =< AllWords
  BY <1>4, FS_Subset
<1> QED
  BY <1>4, <1>5, FS_CardinalityType

\* No table counts more words than there is room for.
LEMMA FewWords ==
  ASSUME ValidMapAssumption, RoomForAll, TwoThreads
  PROVE  AllWords =< InitCap
<1>1. Len(Valid) \in Nat /\ InitCap \in Nat
  BY DEF ValidMapAssumption
<1>2. Cardinality(Threads) \in Nat /\ Cardinality(Threads) =< 2
  BY FS_CardinalityType DEF TwoThreads
<1>3. \A c \in Nat : c =< 2 => c * Len(Valid) =< 2 * Len(Valid)
  <2> SUFFICES ASSUME NEW c \in Nat, c =< 2
               PROVE  c * Len(Valid) =< 2 * Len(Valid)
    OBVIOUS
  <2>1. c = 0 \/ c = 1 \/ c = 2
    OBVIOUS
  <2> QED
    BY <1>1, <2>1
<1>4. Cardinality(Threads) * Len(Valid) =< 2 * Len(Valid)
  BY <1>2, <1>3
<1>5. AllWords =< 2 * Len(Valid) /\ AllWords \in Int
  BY <1>1, <1>2, <1>4 DEF AllWords
<1> QED
  BY <1>1, <1>5 DEF RoomForAll

-----------------------------------------------------------------------------

\* What a step does to the lengths of tables, and to the length a thread has read.
LEMMA LengthStep ==
  ASSUME TypeInv, NEW t \in Threads, Step(t)
  PROVE  \/ /\ tables' = Append(tables, [entries |-> Len(arrays) + 1, capacity |-> InitCap, length |-> 0])
            /\ \A u \in Threads : at'[u] = "length" => at[u] = "length" /\ local'[u] = local[u]
         \/ /\ at[t] = "length" /\ at'[t] = "key" /\ local' = local /\ map' = map
            /\ tables' = [tables EXCEPT ![local[t].table].length = local[t].length + 1]
         \/ /\ Len(tables') = Len(tables)
            /\ \A m \in 1..Len(tables) : tables'[m].length = tables[m].length
            /\ \A u \in Threads : at'[u] = "length" =>
                 \/ at[u] = "length" /\ local'[u] = local[u]
                 \/ /\ u = t /\ at[t] = "count" /\ local'[t].table = local[t].table
                    /\ local'[t].length = tables[local[t].table].length
<1>1. /\ at \in [Threads -> Places] /\ local \in [Threads -> LocalType] /\ local[t] \in LocalType
  BY DEF TypeInv
<1>2. \A u \in Threads : u # t => at'[u] = at[u] /\ local'[u] = local[u]
  BY StepShape
<1>3. tables \in Seq(TableType)
  BY DEF TypeInv, SharedRight
<1> USE DEF At, Goto, shared
<1>4. CASE CreateMap(t)
  <2>1. at'[t] = "next"
    BY <1>1, <1>4 DEF CreateMap
  <2> QED
    BY <1>2, <1>4, <2>1 DEF CreateMap
<1>5. CASE WriteLength(t)
  BY <1>1, <1>5 DEF WriteLength
<1>6. CASE ReadLength(t)
  <2>1. /\ tables' = tables /\ at[t] = "count" /\ local'[t].table = local[t].table
        /\ local'[t].length = tables[local[t].table].length
    BY <1>1, <1>6 DEF ReadLength, LocalType, Table
  <2> QED
    BY <1>2, <2>1
<1>7. CASE PublishEntries(t) \/ PublishCapacity(t)
  <2>1. at'[t] # "length"
    BY <1>1, <1>7 DEF PublishEntries, PublishCapacity
  <2>2. PICK x : \/ tables' = [tables EXCEPT ![local[t].table].entries = x]
                \/ tables' = [tables EXCEPT ![local[t].table].capacity = x]
    BY <1>7 DEF PublishEntries, PublishCapacity
  <2>3. ASSUME NEW m \in 1..Len(tables)
        PROVE  tables'[m].length = tables[m].length
    <3>1. tables[m] \in TableType
      BY <1>3
    <3>2. \/ tables'[m] = tables[m]
          \/ tables'[m] = [tables[m] EXCEPT !.entries = x]
          \/ tables'[m] = [tables[m] EXCEPT !.capacity = x]
      BY <1>3, <2>2
    <3> QED
      BY <3>1, <3>2 DEF TableType
  <2>4. Len(tables') = Len(tables)
    BY <1>3, <2>2
  <2> QED
    BY <1>2, <2>1, <2>3, <2>4
<1>8. CASE /\ ~CreateMap(t) /\ ~WriteLength(t) /\ ~ReadLength(t)
           /\ ~PublishEntries(t) /\ ~PublishCapacity(t)
  <2>1. tables' = tables
    BY <1>8 DEF Step, NextWord, EnterSet, FetchEntries, ProbeSet, StoreKey, StoreValue, Expand,
                Move, EndMove, FreeEntries, SetAstray, EnterGet, Look, LookAstray
  <2>2. (at'[t] = at[t] /\ at[t] # "length") \/ at'[t] # "length"
    BY <1>1, <1>8 DEF Step, NextWord, EnterSet, FetchEntries, ProbeSet, StoreKey, StoreValue, Expand,
                Move, EndMove, FreeEntries, SetAstray, EnterGet, Look, LookAstray, SetReturns, Answer
  <2> QED
    BY <1>2, <2>1, <2>2
<1> QED
  BY <1>4, <1>5, <1>6, <1>7, <1>8

\* One word is counted and has no longer to be.
LEMMA OneLess ==
  ASSUME ValidMapAssumption, TwoThreads,
         NEW S \in SUBSET (Threads \X (1..Len(Valid))), NEW T \in SUBSET S, NEW p \in S, p \notin T
  PROVE  Cardinality(T) + 1 =< Cardinality(S)
<1>1. IsFiniteSet(S) /\ Cardinality(S) \in Nat
  BY PendingCounts
<1>2. IsFiniteSet(S \ {p}) /\ Cardinality(S \ {p}) = Cardinality(S) - 1
  BY <1>1, FS_RemoveElement
<1>3. T \in SUBSET (S \ {p})
  OBVIOUS
<1>4. Cardinality(T) =< Cardinality(S \ {p})
  BY <1>2, <1>3, FS_Subset
<1>5. Cardinality(T) \in Nat
  BY <1>2, <1>3, FS_Subset, FS_CardinalityType
<1> QED
  BY <1>1, <1>2, <1>4, <1>5

LEMMA CountStep ==
  ASSUME ValidMapAssumption, TwoThreads, TypeInv, TypeInv', CountInv, [MapNext]_mapVars
  PROVE  CountInv'
<1>1. CASE UNCHANGED mapVars
  BY <1>1 DEF mapVars, shared, CountInv, Pending, MayCount
<1>2. CASE \E t \in Threads : Step(t) \/ \E w \in Words : Start(t, w)
  <2> PICK t \in Threads : Step(t) \/ \E w \in Words : Start(t, w)
    BY <1>2
  <2>1. \A m \in 1..Len(tables) :
          /\ Pending(m) \in SUBSET (Threads \X (1..Len(Valid)))
          /\ Pending(m)' \in SUBSET Pending(m)
    <3> SUFFICES ASSUME NEW m \in 1..Len(tables), NEW u \in Threads, NEW k \in 1..Len(Valid),
                        MayCount(u, k, m)'
                 PROVE  MayCount(u, k, m)
      BY DEF Pending
    <3> QED
      BY PendingShrinks
  <2>2. \A m \in 1..Len(tables) :
          /\ Cardinality(Pending(m)) \in Nat /\ Cardinality(Pending(m)') \in Nat
          /\ Cardinality(Pending(m)') =< Cardinality(Pending(m))
    <3> SUFFICES ASSUME NEW m \in 1..Len(tables)
                 PROVE  /\ Cardinality(Pending(m)) \in Nat /\ Cardinality(Pending(m)') \in Nat
                        /\ Cardinality(Pending(m)') =< Cardinality(Pending(m))
      OBVIOUS
    <3>1. IsFiniteSet(Pending(m)) /\ Cardinality(Pending(m)) \in Nat
      BY <2>1, PendingCounts
    <3>2. Pending(m)' \in SUBSET Pending(m)
      BY <2>1
    <3> QED
      BY <3>1, <3>2, FS_Subset, FS_CardinalityType
  <2>3. AllWords \in Nat /\ \A S \in SUBSET (Threads \X (1..Len(Valid))) : Cardinality(S) =< AllWords
    BY PendingCounts
  <2>4. \A u \in Threads : at[u] = "length" => local[u].table \in 1..Len(tables) /\ local[u].length \in Nat
    BY LocalIs DEF TypeInv, HandsRight, Hands, Places
  <2>5. \A m \in 1..Len(tables) :
          /\ tables[m].length \in Nat
          /\ tables[m].length + Cardinality(Pending(m)') =< AllWords
    <3>1. \A m \in 1..Len(tables) : tables[m].length \in Nat
                                    /\ tables[m].length + Cardinality(Pending(m)) =< AllWords
      BY TableIs DEF TypeInv, CountInv
    <3> QED
      BY <2>2, <2>3, <3>1
  <2>6. \A u \in Threads, m \in 1..Len(tables) : at[u] = "length" /\ m = local[u].table =>
          local[u].length + Cardinality(Pending(m)') =< AllWords
    <3> SUFFICES ASSUME NEW u \in Threads, NEW m \in 1..Len(tables), at[u] = "length",
                        m = local[u].table
                 PROVE  local[u].length + Cardinality(Pending(m)') =< AllWords
      OBVIOUS
    <3>1. local[u].length + Cardinality(Pending(m)) =< AllWords
      BY DEF CountInv
    <3> QED
      BY SMTT(20), <2>2, <2>3, <2>4, <3>1
  <2>7. SUFFICES /\ \A m \in 1..Len(tables') : tables'[m].length + Cardinality(Pending(m)') =< AllWords
                 /\ \A u \in Threads, m \in 1..Len(tables') : at'[u] = "length" /\ m = local'[u].table =>
                      local'[u].length + Cardinality(Pending(m)') =< AllWords
    <3>1. \A u \in Threads : at'[u] = "length" => local'[u].table \in 1..Len(tables')
      BY DEF TypeInv, HandsRight, Hands, Places
    <3> QED
      BY <3>1 DEF CountInv
  <2>8. CASE \E w \in Words : Start(t, w)
    <3>1. /\ tables' = tables /\ at' = [at EXCEPT ![t] = "create"]
          /\ \E l : local' = [local EXCEPT ![t] = l]
      BY <2>8 DEF Start, Goto, shared
    <3>2. at \in [Threads -> Places] /\ local \in [Threads -> LocalType]
      BY DEF TypeInv
    <3>3. \A u \in Threads : at'[u] = "length" => at[u] = "length" /\ local'[u] = local[u]
      BY <3>1, <3>2
    <3> QED
      BY <2>5, <2>6, <3>1, <3>3
  <2>9. CASE Step(t)
    <3>1. tables \in Seq(TableType) /\ Len(tables) \in Nat
      BY TableIs DEF TypeInv, SharedRight
    \* A new table.
    <3>2. CASE /\ tables' = Append(tables, [entries |-> Len(arrays) + 1, capacity |-> InitCap, length |-> 0])
               /\ \A u \in Threads : at'[u] = "length" => at[u] = "length" /\ local'[u] = local[u]
      <4>1. /\ Len(tables') = Len(tables) + 1
            /\ \A m \in 1..Len(tables) : tables'[m] = tables[m]
            /\ tables'[Len(tables) + 1].length = 0
        BY <3>1, <3>2
      <4>2. \A m : Pending(m)' \in SUBSET (Threads \X (1..Len(Valid)))
        BY DEF Pending
      <4>3. \A m \in 1..Len(tables') : m \in 1..Len(tables) \/ m = Len(tables) + 1
        BY <3>1, <4>1
      <4>4. \A m : Cardinality(Pending(m)') \in Nat /\ Cardinality(Pending(m)') =< AllWords
        BY <4>2, PendingCounts
      <4>5. ASSUME NEW u \in Threads, NEW m \in 1..Len(tables'), at'[u] = "length", m = local'[u].table
            PROVE  local'[u].length + Cardinality(Pending(m)') =< AllWords
        <5>1. at[u] = "length" /\ local'[u] = local[u]
          BY <3>2, <4>5
        <5>2. m \in 1..Len(tables)
          BY <2>4, <4>5, <5>1
        <5> QED
          BY <2>6, <4>5, <5>1, <5>2
      <4>6. ASSUME NEW m \in 1..Len(tables')
            PROVE  tables'[m].length + Cardinality(Pending(m)') =< AllWords
        BY <2>3, <2>5, <4>1, <4>3, <4>4
      <4> QED
        BY <4>5, <4>6
    \* A word is counted: the length that was read grows, and there is a word less.
    <3>3. CASE /\ at[t] = "length" /\ at'[t] = "key" /\ local' = local /\ map' = map
               /\ tables' = [tables EXCEPT ![local[t].table].length = local[t].length + 1]
      <4>1. PICK n \in 1..Len(tables) : n = local[t].table
        BY <2>4, <3>3
      <4>2. /\ tables'[n].length = local[t].length + 1 /\ Len(tables') = Len(tables)
            /\ \A m \in 1..Len(tables) : m # n => tables'[m] = tables[m]
        BY <3>1, <3>3, <4>1 DEF TableType
      <4>3. local[t].n \in 1..Len(Valid) /\ local[t].n \in Nat
        BY <3>3 DEF TypeInv, HandsRight, Hands, Filling
      <4>4. <<t, local[t].n>> \in Pending(n) /\ <<t, local[t].n>> \notin Pending(n)'
        BY <3>3, <4>1, <4>3 DEF Pending, MayCount, Filling, Expanding
      <4>5. Cardinality(Pending(n)') + 1 =< Cardinality(Pending(n))
        BY <2>1, <4>4, OneLess
      <4>6. local[t].length + Cardinality(Pending(n)) =< AllWords /\ local[t].length \in Nat
        BY <2>4, <3>3, <4>1 DEF CountInv
      <4>7. tables'[n].length + Cardinality(Pending(n)') =< AllWords
        BY SMTT(20), <2>2, <2>3, <4>2, <4>5, <4>6
      <4>8. \A u \in Threads : at'[u] = "length" => at[u] = "length" /\ local'[u] = local[u]
        BY <3>3, StepShape, <2>9
      <4> QED
        BY <2>5, <2>6, <4>2, <4>7, <4>8
    \* Lengths stay as they are.
    <3>4. CASE /\ Len(tables') = Len(tables)
               /\ \A m \in 1..Len(tables) : tables'[m].length = tables[m].length
               /\ \A u \in Threads : at'[u] = "length" =>
                    \/ at[u] = "length" /\ local'[u] = local[u]
                    \/ /\ u = t /\ at[t] = "count" /\ local'[t].table = local[t].table
                       /\ local'[t].length = tables[local[t].table].length
      <4>1. ASSUME NEW u \in Threads, NEW m \in 1..Len(tables'), at'[u] = "length", m = local'[u].table
            PROVE  local'[u].length + Cardinality(Pending(m)') =< AllWords
        <5>1. m \in 1..Len(tables)
          BY <3>4
        <5>2. CASE at[u] = "length" /\ local'[u] = local[u]
          BY <2>6, <4>1, <5>1, <5>2
        <5>3. CASE local'[u].length = tables[m].length
          BY <2>5, <5>1, <5>3
        <5> QED
          BY <3>4, <4>1, <5>2, <5>3
      <4> QED
        BY <2>5, <3>4, <4>1
    <3> QED
      BY <2>9, <3>2, <3>3, <3>4, LengthStep
  <2> QED
    BY <2>8, <2>9
<1> QED
  BY <1>1, <1>2 DEF MapNext

LEMMA CountAlways ==
  ASSUME ValidMapAssumption, IndexInside, RoomForAll, TwoThreads
  PROVE  MapSpec => []CountInv
<1>1. MapInit => CountInv
  BY DEF MapInit, CountInv
<1>2. TypeInv /\ TypeInv' /\ CountInv /\ [MapNext]_mapVars => CountInv'
  BY CountStep
<1>3. MapSpec => []TypeInv
  BY AloneAlways, PTL
<1> QED
  BY <1>1, <1>2, <1>3, PTL DEF MapSpec

-----------------------------------------------------------------------------

\* An array has the slots it was made with.
LEMMA ArraysKeep ==
  ASSUME ValidMapAssumption, TypeInv, NEW t \in Threads, Step(t)
  PROVE  /\ Len(arrays) =< Len(arrays')
         /\ \A a \in 1..Len(arrays) : DOMAIN arrays'[a] = DOMAIN arrays[a]
<1>1. arrays \in Seq(Arrays) /\ Len(arrays) \in Nat
  BY TableIs DEF TypeInv, SharedRight
<1>2. CASE arrays' = arrays
  BY <1>1, <1>2
<1>3. CASE \E new \in Arrays : arrays' = Append(arrays, new)
  BY <1>1, <1>3, AppendIs
<1>4. ASSUME NEW a, NEW s, NEW x, arrays' = [arrays EXCEPT ![a] = [arrays[a] EXCEPT ![s] = x]]
      PROVE  /\ Len(arrays) =< Len(arrays')
             /\ \A b \in 1..Len(arrays) : DOMAIN arrays'[b] = DOMAIN arrays[b]
  <2>1. Len(arrays') = Len(arrays)
    BY <1>1, <1>4
  <2>2. ASSUME NEW b \in 1..Len(arrays)
        PROVE  DOMAIN arrays'[b] = DOMAIN arrays[b]
    <3>1. arrays'[b] = arrays[b] \/ arrays'[b] = [arrays[b] EXCEPT ![s] = x]
      BY <1>1, <1>4
    <3> QED
      BY <3>1
  <2> QED
    BY <1>1, <2>1, <2>2
<1>5. CASE CreateMap(t)
  BY <1>3, <1>5, EmptyIs DEF CreateMap, ValidMapAssumption
<1>6. CASE Expand(t)
  <2>1. local[t].table \in 1..Len(tables)
    BY <1>6 DEF TypeInv, HandsRight, Hands, Places, Expand, At
  <2>2. 2 * Table(t).capacity \in Nat \ {0}
    BY <2>1, TableIs DEF TypeInv, Table
  <2> QED
    BY <1>3, <1>6, <2>2, EmptyIs DEF Expand
<1>7. CASE ProbeSet(t)
  <2>1. \/ arrays' = arrays
        \/ \E a, s, x : arrays' = [arrays EXCEPT ![a] = [arrays[a] EXCEPT ![s] = x]]
    BY <1>7 DEF ProbeSet
  <2> QED
    BY <1>2, <1>4, <2>1
<1>8. CASE StoreKey(t)
  <2>1. \E a, s, x : arrays' = [arrays EXCEPT ![a] = [arrays[a] EXCEPT ![s] = x]]
    BY <1>8 DEF StoreKey
  <2> QED
    BY <1>4, <2>1
<1>9. CASE StoreValue(t)
  <2>1. \E a, s, x : arrays' = [arrays EXCEPT ![a] = [arrays[a] EXCEPT ![s] = x]]
    BY <1>9 DEF StoreValue
  <2> QED
    BY <1>4, <2>1
<1>10. CASE Move(t)
  <2>1. \/ arrays' = arrays
        \/ \E a, s, x : arrays' = [arrays EXCEPT ![a] = [arrays[a] EXCEPT ![s] = x]]
    BY <1>10 DEF Move
  <2> QED
    BY <1>2, <1>4, <2>1
<1>11. CASE /\ ~CreateMap(t) /\ ~Expand(t) /\ ~ProbeSet(t) /\ ~StoreKey(t) /\ ~StoreValue(t)
            /\ ~Move(t)
  BY <1>2, <1>11 DEF Step, shared, NextWord, EnterSet, FetchEntries, ReadLength, WriteLength, EndMove,
       FreeEntries, PublishEntries, PublishCapacity, SetAstray, EnterGet, Look, LookAstray
<1> QED
  BY <1>5, <1>6, <1>7, <1>8, <1>9, <1>10, <1>11

\* A table keeps its entries and capacity but for the two stores at the end of ht_expand.
LEMMA TablesKeep ==
  ASSUME TypeInv, NEW t \in Threads, Step(t), ~PublishEntries(t), ~PublishCapacity(t)
  PROVE  \A m \in 1..Len(tables) :
           /\ m \in 1..Len(tables')
           /\ tables'[m].entries = tables[m].entries /\ tables'[m].capacity = tables[m].capacity
<1>1. tables \in Seq(TableType) /\ Len(tables) \in Nat
  BY TableIs DEF TypeInv, SharedRight
<1>2. CASE CreateMap(t)
  <2>1. PICK x : tables' = Append(tables, x)
    BY <1>2 DEF CreateMap
  <2> QED
    BY <1>1, <2>1
<1>3. CASE WriteLength(t)
  <2>1. PICK m, x : tables' = [tables EXCEPT ![m].length = x]
    BY <1>3 DEF WriteLength
  <2>2. Len(tables') = Len(tables)
    BY <1>1, <2>1
  <2> SUFFICES ASSUME NEW k \in 1..Len(tables)
               PROVE  tables'[k].entries = tables[k].entries /\ tables'[k].capacity = tables[k].capacity
    BY <2>2
  <2>3. tables'[k] = tables[k] \/ tables'[k] = [tables[k] EXCEPT !.length = x]
    BY <1>1, <2>1
  <2>4. tables[k] \in TableType
    BY <1>1
  <2> QED
    BY <2>3, <2>4 DEF TableType
<1>4. CASE ~CreateMap(t) /\ ~WriteLength(t)
  <2>1. tables' = tables
    BY <1>4 DEF Step, shared, NextWord, EnterSet, FetchEntries, ProbeSet, ReadLength, StoreKey,
                StoreValue, Expand, Move, EndMove, FreeEntries, SetAstray, EnterGet, Look, LookAstray
  <2> QED
    BY <2>1
<1> QED
  BY <1>2, <1>3, <1>4

\* What the other threads rely on after a step of thread t that leaves entries and
\* capacities as they are.
LEMMA OthersFit ==
  ASSUME ValidMapAssumption, TypeInv, PairInv, NEW t \in Threads, Step(t),
         ~PublishEntries(t), ~PublishCapacity(t),
         \A m \in (1..Len(tables')) \ (1..Len(tables)) : TableFits(m)',
         ThreadFits(t)',
         \A u \in Threads \ {t} : PairFits(t, u)' /\ PairFits(u, t)'
  PROVE  PairInv'
<1>1. \A u \in Threads : u # t => at'[u] = at[u] /\ local'[u] = local[u]
  BY StepShape
<1>2. /\ Len(arrays) \in Nat /\ Len(tables) \in Nat
      /\ \A m \in 1..Len(tables) : tables[m].entries \in 1..Len(arrays)
  BY TableIs DEF TypeInv
<1>3. \A a \in 1..Len(arrays) : DOMAIN arrays'[a] = DOMAIN arrays[a]
  BY ArraysKeep
<1>4. \A m \in 1..Len(tables) :
        tables'[m].entries = tables[m].entries /\ tables'[m].capacity = tables[m].capacity
  BY TablesKeep
<1>5. \A m \in 1..Len(tables) : TableFits(m)'
  BY <1>2, <1>3, <1>4 DEF PairInv, TableFits
<1>6. ASSUME NEW u \in Threads, u # t
      PROVE  ThreadFits(u)'
  <2>1. /\ at[u] \in Probing \union Expanding => local[u].array \in 1..Len(arrays)
        /\ at[u] \in Probing \union Expanding \union {"look"} => local[u].table \in 1..Len(tables)
    BY DEF TypeInv, HandsRight, Hands, Probing, Expanding, Places
  <2>2. ThreadFits(u) /\ at'[u] = at[u] /\ local'[u] = local[u]
    BY <1>1, <1>6 DEF PairInv
  <2> QED
    BY <1>2, <1>3, <1>4, <2>1, <2>2 DEF ThreadFits, Table, Probing, Expanding
<1>7. ASSUME NEW u \in Threads, NEW v \in Threads, u # t, v # t
      PROVE  PairFits(u, v)'
  <2>1. at[u] = "expand" => local[u].table \in 1..Len(tables)
    BY DEF TypeInv, HandsRight, Hands, Places
  <2>2. PairFits(u, v) /\ at'[u] = at[u] /\ local'[u] = local[u]
        /\ at'[v] = at[v] /\ local'[v] = local[v]
    BY <1>1, <1>7 DEF PairInv
  <2> QED
    BY <1>4, <2>1, <2>2 DEF PairFits, Table
<1>8. \A m \in 1..Len(tables') : TableFits(m)'
  BY <1>5
<1>9. \A u, v \in Threads : PairFits(u, v)'
  <2>1. PairFits(t, t)'
    BY DEF PairFits
  <2> QED
    BY <1>7, <2>1
<1> QED
  BY <1>6, <1>8, <1>9 DEF PairInv

\* There is no third thread.
LEMMA NoThird ==
  ASSUME TwoThreads, NEW t \in Threads, NEW u \in Threads, NEW v \in Threads,
         t # u, v # t, v # u
  PROVE  FALSE
<1>1. IsFiniteSet({t}) /\ Cardinality({t}) = 1
  BY FS_Singleton
<1>2. IsFiniteSet({t} \union {u}) /\ Cardinality({t} \union {u}) = 2
  BY <1>1, FS_AddElement
<1>3. IsFiniteSet({t} \union {u} \union {v}) /\ Cardinality({t} \union {u} \union {v}) = 3
  BY <1>2, FS_AddElement
<1>4. {t} \union {u} \union {v} \in SUBSET Threads
  OBVIOUS
<1>5. Cardinality({t} \union {u} \union {v}) =< Cardinality(Threads)
  BY <1>4, FS_Subset DEF TwoThreads
<1>6. Cardinality(Threads) \in Nat
  BY FS_CardinalityType DEF TwoThreads
<1> QED
  BY <1>3, <1>5, <1>6 DEF TwoThreads

\* A table that is found half full has not grown.
LEMMA FullIsFirst ==
  ASSUME ValidMapAssumption, RoomForAll, TwoThreads, TypeInv, CountInv, PairInv,
         NEW t \in Threads, at[t] = "set", Table(t).length >= Table(t).capacity \div 2
  PROVE  Table(t).capacity = InitCap
<1>1. PICK m \in 1..Len(tables) : m = local[t].table
  BY DEF TypeInv, HandsRight, Hands, Places
<1>2. /\ tables[m].length \in Nat /\ tables[m].capacity \in Nat \ {0}
      /\ InitCap \in Nat \ {0} /\ Len(Valid) \in Nat
  BY TableIs DEF TypeInv, ValidMapAssumption
<1>3. local[t].n \in 1..Len(Valid)
  BY DEF TypeInv, HandsRight, Hands, Filling
<1>4. local[t].n >= local[t].n
  BY <1>2, <1>3
<1>5. <<t, local[t].n>> \in Pending(m)
  BY <1>1, <1>3, <1>4 DEF Pending, MayCount, Filling, Expanding
<1>6. Pending(m) \in SUBSET (Threads \X (1..Len(Valid)))
  BY DEF Pending
<1>7. IsFiniteSet(Pending(m)) /\ Cardinality(Pending(m)) \in Nat /\ AllWords \in Nat
  BY <1>6, PendingCounts
<1>8. Cardinality(Pending(m)) # 0
  BY <1>5, <1>7, FS_EmptySet
<1>9. tables[m].length + Cardinality(Pending(m)) =< AllWords
  BY DEF CountInv
<1>10. AllWords =< InitCap
  BY FewWords
<1>11. tables[m].length < InitCap
  BY <1>2, <1>7, <1>8, <1>9, <1>10
<1>12. tables[m].capacity = InitCap \/ tables[m].capacity >= 2 * InitCap
  BY DEF PairInv, TableFits
<1>13. tables[m].length >= tables[m].capacity \div 2
  BY <1>1 DEF Table
<1>14. tables[m].capacity < 2 * InitCap
  BY <1>2, <1>11, <1>13
<1> QED
  BY <1>1, <1>2, <1>12, <1>14 DEF Table

\* What a thread relies on after its own step, one that leaves entries and capacities alone.
LEMMA StepFits ==
  ASSUME ValidMapAssumption, IndexInside, RoomForAll, TwoThreads, TypeInv, TypeInv', CountInv,
         PairInv, NEW t \in Threads, Step(t), ~PublishEntries(t), ~PublishCapacity(t)
  PROVE  /\ \A m \in (1..Len(tables')) \ (1..Len(tables)) : TableFits(m)'
         /\ ThreadFits(t)'
         /\ \A u \in Threads \ {t} : PairFits(t, u)' /\ PairFits(u, t)'
<1> DEFINE P == /\ \A m \in (1..Len(tables')) \ (1..Len(tables)) : TableFits(m)'
                /\ ThreadFits(t)'
                /\ \A u \in Threads \ {t} : PairFits(t, u)' /\ PairFits(u, t)'
           l == local[t]
<1> SUFFICES P
  OBVIOUS
<1>1. /\ at \in [Threads -> Places] /\ local \in [Threads -> LocalType] /\ l \in LocalType
      /\ l.slot \in Nat /\ l.capacity \in Nat
  BY LocalIs DEF TypeInv
<1>2. /\ Len(arrays) \in Nat /\ Len(tables) \in Nat /\ InitCap \in Nat \ {0}
      /\ \A m \in 1..Len(tables) :
           tables[m].entries \in 1..Len(arrays) /\ tables[m].capacity \in Nat \ {0}
      /\ arrays \in Seq(Arrays)
  BY TableIs DEF TypeInv, SharedRight, ValidMapAssumption
<1>3. \A a \in 1..Len(arrays) : DOMAIN arrays'[a] = DOMAIN arrays[a]
  BY ArraysKeep
<1>4. \A u \in Threads : u # t => at'[u] = at[u] /\ local'[u] = local[u]
  BY StepShape
<1>5. ThreadFits(t) /\ \A m \in 1..Len(tables) : TableFits(m)
  BY DEF PairInv
<1>6. \A u \in Threads \ {t} : PairFits(t, u) /\ PairFits(u, t)
  BY DEF PairInv
<1>7. /\ at[t] \in Places \ {"idle", "create", "next"} => l.table \in 1..Len(tables)
      /\ at[t] \in Probing \union Expanding => l.array \in 1..Len(arrays)
  BY DEF TypeInv, HandsRight, Hands
\* Where a thread is in a place that relies on nothing, there is nothing to show.
<1>8. ASSUME at'[t] \in {"create", "next", "set", "fetch", "get", "idle"}
      PROVE  ThreadFits(t)'
  BY <1>8 DEF ThreadFits, Expanding
<1>9. ASSUME at'[t] \in Places \ (Expanding \union {"expand"})
      PROVE  \A u \in Threads \ {t} : PairFits(t, u)' /\ PairFits(u, t)'
  BY <1>9 DEF PairFits, Expanding
<1>10. ASSUME tables' = tables
       PROVE  \A m \in (1..Len(tables')) \ (1..Len(tables)) : TableFits(m)'
  BY <1>10
<1> USE DEF At, Goto, shared
<1>11. CASE CreateMap(t)
  <2>1. /\ at'[t] = "next" /\ arrays' = Append(arrays, EmptyArray(InitCap))
        /\ tables' = Append(tables,
             [entries |-> Len(arrays) + 1, capacity |-> InitCap, length |-> 0])
    BY <1>1, <1>11 DEF CreateMap
  <2>2. /\ Len(tables') = Len(tables) + 1
        /\ tables'[Len(tables) + 1].entries = Len(arrays) + 1
        /\ tables'[Len(tables) + 1].capacity = InitCap
    <3>1. tables \in Seq(TableType)
      BY DEF TypeInv, SharedRight
    <3> QED
      BY <1>2, <2>1, <3>1
  <2>3. arrays'[Len(arrays) + 1] = EmptyArray(InitCap) /\ DOMAIN EmptyArray(InitCap) = Slots(InitCap)
    BY <1>2, <2>1, EmptyIs, AppendIs
  <2>4. ASSUME NEW m \in (1..Len(tables')) \ (1..Len(tables))
        PROVE  TableFits(m)'
    <3>1. m = Len(tables) + 1
      BY <1>2, <2>2, <2>4
    <3> QED
      BY <2>2, <2>3, <3>1 DEF TableFits
  <2> QED
    BY <1>8, <1>9, <2>1, <2>4 DEF Places, Expanding
<1>12. CASE NextWord(t)
  <2>1. at'[t] \in {"set", "get"} /\ tables' = tables
    BY <1>1, <1>12 DEF NextWord
  <2> QED
    BY <1>8, <1>9, <1>10, <2>1 DEF Places, Expanding
<1>13. CASE EnterSet(t)
  <2>1. tables' = tables /\ local' = local /\ at[t] = "set" /\ at'[t] \in {"expand", "fetch"}
    BY <1>1, <1>13 DEF EnterSet
  <2>2. ThreadFits(t)'
    BY <2>1 DEF ThreadFits, Expanding
  <2>3. CASE at'[t] = "fetch"
    BY <1>8, <1>9, <1>10, <2>1, <2>3 DEF Places, Expanding
  <2>4. CASE at'[t] = "expand"
    <3>1. Table(t).length >= Table(t).capacity \div 2
      BY <1>1, <1>13, <2>4 DEF EnterSet
    <3>2. Table(t).capacity = InitCap
      BY <2>1, <3>1, FullIsFirst
    <3>3. ASSUME NEW u \in Threads \ {t}
          PROVE  PairFits(t, u)' /\ PairFits(u, t)'
      BY <2>1, <2>4, <3>2 DEF PairFits, Table, Expanding
    <3> QED
      BY <1>10, <2>1, <2>2, <3>3
  <2> QED
    BY <2>1, <2>3, <2>4
<1>14. CASE FetchEntries(t)
  <2>1. /\ tables' = tables /\ arrays' = arrays /\ at[t] = "fetch" /\ at'[t] = "probe"
        /\ local'[t].array = Table(t).entries /\ local'[t].capacity = Table(t).capacity
        /\ local'[t].slot = HashIndex(Word(t), Table(t).capacity)
    BY <1>1, <1>14 DEF FetchEntries, LocalType
  <2>2. l.table \in 1..Len(tables) /\ l.n \in 1..Len(Valid)
    BY <2>1, <1>7 DEF TypeInv, HandsRight, Hands, Places, Filling
  <2>3. Word(t) \in Words \union ValidWords
    BY <2>2 DEF Word, ValidWords
  <2>4. Table(t).capacity \in Nat \ {0}
    BY <1>2, <2>2 DEF Table
  <2>5. HashIndex(Word(t), Table(t).capacity) \in Slots(Table(t).capacity)
    BY <2>3, <2>4 DEF IndexInside, Slots
  <2>6. Slots(Table(t).capacity) \subseteq DOMAIN arrays[Table(t).entries]
    BY <1>5, <2>2 DEF TableFits, Table
  <2>7. ThreadFits(t)'
    BY <2>1, <2>5, <2>6 DEF ThreadFits, Expanding
  <2> QED
    BY <1>9, <1>10, <2>1, <2>7 DEF Places, Expanding
\* A thread that probes, or has found its slot.
<1>15. ASSUME at[t] \in Probing, at'[t] \in Probing, tables' = tables,
              \/ local' = local
              \/ \E s \in Slots(l.capacity) : local' = [local EXCEPT ![t].slot = s]
              \/ \E s : local' = [local EXCEPT ![t].length = s]
       PROVE  P
  <2>1. /\ local'[t].array = l.array /\ local'[t].capacity = l.capacity
        /\ local'[t].slot \in Slots(l.capacity)
    <3>1. l.slot \in Slots(l.capacity)
      BY <1>5, <1>15 DEF ThreadFits, Probing
    <3>2. CASE local' = local
      BY <3>1, <3>2
    <3>3. ASSUME NEW s \in Slots(l.capacity), local' = [local EXCEPT ![t].slot = s]
          PROVE  /\ local'[t].array = l.array /\ local'[t].capacity = l.capacity
                 /\ local'[t].slot = s
      BY <1>1, <3>3 DEF LocalType
    <3>4. ASSUME NEW s, local' = [local EXCEPT ![t].length = s]
          PROVE  /\ local'[t].array = l.array /\ local'[t].capacity = l.capacity
                 /\ local'[t].slot = l.slot
      BY <1>1, <3>4 DEF LocalType
    <3> QED
      BY <1>15, <3>1, <3>2, <3>3, <3>4
  <2>2. Slots(l.capacity) \subseteq DOMAIN arrays'[l.array]
    BY <1>3, <1>5, <1>7, <1>15 DEF ThreadFits, Probing
  <2>3. ThreadFits(t)'
    BY <1>15, <2>1, <2>2 DEF ThreadFits, Probing, Expanding
  <2> QED
    BY <1>9, <1>10, <1>15, <2>3 DEF Places, Expanding, Probing
<1>16. ASSUME at'[t] = "next", tables' = tables
       PROVE  P
  BY <1>8, <1>9, <1>10, <1>16 DEF Places, Expanding
<1>17. CASE ProbeSet(t)
  <2>1. tables' = tables /\ at[t] = "probe"
    BY <1>17 DEF ProbeSet
  <2>2. NextSlot(l.slot, l.capacity) \in Slots(l.capacity)
    <3>1. l.slot \in Slots(l.capacity)
      BY <1>5, <2>1 DEF ThreadFits
    <3> QED
      BY <1>1, <3>1 DEF NextSlot, Slots
  <2>3. \/ at'[t] = "next"
        \/ at'[t] = "count" /\ local' = local
        \/ at'[t] = "probe" /\ local' = [local EXCEPT ![t].slot = NextSlot(l.slot, l.capacity)]
    BY <1>1, <1>17 DEF ProbeSet, SetReturns
  <2> HIDE DEF P
  <2> QED
    BY <1>15, <1>16, <2>1, <2>2, <2>3 DEF Probing
<1>18. CASE ReadLength(t)
  <2>1. /\ at[t] = "count" /\ at'[t] = "length" /\ tables' = tables
        /\ \E s : local' = [local EXCEPT ![t].length = s]
    BY <1>1, <1>18 DEF ReadLength
  <2> HIDE DEF P
  <2> QED
    BY <1>15, <2>1 DEF Probing
<1>19. CASE WriteLength(t)
  <2>1. at[t] = "length" /\ at'[t] = "key" /\ local' = local /\ arrays' = arrays
    BY <1>1, <1>19 DEF WriteLength
  <2>2. ThreadFits(t)'
    BY <1>5, <2>1 DEF ThreadFits, Expanding
  <2>3. Len(tables') = Len(tables)
    BY <1>2, <1>19 DEF WriteLength, TypeInv, SharedRight
  <2> QED
    BY <1>9, <2>1, <2>2, <2>3 DEF Places, Expanding
<1>20. CASE StoreKey(t)
  <2>1. at[t] = "key" /\ at'[t] = "value" /\ local' = local /\ tables' = tables
    BY <1>1, <1>20 DEF StoreKey
  <2> HIDE DEF P
  <2> QED
    BY <1>15, <2>1 DEF Probing
<1>21. CASE StoreValue(t)
  BY <1>1, <1>16, <1>21 DEF StoreValue, SetReturns
<1>22. CASE SetAstray(t)
  <2>1. /\ tables' = tables
        /\ \/ at'[t] = "next"
           \/ at[t] = "probe" /\ at'[t] = "count" /\ local' = local
    BY <1>1, <1>22 DEF SetAstray, SetReturns
  <2> HIDE DEF P
  <2> QED
    BY <1>15, <1>16, <2>1 DEF Probing
<1>23. CASE Expand(t)
  <2>1. /\ tables' = tables /\ at[t] = "expand" /\ at'[t] = "move"
        /\ arrays' = Append(arrays, EmptyArray(2 * Table(t).capacity))
        /\ local'[t].table = l.table /\ local'[t].array = Len(arrays) + 1
        /\ local'[t].capacity = 2 * Table(t).capacity
    BY <1>1, <1>23 DEF Expand, LocalType
  <2>2. l.table \in 1..Len(tables)
    BY <1>7, <2>1 DEF Places
  <2>3. PICK c \in Nat \ {0} : c = Table(t).capacity
    BY <1>2, <2>2 DEF Table
  <2>4. c = InitCap \/ c >= 2 * InitCap
    BY <1>5, <2>2, <2>3 DEF TableFits, Table
  <2>5. arrays'[Len(arrays) + 1] = EmptyArray(2 * c) /\ DOMAIN EmptyArray(2 * c) = Slots(2 * c)
    <3>1. 2 * c \in Nat \ {0}
      OBVIOUS
    <3> QED
      BY <1>2, <2>1, <2>3, <3>1, EmptyIs, AppendIs
  <2>6. Table(t)'.capacity = c
    BY <2>1, <2>3 DEF Table
  <2>7. ThreadFits(t)'
    BY <1>2, <2>1, <2>3, <2>4, <2>5, <2>6 DEF ThreadFits, Expanding
  <2>8. ASSUME NEW u \in Threads \ {t}
        PROVE  PairFits(t, u)' /\ PairFits(u, t)'
    <3>1. at'[u] = at[u] /\ local'[u] = local[u]
      BY <1>4
    <3>2. CASE at[u] \in Expanding /\ l.table = local[u].table
      <4>1. c = InitCap
        BY <1>6, <2>1, <2>3, <3>2 DEF PairFits
      <4>2. 2 * InitCap =< local[u].capacity /\ local[u].capacity =< 2 * c
        BY <2>3, <3>2 DEF PairInv, ThreadFits, Table
      <4>3. local[u].capacity \in Nat
        BY LocalIs DEF TypeInv
      <4>4. local[u].capacity = 2 * c
        BY SMTT(20), <1>2, <4>1, <4>2, <4>3
      <4>5. local'[t].capacity = local'[u].capacity
        BY <2>1, <2>3, <3>1, <4>4
      <4> QED
        BY <2>1, <3>1, <3>2, <4>5 DEF PairFits, Expanding
    <3>3. CASE at[u] = "expand" /\ l.table = local[u].table
      <4>1. c = InitCap
        BY <1>6, <2>1, <2>3, <3>3 DEF PairFits, Expanding
      <4> QED
        BY <2>1, <2>3, <3>1, <3>3, <4>1 DEF PairFits, Expanding, Table
    <3>4. CASE at[u] \notin Expanding \union {"expand"} \/ l.table # local[u].table
      BY <2>1, <3>1, <3>4 DEF PairFits, Expanding
    <3> QED
      BY <3>2, <3>3, <3>4
  <2> QED
    BY <1>10, <2>1, <2>7, <2>8
\* A thread that goes on with its new array.
<1>24. ASSUME at[t] \in Expanding, at'[t] \in Expanding, at'[t] # "capacity", tables' = tables,
              local' = local \/ \E s : local' = [local EXCEPT ![t].slot = s]
       PROVE  P
  <2>1. /\ local'[t].array = l.array /\ local'[t].capacity = l.capacity
        /\ local'[t].table = l.table
    BY <1>1, <1>24 DEF LocalType
  <2>2. Slots(l.capacity) \subseteq DOMAIN arrays'[l.array]
    BY <1>3, <1>5, <1>7, <1>24 DEF ThreadFits
  <2>3. ThreadFits(t)'
    BY <1>5, <1>24, <2>1, <2>2 DEF ThreadFits, Expanding, Table
  <2>4. ASSUME NEW u \in Threads \ {t}
        PROVE  PairFits(t, u)' /\ PairFits(u, t)'
    <3>1. at'[u] = at[u] /\ local'[u] = local[u]
      BY <1>4
    <3> QED
      BY <1>6, <1>24, <2>1, <3>1 DEF PairFits, Expanding, Table
  <2> QED
    BY <1>10, <1>24, <2>3, <2>4
<1>25. CASE Move(t)
  <2>1. /\ at[t] = "move" /\ at'[t] = "move" /\ tables' = tables
        /\ \E s : local' = [local EXCEPT ![t].slot = s]
    BY <1>25 DEF Move
  <2> HIDE DEF P
  <2> QED
    BY <1>24, <2>1 DEF Expanding
<1>26. CASE EndMove(t)
  <2>1. at[t] = "move" /\ at'[t] = "free" /\ tables' = tables /\ local' = local
    BY <1>1, <1>26 DEF EndMove
  <2> HIDE DEF P
  <2> QED
    BY <1>24, <2>1 DEF Expanding
<1>27. CASE FreeEntries(t)
  <2>1. at[t] = "free" /\ at'[t] \in {"free", "entries"} /\ tables' = tables /\ local' = local
    BY <1>1, <1>27 DEF FreeEntries
  <2> HIDE DEF P
  <2> QED
    BY <1>24, <2>1 DEF Expanding
<1>28. ASSUME at'[t] = "look", tables' = tables, local'[t].table = l.table,
              local'[t].slot \in Slots(Table(t).capacity)
       PROVE  P
  <2>1. ThreadFits(t)'
    BY <1>28 DEF ThreadFits, Expanding, Table
  <2> QED
    BY <1>9, <1>10, <1>28, <2>1 DEF Places, Expanding
<1>29. CASE EnterGet(t)
  <2>1. /\ tables' = tables /\ at[t] = "get" /\ at'[t] = "look" /\ local'[t].table = l.table
        /\ local'[t].slot = HashIndex(l.word, Table(t).capacity)
    BY <1>1, <1>29 DEF EnterGet, LocalType
  <2>2. l.table \in 1..Len(tables) /\ l.word \in Words
    BY <2>1, <1>7 DEF TypeInv, HandsRight, Hands, Places
  <2>3. Table(t).capacity \in Nat \ {0}
    BY <1>2, <2>2 DEF Table
  <2>4. HashIndex(l.word, Table(t).capacity) \in Slots(Table(t).capacity)
    BY <2>2, <2>3 DEF IndexInside, Slots
  <2> HIDE DEF P
  <2> QED
    BY <1>28, <2>1, <2>4
<1>30. CASE Look(t) \/ LookAstray(t)
  <2>1. /\ tables' = tables /\ at[t] = "look"
        /\ \/ at'[t] = "idle"
           \/ /\ at'[t] = "look" /\ local'[t].table = l.table
              /\ local'[t].slot = NextSlot(l.slot, Table(t).capacity)
    BY <1>1, <1>30 DEF Look, LookAstray, Answer, LocalType
  <2>2. l.table \in 1..Len(tables) /\ l.slot \in Slots(Table(t).capacity)
    BY <1>5, <1>7, <2>1 DEF ThreadFits, Places
  <2>3. Table(t).capacity \in Nat \ {0}
    BY <1>2, <2>2 DEF Table
  <2>4. NextSlot(l.slot, Table(t).capacity) \in Slots(Table(t).capacity)
    BY <1>1, <2>2, <2>3 DEF NextSlot, Slots
  <2>5. at'[t] = "idle" => P
    BY <1>8, <1>9, <1>10, <2>1 DEF Places, Expanding
  <2> HIDE DEF P
  <2> QED
    BY <1>28, <2>1, <2>4, <2>5
<1> HIDE DEF P
<1> QED
  BY <1>11, <1>12, <1>13, <1>14, <1>17, <1>18, <1>19, <1>20, <1>21, <1>22, <1>23, <1>25, <1>26,
     <1>27, <1>29, <1>30 DEF Step

\* A thread publishes its array: no other thread's array is smaller than it counts on.
LEMMA EntriesPublished ==
  ASSUME ValidMapAssumption, TypeInv, PairInv, NEW t \in Threads, PublishEntries(t)
  PROVE  PairInv'
<1>1. /\ at \in [Threads -> Places] /\ tables \in Seq(TableType) /\ Len(tables) \in Nat
      /\ \A m \in 1..Len(tables) : tables[m].capacity \in Nat \ {0}
  BY TableIs DEF TypeInv, SharedRight
<1>2. /\ at[t] = "entries" /\ at'[t] = "capacity" /\ local' = local /\ arrays' = arrays
      /\ tables' = [tables EXCEPT ![local[t].table].entries = local[t].array]
      /\ \A u \in Threads : u # t => at'[u] = at[u]
  BY <1>1 DEF PublishEntries, At, Goto
<1>3. PICK m \in 1..Len(tables) : m = local[t].table
  BY <1>2 DEF TypeInv, HandsRight, Hands, Places
<1>4. /\ Len(tables') = Len(tables)
      /\ \A k \in 1..Len(tables) : k # m => tables'[k] = tables[k]
      /\ tables'[m].entries = local[t].array /\ tables'[m].capacity = tables[m].capacity
  BY <1>1, <1>2, <1>3 DEF TableType
<1>5. /\ Slots(local[t].capacity) \subseteq DOMAIN arrays[local[t].array]
      /\ tables[m].capacity =< local[t].capacity
      /\ \A k \in 1..Len(tables) : TableFits(k)
      /\ local[t].capacity \in Nat
  BY <1>2, <1>3, LocalIs DEF PairInv, ThreadFits, Expanding, Table, TypeInv
<1>6. \A k \in 1..Len(tables) : TableFits(k)'
  <2>1. Slots(tables[m].capacity) \subseteq Slots(local[t].capacity)
    BY <1>1, <1>5 DEF Slots
  <2> QED
    BY <1>2, <1>4, <1>5, <2>1 DEF TableFits
<1>7. ASSUME NEW u \in Threads
      PROVE  ThreadFits(u)'
  <2>1. at[u] \in Expanding \union {"look"} => local[u].table \in 1..Len(tables)
    BY DEF TypeInv, HandsRight, Hands, Places, Expanding
  <2>2. ThreadFits(u)
    BY DEF PairInv
  <2>3. CASE u = t
    BY <1>2, <1>3, <1>4, <2>2, <2>3 DEF ThreadFits, Expanding, Table
  <2>4. CASE u # t /\ ~(at[u] = "capacity" /\ local[u].table = m)
    BY <1>2, <1>4, <2>1, <2>2, <2>4 DEF ThreadFits, Expanding, Table
  <2>5. CASE u # t /\ at[u] = "capacity" /\ local[u].table = m
    <3>1. local[t].capacity = local[u].capacity
      BY <1>2, <1>3, <2>5 DEF PairInv, PairFits, Expanding
    <3> QED
      BY <1>2, <1>4, <1>5, <2>2, <2>5, <3>1 DEF ThreadFits, Expanding, Table
  <2> QED
    BY <2>3, <2>4, <2>5
<1>8. ASSUME NEW u \in Threads, NEW v \in Threads
      PROVE  PairFits(u, v)'
  <2>1. at[u] = "expand" => local[u].table \in 1..Len(tables)
    BY DEF TypeInv, HandsRight, Hands, Places
  <2>2. PairFits(u, v) /\ (at'[u] \in Expanding <=> at[u] \in Expanding)
        /\ (at'[v] \in Expanding <=> at[v] \in Expanding)
        /\ (at'[u] = "expand" <=> at[u] = "expand") /\ (at'[v] = "expand" <=> at[v] = "expand")
    BY <1>2 DEF PairInv, Expanding
  <2> QED
    BY <1>2, <1>4, <2>1, <2>2 DEF PairFits, Table
<1> QED
  BY <1>4, <1>6, <1>7, <1>8 DEF PairInv

\* A thread publishes its capacity: of two threads, the other one has no smaller array.
LEMMA CapacityPublished ==
  ASSUME ValidMapAssumption, TwoThreads, TypeInv, PairInv, NEW t \in Threads, PublishCapacity(t)
  PROVE  PairInv'
<1>1. /\ at \in [Threads -> Places] /\ tables \in Seq(TableType) /\ Len(tables) \in Nat
      /\ \A m \in 1..Len(tables) : tables[m].capacity \in Nat \ {0}
  BY TableIs DEF TypeInv, SharedRight
<1>2. /\ at[t] = "capacity" /\ at'[t] = "fetch" /\ local' = local /\ arrays' = arrays
      /\ tables' = [tables EXCEPT ![local[t].table].capacity = local[t].capacity]
      /\ \A u \in Threads : u # t => at'[u] = at[u]
  BY <1>1 DEF PublishCapacity, At, Goto
<1>3. PICK m \in 1..Len(tables) : m = local[t].table
  BY <1>2 DEF TypeInv, HandsRight, Hands, Places
<1>4. /\ Len(tables') = Len(tables)
      /\ \A k \in 1..Len(tables) : k # m => tables'[k] = tables[k]
      /\ tables'[m].capacity = local[t].capacity /\ tables'[m].entries = tables[m].entries
  BY <1>1, <1>2, <1>3 DEF TableType
<1>5. /\ Slots(local[t].capacity) \subseteq DOMAIN arrays[tables[m].entries]
      /\ 2 * InitCap =< local[t].capacity
      /\ tables[m].capacity =< local[t].capacity
      /\ \A k \in 1..Len(tables) : TableFits(k)
      /\ local[t].capacity \in Nat
  BY <1>2, <1>3, LocalIs DEF PairInv, ThreadFits, Expanding, Table, TypeInv
<1>6. \A k \in 1..Len(tables) : TableFits(k)'
  BY <1>2, <1>4, <1>5 DEF TableFits
<1>7. ASSUME NEW u \in Threads
      PROVE  ThreadFits(u)'
  <2>1. at[u] \in Expanding \union {"look"} => local[u].table \in 1..Len(tables)
    BY DEF TypeInv, HandsRight, Hands, Places, Expanding
  <2>2. ThreadFits(u)
    BY DEF PairInv
  <2>3. CASE u = t
    BY <1>2, <2>3 DEF ThreadFits, Expanding
  <2>4. CASE u # t /\ local[u].table # m
    BY <1>2, <1>4, <2>1, <2>2, <2>4 DEF ThreadFits, Expanding, Table
  <2>5. CASE u # t /\ local[u].table = m
    <3>1. at[u] \in Expanding => local[t].capacity = local[u].capacity
      BY <1>2, <1>3, <2>5 DEF PairInv, PairFits, Expanding
    <3>2. Slots(tables[m].capacity) \subseteq Slots(local[t].capacity)
      BY <1>1, <1>5 DEF Slots
    <3>3. local[t].capacity =< 2 * local[t].capacity
      BY <1>5
    <3>4. at'[u] = at[u] /\ local'[u] = local[u] /\ Table(u) = tables[m]
          /\ Table(u)'.capacity = local[t].capacity /\ Table(u)'.entries = tables[m].entries
      BY <1>2, <1>4, <2>5 DEF Table
    <3> QED
      BY <1>2, <1>5, <2>2, <3>1, <3>2, <3>3, <3>4 DEF ThreadFits, Expanding
  <2> QED
    BY <2>3, <2>4, <2>5
<1>8. ASSUME NEW u \in Threads, NEW v \in Threads
      PROVE  PairFits(u, v)'
  <2>1. CASE u = v
    BY <2>1 DEF PairFits
  <2>2. CASE u = t \/ v = t
    BY <1>2, <2>2 DEF PairFits, Expanding
  <2>3. u = v \/ u = t \/ v = t
    BY NoThird
  <2> QED
    BY <2>1, <2>2, <2>3
<1> QED
  BY <1>4, <1>6, <1>7, <1>8 DEF PairInv

LEMMA PairStep ==
  ASSUME ValidMapAssumption, IndexInside, RoomForAll, TwoThreads, TypeInv, TypeInv', CountInv,
         PairInv, [MapNext]_mapVars
  PROVE  PairInv'
<1>1. CASE UNCHANGED mapVars
  BY <1>1 DEF mapVars, shared, PairInv, TableFits, ThreadFits, PairFits, Table
<1>2. ASSUME NEW t \in Threads, NEW w \in Words, Start(t, w)
      PROVE  PairInv'
  <2>1. at \in [Threads -> Places] /\ local \in [Threads -> LocalType]
    BY DEF TypeInv
  <2>2. /\ at'[t] = "create" /\ tables' = tables /\ arrays' = arrays
        /\ \A u \in Threads : u # t => at'[u] = at[u] /\ local'[u] = local[u]
    BY <1>2, <2>1 DEF Start, At, Goto, shared
  <2>3. \A m \in 1..Len(tables') : TableFits(m)'
    BY <2>2 DEF PairInv, TableFits
  <2>4. ASSUME NEW u \in Threads
        PROVE  ThreadFits(u)'
    <3>1. CASE u = t
      BY <2>2, <3>1 DEF ThreadFits, Expanding
    <3>2. CASE u # t
      BY <2>2, <3>2 DEF PairInv, ThreadFits, Table
    <3> QED
      BY <3>1, <3>2
  <2>5. ASSUME NEW u \in Threads, NEW v \in Threads
        PROVE  PairFits(u, v)'
    <3>1. CASE u = t \/ v = t
      BY <2>2, <3>1 DEF PairFits, Expanding
    <3>2. CASE u # t /\ v # t
      BY <2>2, <3>2 DEF PairInv, PairFits, Table
    <3> QED
      BY <3>1, <3>2
  <2> QED
    BY <2>3, <2>4, <2>5 DEF PairInv
<1>3. ASSUME NEW t \in Threads, Step(t)
      PROVE  PairInv'
  BY <1>3, EntriesPublished, CapacityPublished, StepFits, OthersFit
<1> QED
  BY <1>1, <1>2, <1>3 DEF MapNext

\* What two threads do to a table keeps each within the array it works on.
LEMMA PairWithin ==
  ASSUME TypeInv, PairInv
  PROVE  WithinEntries
<1> SUFFICES ASSUME NEW t \in Threads
             PROVE  WithinFor(t)
  BY DEF WithinEntries
<1>1. ThreadFits(t)
  BY DEF PairInv
<1>2. at[t] = "look" => TableFits(local[t].table)
  BY DEF PairInv, TypeInv, HandsRight, Hands, Places
<1> QED
  BY <1>1, <1>2 DEF ThreadFits, TableFits, WithinFor, Within, Table

\* Of two requests neither works beyond the array it has, unless that is freed, though
\* entries and capacity are two stores, and the array is read before it is used
\* (ht.c:67-149); tables grow, and arrays are freed, only when the two overlap.
THEOREM ArraysAreRight ==
  ASSUME ValidMapAssumption, IndexInside, RoomForAll, TwoThreads
  PROVE  MapSpec => []ArraysRight
<1>1. MapInit => PairInv
  BY DEF MapInit, PairInv, ThreadFits, PairFits, Expanding
<1>2. TypeInv /\ TypeInv' /\ CountInv /\ PairInv /\ [MapNext]_mapVars => PairInv'
  BY PairStep
<1>3. TypeInv /\ AloneInv /\ PairInv => ArraysRight
  BY TypeGives, GrowsOnly, PairWithin DEF ArraysRight
<1>4. MapSpec => [](TypeInv /\ AloneInv)
  BY AloneAlways, PTL
<1>5. MapSpec => []CountInv
  BY CountAlways
<1> QED
  BY <1>1, <1>2, <1>3, <1>4, <1>5, PTL DEF MapSpec
=============================================================================
