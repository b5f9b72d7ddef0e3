---------------------------- MODULE LuaTableLib -----------------------------
(***************************************************************************)
(* ltablib.c: the functions of lists.  insert and remove, and move, are    *)
(* one step each; sort is one step for each question to the order          *)
(* function, which is a function of Lua and may answer anything or raise   *)
(* an error.                                                               *)
(*                                                                         *)
(* todo is the intervals that the calls of auxsort have still to sort, the *)
(* innermost first; lo and up are Head(todo).  ask says which comparison   *)
(* is made; p, i and j are the code's, pivot the value at the top of the   *)
(* stack, and asked counts the comparisons.  rnd is whether a partition    *)
(* was too imbalanced so far.  The number that l_randomizePivot then makes *)
(* of the clock may be any, 0 too, and calls further out have an rnd of    *)
(* their own: the middle stays possible.                                   *)
(***************************************************************************)
EXTENDS Integers, Sequences, FiniteSets, SequencesExt

CONSTANTS Elements,     \* the values in lists, numbers
          MaxLength,    \* of a list that is sorted
          Lists,        \* those that sort and insert are called with
          RANLIMIT,     \* from this length on the pivot may be a random one
          Imbalance,    \* 128: a partition this uneven is too imbalanced
          MAXINTEGER    \* LUA_MAXINTEGER, for move

VARIABLES given, order, list, todo, ask, p, i, j, pivot, rnd, asked, out

vars == <<given, order, list, todo, ask, p, i, j, pivot, rnd, asked, out>>

\* choosePivot divides by the half of an interval of RANLIMIT.
LuaTableLibAssumption ==
  /\ Elements \subseteq Int /\ MaxLength \in Nat /\ MAXINTEGER \in Nat \ {0}
  /\ \A l \in Lists : \E n \in 0..MaxLength : l \in [1..n -> Elements]
  /\ RANLIMIT \in Nat /\ RANLIMIT >= 4 /\ Imbalance \in Nat \ {0}

lo == Head(todo)[1]
up == Head(todo)[2]

Swapped(l, k, m) == [l EXCEPT ![k] = l[m], ![m] = l[k]]

-----------------------------------------------------------------------------
(* sort.                                                                   *)

\* The loop of auxsort: calls with fewer than two elements left return.
Unsorted(intervals) ==
  LET k == SelectInSeq(intervals, LAMBDA t : t[1] < t[2])
  IN  IF k = 0 THEN <<>> ELSE SubSeq(intervals, k, Len(intervals))

AuxSort(l, intervals) ==
  /\ list' = l
  /\ todo' = Unsorted(intervals)
  /\ ask' = IF todo' = <<>> THEN "done" ELSE "ends"
  /\ UNCHANGED <<p, i, j, pivot>>

Sort ==
  /\ ask = "idle"
  /\ \E l \in Lists, o \in {"less", "any"} :
       /\ given' = l /\ order' = o
       /\ AuxSort(l, <<<<1, Len(l)>>>>)
  /\ rnd' = FALSE
  /\ UNCHANGED <<asked, out>>

\* The two values that sort_comp is given.
Asked ==
  CASE ask = "ends"  -> <<list[up], list[lo]>>
    [] ask = "low"   -> <<list[p], list[lo]>>
    [] ask = "high"  -> <<list[up], list[p]>>
    [] ask = "right" -> <<list[i], pivot>>
    [] ask = "left"  -> <<pivot, list[j]>>

\* sort_comp: a < b, or what the function says.
SortComp(answer) ==
  /\ asked' = asked + 1
  /\ order = "less" => answer = (Asked[1] < Asked[2])

Sorting == ask \in {"ends", "low", "high", "right", "left"}

\* The middle, or, by choosePivot, anywhere in the second and third quarters.
Pivots ==
  LET r4 == (up - lo) \div 4
  IN  {(lo + up) \div 2} \cup (IF up - lo < RANLIMIT \/ ~rnd THEN {} ELSE (lo + r4)..(lo + 3 * r4 - 1))

\* a[up] < a[lo]?  Two elements are then sorted.
Ends(answer) ==
  LET l == IF answer THEN Swapped(list, lo, up) ELSE list IN
  /\ ask = "ends"
  /\ UNCHANGED rnd
  /\ IF up - lo = 1 THEN AuxSort(l, Tail(todo))
     ELSE /\ list' = l
          /\ p' \in Pivots
          /\ ask' = "low"
          /\ UNCHANGED <<todo, i, j, pivot>>

\* The pivot is put before the last element, and partition begins.
Partition(l) ==
  /\ UNCHANGED rnd
  /\ IF up - lo = 2 THEN AuxSort(l, Tail(todo))
     ELSE /\ pivot' = l[p]
          /\ list' = Swapped(l, p, up - 1)
          /\ i' = lo + 1
          /\ j' = up - 1
          /\ ask' = "right"
          /\ UNCHANGED <<todo, p>>

Low(answer) ==
  /\ ask = "low"
  /\ IF answer THEN Partition(Swapped(list, p, lo))
     ELSE ask' = "high" /\ UNCHANGED <<list, todo, p, i, j, pivot, rnd>>

High(answer) ==
  /\ ask = "high"
  /\ Partition(IF answer THEN Swapped(list, p, up) ELSE list)

InvalidOrder ==
  ask' = "invalid" /\ UNCHANGED <<list, todo, p, i, j, pivot, rnd>>

\* Faulty variant of Right: the end is not looked for.
RightOn(answer) ==
  /\ ask = "right"
  /\ IF ~answer THEN ask' = "left" /\ j' = j - 1 /\ UNCHANGED <<list, todo, p, i, pivot, rnd>>
     ELSE IF i = up THEN InvalidOrder
     ELSE i' = i + 1 /\ UNCHANGED <<list, todo, ask, p, j, pivot, rnd>>

\* while a[++i] < P.
Right(answer) ==
  /\ ask = "right"
  /\ IF ~answer THEN ask' = "left" /\ j' = j - 1 /\ UNCHANGED <<list, todo, p, i, pivot, rnd>>
     ELSE IF i = up - 1 THEN InvalidOrder
     ELSE i' = i + 1 /\ UNCHANGED <<list, todo, ask, p, j, pivot, rnd>>

\* The smaller of the two intervals is sorted by a call, the other by the next turn, with a
\* new random number where it is far the larger.
Split(l, at) ==
  LET lower  == <<lo, at - 1>>
      upper  == <<at + 1, up>>
      uneven == IF at - lo < up - at THEN (up - (at + 1)) \div Imbalance > at - lo
                ELSE (at - 1 - lo) \div Imbalance > up - at
  IN  /\ AuxSort(l, (IF at - lo < up - at THEN <<lower, upper>> ELSE <<upper, lower>>) \o Tail(todo))
      /\ rnd' = (rnd \/ uneven)

\* while P < a[--j]; then a[i] and a[j] change places, or the pivot comes to a[i].
Left(answer) ==
  /\ ask = "left"
  /\ IF answer THEN IF j < i THEN InvalidOrder
                    ELSE j' = j - 1 /\ UNCHANGED <<list, todo, ask, p, i, pivot, rnd>>
     ELSE IF j < i THEN Split(Swapped(list, up - 1, i), i)
     ELSE /\ list' = Swapped(list, i, j)
          /\ i' = i + 1
          /\ ask' = "right"
          /\ UNCHANGED <<todo, p, j, pivot, rnd>>

Answered ==
  /\ Sorting
  /\ \E answer \in BOOLEAN :
       /\ SortComp(answer)
       /\ Ends(answer) \/ Low(answer) \/ High(answer) \/ Right(answer) \/ Left(answer)
  /\ UNCHANGED <<given, order, out>>

\* The order function raises an error.
OrderFails ==
  /\ Sorting /\ order = "any"
  /\ ask' = "error"
  /\ UNCHANGED <<given, order, list, todo, p, i, j, pivot, rnd, asked, out>>

-----------------------------------------------------------------------------
(* insert, remove and move.  A table is a function; what arithmetic        *)
(* makes of numbers is in numbers, for a property to look at.              *)

MININTEGER == -MAXINTEGER - 1
Numbers == MININTEGER..MAXINTEGER

\* The loops that copy t[from(k)] to t[to(k)], for k up from 0 or down to it.
CopyUp(t, f, to, n) ==
  LET c[k \in 0..n] == IF k = 0 THEN t ELSE [c[k - 1] EXCEPT ![to + k - 1] = c[k - 1][f + k - 1]]
  IN  c[n]
CopyDown(t, f, to, n) ==
  LET c[k \in 0..n] == IF k = 0 THEN t ELSE [c[k - 1] EXCEPT ![to + n - k] = c[k - 1][f + n - k]]
  IN  c[n]

\* t[i] = t[i - 1] from the first empty element down, and t[i] = t[i + 1] up to the last.
TInsert(l, pos, v) ==
  LET e == Len(l) + 1
  IN  [CopyDown(Append(l, v), pos, pos + 1, e - pos) EXCEPT ![pos] = v]
TRemove(l, pos) ==
  LET n == Len(l)
  IN  IF n = 0 THEN l ELSE Front(CopyUp(l, pos + 1, pos, n - pos))

InsertAndRemove ==
  /\ ask = "idle"
  /\ \E l \in Lists, v \in Elements : \E pos \in 1..(Len(l) + 1) :
       /\ given' = l
       /\ list' = TInsert(l, pos, v)
       /\ out' = [call |-> "insert", pos |-> pos, value |-> v, removed |-> TRemove(list', pos)]
  /\ ask' = "done"
  /\ UNCHANGED <<order, todo, p, i, j, pivot, rnd, asked>>

\* Where more than LUA_MAXINTEGER elements would be moved or the destination goes round, the
\* arguments are refused before anything is copied.
TMove(t, f, e, to) ==
  LET n       == e - f + 1
      many    == f <= 0 /\ e >= MAXINTEGER + f
      wraps   == to > MAXINTEGER - n + 1
      upwards == to > e \/ to <= f
  IN  CASE e < f -> [error |-> "", table |-> t, numbers |-> {}]
        [] e >= f /\ many -> [error |-> "toomany", table |-> t, numbers |-> {}]
        [] e >= f /\ ~many /\ wraps -> [error |-> "wraps", table |-> t, numbers |-> {n, MAXINTEGER - n}]
        [] OTHER -> [error |-> "", numbers |-> {n, MAXINTEGER - n, f + n - 1, to + n - 1},
                     table |-> IF upwards THEN CopyUp(t, f, to, n) ELSE CopyDown(t, f, to, n)]

Move ==
  /\ ask = "idle"
  /\ \E f, e, to \in Numbers :
       LET t == [k \in Numbers |-> k] IN
       out' = [call |-> "move", f |-> f, e |-> e, to |-> to, was |-> t, does |-> TMove(t, f, e, to)]
  /\ ask' = "done"
  /\ UNCHANGED <<given, order, list, todo, p, i, j, pivot, rnd, asked>>

-----------------------------------------------------------------------------

Init ==
  /\ given = <<>> /\ order = "less" /\ list = <<>> /\ todo = <<>>
  /\ ask = "idle" /\ p = 0 /\ i = 0 /\ j = 0 /\ pivot = 0 /\ rnd = FALSE /\ asked = 0
  /\ out = [call |-> "none"]

Next == Sort \/ Answered \/ OrderFails \/ InsertAndRemove \/ Move

Spec == Init /\ [][Next]_vars

-----------------------------------------------------------------------------
(* Properties *)

Copies(l, v) == Cardinality({k \in DOMAIN l : l[k] = v})

\* A sort by < gives the values in order, and refuses nothing.
SortsByLess ==
  order = "less" =>
    /\ ask # "invalid"
    /\ ask = "done" /\ out.call = "none" => \A k \in 1..(Len(list) - 1) : list[k] <= list[k + 1]

\* Whatever the order function answers, and wherever it stops the sort, the list has the
\* values it had, and nothing outside the interval that is sorted is looked at.
KeepsValues ==
  out.call = "none" =>
    /\ \A v \in Elements : Copies(list, v) = Copies(given, v)
    /\ ask \in {"right", "left"} => i \in (lo + 1)..(up - 1) /\ j \in lo..(up - 1)

\* 2 ^ k.
Power2[k \in 0..MaxLength] == IF k = 0 THEN 1 ELSE 2 * Power2[k - 1]

\* Whatever it answers, the sort comes to an end, after at most some n * n questions, and calls
\* itself no deeper than the logarithm of the length of the list.
EndsSoon ==
  LET n == Len(list)
  IN  asked <= n * n /\ (todo # <<>> => 3 * Power2[Len(todo) - 1] <= n + 1)

\* move copies as if all elements were read before one is written, insert makes room for its
\* value and remove takes it out again; no number on the way leaves the integers.
CopiesAtOnce ==
  /\ out.call = "move" =>
       /\ out.does.numbers \subseteq Numbers
       /\ out.does.error = "" =>
            out.does.table = [k \in Numbers |-> IF k \in out.to..(out.to + out.e - out.f)
                                                THEN out.was[k - out.to + out.f] ELSE out.was[k]]
       /\ out.does.error # "" => out.e - out.f + 1 > MAXINTEGER \/ out.to + out.e - out.f > MAXINTEGER
  /\ out.call = "insert" =>
       /\ list = SubSeq(given, 1, out.pos - 1) \o <<out.value>> \o SubSeq(given, out.pos, Len(given))
       /\ out.removed = given

\* Whatever the order function answers, and wherever it stops a sort, lists keep their
\* values; a sort ends, and by < it sorts; what is moved is copied at once (ltablib.c).
ListsKept ==
  /\ SortsByLess
  /\ KeepsValues
  /\ EndsSoon
  /\ CopiesAtOnce


-----------------------------------------------------------------------------
(***************************************************************************)
(* What the proof that lists are kept rests on.  The intervals still to be *)
(* sorted are apart from each other, and what is not in one of them        *)
(* together is in order; each is at least as long as all that come before  *)
(* it, the innermost ones, span.  Each comparison is paid for by pairs of  *)
(* elements that no interval holds together any more.                      *)
(***************************************************************************)

Inside(x, interval) == interval[1] <= x /\ x <= interval[2]

Together(intervals, x, y) ==
  \E k \in DOMAIN intervals : Inside(x, intervals[k]) /\ Inside(y, intervals[k])

\* With a pivot in its place between the two.
Separate(s, t) == s[2] + 1 < t[1] \/ t[2] + 1 < s[1]

\* Intervals of a list of n elements, none of which is empty.
Fit(intervals, n) ==
  /\ intervals \in Seq(Int \X Int)
  /\ \A k \in DOMAIN intervals :
       1 <= intervals[k][1] /\ intervals[k][1] <= intervals[k][2] /\ intervals[k][2] <= n
  /\ \A k, m \in DOMAIN intervals : k # m => Separate(intervals[k], intervals[m])

\* span[k] is where the first k intervals are.
Spans(span, intervals, n) ==
  /\ \A k \in DOMAIN intervals :
       /\ 1 <= span[k][1] /\ span[k][2] <= n
       /\ span[k][1] <= intervals[k][1] /\ intervals[k][2] <= span[k][2]
  /\ \A k \in 1..(Len(intervals) - 1) :
       /\ span[k + 1][1] <= span[k][1] /\ span[k][2] <= span[k + 1][2]
       /\ Separate(span[k], intervals[k + 1])
       /\ span[k][2] - span[k][1] <= intervals[k + 1][2] - intervals[k + 1][1]

Nested(intervals, n) == \E span \in [DOMAIN intervals -> Int \X Int] : Spans(span, intervals, n)

InOrderBut(l, intervals) ==
  \A x, y \in DOMAIN l : x < y /\ ~Together(intervals, x, y) => l[x] <= l[y]

Pairs(intervals, n) == {q \in (1..n) \X (1..n) : Together(intervals, q[1], q[2])}

\* The comparisons made for Head(todo).
Spent ==
  CASE ask = "low" -> 1
    [] ask = "high" -> 2
    [] ask \in {"right", "left"} -> 3 + (i - lo - 1) + (up - 1 - j)
    [] OTHER -> 0

ListsTypeOK ==
  /\ given \in Seq(Elements) /\ list \in Seq(Elements)
  /\ order \in {"less", "any"}
  /\ ask \in {"idle", "ends", "low", "high", "right", "left", "done", "error",
              "invalid"}
  /\ todo \in Seq(Int \X Int)
  /\ p \in Int /\ i \in Int /\ j \in Int /\ pivot \in Int /\ asked \in Nat
  /\ out.call \in {"none", "insert", "move"}
  /\ ask = "idle" => list = <<>> /\ given = <<>> /\ todo = <<>> /\ asked = 0 /\ out.call = "none"
  /\ out.call # "none" => ask = "done" /\ asked = 0
  /\ ask = "done" => todo = <<>>

\* Where p, i and j are.
PlacesInside ==
  /\ Sorting => todo # <<>>
  /\ todo # <<>> => lo < up
  /\ ask \in {"low", "high"} => p \in (lo + 1)..(up - 1)
  /\ ask \in {"right", "left"} => up - lo >= 3 /\ i \in (lo + 1)..(up - 1)
  /\ ask = "right" => j \in (lo + 1)..(up - 1)
  /\ ask = "left" => j \in lo..(up - 2)

\* What the answers so far say of the values in Head(todo).
ValuesParted ==
  /\ ask \in {"low", "high"} => list[lo] <= list[up]
  /\ ask = "high" => list[lo] <= list[p]
  /\ ask \in {"right", "left"} =>
       /\ pivot = list[up - 1]
       /\ \A x \in lo..(i - 1) : list[x] <= pivot
       /\ \A x \in (j + 1)..up : pivot <= list[x]
  /\ ask = "right" => pivot <= list[j]
  /\ ask = "left" => pivot <= list[i]

SortInv ==
  /\ Len(list) = Len(given) /\ Len(list) <= MaxLength
  /\ \A v \in Elements : Copies(list, v) = Copies(given, v)
  /\ Fit(todo, Len(list)) /\ Nested(todo, Len(list))
  /\ PlacesInside
  /\ order = "less" => ask # "invalid"
  /\ order = "less" /\ (Sorting \/ ask = "done") => InOrderBut(list, todo) /\ ValuesParted
  /\ IF Sorting \/ ask = "done"
     THEN asked + Cardinality(Pairs(todo, Len(list))) <= Len(list) * Len(list) + Spent
     ELSE asked <= Len(list) * Len(list)

ListsInv == ListsTypeOK /\ (out.call = "none" => SortInv) /\ CopiesAtOnce
=============================================================================
