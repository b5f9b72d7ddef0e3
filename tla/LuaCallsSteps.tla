--------------------------- MODULE LuaCallsSteps ----------------------------
(***************************************************************************)
(* The invariant after what Lua code and C functions do, after a return    *)
(* and after an error, a yield or a refused resume.                        *)
(***************************************************************************)
EXTENDS LuaCallsInvariant

-----------------------------------------------------------------------------
(* The invariant after a step *)

\* Control is in a thread, which alone has done something since s.
LEMMA IsActive ==
  ASSUME NEW s, NEW r \in Machine, NEW v \in Wants, NEW ch, ch = v.chain,
         \A u \in Threads : CIsRight(s.th[u].ci),
         \A u \in Threads \ {Last(r.c).L} : r.th[u] = s.th[u],
         Ready(r, ch), AgreeBut(s, v, {Last(r.c).L}), Others(s, v, ch),
         v.stack[Last(r.c).L] = Names(Cur(r).ci), AtWork(r)
  PROVE  Inv(r, v)
<1> DEFINE t == Last(r.c).L
<1>1. PICK b : StackRight(r, ch, b) /\ TopRight(r, b)
  BY DEF Ready
<1>2. Cur(r) = r.th[t] /\ CIsRight(Cur(r).ci)
  BY DEF Cur, Ready
<1>3. Len(ch) \in Nat /\ Len(ch) >= 1 /\ t = ch[Len(ch)] /\ ch \in Seq(Threads)
  BY <1>1, StackEnds
<1>4. t \in ToSet(ch)
  BY <1>3 DEF ToSet
<1>5. TypesRight(r, v)
  <2>1. \A u \in Threads : CIsRight(r.th[u].ci)
    BY <1>2
  <2> QED
    BY <2>1 DEF TypesRight
<1>6. AgreeBut(r, v, {})
  <2>1. ASSUME NEW u \in Threads \ v.dead PROVE Names(r.th[u].ci) = v.stack[u]
    BY <1>2 DEF AgreeBut
  <2> QED
    BY <2>1 DEF AgreeBut
<1>7. Others(r, v, ch)
  <2>1. ASSUME NEW u \in Threads \ ToSet(ch) PROVE Resting(r.th[u], u, v.dead)
    BY <1>4 DEF Others
  <2> QED
    BY <2>1 DEF Others
<1>8. Active(r, v, b)
  BY <1>1, <1>6, <1>7 DEF Active
<1> QED
  BY <1>5, <1>8 DEF Inv

\* The thread t has done something in the want of the program too.
WSame(w, v, t) ==
  /\ v \in Wants /\ v.chain = w.chain /\ v.dead = w.dead
  /\ \A u \in Threads \ {t} : v.stack[u] = w.stack[u]

LEMMA StaysActive ==
  ASSUME NEW s, NEW r, NEW w, NEW v, TypesRight(s, w),
         AgreeBut(s, w, {}) \/ AgreeBut(s, w, {Last(s.c).L}), Others(s, w, w.chain),
         Same(s, r), Ready(r, w.chain), WSame(w, v, Last(s.c).L),
         v.stack[Last(s.c).L] = Names(Cur(r).ci), AtWork(r)
  PROVE  Inv(r, v)
<1> DEFINE t == Last(s.c).L
<1>1. /\ r \in Machine /\ Last(r.c).L = t /\ \A u \in Threads \ {t} : r.th[u] = s.th[u]
      /\ \A u \in Threads : CIsRight(s.th[u].ci)
  BY DEF Same, TypesRight
<1>2. v \in Wants /\ w.chain = v.chain /\ w.dead = v.dead /\ \A u \in Threads \ {t} : v.stack[u] = w.stack[u]
  BY DEF WSame
<1>3. AgreeBut(s, v, {t})
  BY <1>2 DEF AgreeBut
<1>4. Others(s, v, w.chain)
  BY <1>2 DEF Others
<1> QED
  BY <1>1, <1>2, <1>3, <1>4, IsActive

LEMMA WSameIs ==
  ASSUME NEW w \in Wants, NEW t
  PROVE  WSame(w, w, t)
BY DEF WSame

LEMMA WantsAre ==
  ASSUME NEW w \in Wants
  PROVE  /\ w = [stack |-> w.stack, chain |-> w.chain, dead |-> w.dead]
         /\ w.stack \in [Threads -> Seq(Fns)] /\ w.chain \in Seq(Threads) /\ w.dead \in SUBSET Threads
BY DEF Wants

SetStack(w, t, v) == [w EXCEPT !.stack[t] = v]

LEMMA SetStackIs ==
  ASSUME NEW w \in Wants, NEW t \in Threads, NEW v \in Seq(Fns)
  PROVE  WSame(w, SetStack(w, t, v), t) /\ SetStack(w, t, v).stack[t] = v
<1>1. [w.stack EXCEPT ![t] = v] \in [Threads -> Seq(Fns)]
  BY DEF Wants
<1>2. SetStack(w, t, v) = [stack |-> [w.stack EXCEPT ![t] = v], chain |-> w.chain, dead |-> w.dead]
  <2>1. w = [stack |-> w.stack, chain |-> w.chain, dead |-> w.dead]
    BY WantsAre
  <2> DEFINE st == w.stack
             c == w.chain
             d == w.dead
  <2> HIDE DEF st, c, d
  <2>2. w = [stack |-> st, chain |-> c, dead |-> d]
    BY <2>1 DEF st, c, d
  <2>3. SetStack(w, t, v) = [stack |-> [st EXCEPT ![t] = v], chain |-> c, dead |-> d]
    BY <2>2 DEF SetStack
  <2> QED
    BY <2>3 DEF st, c, d
<1>3. SetStack(w, t, v) \in Wants
  BY <1>1, <1>2 DEF Wants
<1> QED
  BY <1>2, <1>3 DEF WSame, Wants

LEMMA WPushIs ==
  ASSUME NEW w \in Wants, NEW t \in Threads, t = Last(w.chain), NEW fn \in Fns
  PROVE  WSame(w, WPush(w, fn), t) /\ WPush(w, fn).stack[t] = Append(w.stack[t], fn)
<1> DEFINE l == Append(w.stack[t], fn)
<1>1. l \in Seq(Fns)
  BY DEF Wants
<1>2. WPush(w, fn) = SetStack(w, t, l)
  BY DEF WPush, SetStack
<1> HIDE DEF l
<1>3. WSame(w, SetStack(w, t, l), t) /\ SetStack(w, t, l).stack[t] = l
  BY <1>1, SetStackIs
<1> QED
  BY <1>2, <1>3 DEF l

LEMMA WPopIs ==
  ASSUME NEW w \in Wants, NEW t \in Threads, t = Last(w.chain), w.stack[t] # <<>>
  PROVE  WSame(w, WPop(w), t) /\ WPop(w).stack[t] = Front(w.stack[t])
<1> DEFINE l == Front(w.stack[t])
<1>1. l \in Seq(Fns)
  BY FrontIs DEF Wants
<1>2. WPop(w) = SetStack(w, t, l)
  BY DEF WPop, SetStack
<1> HIDE DEF l
<1>3. WSame(w, SetStack(w, t, l), t) /\ SetStack(w, t, l).stack[t] = l
  BY <1>1, SetStackIs
<1> QED
  BY <1>2, <1>3 DEF l

\* The calls of the thread at the top are what the program means.
LEMMA AgreeIs ==
  ASSUME NEW s \in Machine, NEW w \in Wants, NEW a, StackRight(s, w.chain, a), AgreeBut(s, w, {}),
         Others(s, w, w.chain)
  PROVE  LET t == Last(s.c).L IN
         /\ t \in Threads /\ t = Last(w.chain) /\ t \notin w.dead /\ w.stack[t] = Names(Cur(s).ci)
         /\ t \in ToSet(w.chain) /\ Cur(s) = s.th[t] /\ Cur(s).ci \in Seq(CIs) /\ Len(Cur(s).ci) \in Nat
<1> DEFINE t == Last(s.c).L
           ch == w.chain
<1>1. /\ Len(ch) \in Nat /\ Len(ch) >= 1 /\ t = ch[Len(ch)] /\ t \in Threads /\ ch \in Seq(Threads)
      /\ Cur(s) \in Thread
  BY StackEnds
<1>2. Cur(s) = s.th[t]
  BY DEF Cur
<1>3. ch # <<>> /\ t = Last(ch) /\ t \in ToSet(ch)
  BY <1>1 DEF Last, ToSet
<1>4. t \notin w.dead
  BY <1>1 DEF Others
<1>5. Cur(s).ci \in Seq(CIs) /\ Len(Cur(s).ci) \in Nat
  BY <1>1, ThreadIs
<1> QED
  BY <1>1, <1>2, <1>3, <1>4, <1>5 DEF AgreeBut

\* A handler, when one more call has been made.
LEMMA HandledPush ==
  ASSUME NEW ci \in Seq(CIs), NEW cj \in Seq(CIs), NEW fn \in Fns, Names(cj) = Append(Names(ci), fn)
  PROVE  HandledBy(cj, Len(cj)) = IF Protects(fn) THEN fn = "xpcall" ELSE HandledBy(ci, Len(ci))
<1> DEFINE n == Len(ci)
           k == Len(cj)
<1>1. /\ n \in Nat /\ k \in Nat /\ Names(ci) \in Seq(Fns) /\ Len(Names(ci)) = n /\ Len(Names(cj)) = k
      /\ \A i \in 1..n : Names(ci)[i] = ci[i].fn
      /\ \A i \in 1..k : Names(cj)[i] = cj[i].fn
  <2>1. n \in Nat /\ k \in Nat
    OBVIOUS
  <2>2. Names(ci) \in Seq(Fns) /\ Len(Names(ci)) = n /\ \A i \in 1..n : Names(ci)[i] = ci[i].fn
    BY NamesAre
  <2>3. Len(Names(cj)) = k /\ \A i \in 1..k : Names(cj)[i] = cj[i].fn
    BY NamesAre
  <2> HIDE DEF n, k
  <2> QED
    BY <2>1, <2>2, <2>3
<1>2. /\ Len(Append(Names(ci), fn)) = n + 1
      /\ \A i \in 1..n : Append(Names(ci), fn)[i] = Names(ci)[i]
      /\ Append(Names(ci), fn)[n + 1] = fn
  BY <1>1, AppendIs
<1>3. k = n + 1 /\ cj[n + 1].fn = fn /\ \A i \in 1..n : cj[i].fn = ci[i].fn
  <2> HIDE DEF n, k
  <2>1. k = n + 1
    BY <1>1, <1>2
  <2>2. n + 1 \in 1..k /\ \A i \in 1..n : i \in 1..k
    BY <1>1, <2>1
  <2> QED
    BY <1>1, <1>2, <2>1, <2>2
<1> HIDE DEF n, k
<1>4. HandledBy(cj, n) = HandledBy(ci, n)
  <2>1. ASSUME NEW i \in 1..n PROVE \A j \in i + 1..n : j \in 1..n
    BY <1>1
  <2> QED
    BY <1>3, <2>1 DEF HandledBy
<1>5. HandledBy(cj, n + 1) = IF Protects(cj[n + 1].fn) THEN cj[n + 1].fn = "xpcall" ELSE HandledBy(cj, n)
  <2>1. n + 1 \in Nat /\ n + 1 >= 1 /\ (n + 1) - 1 = n
    BY <1>1
  <2> QED
    BY <2>1, HandledStep
<1> QED
  BY <1>3, <1>4, <1>5 DEF n, k

\* The frames at the bottom.
LEMMA BaseIs ==
  ASSUME NEW s \in Machine, NEW ch, NEW a, StackRight(s, ch, a)
  PROVE  /\ s.c[1].f = "host"
         /\ Len(s.c) >= 2 => s.c[2].f = "dpcall"
         /\ Len(s.c) >= 3 => s.c[3].f = "try"
         /\ TopF(s) \notin {"host", "dpcall"} => Len(s.c) > 2
         /\ TopF(s) \notin {"host", "dpcall", "try"} => Len(s.c) > 3
         /\ TopF(s) = "dpcall" => Len(s.c) # 3
         /\ TopF(s) # "host" => Len(s.c) > 1
<1> DEFINE N == Len(s.c)
           c == s.c
<1>1. N \in Nat /\ N >= 1 /\ TopF(s) = c[N]. f /\ Len(a) = N
  BY StackEnds DEF TopF
<1>2. \A k \in 1..N : FrameRight(c, a, ch, s.th[c[k].L].ci, k)
  BY <1>1 DEF StackRight
<1> HIDE DEF N, c
<1>3. \A k \in 2..N : <<c[k - 1].f, c[k].f>> \in Nesting
  <2>1. \A k \in 2..N : k \in 1..N /\ k # 1
    BY <1>1
  <2> QED
    BY <1>2, <2>1 DEF FrameRight
<1>4. c[1].f = "host"
  <2>1. FrameRight(c, a, ch, s.th[c[1].L].ci, 1)
    BY <1>1, <1>2
  <2> QED
    BY <2>1 DEF FrameRight
<1>5. ASSUME N >= 2 PROVE c[2].f = "dpcall"
  <2>1. <<c[2 - 1].f, c[2].f>> \in Nesting
    BY <1>1, <1>3, <1>5
  <2>2. <<"host", c[2].f>> \in Nesting
    BY <1>4, <2>1
  <2> QED
    BY <2>2 DEF Nesting
<1>6. ASSUME N >= 3 PROVE c[3].f = "try"
  <2>1. <<c[3 - 1].f, c[3].f>> \in Nesting
    BY <1>1, <1>3, <1>6
  <2>2. <<"dpcall", c[3].f>> \in Nesting
    BY <1>1, <1>5, <1>6, <2>1
  <2> QED
    BY <2>2 DEF Nesting
<1>7. N = 1 \/ N = 2 \/ N = 3 \/ N > 3
  BY <1>1
<1>8. /\ N = 1 => TopF(s) = "host"
      /\ N = 2 => TopF(s) = "dpcall"
      /\ N = 3 => TopF(s) = "try"
  BY <1>1, <1>4, <1>5, <1>6
<1>9. /\ TopF(s) \notin {"host", "dpcall"} => N > 2
      /\ TopF(s) \notin {"host", "dpcall", "try"} => N > 3
      /\ TopF(s) = "dpcall" => N # 3
      /\ TopF(s) # "host" => N > 1
  <2>1. /\ TopF(s) \notin {"host", "dpcall"} => N # 1 /\ N # 2
        /\ TopF(s) \notin {"host", "dpcall", "try"} => N # 1 /\ N # 2 /\ N # 3
        /\ TopF(s) = "dpcall" => N # 3
        /\ TopF(s) # "host" => N # 1
    BY <1>8
  <2>2. /\ N # 1 /\ N # 2 => N > 2
        /\ N # 1 /\ N # 2 /\ N # 3 => N > 3
        /\ N # 1 => N > 1
    BY <1>1
  <2> QED
    BY <2>1, <2>2
<1> QED
  BY <1>4, <1>5, <1>6, <1>9 DEF N, c

\* The function at the top has returned to the function under it, of the same thread: r is the
\* machine, b its marks.
Popped(s, r, ch, a, b) ==
  LET t == Last(s.c).L
      N == Len(s.c)
      G == s.c[N - 1]
      B == Last(b)
      ci == r.th[t].ci
  IN
  /\ Same(s, r) /\ StackRight(r, ch, b) /\ B = a[N - 1] /\ B \in Mark /\ Last(a) \in Mark
  /\ Last(r.c) = G /\ TopF(r) = G.f /\ Cur(r) = r.th[t] /\ Cur(s) = s.th[t]
  /\ Len(r.c) = N - 1 /\ N \in Nat /\ N > 1
  /\ <<TopF(r), TopF(s)>> \in Nesting
  /\ Last(a) = MarkOf(Last(s.c), N, B, Last(a).ci)
  /\ Owns(TopF(r), B, ci, Last(a).ci) /\ Below(TopF(r), B, ci)
  /\ SavedOver(Last(s.c), TopF(r), B, Last(a), Cur(s).ci, N)
  /\ B.ci <= Last(a).ci /\ B.link = Len(ch)
  /\ TopF(s) \notin {"host", "dpcall", "try"} => Len(r.c) > 2

CanPop(s, r, ch, a) ==
  LET t == Last(s.c).L IN
  /\ s \in Machine /\ r \in Machine /\ StackRight(s, ch, a) /\ Len(s.c) > 1 /\ TopF(s) # "resume"
  /\ r.c = Front(s.c) /\ \A u \in Threads \ {t} : r.th[u] = s.th[u]
  /\ Last(a).ci <= Len(r.th[t].ci) /\ SameTo(s.th[t].ci, r.th[t].ci, Last(a).ci)

LEMMA PopFrame ==
  ASSUME NEW s, NEW r, NEW ch, NEW a, CanPop(s, r, ch, a)
  PROVE  \E b : Popped(s, r, ch, a, b)
<1> DEFINE t == Last(s.c).L
           N == Len(s.c)
           q == [th |-> r.th, c |-> s.c, do |-> s.do, status |-> s.status]
           n == N - 1
           b == SubSeq(a, 1, n)
           B == a[n]
<1>1. /\ s \in Machine /\ r \in Machine /\ StackRight(s, ch, a) /\ N > 1 /\ TopF(s) # "resume"
      /\ r.c = Front(s.c) /\ \A u \in Threads \ {t} : r.th[u] = s.th[u]
      /\ Last(a).ci <= Len(r.th[t].ci) /\ SameTo(s.th[t].ci, r.th[t].ci, Last(a).ci)
  BY DEF CanPop
<1>2. /\ N \in Nat /\ Len(a) = N /\ a \in Seq(Mark) /\ s.c \in Seq(Frame) /\ ch \in Seq(Threads)
      /\ t \in Threads /\ Last(s.c) = s.c[N] /\ Last(a) = a[N] /\ Last(a) \in Mark
  BY <1>1, StackEnds
<1>3. q \in Machine /\ q.th = r.th /\ q.c = s.c
  BY <1>1 DEF Machine
<1>4. Cur(s) = s.th[t] /\ Cur(q) = q.th[t]
  BY DEF Cur
<1> HIDE DEF q
<1>5. StackRight(q, ch, a)
  BY <1>1, <1>3, <1>4, StackTop
<1>6. n \in 1..N /\ n \in Nat
  <2> HIDE DEF N
  <2> QED
    BY <1>1, <1>2
<1>7. r.c = SubSeq(s.c, 1, n) /\ Len(r.c) = n /\ Last(r.c) = s.c[n]
  <2>1. s.c # <<>>
    BY <1>1, <1>2
  <2>2. Front(s.c) = SubSeq(s.c, 1, n)
    BY <1>2, <2>1, FrontIs
  <2>3. /\ Len(SubSeq(s.c, 1, n)) = n /\ n >= 1 => Last(SubSeq(s.c, 1, n)) = s.c[n]
    <3>1. n \in 0..Len(s.c)
      BY <1>6
    <3> HIDE DEF n
    <3> QED
      BY <1>2, <3>1, SubSeqIs
  <2> HIDE DEF n
  <2> QED
    BY <1>1, <1>6, <2>2, <2>3
<1>8. Last(b) = B
  <2>1. n \in 0..Len(a) /\ n >= 1
    BY <1>2, <1>6
  <2> HIDE DEF n
  <2> QED
    BY <1>2, <2>1, SubSeqIs
<1>9. StackRight(r, SubSeq(ch, 1, B.link), b)
  <2> HIDE DEF n
  <2> QED
    BY <1>1, <1>3, <1>5, <1>6, <1>7, StackShrinks
<1>10. /\ s.c[n] \in Frame /\ B \in Mark /\ s.c[n].L = t /\ B.link = Len(ch) /\ B.ci <= Last(a).ci
       /\ q.th[s.c[n].L] = r.th[t]
       /\ Owns(s.c[n].f, B, Cur(q).ci, Last(a).ci) /\ Below(s.c[n].f, B, q.th[s.c[n].L].ci)
  <2>1. TopF(q) = TopF(s) /\ Last(q.c) = Last(s.c)
    BY <1>3 DEF TopF
  <2>2. Len(q.c) > 1 /\ Len(q.c) = N /\ TopF(q) # "resume"
    BY <1>1, <1>3, <2>1
  <2>3. /\ s.c[n] \in Frame /\ B \in Mark /\ s.c[n].L = t /\ B.link = Len(ch) /\ B.ci <= Last(a).ci
       /\ Owns(s.c[n].f, B, Cur(q).ci, Last(a).ci) /\ Below(s.c[n].f, B, q.th[s.c[n].L].ci)
    BY <1>3, <1>5, <2>1, <2>2, UnderIs
  <2> QED
    BY <1>3, <2>3
<1>11. SubSeq(ch, 1, B.link) = ch
  BY <1>2, <1>10
<1>12. /\ <<s.c[n].f, TopF(s)>> \in Nesting /\ Last(a) = MarkOf(Last(s.c), N, B, Last(a).ci)
       /\ Saved(s.c, a, Cur(s).ci, N)
  <2>1. s \in Machine /\ StackRight(s, ch, a) /\ Len(s.c) > 1
    BY <1>1
  <2>2. /\ <<s.c[Len(s.c) - 1].f, TopF(s)>> \in Nesting
        /\ Last(a) = MarkOf(Last(s.c), Len(s.c), a[Len(s.c) - 1], Last(a).ci)
    BY <2>1, TopIs
  <2>3. Saved(s.c, a, Cur(s).ci, Len(s.c))
    BY <2>1, TopIs
  <2> QED
    BY <2>2, <2>3
<1>13. SavedOver(Last(s.c), s.c[n].f, B, Last(a), Cur(s).ci, N)
  BY <1>2, <1>12 DEF Saved
<1>14. TopF(s) \notin {"host", "dpcall", "try"} => n > 2
  <2>1. TopF(s) \notin {"host", "dpcall", "try"} => N > 3
    BY <1>1, BaseIs
  <2> HIDE DEF N
  <2> QED
    BY <1>2, <2>1
<1>15. TopF(r) = s.c[n].f /\ Cur(r) = r.th[t] /\ Same(s, r)
  BY <1>1, <1>7, <1>10 DEF TopF, Cur, Same
<1>16. Cur(q).ci = r.th[t].ci /\ q.th[s.c[n].L].ci = r.th[t].ci
  BY <1>3, <1>4, <1>10
<1> HIDE DEF n, b, B, N, t
<1>17. Popped(s, r, ch, a, b)
  <2>1. StackRight(r, ch, b)
    BY <1>9, <1>11
  <2>2. /\ TopF(r) = s.c[n].f /\ Last(r.c) = s.c[n] /\ Cur(r) = r.th[t] /\ Same(s, r)
        /\ <<TopF(r), TopF(s)>> \in Nesting
        /\ Owns(TopF(r), B, r.th[t].ci, Last(a).ci) /\ Below(TopF(r), B, r.th[t].ci)
        /\ SavedOver(Last(s.c), TopF(r), B, Last(a), Cur(s).ci, N)
    BY <1>7, <1>10, <1>12, <1>13, <1>15, <1>16
  <2>3. TopF(s) \notin {"host", "dpcall", "try"} => Len(r.c) > 2
    BY <1>7, <1>14
  <2>4. Last(b) = a[n] /\ B = a[n]
    BY <1>8 DEF B
  <2> QED
    BY Zenon, <1>1, <1>2, <1>4, <1>7, <1>8, <1>10, <1>12, <2>1, <2>2, <2>3, <2>4 DEF Popped, N, n, t
<1> QED
  BY <1>17

LEMMA AppendLast ==
  ASSUME NEW S, NEW l \in Seq(S), NEW x, NEW y
  PROVE  /\ Last(Append(l, x)) = x /\ Len(Append(l, x)) = Len(l) + 1 /\ Len(l) \in Nat
         /\ Last(Append(Append(l, x), y)) = y /\ Len(Append(Append(l, x), y)) = Len(l) + 2
<1> DEFINE T == S \cup {x, y}
           k == Append(l, x)
<1>1. l \in Seq(T) /\ x \in T /\ y \in T
  OBVIOUS
<1> HIDE DEF T
<1>2. k \in Seq(T) /\ Len(k) = Len(l) + 1 /\ k[Len(l) + 1] = x /\ Len(l) \in Nat
  BY <1>1
<1>3. Last(k) = x
  BY <1>2 DEF Last
<1> HIDE DEF k
<1>4. Len(Append(k, y)) = Len(k) + 1 /\ Append(k, y)[Len(k) + 1] = y
  BY <1>1, <1>2
<1>5. Last(Append(k, y)) = y
  BY <1>4 DEF Last
<1> QED
  BY <1>2, <1>3, <1>4, <1>5 DEF k

\* What goes on, by what the machine does.
LEMMA InvActive ==
  ASSUME NEW s, NEW w, Inv(s, w),
         \/ s.do \in {"run", "raise"}
         \/ s.do = "return" /\ TopF(s) \notin {"try", "dpcall", "resume", "host"}
  PROVE  TypesRight(s, w) /\ \E a : Active(s, w, a)
<1>1. TypesRight(s, w) /\ s \in Machine
  BY DEF Inv, TypesRight
<1>2. ~AtHost(s, w)
  <2>1. ASSUME AtHost(s, w), s.do = "return" PROVE FALSE
    <3>1. Len(s.c) = 1 /\ s.c[1].f = "host"
      BY <2>1 DEF AtHost
    <3>2. TopF(s) = "host"
      BY <3>1 DEF TopF, Last
    <3> QED
      BY <2>1, <3>2
  <2> QED
    BY <2>1 DEF AtHost
<1>3. \A a : ~Yielding(s, w, a)
  BY DEF Yielding
<1>4. \A a, back : ~Unwinding(s, w, a, back)
  BY DEF Unwinding
<1>5. ASSUME NEW r \in Machine, NEW a, Refused(s, r) PROVE FALSE
  <2> DEFINE x == [f |-> "resume", L |-> Last(s.c).L, n |-> r.th[Last(s.c).L].nny, p |-> 0, e |-> 0]
             y == [f |-> "try", L |-> Last(s.c).L, n |-> r.th[Last(s.c).L].nCcalls + 1,
                   p |-> r.th[Last(s.c).L].errorJmp, e |-> 0]
  <2>1. s.do \in {"throw", "return"} /\ (s.c = Append(Append(r.c, x), y) \/ s.c = Append(r.c, x))
    BY Zenon, <1>5 DEF Refused
  <2>2. x.f = "resume" /\ y.f = "try"
    OBVIOUS
  <2> HIDE DEF x, y
  <2>3. r.c \in Seq(Frame)
    BY MachineIs
  <2>5. Last(Append(r.c, x)) = x
    BY <2>3, AppendLast
  <2>6. Last(Append(Append(r.c, x), y)) = y
    BY <2>3, AppendLast
  <2> QED
    BY Zenon, <2>1, <2>2, <2>5, <2>6 DEF TopF
<1> QED
  BY <1>1, <1>2, <1>3, <1>4, <1>5 DEF Inv

LEMMA ActiveIs ==
  ASSUME NEW s, NEW w, NEW a, TypesRight(s, w), Active(s, w, a)
  PROVE  LET t == Last(s.c).L IN
         /\ s \in Machine /\ w \in Wants /\ StackRight(s, w.chain, a) /\ TopRight(s, a)
         /\ AgreeBut(s, w, {}) /\ Others(s, w, w.chain) /\ AtWork(s)
         /\ t \in Threads /\ t = Last(w.chain) /\ t \notin w.dead /\ w.stack[t] = Names(Cur(s).ci)
         /\ Cur(s) = s.th[t] /\ Cur(s).ci \in Seq(CIs) /\ Len(Cur(s).ci) \in Nat
         /\ CIsRight(Cur(s).ci) /\ Cur(s) \in Thread /\ s.c # <<>>
<1>1. s \in Machine /\ w \in Wants /\ \A t \in Threads : CIsRight(s.th[t].ci)
  BY DEF TypesRight
<1>2. /\ StackRight(s, w.chain, a) /\ TopRight(s, a)
      /\ AgreeBut(s, w, {}) /\ Others(s, w, w.chain) /\ AtWork(s)
  BY DEF Active
<1>3. Cur(s) \in Thread /\ s.c # <<>>
  BY <1>1, <1>2, StackEnds DEF StackRight
<1> DEFINE t == Last(s.c).L
<1>4. /\ t \in Threads /\ t = Last(w.chain) /\ t \notin w.dead /\ w.stack[t] = Names(Cur(s).ci)
      /\ Cur(s) = s.th[t] /\ Cur(s).ci \in Seq(CIs) /\ Len(Cur(s).ci) \in Nat
  BY <1>1, <1>2, AgreeIs
<1> QED
  BY <1>1, <1>2, <1>3, <1>4

\* A call of fn, or its failure, after the calls ck.
LEMMA CalledIs ==
  ASSUME NEW s, NEW r, NEW w, NEW v, NEW a, TypesRight(s, w), Active(s, w, a),
         NEW ck \in Seq(CIs), NEW fn \in Fns, ~Protects(fn), Called(s, r, w.chain, Names(ck), fn),
         (Cur(r).errfunc = 1) = HandledBy(ck, Len(ck)),
         WSame(w, v, Last(s.c).L),
         v.stack[Last(s.c).L] = IF r.do = "run" THEN Append(Names(ck), fn) ELSE Names(ck)
  PROVE  Inv(r, v)
<1> DEFINE t == Last(s.c).L
           cj == Cur(r).ci
<1>1. Same(s, r) /\ Ready(r, w.chain)
  BY DEF Called
<1>2. r \in Machine /\ Last(r.c).L = t
  BY <1>1 DEF Same
<1>3. cj \in Seq(CIs)
  <2>1. t \in Threads
    BY ActiveIs
  <2> QED
    BY <1>2, <2>1, MachineIs, ThreadIs DEF Cur
<1> HIDE DEF cj, t
<1>4. ASSUME r.do = "run", TopF(r) = "execute", Names(cj) = Append(Names(ck), fn)
      PROVE  AtWork(r) /\ v.stack[t] = Names(cj)
  <2>1. (Cur(r).errfunc = 1) = HandledBy(cj, Len(cj))
    BY <1>3, <1>4, HandledPush
  <2>2. ErrFuncRight(Cur(r))
    BY <2>1 DEF ErrFuncRight, cj
  <2> QED
    BY <1>4, <2>2 DEF AtWork, t
<1>5. ASSUME TopF(r) = "call", Names(cj) = Names(ck), r.do = "raise" \/ (r.do = "throw" /\ r.status = "ERRERR")
      PROVE  AtWork(r) /\ v.stack[t] = Names(cj)
  <2>1. HandledBy(cj, Len(ck)) = HandledBy(ck, Len(ck)) /\ Len(cj) = Len(ck)
    <3>1. Len(cj) = Len(ck) /\ Len(ck) \in Int /\ Len(ck) <= Len(cj)
      BY <1>3, <1>5, NamesAre
    <3> QED
      BY <1>3, <1>5, <3>1, HandledNames
  <2>2. ErrFuncRight(Cur(r))
    BY <2>1 DEF ErrFuncRight, cj
  <2>3. Raises(r) /\ (r.do = "throw" => r.status \in Errors)
    BY <1>5 DEF Raises, Errors
  <2> QED
    BY <1>5, <2>2, <2>3 DEF AtWork, t
<1>6. AtWork(r) /\ v.stack[t] = Names(cj)
  BY <1>4, <1>5 DEF Called, cj
<1>7. AgreeBut(s, w, {}) /\ Others(s, w, w.chain)
  BY DEF Active
<1> QED
  BY <1>1, <1>6, <1>7, StaysActive DEF cj, t

-----------------------------------------------------------------------------
(* Lua code *)

\* The frame of luaV_execute at the top.
LEMMA ExecuteTop ==
  ASSUME NEW s, NEW w, NEW a, TypesRight(s, w), Active(s, w, a), TopF(s) = "execute"
  PROVE  LET A == Last(a)
             ci == Cur(s).ci
             n == Len(ci)
         IN
         /\ ErrFuncRight(Cur(s)) /\ A \in Mark /\ n \in Nat /\ A.ci < n /\ n >= 1 /\ ci # <<>>
         /\ ci[A.ci + 1].fresh /\ IsLua(ci[n].fn) /\ Last(ci) = ci[n]
         /\ ci[n].fresh = (n = A.ci + 1)
         /\ A.nny > 0 /\ A.link > 1 => \E i \in 1..n : ci[i].fn \in {"sort", "handler"}
         /\ A.nny = 0 => A.link > 1 /\ \A i \in 1..n : Pending(ci, i)
         /\ Len(s.c) > 3
<1> DEFINE A == Last(a)
           ci == Cur(s).ci
           n == Len(ci)
<1>1. /\ s \in Machine /\ StackRight(s, w.chain, a) /\ TopRight(s, a) /\ AtWork(s)
      /\ ci \in Seq(CIs) /\ n \in Nat
  BY ActiveIs
<1>2. ErrFuncRight(Cur(s))
  BY <1>1 DEF AtWork
<1>3. A \in Mark /\ Below("execute", A, ci) /\ A.ci \in Nat
  BY <1>1, TopIs, MarkIs
<1>4. Owns("execute", A, ci, n)
  BY <1>1 DEF TopRight
<1>5. Len(s.c) > 3
  BY <1>1, BaseIs
<1>6. Last(ci) = ci[n]
  BY DEF Last
<1> HIDE DEF A, n, ci
<1>7. /\ A.ci < n
      /\ ci[A.ci + 1].fresh
      /\ \A i \in A.ci + 1..n : IsLua(ci[i].fn) /\ (i > A.ci + 1 => ~ci[i].fresh)
      /\ A.nny = 0 => \A i \in A.ci + 1..n : ci[i].fn # "handler"
      /\ A.nny > 0 /\ A.link > 1 => \E i \in 1..A.ci + 1 : ci[i].fn \in {"sort", "handler"}
  BY <1>4 DEF Owns
<1>8. n \in A.ci + 1..n /\ n >= 1 /\ (n > A.ci + 1 \/ n = A.ci + 1) /\ \A i \in 1..A.ci + 1 : i \in 1..n
  BY <1>1, <1>3, <1>7
<1>9. ci[n].fresh = (n = A.ci + 1)
  <2>1. ci[n].fresh \in BOOLEAN
    <3>1. n = Len(ci)
      BY DEF n
    <3>2. ci[n] \in CIs
      BY <1>1, <1>8, <3>1
    <3> QED
      BY <3>2 DEF CIs
  <2>2. CASE n = A.ci + 1
    BY <1>7, <2>1, <2>2
  <2>3. CASE n > A.ci + 1
    <3>1. ~ci[n].fresh /\ n # A.ci + 1
      BY <1>1, <1>3, <1>7, <1>8, <2>3
    <3> QED
      BY <2>1, <3>1
  <2> QED
    BY <1>8, <2>2, <2>3
<1>10. ASSUME A.nny = 0 PROVE A.link > 1 /\ \A i \in 1..n : Pending(ci, i)
  <2>1. A.link > 1 /\ \A i \in 1..A.ci : Pending(ci, i)
    BY <1>3, <1>10 DEF Below
  <2>2. \A i \in A.ci + 1..n : Pending(ci, i)
    BY <1>7, <1>10 DEF IsLua, Pending
  <2>3. \A i \in 1..n : i \in 1..A.ci \/ i \in A.ci + 1..n
    BY <1>1, <1>3
  <2> QED
    BY <2>1, <2>2, <2>3
<1>11. ci # <<>>
  <2>1. n # 0
    BY <1>8
  <2> QED
    BY <2>1 DEF n
<1> QED
  BY <1>1, <1>2, <1>3, <1>5, <1>6, <1>7, <1>8, <1>9, <1>10, <1>11 DEF A, n, ci

\* OP_CALL of a Lua function
LEMMA CallLuaIs ==
  ASSUME NEW s, NEW w, NEW a, TypesRight(s, w), Active(s, w, a), s.do = "run", TopF(s) = "execute"
  PROVE  Inv(PushCI(s, Last(s.c).L, NewCI("lua")), WPush(w, "lua"))
<1> DEFINE t == Last(s.c).L
           r == PushCI(s, t, NewCI("lua"))
           v == WPush(w, "lua")
           A == Last(a)
           ci == Cur(s).ci
           n == Len(ci)
           cj == r.th[t].ci
<1>1. /\ s \in Machine /\ w \in Wants /\ StackRight(s, w.chain, a) /\ TopRight(s, a)
      /\ AgreeBut(s, w, {}) /\ Others(s, w, w.chain)
      /\ t \in Threads /\ t = Last(w.chain) /\ w.stack[t] = Names(ci)
      /\ Cur(s) = s.th[t] /\ ci \in Seq(CIs) /\ n \in Nat /\ CIsRight(ci)
  BY ActiveIs
<1>2. ErrFuncRight(Cur(s)) /\ A \in Mark /\ A.ci < n
  BY ExecuteTop
<1>3. "lua" \in Fns /\ ~Protects("lua") /\ IsLua("lua")
  BY DEF Fns, Protects, IsLua
<1>4. CalledNew(s, r, t, "lua")
  BY <1>1, <1>3, PushCIIs
<1> HIDE DEF r, v
<1>5. OneThread(s, r, t)
  BY ZenonT(30), <1>4 DEF CalledNew
<1>6. /\ Len(cj) = n + 1 /\ SameTo(ci, cj, n) /\ cj[n + 1] = NewCI("lua") /\ CIsRight(cj)
      /\ Names(cj) = Append(Names(ci), "lua")
      /\ r.th[t].status = Cur(s).status /\ r.th[t].nny = Cur(s).nny /\ r.th[t].nCcalls = Cur(s).nCcalls
      /\ r.th[t].errorJmp = Cur(s).errorJmp /\ r.th[t].errfunc = Cur(s).errfunc
      /\ r.th[t].body = Cur(s).body
  <2>1. /\ Len(cj) = n + 1 /\ SameTo(ci, cj, n) /\ cj[n + 1] = NewCI("lua") /\ CIsRight(cj)
        /\ Names(cj) = Append(Names(ci), "lua")
    BY Zenon, <1>1, <1>4 DEF CalledNew
  <2>2. /\ r.th[t].status = Cur(s).status /\ r.th[t].nny = Cur(s).nny /\ r.th[t].nCcalls = Cur(s).nCcalls
        /\ r.th[t].errorJmp = Cur(s).errorJmp /\ r.th[t].errfunc = Cur(s).errfunc
        /\ r.th[t].body = Cur(s).body
    BY Zenon, <1>1, <1>4 DEF CalledNew
  <2> QED
    BY Zenon, <2>1, <2>2
<1>7. /\ r \in Machine /\ r.c = s.c /\ r.do = s.do /\ \A u \in Threads \ {t} : r.th[u] = s.th[u]
  BY <1>5 DEF OneThread
<1>8. Cur(r) = r.th[t] /\ TopF(r) = "execute" /\ Same(s, r)
  BY <1>7 DEF Cur, TopF, Same
<1>9. cj \in Seq(CIs)
  BY <1>1, <1>7, MachineIs, ThreadIs
<1>10. cj[n + 1].fn = "lua" /\ ~cj[n + 1].fresh
  BY Zenon, <1>3, <1>6, NewCIIs
<1> HIDE DEF cj, n, A
<1>11. A.ci \in Nat
  BY <1>2, MarkIs
<1>12. Owns("execute", A, cj, n + 1)
  <2>1. Owns("execute", A, ci, n)
    BY <1>1 DEF TopRight, A, n
  <2>2. Owns("execute", A, cj, n)
    <3>1. A.ci <= n
      BY <1>1, <1>2, <1>11
    <3> QED
      BY <1>1, <1>2, <1>6, <2>1, <3>1, OwnsSame
  <2>3. \A i \in A.ci + 1..n + 1 : i = n + 1 \/ i \in A.ci + 1..n
    BY <1>1, <1>11
  <2>4. A.ci < n + 1
    BY <1>1, <1>2, <1>11
  <2> QED
    BY <1>3, <1>10, <2>2, <2>3, <2>4 DEF Owns
<1>13. StackRight(r, w.chain, a)
  <2>1. A.ci <= Len(Cur(r).ci)
    BY <1>1, <1>2, <1>6, <1>8, <1>11 DEF cj
  <2>2. SameTo(Cur(s).ci, Cur(r).ci, A.ci)
    <3>1. \A i \in 1..A.ci : i \in 1..n
      BY <1>1, <1>2, <1>11
    <3> QED
      BY Zenon, <1>6, <1>8, <3>1 DEF SameTo, cj
  <2> QED
    BY <1>1, <1>7, <2>1, <2>2, StackTop DEF A
<1>14. TopRight(r, a)
  <2>1. Live(Cur(r), A)
    BY SMTT(30), <1>1, <1>6, <1>8 DEF TopRight, Live, A
  <2>2. Len(r.c) <= 2 => Cur(r).nCcalls = 0
    BY <1>1, <1>6, <1>7, <1>8 DEF TopRight
  <2>3. Owns(TopF(r), A, Cur(r).ci, Len(Cur(r).ci))
    BY ZenonT(30), <1>6, <1>8, <1>12 DEF cj
  <2> QED
    BY SMTT(30), <2>1, <2>2, <2>3 DEF TopRight, A
<1>15. Ready(r, w.chain)
  BY ZenonT(30), <1>6, <1>8, <1>13, <1>14 DEF Ready, cj
<1>16. ErrFuncRight(Cur(r))
  <2>1. HandledBy(cj, Len(cj)) = HandledBy(ci, Len(ci))
    BY <1>1, <1>3, <1>6, <1>9, HandledPush
  <2>2. (Cur(s).errfunc = 1) = HandledBy(ci, Len(ci))
    BY <1>2 DEF ErrFuncRight
  <2> QED
    BY Zenon, <1>6, <1>8, <2>1, <2>2 DEF ErrFuncRight, cj
<1>17. AtWork(r)
  BY <1>7, <1>8, <1>16 DEF AtWork
<1>18. WSame(w, v, t) /\ v.stack[t] = Names(Cur(r).ci)
  BY <1>1, <1>3, <1>6, <1>8, WPushIs DEF v, cj
<1> QED
  BY <1>1, <1>8, <1>15, <1>17, <1>18, StaysActive DEF r, v

\* luaT_callTM from an instruction
LEMMA CallMetaIs ==
  ASSUME NEW s, NEW w, NEW a, TypesRight(s, w), Active(s, w, a), s.do = "run", TopF(s) = "execute",
         NEW r, r = DCall(s, Last(s.c).L, "meta")
  PROVE  Inv(r, IF r.do = "run" THEN WPush(w, "meta") ELSE w)
<1> DEFINE t == Last(s.c).L
           A == Last(a)
           ci == Cur(s).ci
           v == IF r.do = "run" THEN WPush(w, "meta") ELSE w
<1>1. /\ s \in Machine /\ w \in Wants /\ StackRight(s, w.chain, a) /\ TopRight(s, a)
      /\ AgreeBut(s, w, {}) /\ Others(s, w, w.chain)
      /\ t \in Threads /\ t = Last(w.chain) /\ w.stack[t] = Names(ci)
      /\ Cur(s) = s.th[t] /\ ci \in Seq(CIs) /\ CIsRight(ci)
  BY ActiveIs
<1>2. /\ ErrFuncRight(Cur(s))
      /\ A.nny > 0 /\ A.link > 1 => \E i \in 1..Len(ci) : ci[i].fn \in {"sort", "handler"}
  BY ExecuteTop
<1>3. "meta" \in Fns /\ ~Protects("meta")
  BY DEF Fns, Protects
<1>4. CanCall(s, w.chain, a, "meta")
  BY <1>1, <1>2 DEF CanCall
<1>5. Called(s, r, w.chain, Names(ci), "meta") /\ Cur(r).errfunc = Cur(s).errfunc
  BY <1>4, DCallIs
<1>6. (Cur(r).errfunc = 1) = HandledBy(ci, Len(ci))
  BY <1>2, <1>5 DEF ErrFuncRight
<1>7. /\ WSame(w, v, t)
      /\ v.stack[t] = IF r.do = "run" THEN Append(Names(ci), "meta") ELSE Names(ci)
  BY <1>1, <1>3, WPushIs, WSameIs
<1> HIDE DEF v, ci
<1>8. Inv(r, v)
  BY <1>1, <1>3, <1>5, <1>6, <1>7, CalledIs
<1> QED
  BY <1>8 DEF v

\* lua_pcallk from the C function at the top
CanPCallK(s, ch, a, e) ==
  LET ci == Cur(s).ci IN
  /\ s \in Machine /\ StackRight(s, ch, a) /\ TopRight(s, a) /\ CIsRight(ci) /\ e \in {0, 1}
  /\ TopF(s) = "cfunc" /\ Protects(TopCI(s).fn) /\ ~TopCI(s).ypcall
  /\ (Cur(s).errfunc = 1) = HandledBy(ci, Len(ci) - 1)
  /\ Last(a).nny > 0 /\ Last(a).link > 1 => \E i \in 1..Len(ci) : ci[i].fn \in {"sort", "handler"}

\* The call of the C function at the top.
LEMMA CFuncTop ==
  ASSUME NEW s \in Machine, NEW ch, NEW a, StackRight(s, ch, a), TopRight(s, a), TopF(s) = "cfunc"
  PROVE  LET ci == Cur(s).ci
             n == Len(ci)
         IN
         /\ ci \in Seq(CIs) /\ n \in Nat /\ n >= 1 /\ ci # <<>> /\ Last(a) \in Mark /\ n = Last(a).ci + 1
         /\ TopCI(s) = ci[n] /\ Last(ci) = ci[n] /\ TopCI(s) \in CIs /\ ~IsLua(TopCI(s).fn)
         /\ TopCI(s) = CI(s, Last(s.c).L)
         /\ Cur(s).nny = Last(a).nny /\ Cur(s).nny \in Nat
<1> DEFINE ci == Cur(s).ci
           n == Len(ci)
<1>1. Cur(s) \in Thread /\ Last(a) \in Mark
  BY StackEnds
<1>2. ci \in Seq(CIs) /\ n \in Nat /\ Last(a).ci \in Nat /\ Cur(s).nny \in Nat
  BY <1>1, ThreadIs, MarkIs
<1>3. n = Last(a).ci + 1 /\ ~IsLua(ci[n].fn) /\ Cur(s).nny = Last(a).nny
  BY DEF TopRight, Owns, Live
<1>4. n >= 1
  <2> HIDE DEF n
  <2> QED
    BY <1>2, <1>3
<1>5. ci # <<>> /\ ci[n] \in CIs
  BY <1>2, <1>4
<1>6. TopCI(s) = ci[n] /\ Last(ci) = ci[n] /\ TopCI(s) = CI(s, Last(s.c).L)
  BY DEF TopCI, Last, CI, Cur
<1> HIDE DEF ci, n
<1> QED
  BY <1>1, <1>2, <1>3, <1>4, <1>5, <1>6 DEF ci, n

LEMMA ErrFuncSet ==
  ASSUME NEW s \in Machine, NEW ch, NEW a, StackRight(s, ch, a), TopRight(s, a), NEW e \in {0, 1},
         NEW r, r = SetErrFunc(s, Last(s.c).L, e)
  PROVE  /\ Same(s, r) /\ r.c = s.c /\ r.do = s.do /\ r.status = s.status
         /\ StackRight(r, ch, a) /\ TopRight(r, a)
         /\ Cur(r).ci = Cur(s).ci /\ Cur(r).errfunc = e /\ TopF(r) = TopF(s)
         /\ Cur(r).nny = Cur(s).nny /\ Cur(r).nCcalls = Cur(s).nCcalls
<1> DEFINE t == Last(s.c).L
           o == s.th[t]
<1>1. t \in Threads /\ Cur(s) = o /\ o \in Thread /\ Last(a) \in Mark /\ Last(a).ci <= Len(o.ci)
  BY StackEnds, TopIs DEF Cur
<1>2. /\ OneThread(s, r, t) /\ r.th[t].errfunc = e
      /\ r.th[t].ci = o.ci /\ r.th[t].status = o.status /\ r.th[t].nny = o.nny
      /\ r.th[t].nCcalls = o.nCcalls /\ r.th[t].errorJmp = o.errorJmp /\ r.th[t].body = o.body
  BY <1>1, SetErrFuncIs
<1>3. /\ r \in Machine /\ r.c = s.c /\ r.do = s.do /\ r.status = s.status
      /\ \A u \in Threads \ {t} : r.th[u] = s.th[u]
  BY <1>2 DEF OneThread
<1>4. Cur(r) = r.th[t] /\ TopF(r) = TopF(s) /\ Same(s, r)
  BY <1>3 DEF Cur, TopF, Same
<1> HIDE DEF o, t
<1>5. StackRight(r, ch, a)
  <2>1. SameTo(Cur(s).ci, Cur(r).ci, Last(a).ci) /\ Last(a).ci <= Len(Cur(r).ci)
    BY <1>1, <1>2, <1>4 DEF SameTo
  <2> QED
    BY SMTT(30), <1>3, <2>1, StackTop DEF t
<1>6. TopRight(r, a)
  BY <1>1, <1>2, <1>3, <1>4 DEF TopRight, Live
<1> QED
  BY <1>1, <1>2, <1>3, <1>4, <1>5, <1>6

LEMMA PCallKIs ==
  ASSUME NEW s, NEW ch, NEW a, NEW e, CanPCallK(s, ch, a, e)
  PROVE  LET r == PCallK(s, Last(s.c).L, e)
         IN  Called(s, r, ch, Names(Cur(s).ci), "lua") /\ Cur(r).errfunc = e
<1> DEFINE t == Last(s.c).L
           ci == Cur(s).ci
           c == [CI(s, t) EXCEPT !.k = TRUE, !.ypcall = TRUE, !.old_errfunc = s.th[t].errfunc]
           z == SetCI(s, t, c)
           y == SetErrFunc(z, t, e)
           r == PCallK(s, t, e)
<1>1. /\ s \in Machine /\ StackRight(s, ch, a) /\ TopRight(s, a) /\ CIsRight(ci) /\ e \in {0, 1}
      /\ TopF(s) = "cfunc" /\ Protects(TopCI(s).fn) /\ ~TopCI(s).ypcall
  BY DEF CanPCallK
<1>2. /\ (Cur(s).errfunc = 1) = HandledBy(ci, Len(ci) - 1)
      /\ Last(a).nny > 0 /\ Last(a).link > 1 => \E i \in 1..Len(ci) : ci[i].fn \in {"sort", "handler"}
  BY DEF CanPCallK
<1>3. /\ ci \in Seq(CIs) /\ Len(ci) >= 1 /\ TopCI(s) = ci[Len(ci)] /\ TopCI(s) \in CIs
      /\ TopCI(s) = CI(s, t) /\ Cur(s).nny = Last(a).nny /\ Cur(s).nny \in Nat /\ Len(ci) \in Nat
  BY <1>1, CFuncTop
<1>4. t \in Threads /\ Cur(s) = s.th[t] /\ Cur(s) \in Thread
  BY <1>1, StackEnds DEF Cur
<1> HIDE DEF ci
<1>5. CASE Cur(s).nny > 0
  <2>1. r = DPCall(s, t, e)
    BY Zenon, <1>4, <1>5 DEF PCallK
  <2>2. Last(a).nny >= 1
    BY <1>3, <1>5
  <2>3. CanPCall(s, ch, a, e)
    BY <1>1, <1>2, <1>3, <1>5, <2>2 DEF CanPCall, ci
  <2> QED
    BY <2>1, <2>3, DPCallIs DEF ci
<1>6. CASE ~(Cur(s).nny > 0)
  <2>1. r = DCall(y, t, "lua")
    BY Zenon, <1>4, <1>6 DEF PCallK, SetErrFunc
  <2>2. Last(a).nny = 0
    BY <1>3, <1>6
  <2>3. c \in CIs /\ c.fn = TopCI(s).fn /\ c.k /\ c.ypcall /\ c.old_errfunc = Cur(s).errfunc
    <3> DEFINE q == CI(s, t)
               f == s.th[t].errfunc
    <3>1. q \in CIs /\ f \in {0, 1} /\ q = TopCI(s)
      BY <1>3, <1>4, ThreadIs
    <3> HIDE DEF q, f
    <3>2. LET d == [q EXCEPT !.k = TRUE, !.ypcall = TRUE, !.old_errfunc = f]
          IN  d \in CIs /\ d.fn = q.fn /\ d.k /\ d.ypcall /\ d.old_errfunc = f
      BY <3>1 DEF CIs
    <3> QED
      BY <1>4, <3>1, <3>2 DEF q, f
  <2> HIDE DEF c, r
  <2>4. /\ Same(s, z) /\ z.c = s.c /\ Cur(z) = z.th[t]
        /\ StackRight(z, ch, a) /\ TopRight(z, a) /\ CIsRight(Cur(z).ci)
        /\ Names(Cur(z).ci) = Names(ci)
        /\ Len(Cur(z).ci) = Len(ci) /\ Cur(z).ci[Len(Cur(z).ci)] = c
    <3>1. c.ypcall => /\ Protects(c.fn) /\ c.k /\ Last(a).nny = 0
                      /\ (c.old_errfunc = 1) = HandledBy(Cur(s).ci, Len(Cur(s).ci) - 1)
      BY <1>1, <1>2, <2>2, <2>3 DEF ci
    <3>2. CIsRight(Cur(s).ci)
      BY <1>1 DEF ci
    <3> HIDE DEF z
    <3>3. z = SetCI(s, t, c)
      BY DEF z
    <3> QED
      BY <1>1, <2>3, <3>1, <3>2, <3>3, SetCIIs DEF ci
  <2> HIDE DEF z
  <2>5. z \in Machine /\ Last(z.c).L = t /\ TopF(z) = "cfunc" /\ \A u \in Threads \ {t} : z.th[u] = s.th[u]
    BY <1>1, <2>4 DEF Same, TopF
  <2>6. /\ Same(z, y) /\ y.c = z.c /\ StackRight(y, ch, a) /\ TopRight(y, a)
        /\ Cur(y).ci = Cur(z).ci /\ Cur(y).errfunc = e /\ TopF(y) = "cfunc"
    <3> HIDE DEF y
    <3>1. y = SetErrFunc(z, Last(z.c).L, e)
      BY <2>5 DEF y
    <3> QED
      BY <1>1, <2>4, <2>5, <3>1, ErrFuncSet
  <2> HIDE DEF y
  <2>7. y \in Machine /\ Last(y.c).L = t /\ \A u \in Threads \ {t} : y.th[u] = s.th[u]
    BY <2>5, <2>6 DEF Same
  <2>8. Pending(Cur(y).ci, Len(Cur(y).ci))
    BY Zenon, <1>1, <2>3, <2>4, <2>6 DEF Pending
  <2>9. CanCall(y, ch, a, "lua")
    BY <2>2, <2>4, <2>6, <2>7, <2>8 DEF CanCall
  <2>10. Called(y, r, ch, Names(Cur(y).ci), "lua") /\ Cur(r).errfunc = Cur(y).errfunc
    BY <2>1, <2>7, <2>9, DCallIs
  <2>11. Same(s, r)
    BY <2>7, <2>10 DEF Called, Same
  <2>12. Called(s, r, ch, Names(ci), "lua")
    BY Zenon, <2>4, <2>6, <2>10, <2>11 DEF Called
  <2> QED
    BY <2>6, <2>10, <2>12 DEF r, ci
<1> QED
  BY <1>5, <1>6

\* lua_callk from the C function at the top
CanCallK(s, ch, a) ==
  LET ci == Cur(s).ci IN
  /\ s \in Machine /\ StackRight(s, ch, a) /\ TopRight(s, a) /\ CIsRight(ci)
  /\ TopF(s) = "cfunc" /\ TopCI(s).fn = "dofile" /\ ~TopCI(s).ypcall
  /\ Last(a).nny > 0 /\ Last(a).link > 1 => \E i \in 1..Len(ci) : ci[i].fn \in {"sort", "handler"}

LEMMA CallKIs ==
  ASSUME NEW s, NEW ch, NEW a, CanCallK(s, ch, a)
  PROVE  LET r == CallK(s, Last(s.c).L)
         IN  Called(s, r, ch, Names(Cur(s).ci), "lua") /\ Cur(r).errfunc = Cur(s).errfunc
<1> DEFINE t == Last(s.c).L
           ci == Cur(s).ci
           c == [CI(s, t) EXCEPT !.k = TRUE]
           z == SetCI(s, t, c)
           r == CallK(s, t)
<1>1. /\ s \in Machine /\ StackRight(s, ch, a) /\ TopRight(s, a) /\ CIsRight(ci)
      /\ TopF(s) = "cfunc" /\ TopCI(s).fn = "dofile" /\ ~TopCI(s).ypcall
  BY DEF CanCallK
<1>2. Last(a).nny > 0 /\ Last(a).link > 1 => \E i \in 1..Len(ci) : ci[i].fn \in {"sort", "handler"}
  BY DEF CanCallK
<1>3. /\ ci \in Seq(CIs) /\ Len(ci) >= 1 /\ TopCI(s) = ci[Len(ci)] /\ TopCI(s) \in CIs
      /\ TopCI(s) = CI(s, t) /\ Cur(s).nny = Last(a).nny /\ Cur(s).nny \in Nat /\ Len(ci) \in Nat
  BY <1>1, CFuncTop
<1>4. t \in Threads /\ Cur(s) = s.th[t] /\ Cur(s) \in Thread
  BY <1>1, StackEnds DEF Cur
<1> HIDE DEF ci
<1>5. CASE Cur(s).nny > 0
  <2>1. r = DCallNoYield(s, t, "lua")
    BY <1>4, <1>5 DEF CallK
  <2>2. Last(a).nny > 0
    BY <1>3, <1>5
  <2>3. ~Protects(ci[Len(ci)].fn)
    BY <1>1, <1>3 DEF Protects
  <2>4. CanCallNoYield(s, ch, a, "lua")
    BY <1>1, <1>2, <2>2, <2>3 DEF CanCallNoYield, ci
  <2> QED
    BY <2>1, <2>4, DCallNoYieldIs DEF ci
<1>6. CASE ~(Cur(s).nny > 0)
  <2>1. r = DCall(z, t, "lua")
    BY <1>4, <1>6 DEF CallK
  <2>2. Last(a).nny = 0
    BY <1>3, <1>6
  <2>3. c \in CIs /\ c.fn = TopCI(s).fn /\ c.k /\ ~c.ypcall
    <3> DEFINE q == CI(s, t)
    <3>1. q \in CIs /\ q = TopCI(s)
      BY <1>3
    <3> HIDE DEF q
    <3>2. LET d == [q EXCEPT !.k = TRUE]
          IN  d \in CIs /\ d.fn = q.fn /\ d.k /\ d.ypcall = q.ypcall
      BY <3>1 DEF CIs
    <3> QED
      BY <1>1, <3>1, <3>2 DEF q
  <2> HIDE DEF c, r
  <2>4. /\ Same(s, z) /\ z.c = s.c /\ Cur(z) = z.th[t] /\ Cur(z).errfunc = Cur(s).errfunc
        /\ StackRight(z, ch, a) /\ TopRight(z, a) /\ CIsRight(Cur(z).ci)
        /\ Names(Cur(z).ci) = Names(ci)
        /\ Len(Cur(z).ci) = Len(ci) /\ Cur(z).ci[Len(Cur(z).ci)] = c
    <3>2. CIsRight(Cur(s).ci)
      BY <1>1 DEF ci
    <3> HIDE DEF z
    <3>3. z = SetCI(s, t, c)
      BY DEF z
    <3> QED
      BY <1>1, <2>3, <3>2, <3>3, SetCIIs DEF ci
  <2> HIDE DEF z
  <2>5. z \in Machine /\ Last(z.c).L = t /\ TopF(z) = "cfunc" /\ \A u \in Threads \ {t} : z.th[u] = s.th[u]
    BY <1>1, <2>4 DEF Same, TopF
  <2>8. Pending(Cur(z).ci, Len(Cur(z).ci))
    BY <1>1, <2>3, <2>4 DEF Pending
  <2>9. CanCall(z, ch, a, "lua")
    BY <2>2, <2>4, <2>5, <2>8 DEF CanCall
  <2>10. Called(z, r, ch, Names(Cur(z).ci), "lua") /\ Cur(r).errfunc = Cur(z).errfunc
    BY <2>1, <2>5, <2>9, DCallIs
  <2>11. Same(s, r)
    BY <2>5, <2>10 DEF Called, Same
  <2>12. Called(s, r, ch, Names(ci), "lua")
    BY <2>4, <2>10, <2>11 DEF Called
  <2> QED
    BY <2>4, <2>10, <2>12 DEF r, ci
<1> QED
  BY <1>5, <1>6

\* A C function that calls back
CalledBack(s, t, fn) ==
  CASE fn = "pcall"  -> PCallK(s, t, 0)
    [] fn = "xpcall" -> PCallK(s, t, 1)
    [] fn = "dofile" -> CallK(s, t)
    [] fn = "sort"   -> DCallNoYield(s, t, "lua")

LEMMA CallCIs ==
  ASSUME NEW s, NEW w, NEW a, TypesRight(s, w), Active(s, w, a), s.do = "run", TopF(s) = "execute",
         NEW fn \in {"pcall", "xpcall", "dofile", "sort"},
         NEW r, r = CalledBack(EnterC(s, Last(s.c).L, fn), Last(s.c).L, fn)
  PROVE  Inv(r, IF r.do = "run" THEN WPush(WPush(w, fn), "lua") ELSE WPush(w, fn))
<1> DEFINE t == Last(s.c).L
           A == Last(a)
           ci == Cur(s).ci
           ch == w.chain
           z == EnterC(s, t, fn)
           ck == Cur(z).ci
           v == IF r.do = "run" THEN WPush(WPush(w, fn), "lua") ELSE WPush(w, fn)
<1>1. /\ s \in Machine /\ w \in Wants /\ StackRight(s, ch, a) /\ TopRight(s, a)
      /\ t \in Threads /\ t = Last(w.chain) /\ w.stack[t] = Names(ci)
      /\ Cur(s) = s.th[t] /\ ci \in Seq(CIs) /\ CIsRight(ci) /\ Len(ci) \in Nat
  BY ActiveIs
<1>2. /\ ErrFuncRight(Cur(s))
      /\ A.nny > 0 /\ A.link > 1 => \E i \in 1..Len(ci) : ci[i].fn \in {"sort", "handler"}
  BY ExecuteTop
<1>3. fn \in Fns /\ ~IsLua(fn) /\ "lua" \in Fns /\ ~Protects("lua")
  BY DEF Fns, IsLua, Protects
<1>4. CEntered(s, z, ch, a, fn)
  <2>1. CanEnterC(s, ch, a, fn)
    BY <1>1, <1>3 DEF CanEnterC
  <2> QED
    BY <2>1, EnterCIs
<1> HIDE DEF z
<1>5. /\ Same(s, z) /\ TopF(z) = "cfunc" /\ ck = Append(ci, NewCI(fn)) /\ CIsRight(ck)
      /\ Cur(z).errfunc = Cur(s).errfunc
  BY <1>4 DEF CEntered
<1>6. PICK b : /\ StackRight(z, ch, b) /\ TopRight(z, b)
               /\ Last(b).nny = A.nny /\ Last(b).link = A.link
  BY <1>4 DEF CEntered
<1>7. z \in Machine /\ Last(z.c).L = t /\ \A u \in Threads \ {t} : z.th[u] = s.th[u]
  BY <1>5 DEF Same
<1>8. /\ ck \in Seq(CIs) /\ Len(ck) \in Nat /\ Len(ck) >= 1 /\ TopCI(z) = ck[Len(ck)]
      /\ TopCI(z) = NewCI(fn)
  <2>1. ck \in Seq(CIs) /\ Len(ck) \in Nat /\ Len(ck) >= 1 /\ TopCI(z) = ck[Len(ck)] /\ TopCI(z) = Last(ck)
    BY <1>5, <1>6, <1>7, CFuncTop
  <2>2. Last(Append(ci, NewCI(fn))) = NewCI(fn)
    BY <1>1, <1>3, NewCIIs, AppendIs
  <2> QED
    BY <1>5, <2>1, <2>2
<1>9. NewCI(fn).fn = fn /\ ~NewCI(fn).ypcall /\ NewCI(fn) \in CIs
  BY <1>3, NewCIIs
<1>10. Names(ck) = Append(Names(ci), fn) /\ SameTo(ci, ck, Len(ci)) /\ Len(ck) = Len(ci) + 1
  <2>1. Names(Append(ci, NewCI(fn))) = Append(Names(ci), fn)
    BY <1>1, <1>9, NamesAppend
  <2>2. /\ Len(Append(ci, NewCI(fn))) = Len(ci) + 1
        /\ \A i \in 1..Len(ci) : Append(ci, NewCI(fn))[i] = ci[i]
    BY <1>1, <1>9, AppendIs
  <2> HIDE DEF ci, ck
  <2> QED
    BY <1>5, <2>1, <2>2 DEF SameTo
<1> HIDE DEF ck, ci
<1>11. HandledBy(ck, Len(ck)) = IF Protects(fn) THEN fn = "xpcall" ELSE HandledBy(ci, Len(ci))
  BY <1>1, <1>3, <1>8, <1>10, HandledPush
<1>12. HandledBy(ck, Len(ck) - 1) = HandledBy(ci, Len(ci))
  <2>1. Len(ck) - 1 = Len(ci) /\ Len(ci) \in Int /\ Len(ci) <= Len(ci)
    BY <1>1, <1>10
  <2> QED
    BY <1>10, <2>1, HandledSame
<1>13. Last(b).nny > 0 /\ Last(b).link > 1 => \E i \in 1..Len(ck) : ck[i].fn \in {"sort", "handler"}
  <2>1. \A i \in 1..Len(ci) : i \in 1..Len(ck) /\ ck[i] = ci[i]
    BY <1>1, <1>8, <1>10 DEF SameTo
  <2> QED
    BY <1>2, <1>6, <2>1
<1>14. (Cur(s).errfunc = 1) = HandledBy(ci, Len(ci))
  BY <1>2 DEF ErrFuncRight, ci
<1>15. ASSUME NEW e \in {0, 1}, Protects(fn)
       PROVE  CanPCallK(z, ch, b, e)
  <2>1. (Cur(z).errfunc = 1) = HandledBy(ck, Len(ck) - 1)
    BY <1>5, <1>12, <1>14
  <2> QED
    BY <1>5, <1>6, <1>7, <1>8, <1>9, <1>13, <1>15, <2>1 DEF CanPCallK, ck
<1>16. Called(z, r, ch, Names(ck), "lua") /\ (Cur(r).errfunc = 1) = HandledBy(ck, Len(ck))
  <2>1. CASE fn = "pcall"
    <3>1. r = PCallK(z, t, 0)
      BY <2>1 DEF CalledBack, z
    <3>2. Called(z, r, ch, Names(ck), "lua") /\ Cur(r).errfunc = 0
      <4>1. CanPCallK(z, ch, b, 0)
        BY <1>15, <2>1 DEF Protects
      <4> QED
        BY <1>7, <3>1, <4>1, PCallKIs DEF ck
    <3> QED
      BY <1>11, <2>1, <3>2 DEF Protects
  <2>2. CASE fn = "xpcall"
    <3>1. r = PCallK(z, t, 1)
      BY <2>2 DEF CalledBack, z
    <3>2. Called(z, r, ch, Names(ck), "lua") /\ Cur(r).errfunc = 1
      <4>1. CanPCallK(z, ch, b, 1)
        BY <1>15, <2>2 DEF Protects
      <4> QED
        BY <1>7, <3>1, <4>1, PCallKIs DEF ck
    <3> QED
      BY <1>11, <2>2, <3>2 DEF Protects
  <2>3. CASE fn = "dofile"
    <3>1. r = CallK(z, t)
      BY <2>3 DEF CalledBack, z
    <3>2. CanCallK(z, ch, b)
      BY <1>5, <1>6, <1>7, <1>8, <1>9, <1>13, <2>3 DEF CanCallK, ck
    <3>3. Called(z, r, ch, Names(ck), "lua") /\ Cur(r).errfunc = Cur(z).errfunc
      BY <1>7, <3>1, <3>2, CallKIs DEF ck
    <3> QED
      BY <1>5, <1>11, <1>14, <2>3, <3>3 DEF Protects
  <2>4. CASE fn = "sort"
    <3>1. r = DCallNoYield(z, t, "lua")
      BY <2>4 DEF CalledBack, z
    <3>2. ck[Len(ck)].fn = "sort" /\ ~Protects("sort") /\ Len(ck) \in 1..Len(ck)
      BY <1>8, <1>9, <2>4 DEF Protects
    <3>3. CanCallNoYield(z, ch, b, "lua")
      BY <1>5, <1>6, <1>7, <3>2 DEF CanCallNoYield, ck
    <3>4. Called(z, r, ch, Names(ck), "lua") /\ Cur(r).errfunc = Cur(z).errfunc
      BY <1>7, <3>1, <3>3, DCallNoYieldIs DEF ck
    <3> QED
      BY <1>5, <1>11, <1>14, <2>4, <3>4 DEF Protects
  <2> QED
    BY <2>1, <2>2, <2>3, <2>4
<1>17. Called(s, r, ch, Names(ck), "lua")
  <2>1. Same(s, r)
    BY <1>7, <1>16 DEF Called, Same
  <2> QED
    BY <1>16, <2>1 DEF Called
<1>18. WSame(w, v, t) /\ v.stack[t] = IF r.do = "run" THEN Append(Names(ck), "lua") ELSE Names(ck)
  <2> DEFINE x == WPush(w, fn)
             y == WPush(x, "lua")
  <2>1. WSame(w, x, t) /\ x.stack[t] = Names(ck)
    BY <1>1, <1>3, <1>10, WPushIs
  <2>2. x \in Wants /\ t = Last(x.chain)
    BY <1>1, <2>1 DEF WSame
  <2> HIDE DEF x
  <2>3. WSame(x, y, t) /\ y.stack[t] = Append(Names(ck), "lua")
    BY <1>1, <1>3, <2>1, <2>2, WPushIs
  <2> HIDE DEF y
  <2>4. WSame(w, y, t)
    BY <2>1, <2>3 DEF WSame
  <2> QED
    BY <2>1, <2>3, <2>4 DEF x, y
<1> HIDE DEF v
<1>19. Inv(r, v)
  BY <1>3, <1>8, <1>16, <1>17, <1>18, CalledIs
<1> QED
  BY <1>19 DEF v

\* The threads and the stack stay.
LEMMA StaysAt ==
  ASSUME NEW s, NEW w, NEW a, TypesRight(s, w), Active(s, w, a),
         NEW r \in Machine, r.th = s.th, r.c = s.c, AtWork(r)
  PROVE  Inv(r, w)
<1>1. /\ s \in Machine /\ w \in Wants /\ StackRight(s, w.chain, a) /\ TopRight(s, a)
      /\ AgreeBut(s, w, {}) /\ Others(s, w, w.chain) /\ CIsRight(Cur(s).ci)
      /\ w.stack[Last(s.c).L] = Names(Cur(s).ci)
  BY ActiveIs
<1>2. Ready(s, w.chain)
  BY <1>1 DEF Ready
<1>3. Ready(r, w.chain) /\ Cur(r) = Cur(s)
  BY <1>1, <1>2, SameMachine
<1>4. Same(s, r)
  BY DEF Same
<1> QED
  BY <1>1, <1>3, <1>4, WSameIs, StaysActive

LEMMA RuntimeErrorIs ==
  ASSUME NEW s, NEW w, NEW a, TypesRight(s, w), Active(s, w, a), s.do = "run", TopF(s) = "execute"
  PROVE  Inv(Raise(s), w)
<1> DEFINE r == Raise(s)
<1>1. s \in Machine
  BY ActiveIs
<1>2. r \in Machine /\ r.th = s.th /\ r.c = s.c /\ r.do = "raise"
  BY <1>1, RaiseIs
<1>3. ErrFuncRight(Cur(s))
  BY ExecuteTop
<1> HIDE DEF r
<1>4. TopF(r) = "execute" /\ Cur(r) = Cur(s)
  BY <1>2 DEF TopF, Cur
<1>5. AtWork(r)
  BY <1>2, <1>3, <1>4 DEF AtWork, Raises
<1> QED
  BY <1>2, <1>5, StaysAt DEF r

\* luaD_poscall: a thread without its last call.
CallGone(s, r, t) ==
  LET o == s.th[t]
      y == r.th[t]
  IN
  /\ OneThread(s, r, t) /\ y \in Thread
  /\ Len(o.ci) \in Nat /\ Len(o.ci) >= 1 /\ Len(y.ci) = Len(o.ci) - 1
  /\ SameTo(o.ci, y.ci, Len(o.ci) - 1) /\ y.ci = Front(o.ci)
  /\ Names(y.ci) = Front(Names(o.ci)) /\ Names(o.ci) # <<>>
  /\ CIsRight(o.ci) => CIsRight(y.ci)
  /\ y.status = o.status /\ y.nny = o.nny /\ y.nCcalls = o.nCcalls
  /\ y.errorJmp = o.errorJmp /\ y.errfunc = o.errfunc /\ y.body = o.body

LEMMA PopCIIs ==
  ASSUME NEW s \in Machine, NEW t \in Threads, s.th[t].ci # <<>>
  PROVE  CallGone(s, PopCI(s, t), t)
<1> DEFINE o == s.th[t]
           ci == o.ci
           n == Len(ci)
           cj == Front(ci)
           r == SetCalls(s, t, cj)
<1>1. ci \in Seq(CIs) /\ n \in Nat /\ ci # <<>>
  BY MachineIs, ThreadIs
<1>2. n >= 1 /\ cj \in Seq(CIs) /\ Len(cj) = n - 1 /\ \A i \in 1..n - 1 : cj[i] = ci[i]
  BY <1>1, FrontIs
<1>3. cj = SubSeq(ci, 1, n - 1)
  BY <1>1, FrontIs
<1>4. n - 1 \in 0..n
  <2> HIDE DEF n
  <2> QED
    BY <1>1, <1>2
<1>5. Names(cj) = SubSeq(Names(ci), 1, n - 1)
  <2> DEFINE k == n - 1
  <2> HIDE DEF k
  <2>1. Names(SubSeq(ci, 1, k)) = SubSeq(Names(ci), 1, k)
    BY <1>1, <1>4, NamesCut DEF k
  <2> QED
    BY <1>3, <2>1 DEF k
<1>6. Names(ci) \in Seq(Fns) /\ Len(Names(ci)) = n
  BY <1>1, NamesAre
<1>7. Names(ci) # <<>>
  <2>1. Len(Names(ci)) # 0
    BY <1>1, <1>2, <1>6
  <2> HIDE DEF ci, n
  <2> QED
    BY <2>1
<1>8. Front(Names(ci)) = SubSeq(Names(ci), 1, n - 1)
  BY <1>6 DEF Front
<1>9. SameTo(ci, cj, n - 1)
  BY <1>2 DEF SameTo
<1>10. CIsRight(ci) => CIsRight(cj)
  <2> DEFINE k == n - 1
  <2>1. k \in 0..Len(ci) /\ cj = SubSeq(ci, 1, k)
    BY <1>3, <1>4
  <2> HIDE DEF k, cj, ci
  <2> QED
    BY <1>1, <2>1, CIsRightCut DEF ci
<1> HIDE DEF cj
<1>11. /\ OneThread(s, r, t) /\ r.th[t] \in Thread /\ r.th[t].ci = cj
       /\ r.th[t].status = o.status /\ r.th[t].nny = o.nny /\ r.th[t].nCcalls = o.nCcalls
       /\ r.th[t].errorJmp = o.errorJmp /\ r.th[t].errfunc = o.errfunc /\ r.th[t].body = o.body
  BY <1>2, SetCallsIs
<1>12. r = PopCI(s, t)
  BY DEF PopCI, SetCalls, cj
<1> HIDE DEF r, ci, n
<1>13. CallGone(s, r, t)
  <2>1. Len(ci) = n /\ ci = s.th[t].ci
    BY DEF n, ci
  <2>2. Names(cj) = Front(Names(ci)) /\ cj = Front(ci)
    BY <1>5, <1>8 DEF cj
  <2> HIDE DEF o
  <2>3. /\ Len(ci) \in Nat /\ Len(ci) >= 1 /\ Len(r.th[t].ci) = Len(ci) - 1
        /\ SameTo(ci, r.th[t].ci, Len(ci) - 1)
        /\ CIsRight(ci) => CIsRight(r.th[t].ci)
    BY <1>1, <1>2, <1>9, <1>10, <1>11, <2>1
  <2> QED
    BY <1>7, <1>11, <2>1, <2>2, <2>3 DEF CallGone, o
<1> QED
  BY <1>12, <1>13

LEMMA PoppedTop ==
  ASSUME NEW s, NEW r, NEW ch, NEW a, NEW b, Popped(s, r, ch, a, b),
         LET y == Cur(r) IN
         /\ Owns(TopF(r), Last(b), y.ci, Len(y.ci)) /\ Live(y, Last(b)) /\ CIsRight(y.ci)
         /\ Len(r.c) > 2 \/ y.nCcalls = 0
  PROVE  Ready(r, ch)
<1>1. StackRight(r, ch, b) /\ Len(s.c) \in Nat /\ Len(r.c) = Len(s.c) - 1
  BY DEF Popped
<1>2. Len(r.c) <= 2 => Cur(r).nCcalls = 0
  BY <1>1
<1>3. TopRight(r, b)
  BY <1>2 DEF TopRight
<1> QED
  BY SMTT(30), <1>1, <1>3 DEF Ready

\* OP_RETURN and luaD_poscall
LEMMA ReturnLuaIs ==
  ASSUME NEW s, NEW w, NEW a, TypesRight(s, w), Active(s, w, a), s.do = "run", TopF(s) = "execute",
         NEW q, q = PopCI(s, Last(s.c).L)
  PROVE  Inv(IF CI(s, Last(s.c).L).fresh THEN Leave(q, "OK") ELSE q, WPop(w))
<1> DEFINE t == Last(s.c).L
           A == Last(a)
           ci == Cur(s).ci
           n == Len(ci)
           ch == w.chain
           v == WPop(w)
           cj == q.th[t].ci
<1>1. /\ s \in Machine /\ w \in Wants /\ StackRight(s, ch, a) /\ TopRight(s, a)
      /\ AgreeBut(s, w, {}) /\ Others(s, w, ch)
      /\ t \in Threads /\ t = Last(w.chain) /\ w.stack[t] = Names(ci)
      /\ Cur(s) = s.th[t] /\ ci \in Seq(CIs) /\ CIsRight(ci) /\ n \in Nat /\ Cur(s) \in Thread
  BY ActiveIs
<1>2. /\ ErrFuncRight(Cur(s)) /\ A \in Mark /\ A.ci < n /\ n >= 1 /\ ci # <<>> /\ Last(ci) = ci[n]
      /\ ci[n].fresh = (n = A.ci + 1) /\ IsLua(ci[n].fn) /\ Len(s.c) > 3
  BY ExecuteTop
<1>3. CallGone(s, q, t)
  BY <1>1, <1>2, PopCIIs
<1>4. /\ OneThread(s, q, t) /\ q.th[t] \in Thread
      /\ Len(cj) = n - 1 /\ SameTo(ci, cj, n - 1) /\ CIsRight(cj)
      /\ Names(cj) = Front(Names(ci)) /\ Names(ci) # <<>>
  BY <1>1, <1>3 DEF CallGone
<1>5. /\ q.th[t].status = Cur(s).status /\ q.th[t].nny = Cur(s).nny
      /\ q.th[t].nCcalls = Cur(s).nCcalls
      /\ q.th[t].errorJmp = Cur(s).errorJmp /\ q.th[t].errfunc = Cur(s).errfunc
      /\ q.th[t].body = Cur(s).body
  BY <1>1, <1>3 DEF CallGone
<1>6. /\ q \in Machine /\ q.c = s.c /\ q.do = s.do /\ \A u \in Threads \ {t} : q.th[u] = s.th[u]
  BY <1>4 DEF OneThread
<1>7. WSame(w, v, t) /\ v.stack[t] = Names(cj)
  BY <1>1, <1>4, WPopIs
<1> HIDE DEF v, cj, n
<1>8. A.ci \in Nat /\ A.ci <= n - 1 /\ n - 1 \in Nat
  <2>1. A.ci \in Nat
    BY <1>2, MarkIs
  <2> QED
    BY <1>1, <1>2, <2>1
<1>9. SameTo(ci, cj, A.ci)
  <2>1. \A i \in 1..A.ci : i \in 1..n - 1
    BY <1>1, <1>8
  <2> QED
    BY <1>4, <2>1 DEF SameTo
<1>10. HandledBy(cj, Len(cj)) = HandledBy(ci, n)
  <2>1. HandledBy(ci, n - 1) = HandledBy(cj, n - 1)
    BY <1>4, <1>8, HandledSame
  <2>2. ~Protects(ci[n].fn)
    BY <1>2 DEF IsLua, Protects
  <2>3. HandledBy(ci, n) = HandledBy(ci, n - 1)
    BY <1>1, <1>2, <2>2, HandledStep
  <2> QED
    BY <1>4, <2>1, <2>3
<1>11. q.th[t].errfunc = Cur(s).errfunc /\ (q.th[t].errfunc = 1) = HandledBy(cj, Len(cj))
  BY <1>2, <1>5, <1>10 DEF ErrFuncRight, n
<1>12. ErrFuncRight(q.th[t])
  BY <1>11 DEF ErrFuncRight, cj
<1>13. CI(s, t) = ci[n]
  BY <1>1, <1>2 DEF CI
<1>14. CASE ~CI(s, t).fresh
  <2>1. A.ci < n - 1
    <3>1. n # A.ci + 1
      BY <1>2, <1>13, <1>14
    <3> QED
      BY <1>1, <1>2, <1>8, <3>1
  <2>2. Cur(q) = q.th[t] /\ TopF(q) = "execute" /\ Same(s, q)
    BY <1>6 DEF Cur, TopF, Same
  <2>3. StackRight(q, ch, a)
    <3>1. A.ci <= Len(Cur(q).ci) /\ SameTo(Cur(s).ci, Cur(q).ci, A.ci)
      BY <1>4, <1>8, <1>9, <2>2 DEF cj
    <3> QED
      BY SMTT(30), <1>1, <1>6, <3>1, StackTop
  <2>4. Owns("execute", A, cj, n - 1)
    <3>1. Owns("execute", A, ci, n)
      BY <1>1 DEF TopRight, n
    <3>2. Owns("execute", A, ci, n - 1)
      <4>1. \A i \in A.ci + 1..n - 1 : i \in A.ci + 1..n
        BY <1>1, <1>8
      <4> QED
        BY <2>1, <3>1, <4>1 DEF Owns
    <3> QED
      BY <1>2, <1>4, <1>8, <3>2, OwnsSame
  <2>5. TopRight(q, a)
    <3>1. Live(Cur(q), A)
      BY <1>1, <1>5, <2>2 DEF TopRight, Live
    <3>2. Len(q.c) <= 2 => Cur(q).nCcalls = 0
      BY SMTT(30), <1>1, <1>5, <1>6, <2>2 DEF TopRight
    <3>3. Owns(TopF(q), A, Cur(q).ci, Len(Cur(q).ci))
      BY <1>4, <2>2, <2>4 DEF cj
    <3> QED
      BY <3>1, <3>2, <3>3 DEF TopRight
  <2>6. Ready(q, ch)
    BY <1>4, <2>2, <2>3, <2>5 DEF Ready, cj
  <2>7. AtWork(q)
    BY <1>6, <1>12, <2>2 DEF AtWork
  <2>8. v.stack[t] = Names(Cur(q).ci)
    BY <1>7, <2>2 DEF cj
  <2>9. Inv(q, v)
    BY <1>1, <1>7, <2>2, <2>6, <2>7, <2>8, StaysActive
  <2> QED
    BY <1>14, <2>9 DEF v
<1>15. CASE CI(s, t).fresh
  <2> DEFINE r == Leave(q, "OK")
  <2>1. n = A.ci + 1
    BY <1>2, <1>13, <1>15
  <2>2. q.c # <<>> /\ "OK" \in Statuses
    BY <1>1, <1>6 DEF StackRight, Statuses
  <2>3. r \in Machine /\ r.th = q.th /\ r.c = Front(s.c) /\ r.do = "return" /\ r.status = "OK"
    BY <1>6, <2>2, LeaveIs
  <2> HIDE DEF r
  <2>4. CanPop(s, r, ch, a)
    <3>1. A.ci <= Len(r.th[t].ci) /\ SameTo(s.th[t].ci, r.th[t].ci, A.ci)
      BY <1>1, <1>4, <1>8, <1>9, <2>3 DEF cj
    <3>2. Len(s.c) > 1
      <4>1. Len(s.c) \in Nat
        BY <1>1, StackEnds
      <4> QED
        BY <1>2, <4>1
    <3> QED
      BY <1>1, <1>6, <2>3, <3>1, <3>2 DEF CanPop
  <2>5. PICK b : Popped(s, r, ch, a, b)
    BY <2>4, PopFrame
  <2> DEFINE B == Last(b)
             N == Len(s.c)
  <2>6. /\ Same(s, r) /\ Cur(r) = r.th[t] /\ <<TopF(r), "execute">> \in Nesting
        /\ A = MarkOf(Last(s.c), N, B, A.ci) /\ Owns(TopF(r), B, r.th[t].ci, A.ci)
        /\ Len(r.c) > 2
    BY <2>5 DEF Popped
  <2>7. TopF(r) \in {"call", "resuming", "unroll"}
    BY <2>6 DEF Nesting
  <2>8. B.nny = A.nny /\ B.depth = A.depth /\ B.jmp = A.jmp
    <3>1. Last(s.c).f = "execute"
      BY DEF TopF
    <3> HIDE DEF A, B, N
    <3> QED
      BY <2>6, <3>1 DEF MarkOf
  <2>9. Cur(r).ci = cj /\ Cur(r) = q.th[t] /\ Len(cj) = A.ci
    <3>1. n - 1 = A.ci
      BY <1>1, <1>8, <2>1
    <3> QED
      BY <1>4, <2>3, <2>6, <3>1 DEF cj
  <2>10. Live(Cur(r), B)
    <3>1. Live(Cur(s), A)
      BY <1>1 DEF TopRight
    <3> HIDE DEF A, B
    <3> QED
      BY <1>5, <2>8, <2>9, <3>1 DEF Live
  <2>11. Ready(r, ch)
    <3>1. Owns(TopF(r), B, Cur(r).ci, Len(Cur(r).ci))
      BY <2>6, <2>9 DEF cj
    <3>2. CIsRight(Cur(r).ci)
      BY <1>4, <2>9
    <3> QED
      BY <2>5, <2>6, <2>10, <3>1, <3>2, PoppedTop
  <2>12. AtWork(r)
    <3>1. ErrFuncRight(Cur(r))
      BY <1>12, <2>9
    <3> QED
      BY <2>3, <2>7, <3>1 DEF AtWork
  <2>13. v.stack[t] = Names(Cur(r).ci)
    BY <1>7, <2>9
  <2>14. Inv(r, v)
    BY <1>1, <1>7, <2>6, <2>11, <2>12, <2>13, StaysActive
  <2> QED
    BY <1>15, <2>14 DEF v, r
<1> QED
  BY <1>14, <1>15

\* precallC and luaV_execute after a call
LEMMA ReturnToLuaIs ==
  ASSUME NEW s, NEW w, NEW a, TypesRight(s, w), Active(s, w, a), s.do = "return", TopF(s) = "execute"
  PROVE  Inv([s EXCEPT !.do = "run", !.status = "OK"], w)
<1> DEFINE r == SetDo(s, "run", "OK")
<1>1. s \in Machine /\ "run" \in Dos /\ "OK" \in Statuses
  BY ActiveIs DEF Dos, Statuses
<1>2. r \in Machine /\ r.th = s.th /\ r.c = s.c /\ r.do = "run"
  BY <1>1, DoIs
<1>3. r = [s EXCEPT !.do = "run", !.status = "OK"]
  BY DEF SetDo
<1>4. ErrFuncRight(Cur(s))
  BY ExecuteTop
<1> HIDE DEF r
<1>5. TopF(r) = "execute" /\ Cur(r) = Cur(s)
  BY <1>2 DEF TopF, Cur
<1>6. AtWork(r)
  BY <1>2, <1>4, <1>5 DEF AtWork
<1> QED
  BY <1>2, <1>3, <1>6, StaysAt

-----------------------------------------------------------------------------
(* Returns *)

\* The frame at the top has done its part with its thread, and returns.
LEMMA LeaveFrame ==
  ASSUME NEW s, NEW w, NEW a, TypesRight(s, w), Active(s, w, a), TopF(s) \notin {"resume", "host"},
         NEW q, OneThread(s, q, Last(s.c).L), NEW st \in Statuses,
         LET ci == s.th[Last(s.c).L].ci
             cj == q.th[Last(s.c).L].ci
         IN  Last(a).ci <= Len(cj) /\ SameTo(ci, cj, Last(a).ci),
         NEW r, r = Leave(q, st)
  PROVE  /\ r.do = "return" /\ r.status = st /\ r.th = q.th
         /\ \E b : Popped(s, r, w.chain, a, b)
<1> DEFINE t == Last(s.c).L
<1>1. s \in Machine /\ StackRight(s, w.chain, a) /\ t \in Threads /\ s.c # <<>>
  BY ActiveIs
<1>2. q \in Machine /\ q.c = s.c /\ \A u \in Threads \ {t} : q.th[u] = s.th[u]
  BY DEF OneThread
<1>3. r \in Machine /\ r.th = q.th /\ r.c = Front(s.c) /\ r.do = "return" /\ r.status = st
  BY <1>1, <1>2, LeaveIs
<1>4. Len(s.c) > 1
  BY <1>1, BaseIs
<1>5. CanPop(s, r, w.chain, a)
  BY <1>1, <1>2, <1>3, <1>4 DEF CanPop
<1> QED
  BY <1>3, <1>5, PopFrame

\* The function at the top of the thread, with status OK, has returned to the one under it:
\* q is the machine before the frame is gone.
Returned(s, q, r, w, a, b) ==
  LET t == Last(s.c).L
      A == Last(a)
      ci == Cur(s).ci
      B == Last(b)
      y == q.th[t]
  IN
  /\ s \in Machine /\ TypesRight(s, w) /\ w \in Wants /\ t \in Threads
  /\ AgreeBut(s, w, {}) /\ Others(s, w, w.chain) /\ w.stack[t] = Names(ci)
  /\ StackRight(s, w.chain, a) /\ ErrFuncRight(Cur(s)) /\ Live(Cur(s), A) /\ Len(ci) = A.ci
  /\ Cur(s) \in Thread /\ y \in Thread /\ ci \in Seq(CIs) /\ CIsRight(ci)
  /\ Popped(s, r, w.chain, a, b)
  /\ Cur(r) = y /\ y.ci = ci /\ y.status = "OK" /\ ~y.body
  /\ r.do = "return" /\ r.status = "OK"
  /\ A \in Mark /\ B \in Mark /\ A.depth \in Nat /\ B.depth \in Nat /\ A.ci \in Nat /\ B.nny \in Nat
  /\ Len(s.c) <= 2 => Cur(s).nCcalls = 0

LEMMA ReturnDown ==
  ASSUME NEW s, NEW w, NEW a, TypesRight(s, w), Active(s, w, a), s.do = "return",
         TopF(s) \in {"call", "noyield", "try", "dpcall"},
         NEW q, OneThread(s, q, Last(s.c).L), q.th[Last(s.c).L].ci = Cur(s).ci,
         q.th[Last(s.c).L].status = Cur(s).status, q.th[Last(s.c).L].body = Cur(s).body,
         NEW r, r = Leave(q, s.status)
  PROVE  \E b : Returned(s, q, r, w, a, b)
<1> DEFINE t == Last(s.c).L
           A == Last(a)
           ci == Cur(s).ci
           n == Len(ci)
           ch == w.chain
<1>1. /\ s \in Machine /\ w \in Wants /\ StackRight(s, ch, a) /\ TopRight(s, a)
      /\ AgreeBut(s, w, {}) /\ Others(s, w, ch) /\ AtWork(s)
      /\ t \in Threads /\ w.stack[t] = Names(ci) /\ s.c # <<>>
      /\ Cur(s) = s.th[t] /\ ci \in Seq(CIs) /\ CIsRight(ci) /\ n \in Nat /\ Cur(s) \in Thread
  BY ActiveIs
<1>2. ErrFuncRight(Cur(s)) /\ s.status = "OK" /\ "OK" \in Statuses
  BY <1>1 DEF AtWork, Statuses
<1>3. Live(Cur(s), A) /\ n = A.ci /\ A \in Mark /\ (Len(s.c) <= 2 => Cur(s).nCcalls = 0)
  <2>1. Live(Cur(s), A) /\ n = A.ci /\ (Len(s.c) <= 2 => Cur(s).nCcalls = 0)
    BY Zenon, <1>1 DEF TopRight, Owns
  <2>2. A \in Mark
    BY <1>1, StackEnds
  <2> QED
    BY <2>1, <2>2
<1>4. A.ci <= Len(q.th[t].ci) /\ SameTo(s.th[t].ci, q.th[t].ci, A.ci)
  BY <1>1, <1>3 DEF SameTo
<1>5. /\ r.do = "return" /\ r.status = "OK" /\ r.th = q.th
      /\ \E b : Popped(s, r, ch, a, b)
  BY <1>2, <1>4, LeaveFrame
<1>6. PICK b : Popped(s, r, ch, a, b)
  BY SMTT(30), <1>5
<1>7. Last(b) \in Mark /\ Cur(r) = r.th[t] /\ r \in Machine
  BY <1>6 DEF Popped, Same
<1>8. /\ A.depth \in Nat /\ Last(b).depth \in Nat /\ A.ci \in Nat /\ Last(b).nny \in Nat
  BY <1>3, <1>7, MarkIs
<1>9. Cur(r) = q.th[t] /\ q.th[t] \in Thread
  BY <1>1, <1>5, <1>7, MachineIs
<1>10. q.th[t].status = "OK" /\ ~q.th[t].body
  BY <1>3 DEF Live
<1> HIDE DEF A, ch, n
<1> QED
  BY Zenon, <1>1, <1>2, <1>3, <1>5, <1>6, <1>7, <1>8, <1>9, <1>10 DEF Returned, A, ch, n

LEMMA ReturnedIs ==
  ASSUME NEW s, NEW q, NEW r, NEW w, NEW a, NEW b, Returned(s, q, r, w, a, b),
         Live(Cur(r), Last(b)), Len(r.c) > 2 \/ Cur(r).nCcalls = 0, AtWork(r)
  PROVE  Inv(r, w)
<1> DEFINE t == Last(s.c).L
<1>1. /\ TypesRight(s, w) /\ AgreeBut(s, w, {}) /\ Others(s, w, w.chain) /\ w \in Wants
      /\ w.stack[t] = Names(Cur(r).ci) /\ Popped(s, r, w.chain, a, b) /\ CIsRight(Cur(r).ci)
      /\ Len(Cur(r).ci) = Last(a).ci
  BY DEF Returned
<1>2. Same(s, r) /\ Owns(TopF(r), Last(b), Cur(r).ci, Len(Cur(r).ci))
  BY <1>1 DEF Popped
<1>3. Ready(r, w.chain)
  BY <1>1, <1>2, PoppedTop
<1>4. WSame(w, w, t)
  BY <1>1, WSameIs
<1> QED
  BY <1>1, <1>2, <1>3, <1>4, StaysActive

\* What is under a frame of luaD_call or luaD_callnoyield is a C function, that did not set a handler.
LEMMA ReturnedToC ==
  ASSUME NEW s, NEW q, NEW r, NEW w, NEW a, NEW b, Returned(s, q, r, w, a, b), TopF(r) = "cfunc",
         Cur(r).errfunc = Cur(s).errfunc, TopF(s) \in {"call", "noyield"}
  PROVE  AtWork(r)
<1> DEFINE A == Last(a)
           B == Last(b)
           ci == Cur(s).ci
<1>1. /\ Popped(s, r, w.chain, a, b) /\ A \in Mark /\ A.ci \in Nat /\ ErrFuncRight(Cur(s)) /\ Cur(r).ci = ci
      /\ Len(ci) = A.ci /\ r.do = "return" /\ r.status = "OK"
  BY DEF Returned
<1>2. /\ Owns("cfunc", B, ci, A.ci) /\ SavedOver(Last(s.c), "cfunc", B, A, ci, Len(s.c))
      /\ Last(s.c).f = TopF(s)
  BY <1>1 DEF Popped, TopF
<1>3. A.ci >= 1 /\ (TopF(s) = "call" => Pending(ci, A.ci)) /\ (TopF(s) = "noyield" => ~Protects(ci[A.ci].fn))
  BY <1>2 DEF SavedOver
<1>4. ~IsLua(ci[A.ci].fn) /\ TopCI(r) = ci[A.ci]
  <2>1. TopCI(r) = ci[A.ci]
    BY <1>1 DEF TopCI, Last
  <2> QED
    BY <1>2, <2>1 DEF Owns
<1>5. ASSUME ~TopCI(r).ypcall
      PROVE  (Cur(r).errfunc = 1) = HandledBy(Cur(r).ci, Len(Cur(r).ci) - 1)
  <2>1. ~Protects(ci[A.ci].fn)
    BY <1>3, <1>4, <1>5 DEF Pending, IsLua, Protects
  <2> HIDE DEF A, B, ci
  <2>2. HandledBy(ci, A.ci) = HandledBy(ci, A.ci - 1)
    BY <1>1, <1>3, <2>1, HandledStep
  <2>3. Cur(r).ci = ci /\ (Cur(r).errfunc = 1) = HandledBy(ci, A.ci)
    BY <1>1 DEF ErrFuncRight, ci
  <2> QED
    BY <1>1, <2>2, <2>3
<1> QED
  BY <1>1, <1>5 DEF AtWork

LEMMA ReturnToCallIs ==
  ASSUME NEW s, NEW w, NEW a, TypesRight(s, w), Active(s, w, a), s.do = "return", TopF(s) = "call",
         NEW r, r = Leave(SetCCalls(s, Last(s.c).L, Cur(s).nCcalls - 1), s.status)
  PROVE  Inv(r, w)
<1> DEFINE t == Last(s.c).L
           A == Last(a)
           k == Cur(s).nCcalls - 1
           q == SetCCalls(s, t, k)
<1>1. s \in Machine /\ t \in Threads /\ Cur(s) = s.th[t] /\ k \in Int
  BY ActiveIs, ThreadIs
<1> HIDE DEF k, q, t
<1>2. /\ OneThread(s, q, t) /\ q.th[t].nCcalls = k
      /\ q.th[t].ci = s.th[t].ci /\ q.th[t].status = s.th[t].status /\ q.th[t].nny = s.th[t].nny
      /\ q.th[t].errorJmp = s.th[t].errorJmp /\ q.th[t].errfunc = s.th[t].errfunc
      /\ q.th[t].body = s.th[t].body
  BY <1>1, SetCCallsIs DEF q
<1>3. PICK b : Returned(s, q, r, w, a, b)
  BY Zenon, <1>1, <1>2, ReturnDown DEF q, k, t
<1> DEFINE B == Last(b)
<1>4. /\ Live(Cur(s), A) /\ Popped(s, r, w.chain, a, b) /\ Cur(r) = q.th[t] /\ ErrFuncRight(Cur(s))
      /\ Cur(s).nCcalls \in Int /\ A.depth \in Nat /\ B.depth \in Nat
      /\ Cur(r).status = "OK" /\ ~Cur(r).body
      /\ r.do = "return" /\ r.status = "OK" /\ Cur(r).ci = Cur(s).ci
  BY <1>3, ThreadIs DEF Returned, t
<1>5. /\ <<TopF(r), TopF(s)>> \in Nesting
      /\ A = MarkOf(Last(s.c), Len(s.c), B, A.ci) /\ Len(r.c) > 2 /\ Last(s.c).f = "call"
  BY Zenon, <1>4 DEF Popped, TopF
<1> HIDE DEF A, B
<1>6. A.nny = B.nny /\ A.depth = B.depth + 1 /\ A.jmp = B.jmp
  BY <1>5 DEF MarkOf
<1>7. Live(Cur(r), B)
  <2>1. Cur(s).nCcalls >= A.depth /\ Cur(s).nny = A.nny /\ Cur(s).errorJmp = A.jmp
    BY <1>4 DEF Live
  <2>2. Cur(r).nCcalls >= B.depth
    BY <1>1, <1>2, <1>4, <1>6, <2>1 DEF k
  <2> QED
    BY <1>1, <1>2, <1>4, <1>6, <2>1, <2>2 DEF Live
<1>8. AtWork(r)
  <2>1. CASE TopF(r) = "cfunc"
    BY <1>1, <1>2, <1>3, <1>4, <2>1, ReturnedToC
  <2>2. CASE TopF(r) # "cfunc"
    <3>1. TopF(r) \in {"noyield", "execute"}
      BY <1>5, <2>2 DEF Nesting
    <3>2. ErrFuncRight(Cur(r))
      BY <1>1, <1>2, <1>4 DEF ErrFuncRight
    <3> QED
      BY <1>4, <3>1, <3>2 DEF AtWork
  <2> QED
    BY <2>1, <2>2
<1> QED
  BY <1>3, <1>5, <1>7, <1>8, ReturnedIs DEF B

LEMMA ReturnToNoYieldIs ==
  ASSUME NEW s, NEW w, NEW a, TypesRight(s, w), Active(s, w, a), s.do = "return", TopF(s) = "noyield",
         NEW r, r = Leave(SetNny(s, Last(s.c).L, Cur(s).nny - 1), s.status)
  PROVE  Inv(r, w)
<1> DEFINE t == Last(s.c).L
           A == Last(a)
           k == Cur(s).nny - 1
           q == SetNny(s, t, k)
<1>1. s \in Machine /\ t \in Threads /\ Cur(s) = s.th[t] /\ StackRight(s, w.chain, a) /\ TopRight(s, a)
  BY ActiveIs
<1>2. k \in Nat /\ A.nny = k + 1
  <2>1. Len(s.c) > 1 /\ Last(s.c).f = "noyield"
    BY <1>1, BaseIs DEF TopF
  <2> DEFINE N == Len(s.c)
             B == a[N - 1]
  <2>2. A = MarkOf(Last(s.c), N, B, A.ci)
    BY ZenonT(30), <1>1, <2>1, TopIs
  <2>3. B \in Mark
    BY <1>1, <2>1, UnderIs
  <2>4. Cur(s).nny = A.nny
    BY <1>1 DEF TopRight, Live
  <2> HIDE DEF A, B, N
  <2>5. A.nny = B.nny + 1 /\ B.nny \in Nat
    BY <2>1, <2>2, <2>3, MarkIs DEF MarkOf
  <2> QED
    BY <2>4, <2>5
<1> HIDE DEF k, q, t
<1>3. /\ OneThread(s, q, t) /\ q.th[t].nny = k
      /\ q.th[t].ci = s.th[t].ci /\ q.th[t].status = s.th[t].status /\ q.th[t].nCcalls = s.th[t].nCcalls
      /\ q.th[t].errorJmp = s.th[t].errorJmp /\ q.th[t].errfunc = s.th[t].errfunc
      /\ q.th[t].body = s.th[t].body
  BY <1>1, <1>2, SetNnyIs DEF q
<1>4. PICK b : Returned(s, q, r, w, a, b)
  BY Zenon, <1>1, <1>3, ReturnDown DEF q, k, t
<1> DEFINE B == Last(b)
<1>5. /\ Live(Cur(s), A) /\ Popped(s, r, w.chain, a, b) /\ Cur(r) = q.th[t] /\ ErrFuncRight(Cur(s))
      /\ Cur(r).status = "OK" /\ ~Cur(r).body /\ B \in Mark
      /\ r.do = "return" /\ r.status = "OK" /\ Cur(r).ci = Cur(s).ci
  BY <1>4 DEF Returned, t
<1>6. /\ <<TopF(r), TopF(s)>> \in Nesting
      /\ A = MarkOf(Last(s.c), Len(s.c), B, A.ci) /\ Len(r.c) > 2 /\ Last(s.c).f = "noyield"
  BY Zenon, <1>5 DEF Popped, TopF
<1> HIDE DEF A, B
<1>7. A.nny = B.nny + 1 /\ A.depth = B.depth /\ A.jmp = B.jmp /\ B.nny \in Nat
  BY <1>5, <1>6, MarkIs DEF MarkOf
<1>8. Live(Cur(r), B)
  <2>1. k = B.nny
    BY <1>2, <1>7
  <2>2. Cur(s).nCcalls >= A.depth /\ Cur(s).errorJmp = A.jmp
    BY <1>5 DEF Live
  <2> QED
    BY <1>1, <1>3, <1>5, <1>7, <2>1, <2>2 DEF Live
<1>9. AtWork(r)
  <2>1. CASE TopF(r) = "cfunc"
    BY <1>1, <1>3, <1>4, <1>5, <2>1, ReturnedToC
  <2>2. CASE TopF(r) # "cfunc"
    <3>1. TopF(r) \in {"try", "errormsg"}
      BY <1>6, <2>2 DEF Nesting
    <3>2. ErrFuncRight(Cur(r))
      BY <1>1, <1>3, <1>5 DEF ErrFuncRight
    <3> QED
      BY <1>5, <3>1, <3>2 DEF AtWork
  <2> QED
    BY <2>1, <2>2
<1> QED
  BY <1>4, <1>6, <1>8, <1>9, ReturnedIs DEF B

\* The mark of a frame of lua_resume.
LEMMA ResumeMark ==
  ASSUME NEW s \in Machine, NEW ch, NEW a, StackRight(s, ch, a), TopF(s) = "resume"
  PROVE  LET A == Last(a)
             N == Len(s.c)
             B == a[N - 1]
         IN
         /\ A \in Mark /\ A.ci = 0 /\ A.nny = 0 /\ A.jmp = 0 /\ A.pcall = 0 /\ N > 4 /\ N \in Nat
         /\ A.link > 1 /\ A.link = Len(ch) /\ A.link = B.link + 1 /\ A.depth = B.depth + 1
         /\ A.depth \in Nat /\ B.depth \in Nat /\ B \in Mark
         /\ Last(s.c).f = "resume" /\ Last(s.c).n = 1
<1> DEFINE A == Last(a)
           N == Len(s.c)
           B == a[N - 1]
<1>1. N > 3 /\ N \in Nat /\ Last(s.c).f = "resume"
  BY BaseIs, StackEnds DEF TopF
<1>2. A = MarkOf(Last(s.c), N, B, A.ci) /\ Saved(s.c, a, Cur(s).ci, N) /\ <<s.c[N - 1].f, "resume">> \in Nesting
  <2>1. N > 1
    BY <1>1
  <2>2. A = MarkOf(Last(s.c), N, B, A.ci)
    BY <2>1, TopIs
  <2>3. Saved(s.c, a, Cur(s).ci, N)
    BY TopIs
  <2>4. <<s.c[N - 1].f, TopF(s)>> \in Nesting
    BY <2>1, TopIs
  <2> QED
    BY <2>2, <2>3, <2>4
<1>3. A \in Mark /\ A = a[N] /\ Last(s.c) = s.c[N] /\ a[N].link = Len(ch)
  BY StackEnds
<1>4. B \in Mark /\ B.link = Len(ch) - 1 /\ Len(ch) > 1
  BY <1>1, UnderIs
<1>5. s.c[N - 1].f = "cfunc"
  BY <1>2 DEF Nesting
<1>6. N # 4
  <2>1. s.c[3].f = "try"
    BY <1>1, BaseIs
  <2> HIDE DEF N
  <2>2. N = 4 => N - 1 = 3
    BY <1>1
  <2>3. N = 4 => s.c[3].f = "cfunc"
    BY <1>5, <2>2
  <2> QED
    BY <2>1, <2>3
<1> HIDE DEF A, B, N
<1>7. A.ci = 0 /\ A.nny = 0 /\ A.jmp = 0 /\ A.pcall = 0 /\ A.depth = B.depth + 1 /\ A.link = B.link + 1
  BY <1>1, <1>2 DEF MarkOf
<1>8. Last(s.c).n = 1
  BY <1>1, <1>2, <1>3 DEF Saved, SavedOver
<1>9. A.depth \in Nat /\ B.depth \in Nat
  BY <1>3, <1>4, MarkIs
<1>10. A.link > 1 /\ A.link = Len(ch) /\ N > 4
  <2>1. A.link = Len(ch)
    BY <1>3
  <2>2. N > 4
    BY <1>1, <1>6
  <2> QED
    BY <1>4, <2>1, <2>2
<1>11. A.ci = 0 /\ A.nny = 0 /\ A.jmp = 0 /\ A.pcall = 0 /\ A.link = B.link + 1 /\ A.depth = B.depth + 1
  BY <1>7
<1> QED
  BY <1>1, <1>3, <1>4, <1>8, <1>9, <1>10, <1>11 DEF A, B, N

\* luaD_rawrunprotected without an error
LEMMA ReturnToTryIs ==
  ASSUME NEW s, NEW w, NEW a, TypesRight(s, w), Active(s, w, a), s.do = "return", TopF(s) = "try",
         NEW r, r = Leave(SetCCalls(SetJmp(s, Last(s.c).L, Last(s.c).p), Last(s.c).L, Last(s.c).n), s.status)
  PROVE  Inv(r, w)
<1> DEFINE t == Last(s.c).L
           x == Last(s.c)
           A == Last(a)
           o == SetJmp(s, t, x.p)
           q == SetCCalls(o, t, x.n)
<1>1. s \in Machine /\ t \in Threads /\ Cur(s) = s.th[t] /\ StackRight(s, w.chain, a) /\ TopRight(s, a)
  BY ActiveIs
<1>2. x.p \in Nat /\ x.n \in Int /\ x.f = "try"
  <2>1. x \in Frame
    BY <1>1, TopIs
  <2> QED
    BY <2>1 DEF Frame, TopF
<1> HIDE DEF o, q, t, x
<1>3. /\ OneThread(s, o, t) /\ o.th[t].errorJmp = x.p
      /\ o.th[t].ci = s.th[t].ci /\ o.th[t].status = s.th[t].status /\ o.th[t].nCcalls = s.th[t].nCcalls
      /\ o.th[t].nny = s.th[t].nny /\ o.th[t].errfunc = s.th[t].errfunc
      /\ o.th[t].body = s.th[t].body
  BY <1>1, <1>2, SetJmpIs DEF o
<1>4. o \in Machine
  BY <1>3 DEF OneThread
<1>5. /\ OneThread(o, q, t) /\ q.th[t].nCcalls = x.n
      /\ q.th[t].ci = o.th[t].ci /\ q.th[t].status = o.th[t].status /\ q.th[t].errorJmp = o.th[t].errorJmp
      /\ q.th[t].nny = o.th[t].nny /\ q.th[t].errfunc = o.th[t].errfunc
      /\ q.th[t].body = o.th[t].body
  BY <1>1, <1>2, <1>4, SetCCallsIs DEF q
<1>6. OneThread(s, q, t)
  BY <1>3, <1>5 DEF OneThread
<1>7. PICK b : Returned(s, q, r, w, a, b)
  BY Zenon, <1>1, <1>3, <1>5, <1>6, ReturnDown DEF q, o, t, x
<1> DEFINE B == Last(b)
           N == Len(s.c)
<1>8. /\ Live(Cur(s), A) /\ Popped(s, r, w.chain, a, b) /\ Cur(r) = q.th[t] /\ ErrFuncRight(Cur(s))
      /\ Cur(r).status = "OK" /\ ~Cur(r).body /\ B \in Mark
      /\ r.do = "return" /\ r.status = "OK" /\ Cur(r).ci = Cur(s).ci
  BY <1>7 DEF Returned, t
<1>9. /\ <<TopF(r), "try">> \in Nesting
      /\ A = MarkOf(x, N, B, A.ci) /\ Len(r.c) = N - 1 /\ N \in Nat
      /\ SavedOver(x, TopF(r), B, A, Cur(s).ci, N) /\ StackRight(r, w.chain, b) /\ r \in Machine
  BY Zenon, <1>8 DEF Popped, x, Same
<1> HIDE DEF A, B, N
<1>10. A.nny = B.nny /\ A.depth = B.depth
  BY <1>2, <1>9 DEF MarkOf
<1>11. TopF(r) \in {"dpcall", "resume"}
  BY <1>9 DEF Nesting
<1>12. x.n >= A.depth /\ x.p = (IF TopF(r) = "dpcall" THEN B.jmp ELSE 0) /\ (N = 3 => x.n = 0)
  BY <1>2, <1>9 DEF SavedOver
<1>13. TopF(r) = "resume" => B.jmp = 0
  BY <1>9, ResumeMark DEF B
<1>14. Live(Cur(r), B)
  <2>1. Cur(s).nny = A.nny
    BY <1>8 DEF Live
  <2> QED
    BY <1>1, <1>3, <1>5, <1>8, <1>10, <1>11, <1>12, <1>13, <2>1 DEF Live
<1>15. Len(r.c) > 2 \/ Cur(r).nCcalls = 0
  <2>1. N # 2
    BY <1>1, BaseIs DEF N
  <2>2. N # 1
    BY <1>1, BaseIs DEF N
  <2>3. N # 0
    BY <1>1, StackEnds DEF N
  <2> QED
    BY <1>5, <1>8, <1>9, <1>12, <2>1, <2>2, <2>3
<1>16. AtWork(r)
  <2>1. ErrFuncRight(Cur(r))
    BY <1>1, <1>3, <1>5, <1>8 DEF ErrFuncRight
  <2> QED
    BY <1>8, <1>11, <2>1 DEF AtWork
<1> QED
  BY <1>7, <1>14, <1>15, <1>16, ReturnedIs DEF B

\* The end of luaD_pcall without an error
LEMMA ReturnToDPCallIs ==
  ASSUME NEW s, NEW w, NEW a, TypesRight(s, w), Active(s, w, a), s.do = "return", TopF(s) = "dpcall",
         NEW r, r = Leave(SetErrFunc(s, Last(s.c).L, Last(s.c).e), s.status)
  PROVE  Inv(r, w)
<1> DEFINE t == Last(s.c).L
           x == Last(s.c)
           A == Last(a)
           q == SetErrFunc(s, t, x.e)
<1>1. s \in Machine /\ t \in Threads /\ Cur(s) = s.th[t] /\ StackRight(s, w.chain, a) /\ TopRight(s, a)
  BY ActiveIs
<1>2. x.e \in {0, 1} /\ x.f = "dpcall"
  <2>1. x \in Frame
    BY <1>1, TopIs
  <2> QED
    BY <2>1 DEF Frame, TopF
<1> HIDE DEF q, t, x
<1>3. /\ OneThread(s, q, t) /\ q.th[t].errfunc = x.e
      /\ q.th[t].ci = s.th[t].ci /\ q.th[t].status = s.th[t].status /\ q.th[t].nCcalls = s.th[t].nCcalls
      /\ q.th[t].errorJmp = s.th[t].errorJmp /\ q.th[t].nny = s.th[t].nny
      /\ q.th[t].body = s.th[t].body
  BY <1>1, <1>2, SetErrFuncIs DEF q
<1>4. PICK b : Returned(s, q, r, w, a, b)
  BY Zenon, <1>1, <1>3, ReturnDown DEF q, t, x
<1> DEFINE B == Last(b)
           N == Len(s.c)
           ci == Cur(s).ci
<1>5. /\ Live(Cur(s), A) /\ Popped(s, r, w.chain, a, b) /\ Cur(r) = q.th[t]
      /\ Cur(r).status = "OK" /\ ~Cur(r).body /\ A.ci \in Nat /\ Len(ci) = A.ci
      /\ r.do = "return" /\ r.status = "OK" /\ Cur(r).ci = ci
      /\ N <= 2 => Cur(s).nCcalls = 0
  BY <1>4 DEF Returned, t
<1>6. /\ <<TopF(r), "dpcall">> \in Nesting
      /\ A = MarkOf(x, N, B, A.ci) /\ Len(r.c) = N - 1 /\ N \in Nat
      /\ SavedOver(x, TopF(r), B, A, ci, N)
  BY <1>5 DEF Popped, x
<1> HIDE DEF A, B, N, ci
<1>7. A.nny = B.nny /\ A.depth = B.depth /\ A.jmp = B.jmp
  BY <1>2, <1>6 DEF MarkOf
<1>8. TopF(r) \in {"host", "cfunc"}
  BY <1>6 DEF Nesting
<1>9. /\ (x.e = 1) = HandledBy(ci, A.ci - 1)
      /\ TopF(r) = "host" => A.ci = 0
  BY <1>2, <1>6, <1>8 DEF SavedOver
<1>10. Live(Cur(r), B)
  BY <1>1, <1>3, <1>5, <1>7 DEF Live
<1>11. Len(r.c) > 2 \/ Cur(r).nCcalls = 0
  <2>1. N # 3
    BY <1>1, BaseIs DEF N
  <2> QED
    BY <1>1, <1>3, <1>5, <1>6, <2>1
<1>12. AtWork(r)
  <2>1. CASE TopF(r) = "cfunc"
    BY <1>3, <1>5, <1>9, <2>1 DEF AtWork
  <2>2. CASE TopF(r) = "host"
    <3>1. A.ci = 0
      BY <1>9, <2>2
    <3>2. A.ci - 1 = -1
      BY <3>1
    <3>3. HandledBy(ci, A.ci - 1) = FALSE /\ HandledBy(ci, A.ci) = FALSE
      BY <3>1, <3>2, HandledNone
    <3>4. (Cur(r).errfunc = 1) = HandledBy(Cur(r).ci, Len(Cur(r).ci))
      BY <1>3, <1>5, <1>9, <3>3
    <3> QED
      BY <1>5, <2>2, <3>4 DEF AtWork, ErrFuncRight
  <2> QED
    BY <1>8, <2>1, <2>2
<1> QED
  BY <1>4, <1>10, <1>11, <1>12, ReturnedIs DEF B

\* A C function that goes on, and luaD_poscall
LEMMA ReturnToCIs ==
  ASSUME NEW s, NEW w, NEW a, TypesRight(s, w), Active(s, w, a), s.do = "return", TopF(s) = "cfunc",
         NEW o, o = IF TopCI(s).ypcall THEN SetErrFunc(s, Last(s.c).L, TopCI(s).old_errfunc) ELSE s,
         NEW r, r = Leave(PopCI(o, Last(s.c).L), "OK")
  PROVE  Inv(r, WPop(w))
<1> DEFINE t == Last(s.c).L
           x == TopCI(s)
           A == Last(a)
           ci == Cur(s).ci
           n == Len(ci)
           q == PopCI(o, t)
           ch == w.chain
<1>1. /\ s \in Machine /\ w \in Wants /\ StackRight(s, ch, a) /\ TopRight(s, a)
      /\ AgreeBut(s, w, {}) /\ Others(s, w, ch) /\ AtWork(s)
      /\ t \in Threads /\ w.stack[t] = Names(ci) /\ s.c # <<>> /\ t = Last(ch)
      /\ Cur(s) = s.th[t] /\ ci \in Seq(CIs) /\ CIsRight(ci) /\ n \in Nat /\ Cur(s) \in Thread
  BY ActiveIs
<1>2. /\ n >= 1 /\ ci # <<>> /\ A \in Mark /\ n = A.ci + 1 /\ x = ci[n] /\ x \in CIs /\ A.ci \in Nat
  BY <1>1, CFuncTop, MarkIs
<1>3. x.old_errfunc \in {0, 1} /\ (x.ypcall => (x.old_errfunc = 1) = HandledBy(ci, n - 1))
  <2> HIDE DEF ci, x, t, A, ch
  <2>1. n \in 1..Len(ci)
    BY <1>1, <1>2
  <2> QED
    BY <1>1, <1>2, <2>1 DEF CIsRight, CIs
<1> HIDE DEF t, x, A, ci, n, ch
<1>4. /\ o \in Machine /\ OneThread(s, o, t)
      /\ o.th[t].ci = ci /\ o.th[t].status = Cur(s).status /\ o.th[t].nCcalls = Cur(s).nCcalls
      /\ o.th[t].nny = Cur(s).nny /\ o.th[t].errorJmp = Cur(s).errorJmp
      /\ o.th[t].body = Cur(s).body
      /\ (o.th[t].errfunc = 1) = HandledBy(ci, n - 1)
  <2>1. CASE x.ypcall
    <3>1. o = SetErrFunc(s, t, x.old_errfunc)
      BY <2>1 DEF t, x
    <3>2. /\ OneThread(s, o, t) /\ o.th[t].errfunc = x.old_errfunc
          /\ o.th[t].ci = s.th[t].ci /\ o.th[t].status = s.th[t].status /\ o.th[t].nCcalls = s.th[t].nCcalls
          /\ o.th[t].errorJmp = s.th[t].errorJmp /\ o.th[t].nny = s.th[t].nny
          /\ o.th[t].body = s.th[t].body
      BY <1>1, <1>3, <3>1, SetErrFuncIs
    <3> QED
      BY <1>1, <1>3, <2>1, <3>2 DEF OneThread, ci
  <2>2. CASE ~x.ypcall
    <3>1. o = s
      BY <2>2 DEF x
    <3>2. (Cur(s).errfunc = 1) = HandledBy(ci, n - 1)
      BY <1>1, <2>2 DEF AtWork, x, ci, n
    <3> QED
      BY <1>1, <3>1, <3>2 DEF OneThread, ci
  <2> QED
    BY SMTT(30), <2>1, <2>2
<1>5. CallGone(o, q, t)
  <2>1. o.th[t].ci # <<>>
    BY <1>2, <1>4
  <2> QED
    BY <1>1, <1>4, <2>1, PopCIIs
<1> HIDE DEF q
<1>6. /\ OneThread(o, q, t) /\ q.th[t] \in Thread
      /\ Len(q.th[t].ci) = n - 1 /\ SameTo(ci, q.th[t].ci, n - 1)
      /\ Names(q.th[t].ci) = Front(Names(ci)) /\ Names(ci) # <<>>
      /\ CIsRight(q.th[t].ci)
      /\ q.th[t].status = Cur(s).status /\ q.th[t].nny = Cur(s).nny /\ q.th[t].nCcalls = Cur(s).nCcalls
      /\ q.th[t].errorJmp = Cur(s).errorJmp /\ q.th[t].body = Cur(s).body
      /\ q.th[t].errfunc = o.th[t].errfunc
  BY Zenon, <1>1, <1>4, <1>5 DEF CallGone, n
<1>7. OneThread(s, q, t)
  BY <1>4, <1>6 DEF OneThread
<1>8. n - 1 = A.ci
  BY <1>2
<1>9. A.ci <= Len(q.th[t].ci) /\ SameTo(s.th[t].ci, q.th[t].ci, A.ci) /\ Len(q.th[t].ci) = A.ci
  BY <1>1, <1>2, <1>6, <1>8 DEF ci
<1>10. /\ r.do = "return" /\ r.status = "OK" /\ r.th = q.th
       /\ \E b : Popped(s, r, ch, a, b)
  <2>1. "OK" \in Statuses
    BY DEF Statuses
  <2>2. r = Leave(q, "OK")
    BY DEF q, t
  <2>3. TopF(s) \notin {"resume", "host"}
    OBVIOUS
  <2> QED
    BY <1>7, <1>9, <2>1, <2>2, <2>3, LeaveFrame DEF t, A, ch
<1>11. PICK b : Popped(s, r, ch, a, b)
  BY <1>10
<1> DEFINE B == Last(b)
<1>12. /\ <<TopF(r), "cfunc">> \in Nesting /\ Cur(r) = q.th[t] /\ Same(s, r)
       /\ A = MarkOf(Last(s.c), Len(s.c), B, A.ci) /\ Len(r.c) > 2 /\ Last(s.c).f = "cfunc"
       /\ Owns(TopF(r), B, q.th[t].ci, A.ci)
  BY Zenon, <1>10, <1>11 DEF Popped, TopF, t, A
<1> HIDE DEF B
<1>13. A.nny = B.nny /\ A.depth = B.depth /\ A.jmp = B.jmp
  BY <1>12 DEF MarkOf
<1>14. TopF(r) = "execute"
  BY <1>12 DEF Nesting
<1>15. Live(Cur(s), A)
  BY <1>1 DEF TopRight, A
<1>16. Live(Cur(r), B)
  BY <1>6, <1>12, <1>13, <1>15 DEF Live
<1>17. Ready(r, ch)
  <2>1. Owns(TopF(r), B, Cur(r).ci, Len(Cur(r).ci))
    BY <1>9, <1>12
  <2> QED
    BY <1>6, <1>11, <1>12, <1>16, <2>1, PoppedTop DEF B
<1>18. AtWork(r)
  <2>1. HandledBy(ci, n - 1) = HandledBy(q.th[t].ci, n - 1)
    BY <1>1, <1>6, HandledSame
  <2>2. ErrFuncRight(Cur(r))
    BY <1>4, <1>6, <1>12, <2>1 DEF ErrFuncRight
  <2> QED
    BY <1>10, <1>14, <2>2 DEF AtWork
<1> QED
  <2>1. WSame(w, WPop(w), t) /\ WPop(w).stack[t] = Front(w.stack[t])
    BY <1>1, <1>6, WPopIs DEF ch
  <2>2. WPop(w).stack[t] = Names(Cur(r).ci)
    BY <1>1, <1>6, <1>12, <2>1
  <2> QED
    BY <1>1, <1>12, <1>17, <1>18, <2>1, <2>2, StaysActive DEF t, ch

\* Wrap hands an error on.
LEMMA ErrorHandedOnIs ==
  ASSUME NEW s, NEW w, NEW a, TypesRight(s, w), Active(s, w, a), s.do = "return", TopF(s) = "cfunc",
         TopCI(s).fn = "wrap", s.status \in Errors
  PROVE  Inv(Raise(s), w)
<1> DEFINE r == Raise(s)
           ci == Cur(s).ci
           n == Len(ci)
<1>1. /\ s \in Machine /\ StackRight(s, w.chain, a) /\ TopRight(s, a) /\ AtWork(s) /\ CIsRight(ci)
      /\ ci \in Seq(CIs)
  BY ActiveIs
<1>2. n \in Nat /\ n >= 1 /\ TopCI(s) = ci[n]
  BY <1>1, CFuncTop
<1>3. r \in Machine /\ r.th = s.th /\ r.c = s.c /\ r.do = "raise"
  BY <1>1, RaiseIs
<1> HIDE DEF r
<1>4. TopF(r) = TopF(s) /\ Cur(r) = Cur(s) /\ TopCI(r) = TopCI(s)
  BY <1>1, <1>3, SameMachine
<1>5. ~Protects(ci[n].fn)
  BY <1>2 DEF Protects
<1>6. ~TopCI(s).ypcall
  <2>1. n \in 1..Len(ci)
    BY <1>2
  <2> QED
    BY <1>1, <1>2, <1>5, <2>1 DEF CIsRight
<1>7. (Cur(s).errfunc = 1) = HandledBy(ci, n - 1)
  BY <1>1, <1>6 DEF AtWork
<1>8. ErrFuncRight(Cur(s))
  <2> HIDE DEF ci
  <2>1. HandledBy(ci, n) = HandledBy(ci, n - 1)
    BY <1>2, <1>5, HandledStep
  <2> QED
    BY <1>7, <2>1 DEF ErrFuncRight, ci
<1>9. AtWork(r)
  BY <1>3, <1>4, <1>8 DEF AtWork, Raises
<1> QED
  BY <1>3, <1>9, StaysAt DEF r

-----------------------------------------------------------------------------
(* The host *)

LEMMA EmptyIs ==
  ASSUME NEW S, NEW l \in Seq(S), NEW n, n = 0
  PROVE  SubSeq(l, 1, n) = <<>>
  OBVIOUS

LEMMA NotEmpty ==
  ASSUME NEW l, Len(l) # 0
  PROVE  l # <<>>
  OBVIOUS

Idle(s) == [Leave(s, "OK") EXCEPT !.do = "idle"]
Unchained(w) == [w EXCEPT !.chain = <<>>]

LEMMA NoChain ==
  ASSUME NEW w \in Wants, NEW v, v = Unchained(w)
  PROVE  v \in Wants /\ v.chain = <<>> /\ v.dead = w.dead /\ v.stack = w.stack
<1>1. <<>> \in Seq(Threads)
  OBVIOUS
<1>2. v = [stack |-> w.stack, chain |-> <<>>, dead |-> w.dead]
  BY DEF Wants, Unchained
<1>3. w.stack \in [Threads -> Seq(Fns)] /\ w.dead \in SUBSET Threads
  BY WantsAre
<1> QED
  BY <1>1, <1>2, <1>3 DEF Wants

LEMMA HostTop ==
  ASSUME NEW s \in Machine, NEW ch, NEW a, StackRight(s, ch, a), TopF(s) = "host"
  PROVE  /\ Last(a) = Bottom /\ Len(s.c) = 1 /\ Len(ch) = 1 /\ ch[1] = Main
         /\ Last(s.c).L = Main /\ Main \in Threads /\ ToSet(ch) = {Main} /\ Cur(s) = s.th[Main]
<1>1. Len(s.c) = 1 /\ Last(a) = Bottom
  BY TopIs
<1>2. Last(a) = a[Len(s.c)] /\ a[Len(s.c)].link = Len(ch) /\ ch \in Seq(Threads) /\ Linked(ch)
      /\ Last(s.c).L = ch[Len(ch)] /\ Last(s.c).L \in Threads
  BY StackEnds
<1>3. Len(ch) = 1 /\ ch[1] = Main
  <2>1. Last(a).link = 1
    BY <1>1 DEF Bottom
  <2>2. Len(ch) = 1
    BY <1>2, <2>1
  <2> QED
    BY <1>2, <2>2 DEF Linked
<1>4. ToSet(ch) = {Main}
  BY <1>2, <1>3 DEF ToSet
<1> QED
  BY <1>1, <1>2, <1>3, <1>4 DEF Cur

LEMMA IdleIs ==
  ASSUME NEW s \in Machine, Len(s.c) = 1, NEW r, r = Idle(s)
  PROVE  r \in Machine /\ r.th = s.th /\ r.c = <<>> /\ r.do = "idle"
<1> DEFINE l == Leave(s, "OK")
<1>1. s.c # <<>> /\ s.c \in Seq(Frame) /\ Len(s.c) - 1 = 0
  <2>1. s.c \in Seq(Frame)
    BY MachineIs
  <2>2. Len(s.c) # 0 /\ Len(s.c) - 1 = 0
    OBVIOUS
  <2>3. s.c # <<>>
    BY <2>2, NotEmpty
  <2> QED
    BY <2>1, <2>2, <2>3
<1>2. l \in Machine /\ l.th = s.th /\ l.c = SubSeq(s.c, 1, Len(s.c) - 1)
  BY <1>1, LeaveIs DEF Statuses
<1>3. l.c = <<>>
  BY <1>1, <1>2, EmptyIs
<1> HIDE DEF l
<1>4. r = [l EXCEPT !.do = "idle"]
  BY DEF l, Idle
<1> QED
  BY <1>2, <1>3, <1>4 DEF Machine, Dos

\* The host has got what it called for.
LEMMA ReturnToHostIs ==
  ASSUME NEW s, NEW w, NEW a, TypesRight(s, w), Active(s, w, a), s.do = "return", TopF(s) = "host",
         NEW r, r = Idle(s),
         NEW v, v = Unchained(w)
  PROVE  Inv(r, v)
<1>1. /\ s \in Machine /\ w \in Wants /\ StackRight(s, w.chain, a) /\ TopRight(s, a)
      /\ AgreeBut(s, w, {}) /\ Others(s, w, w.chain) /\ AtWork(s) /\ s.c # <<>>
      /\ Cur(s) \in Thread /\ Last(s.c).L \notin w.dead
  BY ActiveIs
<1>2. /\ Last(a) = Bottom /\ Len(s.c) = 1 /\ Len(w.chain) = 1 /\ w.chain[1] = Main
      /\ Last(s.c).L = Main /\ Main \in Threads /\ ToSet(w.chain) = {Main} /\ Cur(s) = s.th[Main]
  BY <1>1, HostTop
<1>3. r \in Machine /\ r.th = s.th /\ r.c = <<>> /\ r.do = "idle"
  BY <1>1, <1>2, IdleIs
<1>4. v \in Wants /\ v.chain = <<>> /\ v.dead = w.dead /\ v.stack = w.stack
  BY <1>1, NoChain
<1>5. /\ Cur(s).ci = <<>> /\ Cur(s).status = "OK" /\ ~Cur(s).body /\ Cur(s).nny = 1
      /\ Cur(s).errorJmp = 0 /\ Cur(s).nCcalls = 0 /\ Cur(s).errfunc = 0
  <2>1. Owns("host", Bottom, Cur(s).ci, Len(Cur(s).ci)) /\ Live(Cur(s), Bottom) /\ Cur(s).nCcalls = 0
    BY <1>1, <1>2 DEF TopRight
  <2>2. Len(Cur(s).ci) = 0 /\ Cur(s).ci \in Seq(CIs) /\ Cur(s).errfunc \in {0, 1}
    BY <1>1, <2>1, ThreadIs DEF Owns, Bottom
  <2>3. ErrFuncRight(Cur(s))
    BY <1>1 DEF AtWork
  <2>4. ~HandledBy(Cur(s).ci, 0)
    BY HandledNone
  <2>5. Cur(s).errfunc = 0
    BY <2>2, <2>3, <2>4 DEF ErrFuncRight
  <2>6. Cur(s).ci = <<>>
    BY <2>2
  <2> QED
    BY <2>1, <2>5, <2>6 DEF Live, Bottom
<1>6. Others(r, v, <<>>)
  <2>1. ASSUME NEW u \in Threads PROVE Resting(r.th[u], u, v.dead)
    <3>1. CASE u = Main
      BY <1>2, <1>3, <1>5, <3>1 DEF Resting
    <3>2. CASE u # Main
      <4>1. u \in Threads \ ToSet(w.chain)
        BY <1>2, <3>2
      <4> QED
        BY <1>1, <1>3, <1>4, <4>1 DEF Others
    <3> QED
      BY <3>1, <3>2
  <2> QED
    BY <1>4, <2>1 DEF Others, ToSet
<1>7. AgreeBut(r, v, {})
  BY <1>1, <1>3, <1>4 DEF AgreeBut
<1>8. AtHost(r, v)
  BY <1>3, <1>4, <1>6, <1>7 DEF AtHost
<1>9. TypesRight(r, v)
  BY <1>3, <1>4 DEF TypesRight
<1> QED
  BY <1>8, <1>9 DEF Inv

\* It has got an error.
LEMMA HostEndsIs ==
  ASSUME NEW s, NEW w, TypesRight(s, w), AtHost(s, w), s.do = "return",
         NEW r, r = Idle(s),
         NEW v, v = Unchained(w)
  PROVE  Inv(r, v)
<1>1. s \in Machine /\ w \in Wants /\ s.c \in Seq(Frame) /\ Len(s.c) = 1
  BY MachineIs DEF TypesRight, AtHost
<1>2. r \in Machine /\ r.th = s.th /\ r.c = <<>> /\ r.do = "idle"
  BY <1>1, IdleIs
<1>3. v \in Wants /\ v.chain = <<>> /\ v.dead = w.dead /\ v.stack = w.stack
  BY <1>1, NoChain
<1>4. TypesRight(r, v) /\ AgreeBut(r, v, {})
  BY <1>2, <1>3 DEF TypesRight, AgreeBut, AtHost
<1>5. Others(r, v, <<>>)
  BY <1>2, <1>3 DEF AtHost, Others, Resting
<1> QED
  BY <1>2, <1>3, <1>4, <1>5 DEF AtHost, Inv

-----------------------------------------------------------------------------
(* The rest of a coroutine, when a yield or an error has cut off its C calls *)

LEMMA UnrollTop ==
  ASSUME NEW s, NEW w, NEW a, TypesRight(s, w), Active(s, w, a), TopF(s) \in {"resuming", "unroll"}
  PROVE  LET A == Last(a)
             ci == Cur(s).ci
         IN
         /\ A \in Mark /\ A.ci = 0 /\ A.nny = 0 /\ Live(Cur(s), A) /\ Len(s.c) > 3
         /\ \A i \in 1..Len(ci) : Pending(ci, i)
         /\ <<s.c[Len(s.c) - 1].f, TopF(s)>> \in Nesting
         /\ A = MarkOf(Last(s.c), Len(s.c), a[Len(s.c) - 1], A.ci) /\ Below(TopF(s), A, ci)
<1> DEFINE A == Last(a)
           N == Len(s.c)
           ci == Cur(s).ci
<1>1. s \in Machine /\ StackRight(s, w.chain, a) /\ TopRight(s, a)
  BY ActiveIs
<1>2. N > 3
  BY <1>1, BaseIs
<1>3. A \in Mark /\ A = a[N] /\ Last(s.c) = s.c[N]
  BY <1>1, StackEnds
<1>4. N > 1
  BY <1>2
<1>5. A = MarkOf(Last(s.c), N, a[N - 1], A.ci) /\ <<s.c[N - 1].f, TopF(s)>> \in Nesting
  BY <1>1, <1>4, TopIs
<1>6. Saved(s.c, a, ci, N) /\ Below(TopF(s), A, ci)
  BY <1>1, TopIs
<1> HIDE DEF A, N, ci
<1>7. A.ci = 0 /\ A.nny = 0
  BY <1>3, <1>6 DEF Saved, SavedOver, TopF
<1>8. Live(Cur(s), A) /\ Owns(TopF(s), A, ci, Len(ci))
  BY <1>1 DEF TopRight, A, ci
<1>9. \A i \in 1..Len(ci) : Pending(ci, i)
  BY <1>8 DEF Owns
<1> QED
  BY <1>2, <1>3, <1>5, <1>6, <1>7, <1>8, <1>9 DEF A, N, ci

LEMMA BelowOther ==
  ASSUME NEW f, f \notin {"execute", "call", "cfunc"}, NEW g, NEW A, NEW ci, Below(g, A, ci)
  PROVE  Below(f, A, ci)
  BY DEF Below

Rolls(s, t) == [Enters(Leave(s, "OK"), "unroll", t) EXCEPT !.status = "OK"]

\* resume has returned, and unroll follows.
LEMMA ReturnToResumingIs ==
  ASSUME NEW s, NEW w, NEW a, TypesRight(s, w), Active(s, w, a), s.do = "return", TopF(s) = "resuming",
         NEW r, r = Rolls(s, Last(s.c).L)
  PROVE  Inv(r, w)
<1> DEFINE t == Last(s.c).L
           A == Last(a)
           ci == Cur(s).ci
           ch == w.chain
           l == Leave(s, "OK")
           x == FrameOf("unroll", t, 0, 0, 0)
<1>1. /\ s \in Machine /\ w \in Wants /\ StackRight(s, ch, a) /\ TopRight(s, a)
      /\ AgreeBut(s, w, {}) /\ Others(s, w, ch) /\ AtWork(s)
      /\ t \in Threads /\ w.stack[t] = Names(ci) /\ s.c # <<>>
      /\ Cur(s) = s.th[t] /\ ci \in Seq(CIs) /\ CIsRight(ci)
  BY ActiveIs
<1>2. /\ A \in Mark /\ A.ci = 0 /\ A.nny = 0 /\ Live(Cur(s), A) /\ Len(s.c) > 3
      /\ \A i \in 1..Len(ci) : Pending(ci, i)
      /\ Below("resuming", A, ci)
  BY UnrollTop
<1> HIDE DEF t, A, ci, ch, l, x
<1>3. l \in Machine /\ l.th = s.th /\ l.c = Front(s.c) /\ l.do = "return"
  BY <1>1, LeaveIs DEF l, Statuses
<1>4. x \in Frame /\ x.f = "unroll" /\ x.L = t
  <2>1. "unroll" \in FrameKinds
    BY DEF FrameKinds
  <2>2. 0 \in Int /\ 0 \in Nat /\ 0 \in {0, 1}
    OBVIOUS
  <2> QED
    BY <1>1, <2>1, <2>2 DEF x, Frame, FrameOf
<1>5. /\ r \in Machine /\ r.th = s.th /\ r.c = Append(l.c, x) /\ r.do = "return" /\ r.status = "OK"
  <2> DEFINE e == Enters(l, "unroll", t)
  <2>1. e \in Machine /\ e.th = l.th /\ e.c = Append(l.c, x) /\ e.do = l.do
    BY <1>1, <1>3, EntersIs DEF x, FrameOf, FrameKinds
  <2> HIDE DEF e
  <2>2. r = [e EXCEPT !.status = "OK"]
    BY DEF Rolls, e, l, t
  <2> QED
    BY <1>3, <2>1, <2>2 DEF Machine, Statuses
<1>6. OneThread(s, s, t)
  BY <1>1 DEF OneThread
<1>7. A.ci <= Len(s.th[t].ci) /\ SameTo(s.th[t].ci, s.th[t].ci, A.ci)
  <2>1. Len(ci) \in Nat
    BY <1>1
  <2> QED
    BY <1>1, <1>2, <2>1 DEF SameTo, ci
<1>8. \E b : Popped(s, l, ch, a, b)
  <2>1. "OK" \in Statuses /\ TopF(s) \notin {"resume", "host"}
    BY DEF Statuses
  <2> QED
    BY <1>6, <1>7, <2>1, LeaveFrame DEF l, t, A, ch
<1>9. PICK b : Popped(s, l, ch, a, b)
  BY SMTT(30), <1>8
<1> DEFINE B == Last(b)
           E == MarkOf(x, Len(l.c) + 1, B, 0)
<1>10. /\ Same(s, l) /\ StackRight(l, ch, b) /\ B \in Mark /\ Cur(l) = s.th[t] /\ Last(l.c).L = t
       /\ Len(l.c) = Len(s.c) - 1 /\ Len(s.c) \in Nat /\ <<TopF(l), "resuming">> \in Nesting
       /\ A = MarkOf(Last(s.c), Len(s.c), B, 0) /\ Owns(TopF(l), B, s.th[t].ci, 0)
       /\ B.ci <= 0 /\ Last(s.c).f = "resuming"
  BY <1>2, <1>3, <1>9 DEF Popped, Same, t, A, TopF
<1> HIDE DEF B
<1>11. E = A
  BY <1>4, <1>10 DEF MarkOf
<1>12. TopF(l) = "try"
  BY <1>10 DEF Nesting
<1> HIDE DEF E
<1>13. Pushes(l, r, ch, b, x, 0, E)
  <2>1. SavedOver(x, TopF(l), B, E, r.th[x.L].ci, Len(l.c) + 1)
    BY <1>2, <1>4, <1>11 DEF SavedOver
  <2>2. Below(x.f, E, r.th[x.L].ci)
    <3>1. Below("unroll", A, ci)
      BY <1>2, BelowOther
    <3>2. r.th[x.L].ci = ci
      BY <1>1, <1>4, <1>5 DEF ci
    <3> QED
      BY <1>4, <1>11, <3>1, <3>2
  <2>3. <<TopF(l), x.f>> \in Nesting
    BY <1>4, <1>12 DEF Nesting
  <2>4. Last(b).ci <= 0 /\ 0 <= Len(r.th[x.L].ci) /\ SameTo(Cur(l).ci, r.th[x.L].ci, Last(b).ci)
    BY <1>1, <1>4, <1>5, <1>7, <1>10, <1>2 DEF B, SameTo
  <2>5. Owns(TopF(l), Last(b), r.th[x.L].ci, 0) /\ E = MarkOf(x, Len(l.c) + 1, Last(b), 0)
    BY <1>4, <1>5, <1>10 DEF B, E
  <2>6. SavedOver(x, TopF(l), Last(b), E, r.th[x.L].ci, Len(l.c) + 1)
    BY <2>1 DEF B
  <2>7. x.L = Last(l.c).L /\ x.f # "resume"
    BY <1>4, <1>10
  <2> QED
    BY <1>3, <1>4, <1>5, <1>10, <2>2, <2>3, <2>4, <2>5, <2>6, <2>7 DEF Pushes
<1>14. /\ StackRight(r, ch, Append(b, A)) /\ Last(Append(b, A)) = A /\ Last(r.c) = x
       /\ TopF(r) = "unroll" /\ Cur(r) = s.th[t] /\ Len(r.c) = Len(l.c) + 1
  <2>1. /\ StackRight(r, ch, Append(b, E)) /\ Last(Append(b, E)) = E /\ Last(r.c) = x
        /\ TopF(r) = x.f /\ Cur(r) = r.th[x.L] /\ Len(r.c) = Len(l.c) + 1
    BY <1>13, StackPush
  <2> QED
    BY <1>4, <1>5, <1>11, <2>1
<1>15. Same(s, r)
  BY <1>4, <1>5, <1>14 DEF Same, t
<1>16. Ready(r, ch)
  <2>1. Owns("unroll", A, ci, Len(ci))
    BY <1>2 DEF Owns
  <2>2. TopRight(r, Append(b, A))
    BY <1>1, <1>2, <1>10, <1>14, <2>1 DEF TopRight, ci
  <2> QED
    BY <1>1, <1>14, <2>2 DEF Ready, ci
<1>17. AtWork(r)
  <2>1. (Cur(s).ci # <<>> /\ TopCI(s).ypcall) \/ ErrFuncRight(Cur(s))
    BY <1>1 DEF AtWork
  <2>2. Cur(r) = Cur(s) /\ TopCI(r) = TopCI(s)
    BY <1>1, <1>14 DEF TopCI
  <2> QED
    BY <1>5, <1>14, <2>1, <2>2 DEF AtWork
<1> QED
  <2>1. WSame(w, w, t)
    BY <1>1, WSameIs
  <2>2. w.stack[t] = Names(Cur(r).ci)
    BY <1>1, <1>14 DEF ci
  <2> QED
    BY <1>1, <1>15, <1>16, <1>17, <2>1, <2>2, StaysActive DEF t, ch

\* No call is left: unroll returns to lua_resume.
LEMMA UnrollEndsIs ==
  ASSUME NEW s, NEW w, NEW a, TypesRight(s, w), Active(s, w, a), s.do = "return", TopF(s) = "unroll",
         Cur(s).ci = <<>>, NEW r, r = Leave(s, "OK")
  PROVE  Inv(r, w)
<1> DEFINE t == Last(s.c).L
           A == Last(a)
           ci == Cur(s).ci
           ch == w.chain
<1>1. /\ s \in Machine /\ w \in Wants /\ StackRight(s, ch, a) /\ TopRight(s, a)
      /\ AgreeBut(s, w, {}) /\ Others(s, w, ch) /\ AtWork(s)
      /\ t \in Threads /\ w.stack[t] = Names(ci) /\ s.c # <<>>
      /\ Cur(s) = s.th[t] /\ ci \in Seq(CIs) /\ CIsRight(ci)
  BY ActiveIs
<1>2. A \in Mark /\ A.ci = 0 /\ A.nny = 0 /\ Live(Cur(s), A) /\ Len(s.c) > 3
  BY UnrollTop
<1> HIDE DEF t, A, ci, ch
<1>3. OneThread(s, s, t)
  BY <1>1 DEF OneThread
<1>4. A.ci <= Len(s.th[t].ci) /\ SameTo(s.th[t].ci, s.th[t].ci, A.ci) /\ Len(ci) = 0
  <2>1. ci = <<>>
    BY DEF ci
  <2>2. Len(ci) = 0
    BY <2>1
  <2> QED
    BY <1>1, <1>2, <2>2 DEF SameTo, ci
<1>5. /\ r.do = "return" /\ r.status = "OK" /\ r.th = s.th
      /\ \E b : Popped(s, r, ch, a, b)
  <2>1. "OK" \in Statuses /\ TopF(s) \notin {"resume", "host"}
    BY DEF Statuses
  <2> QED
    BY <1>3, <1>4, <2>1, LeaveFrame DEF t, A, ch
<1>6. PICK b : Popped(s, r, ch, a, b)
  BY <1>5
<1> DEFINE B == Last(b)
<1>7. /\ Same(s, r) /\ Cur(r) = s.th[t] /\ <<TopF(r), "unroll">> \in Nesting
      /\ A = MarkOf(Last(s.c), Len(s.c), B, 0) /\ Owns(TopF(r), B, s.th[t].ci, 0)
      /\ Last(s.c).f = "unroll" /\ Len(r.c) > 2
  BY Zenon, <1>2, <1>5, <1>6 DEF Popped, t, A, TopF
<1> HIDE DEF B
<1>8. A.nny = B.nny /\ A.depth = B.depth /\ A.jmp = B.jmp
  BY <1>7 DEF MarkOf
<1>9. TopF(r) = "try"
  BY <1>7 DEF Nesting
<1>10. Live(Cur(r), B)
  BY <1>1, <1>2, <1>7, <1>8 DEF Live
<1>11. Ready(r, ch)
  <2>1. Owns(TopF(r), B, Cur(r).ci, Len(Cur(r).ci))
    BY <1>1, <1>4, <1>7 DEF ci
  <2>2. CIsRight(Cur(r).ci)
    BY <1>1, <1>7 DEF ci
  <2> QED
    BY <1>6, <1>7, <1>10, <2>1, <2>2, PoppedTop DEF B
<1>12. AtWork(r)
  <2>1. ErrFuncRight(Cur(s))
    BY <1>1 DEF AtWork
  <2> QED
    BY <1>1, <1>5, <1>7, <1>9, <2>1 DEF AtWork
<1> QED
  <2>1. WSame(w, w, t)
    BY <1>1, WSameIs
  <2>2. w.stack[t] = Names(Cur(r).ci)
    BY <1>1, <1>7 DEF ci
  <2> QED
    BY <1>1, <1>7, <1>11, <1>12, <2>1, <2>2, StaysActive DEF t, ch

\* luaV_finishOp and luaV_execute of a Lua function that called what was cut off
LEMMA UnrollLuaIs ==
  ASSUME NEW s, NEW w, NEW a, TypesRight(s, w), Active(s, w, a), s.do = "return", TopF(s) = "unroll",
         Cur(s).ci # <<>>, IsLua(TopCI(s).fn), NEW r, r = Execute(s, Last(s.c).L)
  PROVE  Inv(r, w)
<1> DEFINE t == Last(s.c).L
           A == Last(a)
           ci == Cur(s).ci
           n == Len(ci)
           ch == w.chain
<1>1. /\ s \in Machine /\ w \in Wants /\ StackRight(s, ch, a) /\ TopRight(s, a)
      /\ AgreeBut(s, w, {}) /\ Others(s, w, ch) /\ AtWork(s)
      /\ t \in Threads /\ w.stack[t] = Names(ci) /\ s.c # <<>>
      /\ Cur(s) = s.th[t] /\ ci \in Seq(CIs) /\ CIsRight(ci) /\ n \in Nat
  BY ActiveIs
<1>2. A \in Mark /\ A.ci = 0 /\ A.nny = 0 /\ Live(Cur(s), A) /\ \A i \in 1..n : Pending(ci, i)
  BY UnrollTop
<1> HIDE DEF A, ci, ch, n
<1>3. n >= 1 /\ TopCI(s) = ci[n] /\ Last(ci) = ci[n]
  <2>1. n >= 1
    BY <1>1 DEF ci, n
  <2> QED
    BY <2>1 DEF TopCI, Last, ci, n
<1>4. CanExecute(s, ch, a)
  <2>1. Pending(ci, n)
    BY <1>1, <1>2, <1>3
  <2>2. Last(ci).fn # "handler"
    BY <1>3, <2>1 DEF Pending, IsLua, Protects
  <2>3. Owns("unroll", A, ci, n - 1)
    BY <1>1, <1>2, <1>3 DEF Owns
  <2>4. A.ci <= n - 1
    BY <1>1, <1>2, <1>3
  <2> QED
    <3>1. /\ Len(Cur(s).ci) >= 1 /\ IsLua(Last(Cur(s).ci).fn) /\ Last(a).ci <= Len(Cur(s).ci) - 1
          /\ Last(Cur(s).ci).fn # "handler" /\ CIsRight(Cur(s).ci)
      BY Zenon, <1>1, <1>3, <2>2, <2>4 DEF A, ci, n
    <3>2. Owns(TopF(s), Last(a), Cur(s).ci, Len(Cur(s).ci) - 1) /\ Live(Cur(s), Last(a))
      BY <1>2, <2>3 DEF A, ci, n
    <3>3. ~(Last(a).nny > 0) /\ TopF(s) \in {"call", "resuming", "unroll"}
      BY <1>2 DEF A
    <3>4. s \in Machine /\ StackRight(s, ch, a)
      BY <1>1
    <3> QED
      BY <3>1, <3>2, <3>3, <3>4 DEF CanExecute
<1>5. /\ Same(s, r) /\ Ready(r, ch) /\ Cur(r).errfunc = Cur(s).errfunc
      /\ r.do = "run" /\ TopF(r) = "execute" /\ Names(Cur(r).ci) = Names(ci)
  BY <1>4, ExecuteIs DEF ci
<1>6. ~TopCI(s).ypcall
  <2>1. ~Protects(ci[n].fn)
    BY <1>3 DEF IsLua, Protects
  <2>2. n \in 1..Len(ci)
    BY <1>1, <1>3 DEF n
  <2> QED
    BY <1>1, <1>3, <2>1, <2>2 DEF CIsRight
<1>7. ErrFuncRight(Cur(s))
  BY <1>1, <1>6 DEF AtWork
<1>8. AtWork(r)
  <2>1. Cur(r).ci \in Seq(CIs)
    <3>1. Cur(r) \in Thread
      <4>1. r \in Machine /\ Last(r.c).L = t
        BY <1>5 DEF Same
      <4> QED
        BY <1>1, <4>1, MachineIs DEF Cur
    <3> QED
      BY <3>1, ThreadIs
  <2>2. Len(ci) \in Int /\ Len(ci) <= Len(ci)
    BY <1>1 DEF n
  <2>3. Len(Cur(r).ci) = Len(ci) /\ HandledBy(Cur(r).ci, Len(ci)) = HandledBy(ci, Len(ci))
    BY <1>1, <1>5, <2>1, <2>2, HandledNames
  <2>4. ErrFuncRight(Cur(r))
    BY <1>5, <1>7, <2>3 DEF ErrFuncRight, ci
  <2> QED
    BY <1>5, <2>4 DEF AtWork
<1> QED
  <2>1. WSame(w, w, t)
    BY <1>1, WSameIs
  <2>2. w.stack[t] = Names(Cur(r).ci)
    BY <1>1, <1>5
  <2> QED
    BY <1>1, <1>5, <1>8, <2>1, <2>2, StaysActive DEF ch

Finished(s, t) == [FinishC(s, t) EXCEPT !.status = "OK"]

\* finishCcall of a C function
LEMMA UnrollCIs ==
  ASSUME NEW s, NEW w, NEW a, TypesRight(s, w), Active(s, w, a), s.do = "return", TopF(s) = "unroll",
         Cur(s).ci # <<>>, ~IsLua(TopCI(s).fn), NEW r, r = Finished(s, Last(s.c).L)
  PROVE  Inv(r, WPop(w))
<1> DEFINE t == Last(s.c).L
           x == TopCI(s)
           A == Last(a)
           ci == Cur(s).ci
           n == Len(ci)
           ch == w.chain
           o == IF x.ypcall THEN SetErrFunc(s, t, x.old_errfunc) ELSE s
           q == PopCI(o, t)
<1>1. /\ s \in Machine /\ w \in Wants /\ StackRight(s, ch, a) /\ TopRight(s, a)
      /\ AgreeBut(s, w, {}) /\ Others(s, w, ch) /\ AtWork(s)
      /\ t \in Threads /\ w.stack[t] = Names(ci) /\ s.c # <<>> /\ t = Last(ch)
      /\ Cur(s) = s.th[t] /\ ci \in Seq(CIs) /\ CIsRight(ci) /\ n \in Nat
  BY ActiveIs
<1>2. /\ A \in Mark /\ A.ci = 0 /\ A.nny = 0 /\ Live(Cur(s), A) /\ Len(s.c) > 3
      /\ \A i \in 1..n : Pending(ci, i)
  BY UnrollTop
<1>3. x = CI(s, t)
  BY <1>1 DEF CI, TopCI
<1> HIDE DEF t, x, A, ci, n, ch
<1>4. n >= 1 /\ x = ci[n] /\ x \in CIs
  <2>1. n >= 1
    BY <1>1 DEF ci, n
  <2>2. n \in 1..Len(ci)
    BY <1>1, <2>1 DEF n
  <2>3. x = ci[n]
    BY <2>1 DEF TopCI, Last, ci, n, x
  <2> QED
    BY <1>1, <2>1, <2>2, <2>3
<1>5. x.old_errfunc \in {0, 1} /\ (x.ypcall => (x.old_errfunc = 1) = HandledBy(ci, n - 1))
  <2>1. n \in 1..Len(ci)
    BY <1>1, <1>4 DEF n
  <2> QED
    BY <1>1, <1>4, <2>1 DEF CIsRight, CIs
<1>6. ~x.ypcall => ~Protects(x.fn)
  <2>1. Pending(ci, n)
    BY <1>1, <1>2, <1>4
  <2> QED
    BY <1>4, <2>1 DEF Pending, Protects, x
<1>7. /\ o \in Machine /\ OneThread(s, o, t)
      /\ o.th[t].ci = ci /\ o.th[t].status = Cur(s).status /\ o.th[t].nCcalls = Cur(s).nCcalls
      /\ o.th[t].nny = Cur(s).nny /\ o.th[t].errorJmp = Cur(s).errorJmp
      /\ o.th[t].body = Cur(s).body
      /\ (o.th[t].errfunc = 1) = HandledBy(ci, n - 1)
  <2>1. CASE x.ypcall
    <3>1. o = SetErrFunc(s, t, x.old_errfunc)
      BY <2>1
    <3> HIDE DEF o
    <3>2. /\ OneThread(s, o, t) /\ o.th[t].errfunc = x.old_errfunc
          /\ o.th[t].ci = s.th[t].ci /\ o.th[t].status = s.th[t].status /\ o.th[t].nCcalls = s.th[t].nCcalls
          /\ o.th[t].errorJmp = s.th[t].errorJmp /\ o.th[t].nny = s.th[t].nny
          /\ o.th[t].body = s.th[t].body
      BY <1>1, <1>5, <3>1, SetErrFuncIs
    <3> QED
      BY <1>1, <1>5, <2>1, <3>2 DEF OneThread, ci
  <2>2. CASE ~x.ypcall
    <3>1. o = s
      BY <2>2
    <3>2. ErrFuncRight(Cur(s))
      BY <1>1, <2>2 DEF AtWork, x
    <3> HIDE DEF o
    <3>3. HandledBy(ci, n) = HandledBy(ci, n - 1)
      BY <1>1, <1>4, <1>6, <2>2, HandledStep
    <3> QED
      BY <1>1, <3>1, <3>2, <3>3 DEF OneThread, ErrFuncRight, ci, n
  <2> QED
    BY <2>1, <2>2
<1> HIDE DEF o
<1>8. CallGone(o, q, t)
  <2>1. o.th[t].ci # <<>>
    BY <1>7 DEF ci
  <2> QED
    BY <1>1, <1>7, <2>1, PopCIIs
<1>9. r = [q EXCEPT !.status = "OK"]
  BY <1>3 DEF Finished, FinishC, o, q, t, SetErrFunc
<1> HIDE DEF q
<1>10. /\ OneThread(o, q, t) /\ q.th[t] \in Thread
       /\ Len(q.th[t].ci) = n - 1 /\ SameTo(ci, q.th[t].ci, n - 1)
       /\ Names(q.th[t].ci) = Front(Names(ci)) /\ Names(ci) # <<>>
       /\ CIsRight(q.th[t].ci)
       /\ q.th[t].status = Cur(s).status /\ q.th[t].nny = Cur(s).nny /\ q.th[t].nCcalls = Cur(s).nCcalls
       /\ q.th[t].errorJmp = Cur(s).errorJmp /\ q.th[t].body = Cur(s).body
       /\ q.th[t].errfunc = o.th[t].errfunc
  BY <1>1, <1>7, <1>8 DEF CallGone, n
<1>11. q \in Machine /\ q.c = s.c /\ q.do = "return" /\ \A u \in Threads \ {t} : q.th[u] = s.th[u]
  BY <1>7, <1>10 DEF OneThread
<1>12. r \in Machine /\ r.c = s.c /\ r.do = "return" /\ r.status = "OK" /\ r.th = q.th
  BY <1>9, <1>11 DEF Machine, Statuses
<1>13. Same(s, r) /\ Cur(r) = q.th[t] /\ TopF(r) = "unroll"
  BY <1>11, <1>12 DEF Same, Cur, TopF, t
<1>14. Ready(r, ch)
  <2>1. StackRight(r, ch, a)
    <3>1. A.ci <= Len(Cur(r).ci) /\ SameTo(Cur(s).ci, Cur(r).ci, A.ci)
      BY <1>1, <1>2, <1>4, <1>10, <1>13 DEF SameTo
    <3> QED
      BY <1>1, <1>11, <1>12, <3>1, StackTop DEF t, A
  <2>2. Owns("unroll", A, Cur(r).ci, Len(Cur(r).ci))
    <3>1. \A i \in 1..n - 1 : Pending(ci, i)
      BY <1>1, <1>2
    <3>2. \A i \in 1..n - 1 : Pending(q.th[t].ci, i)
      BY <1>1, <1>10, <3>1, PendingSame
    <3> QED
      BY <1>10, <1>13, <3>2 DEF Owns
  <2>3. Live(Cur(r), A)
    BY <1>2, <1>10, <1>13 DEF Live
  <2>4. TopRight(r, a)
    BY <1>2, <1>12, <1>13, <2>2, <2>3 DEF TopRight, A
  <2> QED
    BY <1>10, <1>13, <2>1, <2>4 DEF Ready
<1>15. AtWork(r)
  <2>1. HandledBy(ci, n - 1) = HandledBy(q.th[t].ci, n - 1)
    BY <1>1, <1>10, HandledSame
  <2>2. ErrFuncRight(Cur(r))
    BY <1>7, <1>10, <1>13, <2>1 DEF ErrFuncRight
  <2> QED
    BY <1>12, <1>13, <2>2 DEF AtWork
<1> QED
  <2>1. WSame(w, WPop(w), t) /\ WPop(w).stack[t] = Front(w.stack[t])
    BY <1>1, <1>10, WPopIs DEF ch
  <2>2. WPop(w).stack[t] = Names(Cur(r).ci)
    BY <1>1, <1>10, <1>13, <2>1
  <2> QED
    BY <1>1, <1>13, <1>14, <1>15, <2>1, <2>2, StaysActive DEF t, ch

-----------------------------------------------------------------------------
(* The last call, and the last frame, of some kind *)

LEMMA MaxIs ==
  ASSUME NEW n \in Nat, NEW I, I \subseteq 1..n, I # {}
  PROVE  Max(I) \in I /\ \A j \in I : j <= Max(I)
<1> DEFINE J == {k \in 0..n : n - k \in I}
<1>1. J \subseteq Nat /\ J # {}
  <2>1. PICK i \in I : TRUE
    OBVIOUS
  <2>2. i \in 1..n
    OBVIOUS
  <2>3. n - i \in 0..n /\ n - (n - i) = i
    BY <2>2
  <2>4. n - i \in J
    BY <2>3
  <2>5. J # {}
    BY <2>4
  <2>6. \A j \in J : j \in Nat
    OBVIOUS
  <2> HIDE DEF J
  <2> QED
    BY <2>5, <2>6
<1>2. PICK k \in J : \A j \in J : ~(<<j, k>> \in OpToRel(<, Nat))
  BY <1>1, NatLessThanWellFounded, WFMin
<1> DEFINE i == n - k
<1>3. i \in I /\ k \in 0..n
  BY <1>2
<1>4. ASSUME NEW j \in I PROVE i >= j
  <2>1. j \in 1..n
    OBVIOUS
  <2>2. n - j \in J
    <3>1. n - j \in 0..n /\ n - (n - j) = j
      BY <2>1
    <3> QED
      BY <3>1
  <2>3. n - j \in Nat /\ k \in Nat /\ ~(<<n - j, k>> \in OpToRel(<, Nat))
    BY <1>1, <1>2, <2>2
  <2>4. ~(n - j < k)
    BY <2>3 DEF OpToRel
  <2> HIDE DEF J
  <2> QED
    BY <1>3, <2>1, <2>4
<1>5. \E x \in I : \A y \in I : x >= y
  BY <1>3, <1>4
<1>6. Max(I) \in I /\ \A y \in I : Max(I) >= y
  BY <1>5 DEF Max
<1>7. \A y \in I : y \in Int
  OBVIOUS
<1> QED
  BY <1>6, <1>7

LEMMA InnermostIs ==
  ASSUME NEW S, NEW l \in Seq(S)
  PROVE  LET k == Innermost(l) IN
         /\ k \in 0..Len(l) /\ k \in Nat
         /\ k > 0 => Protects(l[k])
         /\ \A i \in k + 1..Len(l) : ~Protects(l[i])
<1> DEFINE n == Len(l)
           I == {i \in 1..n : Protects(l[i])}
           k == Innermost(l)
<1>1. k = IF I # {} THEN Max(I) ELSE 0
  BY DEF Innermost, SelectLastInSeq
<1>2. n \in Nat
  OBVIOUS
<1> HIDE DEF n, k
<1>3. CASE I = {}
  BY <1>1, <1>2, <1>3 DEF n, k
<1>4. CASE I # {}
  <2>1. k \in I /\ \A j \in I : j <= k
    BY <1>1, <1>2, <1>4, MaxIs
  <2>2. k \in 1..n /\ Protects(l[k])
    BY <2>1
  <2>3. ASSUME NEW i \in k + 1..n PROVE ~Protects(l[i])
    BY <1>2, <2>1, <2>2, <2>3
  <2> QED
    BY <1>2, <2>2, <2>3 DEF n, k
<1> QED
  BY <1>3, <1>4

\* The handler in force, by the names of the calls.
LEMMA HandledIs ==
  ASSUME NEW ci \in Seq(CIs)
  PROVE  Handled(Names(ci)) = HandledBy(ci, Len(ci))
<1> DEFINE l == Names(ci)
           n == Len(ci)
           k == Innermost(l)
<1>1. l \in Seq(Fns) /\ Len(l) = n /\ (\A i \in 1..n : l[i] = ci[i].fn) /\ n \in Nat
  BY NamesAre
<1> HIDE DEF l
<1>2. k \in 0..n /\ k \in Nat /\ (k > 0 => Protects(l[k])) /\ \A i \in k + 1..n : ~Protects(l[i])
  BY <1>1, InnermostIs
<1> HIDE DEF n, k
<1>3. Handled(l) = (k # 0 /\ l[k] = "xpcall")
  BY DEF Handled, k
<1>4. ASSUME k # 0, l[k] = "xpcall" PROVE HandledBy(ci, n)
  <2>1. k \in 1..n /\ ci[k].fn = "xpcall"
    BY <1>1, <1>2, <1>4
  <2>2. \A i \in k + 1..n : ~Protects(ci[i].fn)
    BY <1>1, <1>2
  <2> QED
    BY <2>1, <2>2 DEF HandledBy
<1>5. ASSUME HandledBy(ci, n) PROVE k # 0 /\ l[k] = "xpcall"
  <2>1. PICK i \in 1..n : ci[i].fn = "xpcall" /\ \A j \in i + 1..n : ~Protects(ci[j].fn)
    BY <1>5 DEF HandledBy
  <2>2. Protects(l[i])
    BY <1>1, <2>1 DEF Protects
  <2>3. i <= k
    BY <1>1, <1>2, <2>2
  <2>4. k > 0 /\ Protects(ci[k].fn)
    BY <1>1, <1>2, <2>3
  <2>5. ~(k > i)
    BY <1>1, <1>2, <2>1, <2>4
  <2>6. k = i
    BY <1>1, <1>2, <2>3, <2>5
  <2> QED
    BY <1>1, <2>1, <2>6
<1>6. HandledBy(ci, n) \in BOOLEAN /\ Handled(l) \in BOOLEAN
  BY <1>3 DEF HandledBy
<1>7. Handled(l) = HandledBy(ci, n)
  BY <1>3, <1>4, <1>5, <1>6
<1> QED
  BY <1>7 DEF l, n

LEMMA LastYPCallIs ==
  ASSUME NEW ci \in Seq(CIs)
  PROVE  LET k == LastYPCall(ci) IN
         /\ k \in 0..Len(ci) /\ k \in Nat
         /\ k > 0 => ci[k].ypcall
         /\ \A i \in k + 1..Len(ci) : ~ci[i].ypcall
<1> DEFINE n == Len(ci)
           I == {i \in 1..n : ci[i].ypcall}
           k == LastYPCall(ci)
<1>1. k = IF I # {} THEN Max(I) ELSE 0
  BY DEF LastYPCall, SelectLastInSeq
<1>2. n \in Nat
  OBVIOUS
<1> HIDE DEF n, k
<1>3. CASE I = {}
  BY <1>1, <1>2, <1>3 DEF n, k
<1>4. CASE I # {}
  <2>1. k \in I /\ \A j \in I : j <= k
    BY <1>1, <1>2, <1>4, MaxIs
  <2>2. k \in 1..n /\ ci[k].ypcall
    BY <2>1
  <2>3. ASSUME NEW i \in k + 1..n PROVE ~ci[i].ypcall
    BY <1>2, <2>1, <2>2, <2>3
  <2> QED
    BY <1>2, <2>2, <2>3 DEF n, k
<1> QED
  BY <1>3, <1>4

LastTry(c) == SelectLastInSeq(c, LAMBDA f : f.f = "try")

LEMMA LastTryIs ==
  ASSUME NEW c \in Seq(Frame), NEW k \in Nat, k <= Len(c), k > 0 => c[k].f = "try",
         \A i \in k + 1..Len(c) : c[i].f # "try"
  PROVE  LastTry(c) = k
<1> DEFINE n == Len(c)
           I == {i \in 1..n : c[i].f = "try"}
           x == LastTry(c)
<1>1. x = IF I # {} THEN Max(I) ELSE 0
  BY DEF LastTry, SelectLastInSeq
<1>2. n \in Nat
  OBVIOUS
<1> HIDE DEF n, x
<1>3. \A i \in I : i <= k
  BY <1>2 DEF n
<1>4. k > 0 => k \in I
  BY <1>2 DEF n
<1>5. CASE I = {}
  BY <1>1, <1>4, <1>5 DEF x
<1>6. CASE I # {}
  <2>1. x \in I /\ \A j \in I : j <= x
    BY <1>1, <1>2, <1>6, MaxIs
  <2>2. x \in 1..n
    BY <2>1
  <2>3. x <= k /\ k > 0 /\ k <= x
    BY <1>2, <1>3, <1>4, <2>1, <2>2
  <2> QED
    BY <2>2, <2>3, <1>2 DEF x
<1> QED
  BY <1>5, <1>6

-----------------------------------------------------------------------------
(* Errors *)

\* Calls that an error starts from are not protected calls.
LEMMA RaiseTop ==
  ASSUME NEW s, NEW w, NEW a, TypesRight(s, w), Active(s, w, a), s.do \in {"raise", "throw"},
         TopF(s) # "errormsg"
  PROVE  LET A == Last(a)
             ci == Cur(s).ci
         IN
         /\ TopF(s) \in {"execute", "call", "cfunc"} /\ ErrFuncRight(Cur(s)) /\ A \in Mark
         /\ Live(Cur(s), A) /\ Owns(TopF(s), A, ci, Len(ci)) /\ Below(TopF(s), A, ci)
         /\ A.ci \in Nat /\ A.ci <= Len(ci) /\ Len(ci) \in Nat /\ Len(s.c) > 3
         /\ \A i \in A.ci + 1..Len(ci) : ~Protects(ci[i].fn)
<1> DEFINE A == Last(a)
           ci == Cur(s).ci
<1>1. /\ s \in Machine /\ StackRight(s, w.chain, a) /\ TopRight(s, a) /\ AtWork(s)
      /\ ci \in Seq(CIs) /\ Len(ci) \in Nat
  BY ActiveIs
<1>2. TopF(s) \in {"execute", "call", "cfunc"} /\ ErrFuncRight(Cur(s)) /\ Raises(s)
  BY <1>1 DEF AtWork
<1>3. A \in Mark /\ A.ci \in Nat /\ A.ci <= Len(ci) /\ Below(TopF(s), A, ci)
  BY <1>1, TopIs, MarkIs
<1>4. Owns(TopF(s), A, ci, Len(ci)) /\ Live(Cur(s), A)
  BY <1>1 DEF TopRight
<1>5. Len(s.c) > 3
  BY <1>1, <1>2, BaseIs
<1>6. TopCI(s) = ci[Len(ci)]
  BY DEF TopCI, Last
<1> HIDE DEF A, ci
<1>7. ASSUME NEW i \in A.ci + 1..Len(ci) PROVE ~Protects(ci[i].fn)
  <2>1. CASE TopF(s) = "execute"
    <3>1. IsLua(ci[i].fn)
      BY <1>4, <2>1 DEF Owns
    <3> QED
      BY <3>1 DEF IsLua, Protects
  <2>2. CASE TopF(s) = "call"
    BY <1>1, <1>3, <1>4, <2>2 DEF Owns
  <2>3. CASE TopF(s) = "cfunc"
    <3>1. Len(ci) = A.ci + 1
      BY <1>4, <2>3 DEF Owns
    <3>2. i = Len(ci)
      BY <1>1, <1>3, <1>7, <3>1
    <3>3. ci[i].fn \in {"yield", "wrap"}
      BY <1>2, <1>6, <2>3, <3>2 DEF Raises
    <3> QED
      BY <3>3 DEF Protects
  <2> QED
    BY <1>2, <2>1, <2>2, <2>3
<1> QED
  BY <1>1, <1>2, <1>3, <1>4, <1>5, <1>7 DEF A, ci

\* luaG_errormsg calls the message handler.
LEMMA ErrorMsgFrame ==
  ASSUME NEW s, NEW w, NEW a, TypesRight(s, w), Active(s, w, a), s.do = "raise",
         NEW e, e = Enters(s, "errormsg", Last(s.c).L)
  PROVE  /\ Same(s, e) /\ Cur(e) = Cur(s) /\ \E b : CanCallNoYield(e, w.chain, b, "handler")
<1> DEFINE t == Last(s.c).L
           A == Last(a)
           ci == Cur(s).ci
           n == Len(ci)
           ch == w.chain
           x == FrameOf("errormsg", t, 0, 0, 0)
           E == MarkOf(x, Len(s.c) + 1, A, n)
<1>1. /\ s \in Machine /\ StackRight(s, ch, a) /\ TopRight(s, a) /\ AtWork(s)
      /\ t \in Threads /\ Cur(s) = s.th[t] /\ ci \in Seq(CIs) /\ CIsRight(ci) /\ n \in Nat
  BY ActiveIs
<1>2. /\ TopF(s) \in {"execute", "call", "cfunc"} /\ A \in Mark
      /\ Live(Cur(s), A) /\ Owns(TopF(s), A, ci, n) /\ Below(TopF(s), A, ci)
      /\ A.ci \in Nat /\ A.ci <= n /\ Len(s.c) > 3
      /\ \A i \in A.ci + 1..n : ~Protects(ci[i].fn)
  BY <1>1, RaiseTop DEF AtWork
<1> HIDE DEF t, A, ci, n, ch, x, E
<1>3. x \in Frame /\ x.f = "errormsg" /\ x.L = t
  <2>1. "errormsg" \in FrameKinds
    BY DEF FrameKinds
  <2>2. 0 \in Int /\ 0 \in Nat /\ 0 \in {0, 1}
    OBVIOUS
  <2> QED
    BY <1>1, <2>1, <2>2 DEF x, Frame, FrameOf
<1>4. e \in Machine /\ e.th = s.th /\ e.c = Append(s.c, x)
  <2>1. "errormsg" \in FrameKinds
    BY DEF FrameKinds
  <2> QED
    BY <1>1, <2>1, EntersIs DEF x, FrameOf, t
<1>5. /\ E.link = A.link /\ E.pcall = A.pcall /\ E.nny = A.nny /\ E.ci = n /\ E.depth = A.depth
      /\ E.jmp = A.jmp
  BY <1>3 DEF E, MarkOf
<1>6. Len(s.c) \in Nat
  BY <1>1, StackEnds
<1>7. E \in Mark
  BY <1>1, <1>2, <1>6, MarkOfIs DEF E
<1>8. Below("errormsg", E, ci)
  <2>1. \A i \in A.ci + 1..E.ci : Protects(ci[i].fn) => ci[i].ypcall /\ E.pcall = 0 /\ E.link > 1
    BY <1>2, <1>5
  <2>2. A.ci <= E.ci
    BY <1>2, <1>5
  <2> QED
    BY <1>2, <1>5, <1>7, <2>1, <2>2, BelowPush
<1>9. Pushes(s, e, ch, a, x, n, E)
  <2>1. SavedOver(x, TopF(s), A, E, ci, Len(s.c) + 1)
    BY <1>3 DEF SavedOver
  <2>2. <<TopF(s), x.f>> \in Nesting
    BY <1>2, <1>3 DEF Nesting
  <2>3. e.th[x.L].ci = ci
    BY <1>1, <1>3, <1>4 DEF ci
  <2>4. A.ci <= n /\ n <= Len(ci) /\ SameTo(ci, ci, A.ci)
    BY <1>1, <1>2 DEF SameTo, n
  <2>5. x.L = Last(s.c).L /\ x.f # "resume" /\ \A u \in Threads \ {x.L} : e.th[u] = s.th[u]
    BY <1>3, <1>4 DEF t
  <2>6. Last(a).ci <= n /\ n <= Len(e.th[x.L].ci) /\ SameTo(Cur(s).ci, e.th[x.L].ci, Last(a).ci)
    BY <2>3, <2>4 DEF A, ci
  <2>7. Owns(TopF(s), Last(a), e.th[x.L].ci, n) /\ E = MarkOf(x, Len(s.c) + 1, Last(a), n)
    BY <1>2, <2>3 DEF A, E
  <2>8. SavedOver(x, TopF(s), Last(a), E, e.th[x.L].ci, Len(s.c) + 1) /\ Below(x.f, E, e.th[x.L].ci)
    BY <1>3, <1>8, <2>1, <2>3 DEF A
  <2> QED
    BY Zenon, <1>1, <1>3, <1>4, <2>2, <2>5, <2>6, <2>7, <2>8 DEF Pushes
<1>10. /\ StackRight(e, ch, Append(a, E)) /\ TopRight(e, Append(a, E)) /\ Last(Append(a, E)) = E
       /\ TopF(e) = "errormsg" /\ Cur(e) = s.th[t] /\ Last(e.c) = x
  <2>1. e.th[x.L] = s.th[t] /\ n = Len(e.th[x.L].ci)
    BY <1>1, <1>3, <1>4 DEF ci, n
  <2>2. Live(e.th[x.L], E)
    BY <1>1, <1>2, <1>5, <2>1 DEF Live
  <2>3. Len(s.c) >= 2
    BY <1>2, <1>6
  <2>4. x.f \notin {"execute", "cfunc", "resuming", "unroll"}
    BY <1>3
  <2>5. /\ StackRight(e, ch, Append(a, E)) /\ TopRight(e, Append(a, E)) /\ Last(Append(a, E)) = E
        /\ TopF(e) = x.f /\ Cur(e) = e.th[x.L] /\ Last(e.c) = x
    BY <1>9, <2>1, <2>2, <2>3, <2>4, PushTop
  <2> QED
    BY <1>3, <2>1, <2>5
<1>11. Same(s, e) /\ Cur(e) = Cur(s)
  BY <1>1, <1>3, <1>4, <1>10 DEF Same, t
<1>12. CanCallNoYield(e, ch, Append(a, E), "handler")
  BY <1>1, <1>4, <1>10, <1>11 DEF CanCallNoYield, ci
<1> QED
  BY <1>11, <1>12 DEF ch

LEMMA ErrorMsgIs ==
  ASSUME NEW s, NEW w, NEW a, TypesRight(s, w), Active(s, w, a), s.do = "raise",
         NEW r, r = IF Cur(s).errfunc # 0 THEN DCallNoYield(Enters(s, "errormsg", Last(s.c).L), Last(s.c).L, "handler")
                    ELSE Throw(s, "ERRRUN")
  PROVE  Inv(r, IF Handled(w.stack[Last(s.c).L]) /\ r.do = "run" THEN WPush(w, "handler") ELSE w)
<1> DEFINE t == Last(s.c).L
           ci == Cur(s).ci
           n == Len(ci)
           ch == w.chain
<1>1. /\ s \in Machine /\ StackRight(s, ch, a) /\ TopRight(s, a) /\ AtWork(s) /\ w \in Wants /\ t = Last(ch)
      /\ t \in Threads /\ Cur(s) = s.th[t] /\ ci \in Seq(CIs) /\ CIsRight(ci) /\ n \in Nat
      /\ w.stack[t] = Names(ci) /\ Cur(s) \in Thread
  BY ActiveIs
<1>2. ErrFuncRight(Cur(s)) /\ TopF(s) \in {"execute", "call", "cfunc"} /\ Raises(s)
  BY <1>1 DEF AtWork
<1>3. Handled(w.stack[t]) = HandledBy(ci, n)
  BY <1>1, HandledIs
<1>4. Cur(s).errfunc \in {0, 1} /\ (Cur(s).errfunc = 1) = HandledBy(ci, n)
  BY <1>1, <1>2, ThreadIs DEF ErrFuncRight
<1> HIDE DEF t, ci, n, ch
<1>5. CASE Cur(s).errfunc = 0
  <2>1. r = Throw(s, "ERRRUN")
    BY <1>5
  <2>2. r \in Machine /\ r.th = s.th /\ r.c = s.c /\ r.do = "throw" /\ r.status = "ERRRUN"
    BY <1>1, <2>1, ThrowIs DEF Statuses, Errors
  <2>3. TopF(r) = TopF(s) /\ Cur(r) = Cur(s) /\ TopCI(r) = TopCI(s)
    BY <1>1, <2>2, SameMachine
  <2>4. AtWork(r)
    BY <1>2, <2>2, <2>3 DEF AtWork, Raises, Errors
  <2>5. Inv(r, w)
    BY <2>2, <2>4, StaysAt
  <2> QED
    BY <2>2, <2>5
<1>6. CASE Cur(s).errfunc # 0
  <2> DEFINE e == Enters(s, "errormsg", t)
  <2>1. r = DCallNoYield(e, t, "handler")
    BY <1>6 DEF t
  <2>2. Same(s, e) /\ Cur(e) = Cur(s) /\ \E b : CanCallNoYield(e, ch, b, "handler")
    BY ErrorMsgFrame DEF t, ch
  <2> HIDE DEF e
  <2>3. PICK b : CanCallNoYield(e, ch, b, "handler")
    BY <2>2
  <2>4. Last(e.c).L = t
    BY <2>2 DEF Same, t
  <2>5. Called(e, r, ch, Names(ci), "handler") /\ Cur(r).errfunc = Cur(s).errfunc
    BY SMTT(30), <2>1, <2>2, <2>3, <2>4, DCallNoYieldIs DEF ci
  <2>6. Called(s, r, ch, Names(ci), "handler")
    <3>1. Same(s, r)
      BY <2>2, <2>5 DEF Called, Same
    <3> QED
      BY SMTT(30), <2>5, <3>1 DEF Called
  <2>7. HandledBy(ci, n) /\ (Cur(r).errfunc = 1) = HandledBy(ci, Len(ci))
    BY <1>4, <1>6, <2>5 DEF n
  <2>8. CASE r.do = "run"
    <3>1. WSame(w, WPush(w, "handler"), t) /\ WPush(w, "handler").stack[t] = Append(Names(ci), "handler")
      BY <1>1, WPushIs DEF ch, Fns
    <3>2. Inv(r, WPush(w, "handler"))
      BY <1>1, <2>6, <2>7, <2>8, <3>1, CalledIs DEF ch, Fns, Protects, t
    <3> QED
      BY <1>3, <2>7, <2>8, <3>2 DEF t
  <2>9. CASE r.do # "run"
    <3>1. WSame(w, w, t)
      BY <1>1, WSameIs
    <3>2. Inv(r, w)
      BY <1>1, <2>6, <2>7, <2>9, <3>1, CalledIs DEF ch, Fns, Protects, t
    <3> QED
      BY <2>9, <3>2
  <2> QED
    BY <2>8, <2>9
<1> QED
  BY <1>4, <1>5, <1>6

\* The handler has returned.
LEMMA ReturnToErrorMsgIs ==
  ASSUME NEW s, NEW w, NEW a, TypesRight(s, w), Active(s, w, a), s.do = "return", TopF(s) = "errormsg",
         NEW r, r = Throw(s, "ERRRUN")
  PROVE  Inv(r, w)
<1>1. s \in Machine /\ AtWork(s)
  BY ActiveIs
<1>2. r \in Machine /\ r.th = s.th /\ r.c = s.c /\ r.do = "throw" /\ r.status = "ERRRUN"
  BY <1>1, ThrowIs DEF Statuses, Errors
<1>3. TopF(r) = TopF(s) /\ Cur(r) = Cur(s)
  BY <1>1, <1>2, SameMachine
<1>4. ErrFuncRight(Cur(s))
  BY <1>1 DEF AtWork
<1>5. AtWork(r)
  BY <1>2, <1>3, <1>4 DEF AtWork, Errors, Raises
<1> QED
  BY <1>2, <1>5, StaysAt

\* The frame of a protected call, and which call it protects.
Catching(s, a, k) ==
  /\ k > 1 /\ a[k].pcall = a[k].ci /\ s.c[k].n = a[k].ci /\ s.c[k].p = a[k].nny /\ a[k].nny >= 1
  /\ (s.c[k].e = 1) = HandledBy(s.th[s.c[k].L].ci, a[k].ci - 1)
  /\ \/ s.c[k - 1].f = "host" /\ a[k].ci = 0 /\ a[k].link = 1 /\ k = 2
     \/ /\ s.c[k - 1].f = "cfunc" /\ a[k].ci >= 1 /\ Protects(s.th[s.c[k].L].ci[a[k].ci].fn)
        /\ ~s.th[s.c[k].L].ci[a[k].ci].ypcall

LEMMA CatchAt ==
  ASSUME NEW s \in Machine, NEW ch, NEW a, StackRight(s, ch, a), NEW k \in 1..Len(s.c),
         s.c[k].f = "dpcall"
  PROVE  Catching(s, a, k)
<1> DEFINE x == s.c[k]
           A == a[k]
           B == a[k - 1]
           f == s.c[k - 1].f
           ci == s.th[x.L].ci
<1>1. Len(a) = Len(s.c) /\ Len(s.c) \in Nat
  BY StackEnds
<1>2. FrameRight(s.c, a, ch, ci, k)
  BY <1>1 DEF StackRight
<1>3. k > 1 /\ <<f, "dpcall">> \in Nesting /\ A = MarkOf(x, k, B, A.ci) /\ SavedOver(x, f, B, A, ci, k)
  <2>1. k # 1
    BY <1>2 DEF FrameRight
  <2>2. <<f, x.f>> \in Nesting /\ A = MarkOf(x, k, B, A.ci) /\ Saved(s.c, a, ci, k)
    BY <1>2, <2>1 DEF FrameRight
  <2>3. k > 1
    BY <1>1, <2>1
  <2> QED
    BY <2>2, <2>3 DEF Saved
<1>4. f = "host" => B = Bottom /\ k = 2
  <2> SUFFICES ASSUME f = "host" PROVE B = Bottom /\ k = 2
    OBVIOUS
  <2>1. k - 1 \in 1..Len(s.c)
    BY <1>1, <1>3
  <2>2. FrameRight(s.c, a, ch, s.th[s.c[k - 1].L].ci, k - 1)
    BY SMTT(30), <1>1, <2>1 DEF StackRight
  <2>3. k - 1 # 1 => <<s.c[k - 1 - 1].f, f>> \in Nesting
    BY <2>2 DEF FrameRight
  <2>4. k - 1 = 1
    BY <2>3 DEF Nesting
  <2>5. B = Bottom
    BY <2>2, <2>4 DEF FrameRight
  <2> QED
    BY <2>4, <2>5
<1>5. x.f = "dpcall"
  OBVIOUS
<1> HIDE DEF x, A, B, f, ci
<1>6. f \in {"host", "cfunc"}
  BY <1>3 DEF Nesting
<1>7. A.pcall = A.ci /\ A.link = B.link
  BY <1>3, <1>5 DEF MarkOf
<1>8. /\ x.n = A.ci /\ x.p = A.nny /\ A.nny >= 1 /\ (x.e = 1) = HandledBy(ci, A.ci - 1)
      /\ f = "host" => A.ci = 0
      /\ f = "cfunc" => A.ci >= 1 /\ Protects(ci[A.ci].fn) /\ ~ci[A.ci].ypcall
  BY <1>3, <1>5 DEF SavedOver
<1>9. f = "host" => A.link = 1
  BY <1>4, <1>7 DEF Bottom
<1> QED
  BY Zenon, <1>3, <1>4, <1>6, <1>7, <1>8, <1>9 DEF Catching, x, A, B, f, ci

\* The frame of setjmp.
LEMMA TryAt ==
  ASSUME NEW s \in Machine, NEW ch, NEW a, StackRight(s, ch, a), NEW k \in 1..Len(s.c),
         s.c[k].f = "try"
  PROVE  LET A == a[k]
             B == a[k - 1]
         IN
         /\ k > 1 /\ k - 1 \in 1..Len(s.c) /\ s.c[k - 1].f \in {"dpcall", "resume"} /\ s.c[k - 1].L = s.c[k].L
         /\ A.ci = B.ci /\ A.nny = B.nny /\ A.pcall = B.pcall /\ A.link = B.link /\ A.depth = B.depth
         /\ s.c[k].n >= A.depth /\ s.c[k].p = IF s.c[k - 1].f = "dpcall" THEN B.jmp ELSE 0
         /\ k = 3 => s.c[k].n = 0
         /\ s.c[k - 1].f = "resume" => B.pcall = 0 /\ B.ci = 0 /\ B.nny = 0 /\ B.link > 1 /\ B.jmp = 0
         /\ A \in Mark /\ B \in Mark
<1> DEFINE x == s.c[k]
           A == a[k]
           B == a[k - 1]
           f == s.c[k - 1].f
           ci == s.th[x.L].ci
<1>1. Len(a) = Len(s.c) /\ Len(s.c) \in Nat
  BY StackEnds
<1>2. FrameRight(s.c, a, ch, ci, k)
  BY <1>1 DEF StackRight
<1>3. k > 1 /\ <<f, "try">> \in Nesting /\ A = MarkOf(x, k, B, A.ci) /\ SavedOver(x, f, B, A, ci, k)
  <2>1. k # 1
    BY <1>2 DEF FrameRight
  <2>2. <<f, x.f>> \in Nesting /\ A = MarkOf(x, k, B, A.ci) /\ Saved(s.c, a, ci, k)
    BY <1>2, <2>1 DEF FrameRight
  <2>3. k > 1
    BY <1>1, <2>1
  <2> QED
    BY <2>2, <2>3 DEF Saved
<1>4. k - 1 \in 1..Len(s.c) /\ k - 1 < Len(s.c) /\ (k - 1) + 1 = k
  BY <1>1, <1>3
<1>5. A \in Mark
  BY StackAt
<1>6. B \in Mark /\ s.c[k - 1].L = s.c[k].L
  <2>1. B \in Mark
    BY <1>4, StackAt
  <2>2. s.c[(k - 1) + 1].f # "resume" => s.c[k - 1].L = s.c[(k - 1) + 1].L
    BY <1>4, StackAt
  <2> QED
    BY <1>4, <2>1, <2>2
<1>7. f = "resume" => B.pcall = 0 /\ B.ci = 0 /\ B.nny = 0 /\ B.link > 1 /\ B.jmp = 0
  <2> SUFFICES ASSUME f = "resume" PROVE B.pcall = 0 /\ B.ci = 0 /\ B.nny = 0 /\ B.link > 1 /\ B.jmp = 0
    OBVIOUS
  <2> DEFINE G == a[k - 1 - 1]
  <2>1. FrameRight(s.c, a, ch, s.th[s.c[k - 1].L].ci, k - 1)
    BY SMTT(30), <1>1, <1>4 DEF StackRight
  <2>2. k - 1 # 1
    BY SMTT(30), <2>1 DEF FrameRight
  <2>3. B = MarkOf(s.c[k - 1], k - 1, G, B.ci)
    BY <2>1, <2>2 DEF FrameRight
  <2>4. k - 1 - 1 \in 1..Len(s.c)
    BY <1>1, <1>3, <2>2
  <2>5. G.link >= 1 /\ G.link \in Nat
    <3>1. G.link \in 1..Len(ch) /\ G \in Mark
      BY <2>4, StackAt
    <3> HIDE DEF G
    <3> QED
      BY <3>1, MarkIs
  <2> HIDE DEF G, B
  <2>6. B.pcall = 0 /\ B.ci = 0 /\ B.nny = 0 /\ B.link = G.link + 1 /\ B.jmp = 0
    BY <2>3 DEF MarkOf
  <2> QED
    BY <2>5, <2>6
<1>8. x.f = "try"
  OBVIOUS
<1> HIDE DEF x, A, B, f, ci
<1>9. f \in {"dpcall", "resume"}
  BY <1>3 DEF Nesting
<1>10. A.nny = B.nny /\ A.pcall = B.pcall /\ A.link = B.link /\ A.depth = B.depth
  BY <1>3, <1>8 DEF MarkOf
<1>11. A.ci = B.ci /\ x.n >= A.depth /\ (x.p = IF f = "dpcall" THEN B.jmp ELSE 0) /\ (k = 3 => x.n = 0)
  BY <1>3, <1>8 DEF SavedOver
<1> QED
  BY <1>3, <1>4, <1>5, <1>6, <1>7, <1>9, <1>10, <1>11 DEF x, A, B, f

\* What longjmp leaves.
Jumped(s, r, ch, a, b) ==
  LET J == Last(a).jmp IN
  /\ J \in 1..Len(s.c) /\ s.c[J].f = "try" /\ s.c[J].L = Last(s.c).L
  /\ a[J].link = Last(a).link /\ a[J].pcall = Last(a).pcall /\ a[J].nny <= Last(a).nny
  /\ StackRight(r, ch, b) /\ Last(r.c) = s.c[J] /\ TopF(r) = "try" /\ Len(r.c) = J /\ J > 1
  /\ r.c[J - 1] = s.c[J - 1] /\ r.c[Len(r.c) - 1] = s.c[J - 1] /\ J \in Nat

LEMMA JumpIs ==
  ASSUME NEW s \in Machine, NEW r \in Machine, NEW ch, NEW a, StackRight(s, ch, a),
         TopF(s) \in {"execute", "call", "cfunc", "errormsg"},
         r.th = s.th, r.c = SubSeq(s.c, 1, Last(a).jmp)
  PROVE  \E b : Jumped(s, r, ch, a, b)
<1> DEFINE N == Len(s.c)
           A == Last(a)
           J == A.jmp
           b == SubSeq(a, 1, J)
<1>1. N \in Nat /\ N >= 1 /\ Len(a) = N /\ A = a[N] /\ Last(s.c) = s.c[N] /\ a[N].link = Len(ch)
      /\ ch \in Seq(Threads) /\ s.c \in Seq(Frame) /\ A \in Mark /\ Last(s.c).L \in Threads /\ Len(ch) \in Nat
  BY StackEnds
<1>2. Jumps(s.c, a, N) /\ TopF(s) = s.c[N].f
  BY <1>1, TopIs DEF TopF
<1>3. /\ J <= N /\ J > 0 /\ s.c[J].f = "try"
      /\ a[J].link = A.link /\ a[J].pcall = A.pcall /\ a[J].nny <= A.nny
  BY <1>1, <1>2 DEF Jumps
<1>4. J \in 1..N
  BY <1>1, <1>3, MarkIs
<1>5. J > 1 /\ J \in Nat
  <2>1. J > 1
    BY <1>3, <1>4, TryAt
  <2> QED
    BY <1>4, <2>1
<1>6. StackRight(r, SubSeq(ch, 1, a[J].link), b)
  <2>1. \A k \in 1..J : r.th[s.c[k].L] = s.th[s.c[k].L]
    OBVIOUS
  <2> QED
    BY <1>4, <2>1, StackShrinks
<1>7. SubSeq(ch, 1, a[J].link) = ch
  <2>1. a[J].link = Len(ch)
    BY <1>1, <1>3
  <2> QED
    BY <1>1, <2>1
<1>8. s.c[J].L = Last(s.c).L
  <2>1. (s.c[J].L = Last(s.c).L) = (a[J].link = Len(ch))
    BY <1>4, StackAt
  <2> QED
    BY <1>1, <1>3, <2>1
<1> HIDE DEF J
<1>9. Len(r.c) = J /\ (\A i \in 1..J : r.c[i] = s.c[i]) /\ Last(r.c) = s.c[J]
  <2> DEFINE d == SubSeq(s.c, 1, J)
  <2>1. s.c \in Seq(Frame) /\ J \in 0..Len(s.c) /\ J >= 1
    BY <1>1, <1>4, <1>5
  <2>2. Len(d) = J /\ (\A i \in 1..J : d[i] = s.c[i]) /\ Last(d) = s.c[J]
    BY <2>1, SubSeqIs
  <2>3. r.c = d
    BY DEF J
  <2> HIDE DEF d
  <2> QED
    BY <2>2, <2>3
<1>10. r.c[J - 1] = s.c[J - 1]
  <2>1. J - 1 \in 1..J
    BY <1>5
  <2> QED
    BY <1>9, <2>1
<1>11. TopF(r) = "try"
  BY <1>3, <1>9 DEF TopF
<1> QED
  BY <1>3, <1>4, <1>5, <1>6, <1>7, <1>8, <1>9, <1>10, <1>11 DEF Jumped, J

\* Which of the calls of the thread at the top are protected, and how, when an error is thrown.
LEMMA ThrowTop ==
  ASSUME NEW s, NEW w, NEW a, TypesRight(s, w), Active(s, w, a), s.do = "throw"
  PROVE  LET A == Last(a)
             ci == Cur(s).ci
             n == Len(ci)
         IN
         /\ TopF(s) \in {"execute", "call", "cfunc", "errormsg"}
         /\ A \in Mark /\ Live(Cur(s), A) /\ A.ci \in Nat /\ A.ci <= n /\ n \in Nat /\ A.pcall \in Nat
         /\ \A i \in A.ci + 1..n : ~Protects(ci[i].fn)
         /\ \A i \in 1..n : i > A.pcall /\ Protects(ci[i].fn) => ci[i].ypcall /\ A.pcall = 0 /\ A.link > 1
         /\ \A i \in 1..n : ci[i].ypcall => Protects(ci[i].fn)
<1> DEFINE A == Last(a)
           ci == Cur(s).ci
           n == Len(ci)
<1>1. /\ s \in Machine /\ StackRight(s, w.chain, a) /\ TopRight(s, a) /\ AtWork(s)
      /\ ci \in Seq(CIs) /\ n \in Nat /\ CIsRight(ci)
  BY ActiveIs
<1>2. TopF(s) \in {"execute", "call", "cfunc", "errormsg"}
  BY <1>1 DEF AtWork
<1>3. A \in Mark /\ A.ci \in Nat /\ A.ci <= n /\ Below(TopF(s), A, ci) /\ A.pcall \in Nat
  BY <1>1, TopIs, MarkIs
<1>4. Owns(TopF(s), A, ci, n) /\ Live(Cur(s), A)
  BY <1>1 DEF TopRight
<1>5. \A i \in A.ci + 1..n : ~Protects(ci[i].fn)
  <2>1. CASE TopF(s) = "errormsg"
    <3> HIDE DEF A, n, ci
    <3>1. n = A.ci
      BY <1>4, <2>1 DEF Owns
    <3> QED
      BY <1>3, <3>1
  <2>2. CASE TopF(s) # "errormsg"
    BY <2>2, RaiseTop
  <2> QED
    BY <2>1, <2>2
<1>6. \A i \in 1..n : ci[i].ypcall => Protects(ci[i].fn)
  BY <1>1 DEF CIsRight
<1> HIDE DEF A, n, ci
<1>7. ASSUME NEW i \in 1..n, i > A.pcall, Protects(ci[i].fn)
      PROVE  ci[i].ypcall /\ A.pcall = 0 /\ A.link > 1
  <2>1. i \in 1..A.ci
    BY <1>1, <1>3, <1>5, <1>7
  <2> QED
    BY <1>3, <1>7, <2>1 DEF Below
<1> QED
  BY <1>1, <1>2, <1>3, <1>4, <1>5, <1>6, <1>7 DEF A, n, ci

Catcher(s, a) == s.c[Last(a).jmp - 1]
GoesBackTo(s, a) == IF Catcher(s, a).f = "dpcall" THEN Catcher(s, a).n ELSE LastYPCall(Cur(s).ci)

\* The luaD_pcall or the resume that catches an error finds the innermost protected call.
LEMMA CatcherIs ==
  ASSUME NEW s, NEW w, NEW a, TypesRight(s, w), Active(s, w, a), s.do = "throw",
         NEW r, NEW b, Jumped(s, r, w.chain, a, b)
  PROVE  /\ Innermost(Names(Cur(s).ci)) = GoesBackTo(s, a)
         /\ GoesBackTo(s, a) \in 0..Len(Cur(s).ci)
<1> DEFINE A == Last(a)
           ci == Cur(s).ci
           n == Len(ci)
           J == A.jmp
           x == s.c[J - 1]
           B == a[J - 1]
           l == Names(ci)
           k == Innermost(l)
<1>1. /\ s \in Machine /\ StackRight(s, w.chain, a) /\ ci \in Seq(CIs) /\ n \in Nat
      /\ Cur(s) = s.th[Last(s.c).L]
  BY ActiveIs
<1>2. /\ A \in Mark /\ A.ci \in Nat /\ A.ci <= n /\ A.pcall \in Nat
      /\ \A i \in A.ci + 1..n : ~Protects(ci[i].fn)
      /\ \A i \in 1..n : i > A.pcall /\ Protects(ci[i].fn) => ci[i].ypcall /\ A.pcall = 0 /\ A.link > 1
      /\ \A i \in 1..n : ci[i].ypcall => Protects(ci[i].fn)
  BY ThrowTop
<1>3. /\ J \in 1..Len(s.c) /\ s.c[J].f = "try" /\ s.c[J].L = Last(s.c).L
      /\ a[J].link = A.link /\ a[J].pcall = A.pcall
  BY DEF Jumped
<1>4. /\ J - 1 \in 1..Len(s.c) /\ x.f \in {"dpcall", "resume"} /\ x.L = s.c[J].L
      /\ a[J].pcall = B.pcall /\ a[J].link = B.link
      /\ x.f = "resume" => B.pcall = 0
  BY <1>1, <1>3, TryAt
<1>5. l \in Seq(Fns) /\ Len(l) = n /\ \A i \in 1..n : l[i] = ci[i].fn
  BY <1>1, NamesAre
<1>6. /\ k \in 0..n /\ (k > 0 => Protects(l[k])) /\ \A i \in k + 1..n : ~Protects(l[i])
  <2> HIDE DEF l
  <2> QED
    BY <1>5, InnermostIs
<1>7. k > 0 => Protects(ci[k].fn)
  <2> HIDE DEF l, k, n, ci
  <2> QED
    BY <1>1, <1>5, <1>6
<1>8. \A i \in k + 1..n : ~Protects(ci[i].fn)
  <2> HIDE DEF l, k, n, ci
  <2> QED
    BY <1>1, <1>5, <1>6
<1>9. x.f = "dpcall" =>
        /\ B.pcall = B.ci /\ x.n = B.ci
        /\ \/ B.ci = 0 /\ B.link = 1
           \/ B.ci >= 1 /\ Protects(ci[B.ci].fn)
  <2> SUFFICES ASSUME x.f = "dpcall"
               PROVE  /\ B.pcall = B.ci /\ x.n = B.ci
                      /\ \/ B.ci = 0 /\ B.link = 1
                         \/ B.ci >= 1 /\ Protects(ci[B.ci].fn)
    OBVIOUS
  <2> HIDE DEF J, ci
  <2> DEFINE cj == s.th[x.L].ci
  <2>1. /\ B.pcall = B.ci /\ x.n = B.ci
        /\ \/ B.ci = 0 /\ B.link = 1
           \/ B.ci >= 1 /\ Protects(cj[B.ci].fn)
    <3> DEFINE y == J - 1
    <3>1. s \in Machine /\ StackRight(s, w.chain, a) /\ y \in 1..Len(s.c) /\ s.c[y].f = "dpcall"
      BY <1>1, <1>4
    <3> HIDE DEF A, n, x, B, l, k, y
    <3>2. Catching(s, a, y)
      BY Zenon, <3>1, CatchAt
    <3>3. a[y].pcall = a[y].ci /\ s.c[y].n = a[y].ci
      BY Zenon, <3>2 DEF Catching
    <3>4. (a[y].ci = 0 /\ a[y].link = 1) \/ (a[y].ci >= 1 /\ Protects(s.th[s.c[y].L].ci[a[y].ci].fn))
      <4>1. \/ s.c[y - 1].f = "host" /\ a[y].ci = 0 /\ a[y].link = 1 /\ y = 2
            \/ /\ s.c[y - 1].f = "cfunc" /\ a[y].ci >= 1
               /\ Protects(s.th[s.c[y].L].ci[a[y].ci].fn) /\ ~s.th[s.c[y].L].ci[a[y].ci].ypcall
        BY Zenon, <3>2 DEF Catching
      <4> QED
        BY Zenon, <4>1
    <3> QED
      BY Zenon, <3>3, <3>4 DEF y, x, B
  <2>2. cj = ci
    BY <1>1, <1>3, <1>4 DEF ci
  <2> HIDE DEF x, B, cj
  <2> QED
    BY <2>1, <2>2
<1>10. GoesBackTo(s, a) = IF x.f = "dpcall" THEN x.n ELSE LastYPCall(ci)
  BY DEF GoesBackTo, Catcher
<1>11. B.ci \in Nat /\ B.ci <= n
  <2>1. B \in Mark /\ B.ci <= Len(s.th[x.L].ci)
    BY <1>1, <1>4, StackAt
  <2>2. s.th[x.L].ci = ci
    BY <1>1, <1>3, <1>4
  <2> HIDE DEF x, B, ci
  <2> QED
    BY <2>1, <2>2, MarkIs
<1>12. /\ LastYPCall(ci) \in 0..n
       /\ LastYPCall(ci) > 0 => ci[LastYPCall(ci)].ypcall
       /\ \A i \in LastYPCall(ci) + 1..n : ~ci[i].ypcall
  BY <1>1, LastYPCallIs
<1> HIDE DEF A, ci, n, J, x, B, l, k
<1>13. CASE x.f = "dpcall"
  <2>1. A.pcall = B.ci /\ A.link = B.link
    BY <1>3, <1>4, <1>9, <1>13
  <2>2. CASE B.ci = 0 /\ B.link = 1
    <3>1. \A i \in 1..n : ~Protects(ci[i].fn)
      BY <1>1, <1>2, <2>1, <2>2
    <3>2. k = 0
      BY <1>1, <1>6, <1>7, <3>1
    <3> QED
      BY <1>9, <1>10, <1>11, <1>13, <2>2, <3>2 DEF k, l, ci, n
  <2>3. CASE B.ci >= 1 /\ Protects(ci[B.ci].fn)
    <3>1. B.ci <= k
      BY <1>1, <1>6, <1>8, <1>11, <2>3
    <3>2. ~(k > B.ci)
      <4> SUFFICES ASSUME k > B.ci PROVE FALSE
        OBVIOUS
      <4>1. k \in 1..n /\ Protects(ci[k].fn)
        BY <1>1, <1>6, <1>7, <1>11
      <4>2. k > A.pcall /\ A.pcall # 0
        BY <1>11, <2>1, <2>3
      <4> QED
        BY <1>2, <4>1, <4>2
    <3>3. k = B.ci
      BY <1>6, <1>11, <3>1, <3>2
    <3>4. GoesBackTo(s, a) = k
      BY <1>9, <1>10, <1>13, <3>3
    <3> QED
      BY <1>6, <3>4 DEF k, l, ci, n
  <2> QED
    BY <1>9, <1>13, <2>2, <2>3
<1>14. CASE x.f = "resume"
  <2> DEFINE y == LastYPCall(ci)
  <2>1. A.pcall = 0
    BY <1>3, <1>4, <1>14
  <2>2. \A i \in 1..n : Protects(ci[i].fn) = ci[i].ypcall
    <3>1. ASSUME NEW i \in 1..n PROVE Protects(ci[i].fn) => ci[i].ypcall
      BY <1>2, <2>1, <3>1
    <3>2. \A i \in 1..n : ci[i].ypcall \in BOOLEAN /\ Protects(ci[i].fn) \in BOOLEAN
      <4>1. \A i \in 1..n : ci[i] \in CIs
        BY <1>1 DEF n
      <4>2. \A i \in 1..n : ci[i].ypcall \in BOOLEAN
        BY <4>1 DEF CIs
      <4>3. \A i \in 1..n : Protects(ci[i].fn) \in BOOLEAN
        BY DEF Protects
      <4> QED
        BY <4>2, <4>3
    <3> QED
      BY <1>2, <3>1, <3>2
  <2> HIDE DEF y
  <2>3. y \in 0..n /\ (y > 0 => ci[y].ypcall) /\ \A i \in y + 1..n : ~ci[i].ypcall
    BY <1>12 DEF y
  <2>4. ~(k > y)
    <3> SUFFICES ASSUME k > y PROVE FALSE
      OBVIOUS
    <3>1. k \in 1..n /\ k \in y + 1..n /\ k > 0
      BY <1>1, <1>6, <2>3
    <3> QED
      BY <1>7, <2>2, <2>3, <3>1
  <2>5. ~(y > k)
    <3> SUFFICES ASSUME y > k PROVE FALSE
      OBVIOUS
    <3>1. y \in 1..n /\ y \in k + 1..n /\ y > 0
      BY <1>1, <1>6, <2>3
    <3> QED
      BY <1>8, <2>2, <2>3, <3>1
  <2>6. k = y
    BY <1>1, <1>6, <2>3, <2>4, <2>5
  <2>7. GoesBackTo(s, a) = k
    BY <1>10, <1>14, <2>6 DEF y
  <2> QED
    BY <1>6, <2>7 DEF k, l, ci, n
<1> QED
  BY <1>4, <1>13, <1>14

LEMMA AppendFront ==
  ASSUME NEW S, NEW l \in Seq(S), Len(l) >= 1
  PROVE  Append(Front(l), Last(l)) = l /\ Front(l) \in Seq(S)
<1> DEFINE k == Front(l)
           h == Append(k, Last(l))
<1>1. l # <<>>
  OBVIOUS
<1>2. /\ k \in Seq(S) /\ Len(k) = Len(l) - 1 /\ Len(l) \in Nat
      /\ \A i \in 1..Len(l) - 1 : k[i] = l[i]
      /\ Last(l) = l[Len(l)] /\ Last(l) \in S
  BY <1>1, FrontIs
<1> HIDE DEF k
<1>3. h \in Seq(S) /\ Len(h) = Len(k) + 1 /\ (\A i \in 1..Len(k) : h[i] = k[i]) /\ h[Len(k) + 1] = Last(l)
  BY <1>2, AppendIs
<1> HIDE DEF h
<1>4. Len(h) = Len(l)
  BY <1>2, <1>3
<1>5. \A i \in 1..Len(h) : h[i] = l[i]
  BY <1>2, <1>3
<1>6. h = l
  BY <1>3, <1>4, <1>5, SameSeq
<1> QED
  BY <1>2, <1>6 DEF h, k

\* A thread ends.
LEMMA WEndIs ==
  ASSUME NEW w \in Wants, Len(w.chain) >= 1, NEW v, v = WEnd(w)
  PROVE  LET t == Last(w.chain) IN
         /\ v \in Wants /\ v.stack = w.stack /\ v.dead = w.dead \cup {t} /\ t \in Threads
         /\ v.chain = Front(w.chain) /\ Append(v.chain, t) = w.chain
<1> DEFINE t == Last(w.chain)
<1>1. /\ w = [stack |-> w.stack, chain |-> w.chain, dead |-> w.dead]
      /\ w.stack \in [Threads -> Seq(Fns)] /\ w.chain \in Seq(Threads) /\ w.dead \in SUBSET Threads
  BY WantsAre
<1>2. Append(Front(w.chain), t) = w.chain /\ Front(w.chain) \in Seq(Threads)
  BY <1>1, AppendFront
<1>3. t \in Threads
  <2>1. w.chain # <<>>
    OBVIOUS
  <2> QED
    BY <1>1, <2>1, FrontIs
<1> HIDE DEF t
<1>4. v = [stack |-> w.stack, chain |-> Front(w.chain), dead |-> w.dead \cup {t}]
  BY <1>1 DEF WEnd, t, Wants
<1>5. v \in Wants
  BY <1>1, <1>2, <1>3, <1>4 DEF Wants
<1> QED
  BY <1>2, <1>3, <1>4, <1>5 DEF t

\* The calls of a thread from the innermost protected one on are gone, or the thread ends.
LEMMA WUnwindIs ==
  ASSUME NEW w \in Wants, Len(w.chain) >= 1, NEW t, t = Last(w.chain), NEW at, at = Innermost(w.stack[t]),
         NEW v, v = WUnwind(w)
  PROVE  /\ v \in Wants /\ \A u \in Threads \ {t} : v.stack[u] = w.stack[u]
         /\ at = 0 => v.dead = w.dead \cup {t} /\ Append(v.chain, t) = w.chain
         /\ at # 0 => v.dead = w.dead /\ v.chain = w.chain /\ v.stack[t] = SubSeq(w.stack[t], 1, at)
<1>1. /\ w.stack \in [Threads -> Seq(Fns)] /\ w.chain \in Seq(Threads) /\ w.dead \in SUBSET Threads
  BY WantsAre
<1>2. t \in Threads
  <2>1. w.chain # <<>>
    OBVIOUS
  <2> QED
    BY <1>1, <2>1, FrontIs
<1>3. CASE at = 0
  <2>1. v = WEnd(w)
    BY <1>3 DEF WUnwind
  <2> QED
    BY <1>3, <2>1, WEndIs
<1>4. CASE at # 0
  <2> DEFINE l == SubSeq(w.stack[t], 1, at)
  <2>1. w.stack[t] \in Seq(Fns)
    BY <1>1, <1>2
  <2>2. at \in 0..Len(w.stack[t])
    BY <2>1, InnermostIs
  <2>3. l \in Seq(Fns)
    BY <2>1, <2>2, SubSeqIs
  <2>4. v = SetStack(w, t, l)
    BY <1>4 DEF WUnwind, SetStack
  <2> HIDE DEF l
  <2>5. WSame(w, v, t) /\ v.stack[t] = l
    BY <1>2, <2>3, <2>4, SetStackIs
  <2> QED
    BY <1>4, <2>5 DEF WSame, l
<1> QED
  BY <1>3, <1>4

LongJumps(s) == [s EXCEPT !.c = SubSeq(@, 1, Cur(s).errorJmp), !.do = "return"]

LEMMA LongJumpsIs ==
  ASSUME NEW s \in Machine, Cur(s).errorJmp \in 0..Len(s.c), NEW r, r = LongJumps(s)
  PROVE  /\ r \in Machine /\ r.th = s.th /\ r.c = SubSeq(s.c, 1, Cur(s).errorJmp) /\ r.do = "return"
         /\ r.status = s.status
<1> DEFINE d == SubSeq(s.c, 1, Cur(s).errorJmp)
<1>1. d \in Seq(Frame)
  <2>1. s.c \in Seq(Frame)
    BY MachineIs
  <2> QED
    BY <2>1, SubSeqIs
<1>2. r = [s EXCEPT !.c = d, !.do = "return"]
  BY DEF LongJumps
<1> HIDE DEF d
<1>3. r \in Machine /\ r.th = s.th /\ r.c = d /\ r.do = "return" /\ r.status = s.status
  BY <1>1, <1>2 DEF Machine, Dos
<1> QED
  BY <1>3 DEF d

\* The jump is to a frame of setjmp.
LEMMA JumpFits ==
  ASSUME NEW s \in Machine, NEW ch, NEW a, StackRight(s, ch, a),
         TopF(s) \in {"execute", "call", "cfunc", "errormsg"}
  PROVE  Last(a).jmp \in 0..Len(s.c)
<1>1. Jumps(s.c, a, Len(s.c)) /\ Last(a) \in Mark
  BY TopIs
<1>2. Last(a) = a[Len(s.c)] /\ Len(s.c) \in Nat
  BY StackEnds
<1>3. Last(a).jmp <= Len(s.c)
  BY <1>1, <1>2 DEF Jumps
<1> QED
  BY <1>1, <1>2, <1>3, MarkIs

\* luaD_throw of an error
LEMMA LongJumpErrorIs ==
  ASSUME NEW s, NEW w, NEW a, TypesRight(s, w), Active(s, w, a), s.do = "throw",
         NEW r, r = LongJumps(s), NEW v, v = WUnwind(w)
  PROVE  s.status \in Errors /\ Inv(r, v)
<1> DEFINE t == Last(s.c).L
           A == Last(a)
           ci == Cur(s).ci
           ch == w.chain
           at == GoesBackTo(s, a)
<1>1. /\ s \in Machine /\ w \in Wants /\ StackRight(s, ch, a) /\ TopRight(s, a)
      /\ AgreeBut(s, w, {}) /\ Others(s, w, ch) /\ AtWork(s)
      /\ t \in Threads /\ t = Last(ch) /\ w.stack[t] = Names(ci) /\ t \notin w.dead
      /\ Cur(s) = s.th[t] /\ ci \in Seq(CIs) /\ CIsRight(ci)
  BY ActiveIs
<1>2. Len(ch) >= 1 /\ Len(ch) \in Nat /\ ch \in Seq(Threads) /\ Linked(ch) /\ t = ch[Len(ch)]
  BY <1>1, StackEnds
<1>3. TopF(s) \in {"execute", "call", "cfunc", "errormsg"} /\ s.status \in Errors
  BY <1>1 DEF AtWork
<1>4. Live(Cur(s), A)
  BY <1>1 DEF TopRight
<1>5. A.jmp \in 0..Len(s.c) /\ Cur(s).errorJmp = A.jmp
  BY <1>1, <1>3, <1>4, JumpFits DEF Live
<1> HIDE DEF t, A, ci, ch, at
<1>6. r \in Machine /\ r.th = s.th /\ r.c = SubSeq(s.c, 1, A.jmp) /\ r.do = "return" /\ r.status = s.status
  <2>1. Cur(s).errorJmp \in 0..Len(s.c)
    BY <1>5
  <2> QED
    BY <1>1, <1>5, <2>1, LongJumpsIs
<1>7. PICK b : Jumped(s, r, ch, a, b)
  BY <1>1, <1>3, <1>6, JumpIs DEF A
<1>8. Innermost(Names(ci)) = at /\ at \in 0..Len(ci)
  BY <1>7, CatcherIs DEF ci, at, ch
<1>9. /\ v \in Wants /\ \A u \in Threads \ {t} : v.stack[u] = w.stack[u]
      /\ at = 0 => v.dead = w.dead \cup {t} /\ Append(v.chain, t) = ch
      /\ at # 0 => v.dead = w.dead /\ v.chain = ch /\ v.stack[t] = SubSeq(w.stack[t], 1, at)
  <2>1. at = Innermost(w.stack[t])
    BY <1>1, <1>8
  <2>2. Len(w.chain) >= 1 /\ t = Last(w.chain) /\ w \in Wants /\ v = WUnwind(w)
    BY <1>1, <1>2 DEF ch
  <2>3. /\ v \in Wants /\ \A u \in Threads \ {t} : v.stack[u] = w.stack[u]
        /\ at = 0 => v.dead = w.dead \cup {t} /\ Append(v.chain, t) = w.chain
        /\ at # 0 => v.dead = w.dead /\ v.chain = w.chain /\ v.stack[t] = SubSeq(w.stack[t], 1, at)
    BY <2>1, <2>2, WUnwindIs
  <2>4. w.chain = ch
    BY DEF ch
  <2>5. /\ v \in Wants
        /\ \A u \in Threads \ {t} : v.stack[u] = w.stack[u]
        /\ at # 0 => v.dead = w.dead /\ v.stack[t] = SubSeq(w.stack[t], 1, at)
    BY <2>3
  <2>6. /\ at = 0 => v.dead = w.dead \cup {t} /\ Append(v.chain, t) = ch
        /\ at # 0 => v.chain = ch
    BY <2>3, <2>4
  <2> QED
    BY <2>5, <2>6
<1>10. /\ StackRight(r, ch, b) /\ Last(r.c) = s.c[A.jmp] /\ TopF(r) = "try" /\ Last(r.c).L = t
       /\ r.c[Len(r.c) - 1] = Catcher(s, a)
  BY <1>7 DEF Jumped, Catcher, A, t
<1>11. Others(r, v, IF at = 0 THEN Append(v.chain, t) ELSE v.chain)
  <2>1. t \in ToSet(ch)
    BY <1>2 DEF ToSet
  <2>2. ASSUME NEW u \in Threads \ ToSet(ch) PROVE Resting(r.th[u], u, v.dead)
    <3>1. Resting(s.th[u], u, w.dead)
      BY <1>1 DEF Others
    <3>2. u \in v.dead <=> u \in w.dead
      BY <1>9, <2>1
    <3> QED
      BY <1>6, <3>1, <3>2 DEF Resting
  <2>3. ASSUME NEW i \in 1..Len(v.chain) PROVE v.chain[i] \notin v.dead
    <3>1. CASE at # 0
      BY <1>1, <1>9, <3>1 DEF Others, ch
    <3>2. CASE at = 0
      <4>1. v.chain \in Seq(Threads)
        BY <1>9, WantsAre
      <4>2. /\ Len(Append(v.chain, t)) = Len(v.chain) + 1 /\ Len(v.chain) \in Nat
            /\ Append(v.chain, t)[i] = v.chain[i]
        BY <1>1, <4>1, AppendIs
      <4>3. Len(ch) = Len(v.chain) + 1 /\ ch[i] = v.chain[i]
        BY <1>9, <3>2, <4>2
      <4>4. i \in 1..Len(ch) /\ i # Len(ch)
        BY <4>2, <4>3
      <4>5. ch[i] # t
        BY <1>2, <4>4 DEF Linked
      <4>6. ch[i] \notin w.dead
        BY <1>1, <4>4 DEF Others, ch
      <4> QED
        BY <1>9, <3>2, <4>3, <4>5, <4>6
    <3> QED
      BY <3>1, <3>2
  <2>4. (IF at = 0 THEN Append(v.chain, t) ELSE v.chain) = ch
    BY <1>9
  <2> QED
    BY <2>2, <2>3, <2>4 DEF Others
<1>12. AgreeBut(r, v, {t})
  <2>1. ASSUME NEW u \in Threads \ (v.dead \cup {t}) PROVE Names(r.th[u].ci) = v.stack[u]
    <3>1. u \in Threads \ w.dead /\ u # t
      BY <1>9, <2>1
    <3> QED
      BY <1>1, <1>6, <1>9, <3>1 DEF AgreeBut
  <2> QED
    BY <2>1 DEF AgreeBut
<1>13. Unwinding(r, v, b, at)
  <2>1. StackRight(r, IF at = 0 THEN Append(v.chain, t) ELSE v.chain, b)
    BY <1>9, <1>10
  <2>2. r.th[t].status = "OK" /\ ~r.th[t].body /\ r.th[t].ci = ci
    BY <1>1, <1>4, <1>6 DEF Live, ci
  <2>3. at = IF Catcher(s, a).f = "dpcall" THEN Catcher(s, a).n ELSE LastYPCall(r.th[t].ci)
    BY <2>2 DEF at, GoesBackTo, ci
  <2>4. IF at = 0 THEN t \in v.dead ELSE v.stack[t] = SubSeq(Names(r.th[t].ci), 1, at)
    BY <1>1, <1>9, <2>2
  <2>5. (IF TopF(r) = "try" THEN r.c[Len(r.c) - 1] ELSE Last(r.c)) = Catcher(s, a)
    BY <1>10
  <2> QED
    BY <1>3, <1>6, <1>10, <1>11, <1>12, <2>1, <2>2, <2>3, <2>4, <2>5 DEF Unwinding
<1>14. TypesRight(r, v)
  BY <1>6, <1>9 DEF TypesRight
<1>15. at \in Nat
  BY <1>8
<1> QED
  BY <1>3, <1>13, <1>14, <1>15 DEF Inv

-----------------------------------------------------------------------------
(* A yield on its way *)

LEMMA YieldingIs ==
  ASSUME NEW s, NEW w, NEW a, TypesRight(s, w), Yielding(s, w, a)
  PROVE  LET t == Last(s.c).L
             ch == Append(w.chain, t)
         IN
         /\ s \in Machine /\ w \in Wants /\ StackRight(s, ch, a)
         /\ AgreeBut(s, w, {}) /\ Others(s, w, ch)
         /\ Suspended(Cur(s)) /\ t \notin w.dead /\ s.status = "YIELD"
         /\ t \in Threads /\ Cur(s) = s.th[t] /\ CIsRight(Cur(s).ci) /\ Cur(s) \in Thread /\ s.c # <<>>
         /\ Last(a) \in Mark /\ Len(s.c) \in Nat
<1> DEFINE t == Last(s.c).L
           ch == Append(w.chain, t)
<1>1. /\ s \in Machine /\ w \in Wants /\ StackRight(s, ch, a)
      /\ AgreeBut(s, w, {}) /\ Others(s, w, ch)
      /\ Suspended(Cur(s)) /\ t \notin w.dead /\ s.status = "YIELD"
  BY DEF Yielding, TypesRight
<1>2. t \in Threads /\ Cur(s) \in Thread /\ Len(s.c) >= 1 /\ Last(a) \in Mark /\ Len(s.c) \in Nat
  BY <1>1, StackEnds
<1>3. Cur(s) = s.th[t] /\ CIsRight(Cur(s).ci)
  BY <1>2 DEF Cur, TypesRight
<1>4. s.c # <<>>
  BY <1>1 DEF StackRight
<1> QED
  BY <1>1, <1>2, <1>3, <1>4

\* The threads stay, the yield goes on.
LEMMA YieldGoesOn ==
  ASSUME NEW s, NEW w, NEW a, TypesRight(s, w), Yielding(s, w, a),
         NEW r \in Machine, NEW b, r.th = s.th, Last(r.c).L = Last(s.c).L,
         StackRight(r, Append(w.chain, Last(s.c).L), b), r.status = "YIELD", r.do = "return",
         TopF(r) = "try", r.c[Len(r.c) - 1].f = "resume"
  PROVE  Inv(r, w)
<1> DEFINE t == Last(s.c).L
           ch == Append(w.chain, t)
<1>1. /\ w \in Wants /\ AgreeBut(s, w, {}) /\ Others(s, w, ch)
      /\ Suspended(Cur(s)) /\ t \notin w.dead
  BY YieldingIs
<1>2. AgreeBut(r, w, {}) /\ Others(r, w, ch)
  BY <1>1 DEF AgreeBut, Others
<1>3. Suspended(Cur(r))
  BY <1>1 DEF Cur
<1>4. Yielding(r, w, b)
  BY <1>1, <1>2, <1>3 DEF Yielding
<1>5. TypesRight(r, w)
  BY <1>1 DEF TypesRight
<1> QED
  BY <1>4, <1>5 DEF Inv

\* luaD_throw of a yield finds the resume, for a protected call would not have let it begin.
LEMMA LongJumpYieldIs ==
  ASSUME NEW s, NEW w, NEW a, TypesRight(s, w), Yielding(s, w, a), s.do = "throw",
         NEW r, r = LongJumps(s)
  PROVE  s.status \notin Errors /\ Inv(r, w)
<1> DEFINE t == Last(s.c).L
           ch == Append(w.chain, t)
           J == Last(a).jmp
<1>1. s \in Machine /\ StackRight(s, ch, a) /\ s.status = "YIELD" /\ Cur(s) = s.th[t] /\ Last(a) \in Mark
      /\ Len(s.c) \in Nat
  BY YieldingIs
<1>2. TopF(s) = "cfunc" /\ Last(a).nny = 0 /\ Cur(s).errorJmp = J
  BY DEF Yielding
<1>3. J \in 0..Len(s.c)
  BY <1>1, <1>2, JumpFits
<1> HIDE DEF t, ch
<1>4. /\ r \in Machine /\ r.th = s.th /\ r.c = SubSeq(s.c, 1, J) /\ r.do = "return"
      /\ r.status = s.status
  <2>1. Cur(s).errorJmp \in 0..Len(s.c)
    BY <1>2, <1>3
  <2> QED
    BY <1>1, <1>2, <2>1, LongJumpsIs
<1>5. PICK b : Jumped(s, r, ch, a, b)
  BY <1>1, <1>2, <1>4, JumpIs
<1>6. /\ J \in 1..Len(s.c) /\ s.c[J].f = "try" /\ s.c[J].L = t
      /\ a[J].nny <= 0
      /\ StackRight(r, ch, b) /\ Last(r.c) = s.c[J] /\ TopF(r) = "try" /\ Len(r.c) = J
      /\ r.c[Len(r.c) - 1] = s.c[J - 1] /\ J \in Nat
  BY <1>2, <1>5 DEF Jumped, t
<1> HIDE DEF J
<1>7. /\ J > 1 /\ J - 1 \in 1..Len(s.c) /\ s.c[J - 1].f \in {"dpcall", "resume"}
      /\ a[J].nny = a[J - 1].nny /\ a[J - 1] \in Mark
  BY <1>1, <1>6, TryAt
<1>8. s.c[J - 1].f # "dpcall"
  <2> SUFFICES ASSUME s.c[J - 1].f = "dpcall" PROVE FALSE
    OBVIOUS
  <2> DEFINE y == J - 1
  <2>1. y \in 1..Len(s.c) /\ s.c[y].f = "dpcall"
    BY <1>7
  <2> HIDE DEF y
  <2>2. a[y].nny >= 1
    BY Zenon, <1>1, <2>1, CatchAt DEF Catching
  <2>3. a[J - 1].nny >= 1
    BY <2>2 DEF y
  <2>4. a[J - 1].nny \in Nat
    BY <1>7, MarkIs
  <2> QED
    BY <1>6, <1>7, <2>3, <2>4
<1>9. r.c[Len(r.c) - 1].f = "resume"
  BY <1>6, <1>7, <1>8
<1>10. Inv(r, w)
  <2>1. Last(r.c).L = Last(s.c).L
    BY <1>6 DEF t
  <2>2. StackRight(r, Append(w.chain, Last(s.c).L), b)
    BY <1>6 DEF ch, t
  <2>3. r.status = "YIELD"
    BY <1>1, <1>4
  <2> QED
    BY <1>4, <1>6, <1>9, <2>1, <2>2, <2>3, YieldGoesOn
<1> QED
  BY <1>1, <1>10 DEF Errors

-----------------------------------------------------------------------------
(* A resume that is refused *)

LEMMA ThreadSame ==
  ASSUME NEW x \in Thread, NEW y \in Thread,
         x.ci = y.ci, x.status = y.status, x.nny = y.nny, x.nCcalls = y.nCcalls,
         x.errorJmp = y.errorJmp, x.errfunc = y.errfunc, x.body = y.body
  PROVE  x = y
  BY DEF Thread

LEMMA ThreadsSame ==
  ASSUME NEW x \in [Threads -> Thread], NEW y \in [Threads -> Thread], NEW t \in Threads,
         \A u \in Threads \ {t} : x[u] = y[u], x[t] = y[t]
  PROVE  x = y
  OBVIOUS

\* The thread co with what lua_resume makes of it.
Resumes(x, n, c, j) == [x EXCEPT !.nny = n, !.nCcalls = c, !.errorJmp = j]

LEMMA ResumesIs ==
  ASSUME NEW x \in Thread, NEW n \in Nat, NEW c \in Int, NEW j \in Nat
  PROVE  LET y == Resumes(x, n, c, j) IN
         /\ y \in Thread /\ y.nny = n /\ y.nCcalls = c /\ y.errorJmp = j
         /\ y.ci = x.ci /\ y.status = x.status /\ y.errfunc = x.errfunc /\ y.body = x.body
  BY Zenon DEF Resumes, Thread

\* What a refused resume has done to the machine s.
RefusedAt(s, r, N, co, old) ==
  /\ s \in Machine /\ N = Len(s.c) /\ N \in Nat /\ co \in Threads /\ old = s.th[co] /\ old \in Thread
  /\ s.do = "return" /\ s.status = "ERRRUN" /\ TopF(s) = "cfunc" /\ old.nCcalls = Cur(s).nCcalls
  /\ r \in Machine /\ r.status = "REFUSED" /\ Last(r.c).L = co
  /\ \A u \in Threads \ {co} : r.th[u] = s.th[u]

LEMMA RefusedIs ==
  ASSUME NEW r, NEW s \in Machine, NEW w, TypesRight(r, w), Refused(r, s), NEW ch, NEW a, StackRight(s, ch, a)
  PROVE  LET co == Last(r.c).L
             N == Len(s.c)
             old == s.th[co]
             x == FrameOf("resume", co, old.nny, 0, 0)
             y == FrameOf("try", co, old.nCcalls + 1, old.errorJmp, 0)
         IN
         /\ RefusedAt(s, r, N, co, old)
         /\ x \in Frame /\ y \in Frame
         /\ \/ /\ r.do \in {"throw", "return"} /\ TopF(r) = "try"
               /\ r.c = Append(Append(s.c, x), y)
               /\ r.th[co] = Resumes(old, 0, old.nCcalls + 1, N + 2)
            \/ /\ r.do = "return" /\ TopF(r) = "resume"
               /\ r.c = Append(s.c, x)
               /\ r.th[co] = Resumes(old, 0, old.nCcalls + 1, old.errorJmp)
<1> DEFINE co == Last(r.c).L
           N == Len(s.c)
           old == s.th[co]
           x == FrameOf("resume", co, old.nny, 0, 0)
           y == FrameOf("try", co, old.nCcalls + 1, old.errorJmp, 0)
<1>1. r \in Machine /\ N \in Nat /\ s.c \in Seq(Frame) /\ r.c \in Seq(Frame)
      /\ r.th \in [Threads -> Thread] /\ s.th \in [Threads -> Thread]
  BY StackEnds, MachineIs DEF TypesRight
<1>2. /\ s.do = "return" /\ s.status = "ERRRUN" /\ TopF(s) = "cfunc"
      /\ old.nCcalls = Cur(s).nCcalls /\ r.status = "REFUSED"
  BY Zenon DEF Refused
<1>3. \/ /\ r.do \in {"throw", "return"}
         /\ r.c = Append(Append(s.c, x), y)
         /\ r.th = [s.th EXCEPT ![co].nny = 0, ![co].nCcalls = @ + 1, ![co].errorJmp = N + 2]
      \/ /\ r.do = "return"
         /\ r.c = Append(s.c, x)
         /\ r.th = [s.th EXCEPT ![co].nny = 0, ![co].nCcalls = @ + 1]
  BY Zenon DEF Refused, FrameOf
<1>4. r.c # <<>>
  <2>1. Len(Append(Append(s.c, x), y)) = N + 2 /\ Len(Append(s.c, x)) = N + 1
    BY <1>1, AppendLast
  <2>2. r.c = Append(Append(s.c, x), y) \/ r.c = Append(s.c, x)
    BY Zenon, <1>3
  <2>3. Len(r.c) = N + 2 \/ Len(r.c) = N + 1
    BY <2>1, <2>2
  <2> HIDE DEF x, y, co, old, N
  <2>4. Len(r.c) # 0
    BY <1>1, <2>3
  <2> QED
    BY <2>4, NotEmpty
<1>5. co \in Threads
  <2>1. Last(r.c) \in Frame
    BY <1>1, <1>4, FrontIs
  <2> QED
    BY <2>1 DEF Frame
<1>6. old \in Thread
  BY <1>1, <1>5
<1>7. old.nny \in Nat /\ old.nCcalls \in Int /\ old.errorJmp \in Nat
  <2> HIDE DEF old
  <2> QED
    BY <1>6, ThreadIs
<1>8. x \in Frame /\ y \in Frame /\ x.f = "resume" /\ y.f = "try"
  <2>1. "resume" \in FrameKinds /\ "try" \in FrameKinds /\ 0 \in Nat /\ 0 \in {0, 1}
        /\ old.nny \in Int /\ old.nCcalls + 1 \in Int
    BY <1>7 DEF FrameKinds
  <2> HIDE DEF old, co
  <2> QED
    BY <1>5, <1>7, <2>1, FrameOfIs
<1>9. \A u \in Threads \ {co} : r.th[u] = s.th[u]
  <2> HIDE DEF old, co, x, y
  <2> QED
    BY <1>1, <1>3, <1>5
<1>10. CASE /\ r.do \in {"throw", "return"}
            /\ r.c = Append(Append(s.c, x), y)
            /\ r.th = [s.th EXCEPT ![co].nny = 0, ![co].nCcalls = @ + 1, ![co].errorJmp = N + 2]
  <2>1. TopF(r) = "try"
    <3> HIDE DEF co, old, N, x, y
    <3>1. r.c = Append(Append(s.c, x), y)
      BY <1>10
    <3>2. Last(r.c) = y
      BY <1>1, <3>1, AppendLast
    <3> QED
      BY <1>8, <3>2 DEF TopF
  <2>2. r.th[co] = Resumes(old, 0, old.nCcalls + 1, N + 2)
    <3> HIDE DEF co, x, y
    <3>1. r.th[co] = [old EXCEPT !.nny = 0, !.nCcalls = @ + 1, !.errorJmp = N + 2]
      BY Zenon, <1>1, <1>5, <1>10
    <3> HIDE DEF old
    <3> QED
      BY <1>6, <3>1 DEF Resumes, Thread
  <2> QED
    BY Zenon, <1>1, <1>2, <1>5, <1>6, <1>8, <1>9, <1>10, <2>1, <2>2 DEF RefusedAt
<1>11. CASE /\ r.do = "return"
            /\ r.c = Append(s.c, x)
            /\ r.th = [s.th EXCEPT ![co].nny = 0, ![co].nCcalls = @ + 1]
  <2>1. TopF(r) = "resume"
    <3> HIDE DEF co, old, N, x, y
    <3>1. r.c = Append(s.c, x)
      BY <1>11
    <3>2. Last(r.c) = x
      BY <1>1, <1>8, <3>1, AppendIs
    <3> QED
      BY <1>8, <3>2 DEF TopF
  <2>2. r.th[co] = Resumes(old, 0, old.nCcalls + 1, old.errorJmp)
    <3> HIDE DEF co, x, y
    <3>1. r.th[co] = [old EXCEPT !.nny = 0, !.nCcalls = @ + 1]
      BY <1>1, <1>5, <1>11
    <3> HIDE DEF old
    <3> QED
      BY <1>6, <3>1 DEF Resumes, Thread
  <2> QED
    BY Zenon, <1>1, <1>2, <1>5, <1>6, <1>8, <1>9, <1>11, <2>1, <2>2 DEF RefusedAt
<1> QED
  BY Zenon, <1>3, <1>10, <1>11

\* The frames of a resume that is refused.
ResumeFrame(t, n) == FrameOf("resume", t, n, 0, 0)

\* A machine in which a resume of co is refused; s is what follows.
RefusedMakes(s, q, co) ==
  LET N   == Len(s.c)
      old == s.th[co]
      x   == ResumeFrame(co, old.nny)
      y   == TryFrame(co, old.nCcalls + 1, old.errorJmp)
  IN
  /\ s \in Machine /\ q \in Machine /\ co \in Threads /\ N \in Nat
  /\ s.do = "return" /\ s.status = "ERRRUN" /\ TopF(s) = "cfunc" /\ old.nCcalls = Cur(s).nCcalls
  /\ q.status = "REFUSED"
  /\ \A u \in Threads \ {co} : q.th[u] = s.th[u]
  /\ \/ /\ q.do \in {"throw", "return"}
        /\ q.c = Append(Append(s.c, x), y)
        /\ q.th[co] = Resumes(old, 0, old.nCcalls + 1, N + 2)
     \/ /\ q.do = "return"
        /\ q.c = Append(s.c, x)
        /\ q.th[co] = Resumes(old, 0, old.nCcalls + 1, old.errorJmp)

LEMMA RefusedMade ==
  ASSUME NEW s, NEW q, NEW co, RefusedMakes(s, q, co), NEW w, NEW a, Active(s, w, a), TypesRight(s, w)
  PROVE  Inv(q, w)
<1> DEFINE N   == Len(s.c)
           old == s.th[co]
           x   == ResumeFrame(co, old.nny)
           y   == TryFrame(co, old.nCcalls + 1, old.errorJmp)
<1>1. /\ s \in Machine /\ q \in Machine /\ co \in Threads /\ N \in Nat
      /\ s.do = "return" /\ s.status = "ERRRUN" /\ TopF(s) = "cfunc" /\ old.nCcalls = Cur(s).nCcalls
      /\ q.status = "REFUSED" /\ \A u \in Threads \ {co} : q.th[u] = s.th[u]
  BY DEF RefusedMakes
<1>2. \/ /\ q.do \in {"throw", "return"}
         /\ q.c = Append(Append(s.c, x), y)
         /\ q.th[co] = Resumes(old, 0, old.nCcalls + 1, N + 2)
      \/ /\ q.do = "return"
         /\ q.c = Append(s.c, x)
         /\ q.th[co] = Resumes(old, 0, old.nCcalls + 1, old.errorJmp)
  BY DEF RefusedMakes
<1>3. s.th \in [Threads -> Thread] /\ q.th \in [Threads -> Thread] /\ s.c \in Seq(Frame) /\ old \in Thread
  BY <1>1, MachineIs
<1>4. x = [f |-> "resume", L |-> co, n |-> old.nny, p |-> 0, e |-> 0]
      /\ y = [f |-> "try", L |-> co, n |-> old.nCcalls + 1, p |-> old.errorJmp, e |-> 0]
  BY DEF ResumeFrame, TryFrame, FrameOf
<1>5. x.L = co /\ y.L = co
  BY <1>4
<1>6. old.nny \in Nat /\ old.nCcalls \in Int /\ old.errorJmp \in Nat
  <2> HIDE DEF old
  <2> QED
    BY <1>3, ThreadIs
<1>7. x \in Frame /\ y \in Frame
  <2>1. "resume" \in FrameKinds /\ "try" \in FrameKinds /\ 0 \in Nat /\ 0 \in {0, 1}
        /\ old.nny \in Int /\ old.nCcalls + 1 \in Int
    BY <1>6 DEF FrameKinds
  <2> HIDE DEF old
  <2> QED
    BY <1>1, <1>6, <2>1, FrameOfIs DEF ResumeFrame, TryFrame
<1> HIDE DEF x, y
<1>8. q.th[co].ci = old.ci
  <2> HIDE DEF old, N
  <2>1. 0 \in Nat /\ N + 2 \in Nat /\ old.nCcalls + 1 \in Int
    BY <1>1, <1>6
  <2> QED
    BY <1>2, <1>3, <1>6, <2>1, ResumesIs
<1>9. TypesRight(q, w)
  <2>1. \A t \in Threads : CIsRight(s.th[t].ci) /\ w \in Wants
    BY DEF TypesRight
  <2>2. \A t \in Threads : q.th[t].ci = s.th[t].ci
    BY <1>1, <1>8
  <2> QED
    BY <1>1, <2>1, <2>2 DEF TypesRight
<1>10. CASE /\ q.do \in {"throw", "return"}
            /\ q.c = Append(Append(s.c, x), y)
            /\ q.th[co] = Resumes(old, 0, old.nCcalls + 1, N + 2)
  <2> DEFINE f == [s.th EXCEPT ![co].nny = 0, ![co].nCcalls = @ + 1, ![co].errorJmp = N + 2]
  <2>1. Last(q.c).L = co
    BY <1>3, <1>5, <1>7, <1>10, AppendLast
  <2>2. f[co] = Resumes(old, 0, old.nCcalls + 1, N + 2)
    <3>1. f[co] = [old EXCEPT !.nny = 0, !.nCcalls = @ + 1, !.errorJmp = N + 2]
      BY <1>1, <1>3
    <3> HIDE DEF old, f
    <3> QED
      BY <1>3, <3>1 DEF Resumes, Thread
  <2>3. \A u \in Threads \ {co} : f[u] = s.th[u]
    BY <1>3
  <2>4. f = [u \in Threads |-> f[u]]
    BY <1>3
  <2>5. q.th = [u \in Threads |-> q.th[u]]
    BY <1>3
  <2>6. \A u \in Threads : q.th[u] = f[u]
    <3> HIDE DEF f, old
    <3> QED
      BY <1>1, <1>10, <2>2, <2>3
  <2>7. q.th = f
    <3> HIDE DEF f
    <3> QED
      BY <2>4, <2>5, <2>6
  <2>8. Refused(q, s)
    BY Zenon, <1>1, <1>4, <1>10, <2>1, <2>7 DEF Refused
  <2> QED
    BY <1>1, <1>9, <2>8 DEF Inv
<1>11. CASE /\ q.do = "return"
            /\ q.c = Append(s.c, x)
            /\ q.th[co] = Resumes(old, 0, old.nCcalls + 1, old.errorJmp)
  <2> DEFINE f == [s.th EXCEPT ![co].nny = 0, ![co].nCcalls = @ + 1]
  <2>1. Last(q.c).L = co
    BY <1>3, <1>5, <1>7, <1>11, AppendIs
  <2>2. f[co] = Resumes(old, 0, old.nCcalls + 1, old.errorJmp)
    <3>1. f[co] = [old EXCEPT !.nny = 0, !.nCcalls = @ + 1]
      BY <1>1, <1>3
    <3> HIDE DEF old, f
    <3> QED
      BY <1>3, <3>1 DEF Resumes, Thread
  <2>3. \A u \in Threads \ {co} : f[u] = s.th[u]
    BY <1>3
  <2>4. f = [u \in Threads |-> f[u]]
    BY <1>3
  <2>5. q.th = [u \in Threads |-> q.th[u]]
    BY <1>3
  <2>6. \A u \in Threads : q.th[u] = f[u]
    <3> HIDE DEF f, old
    <3> QED
      BY <1>1, <1>11, <2>2, <2>3
  <2>7. q.th = f
    <3> HIDE DEF f
    <3> QED
      BY <2>4, <2>5, <2>6
  <2>8. Refused(q, s)
    BY Zenon, <1>1, <1>4, <1>11, <2>1, <2>7 DEF Refused
  <2> QED
    BY <1>1, <1>9, <2>8 DEF Inv
<1> QED
  BY <1>2, <1>10, <1>11

LEMMA RefusedTypes ==
  ASSUME NEW r, NEW w, TypesRight(r, w), NEW s \in Machine, NEW a, Active(s, w, a), Refused(r, s)
  PROVE  /\ TypesRight(s, w) /\ StackRight(s, w.chain, a)
         /\ RefusedAt(s, r, Len(s.c), Last(r.c).L, s.th[Last(r.c).L])
<1> DEFINE co == Last(r.c).L
           N == Len(s.c)
           old == s.th[co]
<1>1. StackRight(s, w.chain, a)
  BY DEF Active
<1>2. /\ RefusedAt(s, r, N, co, old)
      /\ \/ r.th[co] = Resumes(old, 0, old.nCcalls + 1, N + 2)
         \/ r.th[co] = Resumes(old, 0, old.nCcalls + 1, old.errorJmp)
  BY <1>1, RefusedIs
<1>3. old \in Thread /\ N \in Nat /\ \A u \in Threads \ {co} : r.th[u] = s.th[u]
  BY <1>2 DEF RefusedAt
<1> HIDE DEF co, old, N
<1>4. r.th[co].ci = old.ci
  <2>1. 0 \in Nat /\ N + 2 \in Nat
    BY <1>3
  <2>2. old.nCcalls + 1 \in Int /\ old.errorJmp \in Nat
    BY <1>3, ThreadIs
  <2> QED
    BY <1>2, <1>3, <2>1, <2>2, ResumesIs
<1>5. \A t \in Threads : CIsRight(s.th[t].ci)
  BY <1>3, <1>4 DEF TypesRight, old
<1> QED
  BY <1>1, <1>2, <1>5 DEF TypesRight, co, old, N

\* luaD_throw of a refusal, straight to the resume
LEMMA LongJumpRefusedIs ==
  ASSUME NEW r, NEW w, TypesRight(r, w), NEW s \in Machine, NEW a, Active(s, w, a), Refused(r, s),
         r.do = "throw", NEW q, q = LongJumps(r)
  PROVE  r.status \notin Errors /\ Inv(q, w)
<1> DEFINE co == Last(r.c).L
           N == Len(s.c)
           old == s.th[co]
           x == FrameOf("resume", co, old.nny, 0, 0)
           y == FrameOf("try", co, old.nCcalls + 1, old.errorJmp, 0)
<1>1. TypesRight(s, w) /\ StackRight(s, w.chain, a) /\ RefusedAt(s, r, N, co, old)
  BY RefusedTypes
<1>2. /\ x \in Frame /\ y \in Frame /\ TopF(r) = "try" /\ r.c = Append(Append(s.c, x), y)
      /\ r.th[co] = Resumes(old, 0, old.nCcalls + 1, N + 2)
  BY <1>1, RefusedIs
<1>3. /\ s \in Machine /\ N \in Nat /\ co \in Threads /\ old \in Thread /\ r \in Machine /\ r.status = "REFUSED"
      /\ s.do = "return" /\ s.status = "ERRRUN" /\ TopF(s) = "cfunc" /\ old.nCcalls = Cur(s).nCcalls
      /\ \A u \in Threads \ {co} : r.th[u] = s.th[u]
  BY <1>1 DEF RefusedAt
<1>4. s.c \in Seq(Frame) /\ r.c \in Seq(Frame)
  BY <1>3, MachineIs
<1> HIDE DEF x, y
<1>5. Len(r.c) = N + 2
  BY <1>2, <1>4, AppendLast
<1>6. Cur(r).errorJmp = N + 2
  <2>1. 0 \in Nat /\ N + 2 \in Nat
    BY <1>3
  <2> HIDE DEF N
  <2>2. Cur(r) = Resumes(old, 0, old.nCcalls + 1, N + 2)
    BY <1>2 DEF Cur
  <2> HIDE DEF old, co
  <2>3. old.nCcalls + 1 \in Int
    BY <1>3, ThreadIs
  <2> QED
    BY <1>3, <2>1, <2>2, <2>3, ResumesIs
<1>7. /\ q \in Machine /\ q.th = r.th /\ q.c = SubSeq(r.c, 1, N + 2) /\ q.do = "return"
      /\ q.status = r.status
  <2>1. Cur(r).errorJmp \in 0..Len(r.c)
    BY <1>3, <1>5, <1>6
  <2> HIDE DEF N, co, old
  <2> QED
    BY <1>3, <1>6, <2>1, LongJumpsIs
<1>8. q.c = r.c
  <2> DEFINE k == SubSeq(r.c, 1, N + 2)
  <2>1. N + 2 \in 0..Len(r.c)
    BY <1>3, <1>5
  <2>2. k \in Seq(Frame) /\ Len(k) = N + 2 /\ \A i \in 1..N + 2 : k[i] = r.c[i]
    BY <1>4, <2>1, SubSeqIs
  <2> HIDE DEF k, N
  <2>3. k = r.c
    BY <1>4, <1>5, <2>2, SameSeq
  <2> QED
    BY <1>7, <2>3 DEF k
<1>9. RefusedMakes(s, q, co)
  <2>1. x = ResumeFrame(co, old.nny) /\ y = TryFrame(co, old.nCcalls + 1, old.errorJmp)
    BY DEF x, y, ResumeFrame, TryFrame
  <2>2. /\ q.do \in {"throw", "return"}
        /\ q.c = Append(Append(s.c, x), y)
        /\ q.th[co] = Resumes(old, 0, old.nCcalls + 1, N + 2)
    BY <1>2, <1>7, <1>8
  <2>3. q.status = "REFUSED" /\ \A u \in Threads \ {co} : q.th[u] = s.th[u]
    BY <1>3, <1>7
  <2> QED
    BY <1>3, <1>7, <2>1, <2>2, <2>3 DEF RefusedMakes
<1>10. Inv(q, w)
  BY <1>1, <1>9, RefusedMade
<1> QED
  BY <1>3, <1>10 DEF Errors

\* luaD_rawrunprotected of a refusal
LEMMA ReturnToTryRefusedIs ==
  ASSUME NEW r, NEW w, TypesRight(r, w), NEW s \in Machine, NEW a, Active(s, w, a), Refused(r, s),
         r.do = "return", TopF(r) = "try",
         NEW q, q = Leave(SetCCalls(SetJmp(r, Last(r.c).L, Last(r.c).p), Last(r.c).L, Last(r.c).n), r.status)
  PROVE  Inv(q, w)
<1> DEFINE co == Last(r.c).L
           N == Len(s.c)
           old == s.th[co]
           x == FrameOf("resume", co, old.nny, 0, 0)
           y == FrameOf("try", co, old.nCcalls + 1, old.errorJmp, 0)
           g == SetJmp(r, co, Last(r.c).p)
           h == SetCCalls(g, co, Last(r.c).n)
<1>1. TypesRight(s, w) /\ StackRight(s, w.chain, a) /\ RefusedAt(s, r, N, co, old)
  BY RefusedTypes
<1>2. /\ x \in Frame /\ y \in Frame /\ r.c = Append(Append(s.c, x), y)
      /\ r.th[co] = Resumes(old, 0, old.nCcalls + 1, N + 2)
  BY <1>1, RefusedIs
<1>3. /\ s \in Machine /\ N \in Nat /\ co \in Threads /\ old \in Thread /\ r \in Machine /\ r.status = "REFUSED"
      /\ s.do = "return" /\ s.status = "ERRRUN" /\ TopF(s) = "cfunc" /\ old.nCcalls = Cur(s).nCcalls
      /\ \A u \in Threads \ {co} : r.th[u] = s.th[u]
  BY <1>1 DEF RefusedAt
<1>4. s.c \in Seq(Frame) /\ r.c \in Seq(Frame) /\ r.th \in [Threads -> Thread]
  BY <1>3, MachineIs
<1>5. y.n = old.nCcalls + 1 /\ y.p = old.errorJmp
  BY DEF FrameOf
<1> HIDE DEF x, y
<1>6. Last(r.c) = y /\ Front(r.c) = Append(s.c, x) /\ r.c # <<>>
  <2> DEFINE z == Append(s.c, x)
  <2>1. z \in Seq(Frame)
    BY <1>2, <1>4, AppendIs
  <2>2. r.c = Append(z, y) /\ y \in Frame
    BY <1>2
  <2> HIDE DEF z
  <2>3. Last(r.c) = y /\ Front(r.c) = z /\ r.c # <<>>
    BY <2>1, <2>2, AppendIs
  <2> QED
    BY <2>3 DEF z
<1>7. old.nCcalls + 1 \in Int /\ old.errorJmp \in Nat /\ old.nny \in Nat
  <2> HIDE DEF old
  <2> QED
    BY <1>3, ThreadIs
<1>8. Last(r.c).p \in Nat /\ Last(r.c).n \in Int
  BY <1>5, <1>6, <1>7
<1> HIDE DEF co, N, old
<1>9. /\ OneThread(r, g, co) /\ g.th[co] \in Thread /\ g.th[co].errorJmp = Last(r.c).p
      /\ g.th[co].ci = r.th[co].ci /\ g.th[co].status = r.th[co].status /\ g.th[co].nny = r.th[co].nny
      /\ g.th[co].nCcalls = r.th[co].nCcalls /\ g.th[co].errfunc = r.th[co].errfunc
      /\ g.th[co].body = r.th[co].body
  BY <1>3, <1>8, SetJmpIs
<1> HIDE DEF g
<1>10. g \in Machine /\ g.c = r.c /\ \A u \in Threads \ {co} : g.th[u] = r.th[u]
  BY <1>9 DEF OneThread
<1>11. /\ OneThread(g, h, co) /\ h.th[co] \in Thread /\ h.th[co].nCcalls = Last(r.c).n
       /\ h.th[co].ci = g.th[co].ci /\ h.th[co].status = g.th[co].status /\ h.th[co].nny = g.th[co].nny
       /\ h.th[co].errorJmp = g.th[co].errorJmp /\ h.th[co].errfunc = g.th[co].errfunc
       /\ h.th[co].body = g.th[co].body
  BY <1>3, <1>8, <1>10, SetCCallsIs
<1>12. q = Leave(h, r.status)
  BY DEF h, g, co
<1> HIDE DEF h
<1>13. h \in Machine /\ h.c = r.c /\ \A u \in Threads \ {co} : h.th[u] = r.th[u]
  BY <1>10, <1>11 DEF OneThread
<1>14. q \in Machine /\ q.th = h.th /\ q.c = Front(r.c) /\ q.do = "return" /\ q.status = "REFUSED"
  <2>1. "REFUSED" \in Statuses /\ h.c # <<>>
    BY <1>6, <1>13 DEF Statuses
  <2> QED
    BY <1>3, <1>12, <1>13, <2>1, LeaveIs
<1>15. h.th[co] = Resumes(old, 0, old.nCcalls + 1, old.errorJmp)
  <2> DEFINE z == Resumes(old, 0, old.nCcalls + 1, N + 2)
             v == Resumes(old, 0, old.nCcalls + 1, old.errorJmp)
  <2>1. 0 \in Nat /\ N + 2 \in Nat
    BY <1>3
  <2>2. /\ z \in Thread /\ z.nny = 0 /\ z.nCcalls = old.nCcalls + 1 /\ z.ci = old.ci
        /\ z.status = old.status /\ z.errfunc = old.errfunc /\ z.body = old.body
    BY <1>3, <1>7, <2>1, ResumesIs
  <2>3. /\ v \in Thread /\ v.nny = 0 /\ v.nCcalls = old.nCcalls + 1 /\ v.errorJmp = old.errorJmp
        /\ v.ci = old.ci /\ v.status = old.status /\ v.errfunc = old.errfunc /\ v.body = old.body
    BY <1>3, <1>7, <2>1, ResumesIs
  <2>4. r.th[co] = z
    BY <1>2
  <2> HIDE DEF z, v
  <2>5. h.th[co].errorJmp = old.errorJmp /\ h.th[co].nCcalls = old.nCcalls + 1
    BY <1>5, <1>6, <1>9, <1>11
  <2>6. /\ h.th[co].ci = v.ci /\ h.th[co].status = v.status /\ h.th[co].nny = v.nny
        /\ h.th[co].errfunc = v.errfunc /\ h.th[co].body = v.body
    BY <1>9, <1>11, <2>2, <2>3, <2>4
  <2>7. h.th[co] = v
    BY <1>11, <2>3, <2>5, <2>6, ThreadSame
  <2> QED
    BY <2>7 DEF v
<1>16. RefusedMakes(s, q, co)
  <2>1. x = ResumeFrame(co, old.nny)
    BY DEF x, ResumeFrame
  <2>2. q.c = Append(s.c, x) /\ q.th[co] = Resumes(old, 0, old.nCcalls + 1, old.errorJmp)
    BY <1>6, <1>14, <1>15
  <2>3. \A u \in Threads \ {co} : q.th[u] = s.th[u]
    BY <1>3, <1>13, <1>14
  <2> QED
    BY Zenon, <1>3, <1>14, <2>1, <2>2, <2>3 DEF RefusedMakes, N, old
<1> QED
  BY <1>1, <1>16, RefusedMade

EndsResume(s, t, n, v) ==
  [s EXCEPT !.th[t].nny = n, !.th[t].nCcalls = @ - 1, !.th[t].status = IF v \in Errors THEN v ELSE @]

LEMMA EndsResumeIs ==
  ASSUME NEW s \in Machine, NEW t \in Threads, NEW n \in Nat, NEW v \in Statuses,
         NEW r, r = EndsResume(s, t, n, v)
  PROVE  LET o == s.th[t]
             y == r.th[t]
         IN  /\ OneThread(s, r, t) /\ y \in Thread /\ y.nny = n /\ y.nCcalls = o.nCcalls - 1
             /\ y.status = IF v \in Errors THEN v ELSE o.status
             /\ y.ci = o.ci /\ y.errorJmp = o.errorJmp /\ y.errfunc = o.errfunc /\ y.body = o.body
<1> DEFINE o == s.th[t]
           x == [o EXCEPT !.nny = n, !.nCcalls = @ - 1, !.status = IF v \in Errors THEN v ELSE @]
<1>1. s.th \in [Threads -> Thread] /\ o \in Thread
  BY MachineIs
<1>2. o.nCcalls - 1 \in Int /\ (IF v \in Errors THEN v ELSE o.status) \in Statuses
  <2> HIDE DEF o
  <2> QED
    BY <1>1, ThreadIs
<1>3. x \in Thread /\ x.nny = n /\ x.nCcalls = o.nCcalls - 1
      /\ x.status = (IF v \in Errors THEN v ELSE o.status)
      /\ x.ci = o.ci /\ x.errorJmp = o.errorJmp /\ x.errfunc = o.errfunc /\ x.body = o.body
  <2> HIDE DEF o
  <2> QED
    BY <1>1, <1>2 DEF Thread
<1>4. r = [s EXCEPT !.th[t] = x]
  BY <1>1 DEF EndsResume, Machine
<1> HIDE DEF x
<1>5. OneThread(s, r, t) /\ r.th[t] = x
  BY <1>3, <1>4, SetIs
<1> QED
  BY <1>3, <1>5

\* The end of a resume that is refused
LEMMA ReturnToResumeRefusedIs ==
  ASSUME NEW r, NEW w, TypesRight(r, w), NEW s \in Machine, NEW a, Active(s, w, a), Refused(r, s),
         r.do = "return", TopF(r) = "resume",
         NEW q, q = Leave(EndsResume(r, Last(r.c).L, Last(r.c).n, r.status), "ERRRUN")
  PROVE  r.status = "REFUSED" /\ Inv(q, w)
<1> DEFINE co == Last(r.c).L
           N == Len(s.c)
           old == s.th[co]
           x == FrameOf("resume", co, old.nny, 0, 0)
           h == EndsResume(r, co, Last(r.c).n, r.status)
<1>1. TypesRight(s, w) /\ StackRight(s, w.chain, a) /\ RefusedAt(s, r, N, co, old)
  BY RefusedTypes
<1>2. /\ x \in Frame /\ r.c = Append(s.c, x)
      /\ r.th[co] = Resumes(old, 0, old.nCcalls + 1, old.errorJmp)
  BY <1>1, RefusedIs
<1>3. /\ s \in Machine /\ N \in Nat /\ co \in Threads /\ old \in Thread /\ r \in Machine /\ r.status = "REFUSED"
      /\ s.do = "return" /\ s.status = "ERRRUN" /\ TopF(s) = "cfunc" /\ old.nCcalls = Cur(s).nCcalls
      /\ \A u \in Threads \ {co} : r.th[u] = s.th[u]
  BY <1>1 DEF RefusedAt
<1>4. s.c \in Seq(Frame) /\ r.c \in Seq(Frame) /\ r.th \in [Threads -> Thread]
  BY <1>3, MachineIs
<1>5. x.n = old.nny
  BY DEF FrameOf
<1> HIDE DEF x
<1>6. Last(r.c) = x /\ Front(r.c) = s.c /\ r.c # <<>>
  BY <1>2, <1>4, AppendIs
<1>7. old.nCcalls + 1 \in Int /\ old.errorJmp \in Nat /\ old.nny \in Nat /\ old.nCcalls \in Int
  <2> HIDE DEF old
  <2> QED
    BY <1>3, ThreadIs
<1> HIDE DEF co, N, old
<1>8. /\ OneThread(r, h, co) /\ h.th[co] \in Thread /\ h.th[co].nny = old.nny
      /\ h.th[co].nCcalls = r.th[co].nCcalls - 1
      /\ h.th[co].status = r.th[co].status /\ h.th[co].ci = r.th[co].ci
      /\ h.th[co].errorJmp = r.th[co].errorJmp /\ h.th[co].errfunc = r.th[co].errfunc
      /\ h.th[co].body = r.th[co].body
  <2>1. "REFUSED" \in Statuses /\ "REFUSED" \notin Errors /\ Last(r.c).n \in Nat
    BY <1>5, <1>6, <1>7 DEF Statuses, Errors
  <2>2. h = EndsResume(r, co, Last(r.c).n, "REFUSED")
    BY <1>3
  <2> HIDE DEF h
  <2>3. /\ OneThread(r, h, co) /\ h.th[co] \in Thread /\ h.th[co].nny = Last(r.c).n
        /\ h.th[co].nCcalls = r.th[co].nCcalls - 1
        /\ h.th[co].status = IF "REFUSED" \in Errors THEN "REFUSED" ELSE r.th[co].status
        /\ h.th[co].ci = r.th[co].ci
        /\ h.th[co].errorJmp = r.th[co].errorJmp /\ h.th[co].errfunc = r.th[co].errfunc
        /\ h.th[co].body = r.th[co].body
    BY <1>3, <2>1, <2>2, EndsResumeIs
  <2> QED
    BY <1>5, <1>6, <2>1, <2>3
<1>9. q = Leave(h, "ERRRUN")
  BY DEF h, co
<1> HIDE DEF h
<1>10. h \in Machine /\ h.c = r.c /\ \A u \in Threads \ {co} : h.th[u] = r.th[u]
  BY <1>8 DEF OneThread
<1>11. q \in Machine /\ q.th = h.th /\ q.c = Front(r.c) /\ q.do = "return" /\ q.status = "ERRRUN"
  <2>1. "ERRRUN" \in Statuses /\ h.c # <<>>
    BY <1>6, <1>10 DEF Statuses, Errors
  <2> QED
    BY <1>9, <1>10, <2>1, LeaveIs
<1>12. h.th[co] = old
  <2> DEFINE z == Resumes(old, 0, old.nCcalls + 1, old.errorJmp)
  <2>1. /\ z \in Thread /\ z.nCcalls = old.nCcalls + 1 /\ z.errorJmp = old.errorJmp /\ z.ci = old.ci
        /\ z.status = old.status /\ z.errfunc = old.errfunc /\ z.body = old.body
    <3>1. 0 \in Nat
      OBVIOUS
    <3> QED
      BY <1>3, <1>7, <3>1, ResumesIs
  <2>2. r.th[co] = z
    BY <1>2
  <2> HIDE DEF z
  <2>3. h.th[co].nCcalls = old.nCcalls
    BY <1>7, <1>8, <2>1, <2>2
  <2> QED
    BY <1>3, <1>8, <2>1, <2>2, <2>3, ThreadSame
<1>13. q.th = s.th
  <2>1. s.th \in [Threads -> Thread] /\ q.th \in [Threads -> Thread]
    BY <1>3, <1>11, MachineIs
  <2>2. (\A u \in Threads \ {co} : q.th[u] = s.th[u]) /\ q.th[co] = s.th[co]
    BY <1>3, <1>10, <1>11, <1>12 DEF old
  <2> QED
    BY <1>3, <2>1, <2>2, ThreadsSame
<1>14. q = s
  <2>1. q.c = s.c /\ q.do = s.do /\ q.status = s.status
    BY <1>3, <1>6, <1>11
  <2>2. /\ q = [th |-> q.th, c |-> q.c, do |-> q.do, status |-> q.status]
        /\ s = [th |-> s.th, c |-> s.c, do |-> s.do, status |-> s.status]
    BY <1>3, <1>11, MachineIs
  <2> QED
    BY <1>13, <2>1, <2>2
<1> QED
  BY <1>1, <1>3, <1>14 DEF Inv
=============================================================================
