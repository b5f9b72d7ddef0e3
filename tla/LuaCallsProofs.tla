--------------------------- MODULE LuaCallsProofs ---------------------------
(***************************************************************************)
(* What luaD_throw, unroll and recover leave behind, for any number of     *)
(* coroutines and calls, whatever the limits of the C stack are: the       *)
(* jumps, lua_resume and lua_yield, each action, and the theorem.          *)
(***************************************************************************)
EXTENDS LuaCallsSteps

-----------------------------------------------------------------------------
(* luaD_rawrunprotected after a jump *)

\* What is said of the other threads stays when only one of the chain has done something.
LEMMA OthersStay ==
  ASSUME NEW s, NEW r, NEW w, NEW ch, NEW t, t \in ToSet(ch), Others(s, w, ch),
         \A u \in Threads \ {t} : r.th[u] = s.th[u]
  PROVE  Others(r, w, ch)
<1>1. ASSUME NEW u \in Threads \ ToSet(ch) PROVE Resting(r.th[u], u, w.dead)
  <2>1. r.th[u] = s.th[u] /\ Resting(s.th[u], u, w.dead)
    BY DEF Others
  <2> QED
    BY <2>1
<1> QED
  BY <1>1 DEF Others

LEMMA LastOfChain ==
  ASSUME NEW s \in Machine, NEW ch, NEW a, StackRight(s, ch, a)
  PROVE  Last(s.c).L \in ToSet(ch)
<1>1. Len(ch) \in Nat /\ Len(ch) >= 1 /\ Last(s.c).L = ch[Len(ch)] /\ ch \in Seq(Threads)
  BY StackEnds
<1> QED
  BY <1>1 DEF ToSet

Untried(s, t) == SetCCalls(SetJmp(s, t, Last(s.c).p), t, Last(s.c).n)

\* What is left of the frame of setjmp.
TryLeft(s, r, ch, a, b) ==
  LET t == Last(s.c).L
      o == s.th[t]
      y == r.th[t]
      N == Len(s.c)
      B == Last(b)
      f == s.c[N - 1].f
  IN
  /\ r \in Machine /\ r.do = "return" /\ r.status = s.status
  /\ \A u \in Threads \ {t} : r.th[u] = s.th[u]
  /\ y \in Thread /\ y.ci = o.ci /\ y.status = o.status /\ y.nny = o.nny /\ y.errfunc = o.errfunc
  /\ y.body = o.body
  /\ StackRight(r, ch, b) /\ Last(r.c) = s.c[N - 1] /\ TopF(r) = f /\ Last(r.c).L = t /\ Cur(r) = y
  /\ Len(r.c) = N - 1 /\ N \in Nat /\ f \in {"dpcall", "resume"}
  /\ y.errorJmp = (IF f = "dpcall" THEN B.jmp ELSE 0) /\ y.nCcalls >= B.depth
  /\ Len(r.c) = 2 => y.nCcalls = 0

LEMMA TryLeftIs ==
  ASSUME NEW s \in Machine, NEW ch, NEW a, StackRight(s, ch, a), TopF(s) = "try",
         NEW r, r = Leave(Untried(s, Last(s.c).L), s.status)
  PROVE  \E b : TryLeft(s, r, ch, a, b)
<1> DEFINE t == Last(s.c).L
           o == s.th[t]
           N == Len(s.c)
           A == Last(a)
           y == r.th[t]
           g == SetJmp(s, t, Last(s.c).p)
           h == SetCCalls(g, t, Last(s.c).n)
<1>1. t \in Threads /\ N \in Nat /\ N >= 1 /\ Last(s.c) = s.c[N] /\ s.c \in Seq(Frame) /\ A = a[N]
      /\ A \in Mark /\ Len(a) = N
  BY StackEnds
<1>2. s.c # <<>>
  BY DEF StackRight
<1>3. Last(s.c).p \in Nat /\ Last(s.c).n \in Int
  <2>1. Last(s.c) \in Frame
    BY <1>1, <1>2, FrontIs
  <2> QED
    BY <2>1 DEF Frame
<1>4. s.c[N].f = "try" /\ N \in 1..Len(s.c)
  BY <1>1 DEF TopF
<1> HIDE DEF t
<1>5. /\ OneThread(s, g, t) /\ g.th[t] \in Thread /\ g.th[t].errorJmp = Last(s.c).p
      /\ g.th[t].ci = o.ci /\ g.th[t].status = o.status /\ g.th[t].nny = o.nny
      /\ g.th[t].errfunc = o.errfunc /\ g.th[t].body = o.body
  BY <1>1, <1>3, SetJmpIs
<1> HIDE DEF g
<1>6. g \in Machine /\ g.c = s.c /\ g.status = s.status /\ \A u \in Threads \ {t} : g.th[u] = s.th[u]
  BY <1>5 DEF OneThread
<1>7. /\ OneThread(g, h, t) /\ h.th[t] \in Thread /\ h.th[t].nCcalls = Last(s.c).n
      /\ h.th[t].ci = g.th[t].ci /\ h.th[t].status = g.th[t].status /\ h.th[t].nny = g.th[t].nny
      /\ h.th[t].errorJmp = g.th[t].errorJmp /\ h.th[t].errfunc = g.th[t].errfunc
      /\ h.th[t].body = g.th[t].body
  BY <1>1, <1>3, <1>6, SetCCallsIs
<1>8. r = Leave(h, s.status)
  BY DEF h, g, t, Untried
<1> HIDE DEF h
<1>9. h \in Machine /\ h.c = s.c /\ \A u \in Threads \ {t} : h.th[u] = s.th[u]
  BY <1>6, <1>7 DEF OneThread
<1>10. r \in Machine /\ r.th = h.th /\ r.c = Front(s.c) /\ r.do = "return" /\ r.status = s.status
  <2>1. s.status \in Statuses /\ h.c # <<>>
    BY <1>2, <1>9, MachineIs
  <2> QED
    BY <1>8, <1>9, <2>1, LeaveIs
<1>11. /\ y \in Thread /\ y.ci = o.ci /\ y.status = o.status /\ y.nny = o.nny /\ y.errfunc = o.errfunc
       /\ y.body = o.body /\ y.errorJmp = Last(s.c).p /\ y.nCcalls = Last(s.c).n
  BY <1>5, <1>7, <1>10
<1> HIDE DEF o, y
<1>12. /\ N > 1 /\ s.c[N - 1].f \in {"dpcall", "resume"}
       /\ A.depth = a[N - 1].depth
       /\ s.c[N].n >= A.depth /\ s.c[N].p = IF s.c[N - 1].f = "dpcall" THEN a[N - 1].jmp ELSE 0
       /\ N = 3 => s.c[N].n = 0
  <2> HIDE DEF A, N
  <2> QED
    BY <1>1, <1>4, TryAt
<1>13. CanPop(s, r, ch, a)
  <2>1. A.ci <= Len(Cur(s).ci)
    BY TopIs
  <2>2. r.th[t].ci = s.th[t].ci /\ Cur(s) = s.th[t]
    BY <1>11 DEF Cur, t, o, y
  <2>3. \A u \in Threads \ {t} : r.th[u] = s.th[u]
    BY <1>9, <1>10
  <2>4. A.ci <= Len(r.th[t].ci) /\ SameTo(s.th[t].ci, r.th[t].ci, A.ci)
    BY <2>1, <2>2 DEF SameTo
  <2> QED
    BY <1>10, <1>12, <2>3, <2>4 DEF CanPop, t
<1>14. PICK b : Popped(s, r, ch, a, b)
  BY SMTT(30), <1>13, PopFrame
<1>15. /\ StackRight(r, ch, b) /\ Last(b) = a[N - 1] /\ Last(r.c) = s.c[N - 1] /\ TopF(r) = s.c[N - 1].f
       /\ Cur(r) = y /\ Len(r.c) = N - 1 /\ Last(r.c).L = t
  BY <1>14 DEF Popped, Same, t, y
<1>16. y.errorJmp = (IF s.c[N - 1].f = "dpcall" THEN Last(b).jmp ELSE 0) /\ y.nCcalls >= Last(b).depth
       /\ (Len(r.c) = 2 => y.nCcalls = 0)
  <2>1. y.errorJmp = s.c[N].p /\ y.nCcalls = s.c[N].n
    BY <1>1, <1>11
  <2> HIDE DEF N, A
  <2>2. y.errorJmp = IF s.c[N - 1].f = "dpcall" THEN Last(b).jmp ELSE 0
    BY <1>12, <1>15, <2>1
  <2>3. y.nCcalls >= Last(b).depth
    BY <1>12, <1>15, <2>1
  <2>4. Len(r.c) = 2 => N = 3
    <3> SUFFICES ASSUME Len(r.c) = 2 PROVE N = 3
      OBVIOUS
    <3>1. 2 = N - 1
      BY Zenon, <1>15
    <3> QED
      BY <1>1, <3>1
  <2> QED
    BY <1>12, <2>1, <2>2, <2>3, <2>4
<1>17. \A u \in Threads \ {t} : r.th[u] = s.th[u]
  BY <1>9, <1>10
<1>18. TryLeft(s, r, ch, a, b)
  BY Zenon, <1>1, <1>10, <1>11, <1>12, <1>15, <1>16, <1>17 DEF TryLeft, t, o, y, N
<1> QED
  BY <1>18

\* It was a yield that jumped.
LEMMA ReturnToTryYieldIs ==
  ASSUME NEW s, NEW w, NEW a, TypesRight(s, w), Yielding(s, w, a), TopF(s) = "try",
         NEW r, r = Leave(Untried(s, Last(s.c).L), s.status)
  PROVE  Inv(r, w)
<1> DEFINE t == Last(s.c).L
           ch == Append(w.chain, t)
<1>1. /\ s \in Machine /\ w \in Wants /\ StackRight(s, ch, a) /\ AgreeBut(s, w, {}) /\ Others(s, w, ch)
      /\ Suspended(Cur(s)) /\ t \notin w.dead /\ s.status = "YIELD" /\ t \in Threads /\ Cur(s) = s.th[t]
  BY YieldingIs
<1>2. s.c[Len(s.c) - 1].f = "resume"
  BY DEF Yielding
<1>3. PICK b : TryLeft(s, r, ch, a, b)
  BY SMTT(30), <1>1, TryLeftIs
<1>4. /\ r \in Machine /\ r.do = "return" /\ r.status = s.status
      /\ \A u \in Threads \ {t} : r.th[u] = s.th[u]
      /\ r.th[t].ci = s.th[t].ci /\ r.th[t].status = s.th[t].status /\ r.th[t].errfunc = s.th[t].errfunc
      /\ r.th[t].body = s.th[t].body
      /\ StackRight(r, ch, b) /\ TopF(r) = "resume" /\ Last(r.c).L = t /\ Cur(r) = r.th[t]
      /\ r.th[t].errorJmp = 0
  BY <1>2, <1>3 DEF TryLeft
<1>5. Others(r, w, ch)
  <2>1. t \in ToSet(ch)
    BY <1>1, LastOfChain
  <2> HIDE DEF ch, t
  <2> QED
    BY <1>1, <1>4, <2>1, OthersStay
<1>6. \A u \in Threads : r.th[u].ci = s.th[u].ci
  BY <1>4
<1>7. AgreeBut(r, w, {})
  BY SMTT(30), <1>1, <1>6 DEF AgreeBut
<1>8. Suspended(Cur(r))
  <2>1. /\ Cur(r).ci = Cur(s).ci /\ Cur(r).status = Cur(s).status
        /\ Cur(r).errfunc = Cur(s).errfunc /\ Cur(r).body = Cur(s).body
    BY Zenon, <1>1, <1>4
  <2>2. Suspended(Cur(s))
    BY Zenon, <1>1
  <2> HIDE DEF t, ch
  <2> QED
    BY <2>1, <2>2 DEF Suspended, ErrFuncRight
<1>9. Yielding(r, w, b)
  <2>1. Append(w.chain, Last(r.c).L) = ch /\ Last(r.c).L \notin w.dead
    BY <1>1, <1>4
  <2>2. s.status = "YIELD" /\ TopF(r) = "resume" /\ Cur(r).errorJmp = 0
    BY <1>1, <1>4
  <2> HIDE DEF ch, t
  <2> QED
    BY <1>4, <1>5, <1>7, <1>8, <2>1, <2>2 DEF Yielding
<1>10. TypesRight(r, w)
  BY Zenon, <1>1, <1>4, <1>6 DEF TypesRight
<1> QED
  BY <1>9, <1>10 DEF Inv

\* An error on its way: the thread, and the threads that have resumed each other up to it.
ErrorChain(w, t, back) == IF back = 0 THEN Append(w.chain, t) ELSE w.chain

CatcherOf(s) == IF TopF(s) = "try" THEN s.c[Len(s.c) - 1] ELSE Last(s.c)
BackOf(s) == IF CatcherOf(s).f = "dpcall" THEN CatcherOf(s).n ELSE LastYPCall(Cur(s).ci)
GoneBack(s, w, t, back) ==
  IF back = 0 THEN t \in w.dead ELSE w.stack[t] = SubSeq(Names(s.th[t].ci), 1, back)

LEMMA UnwindingIs ==
  ASSUME NEW s, NEW w, NEW a, NEW back \in Nat, TypesRight(s, w), Unwinding(s, w, a, back)
  PROVE  LET t == Last(s.c).L
             ch == ErrorChain(w, t, back)
         IN
         /\ s \in Machine /\ w \in Wants /\ StackRight(s, ch, a)
         /\ AgreeBut(s, w, {t}) /\ Others(s, w, ch)
         /\ Cur(s).status = "OK" /\ ~Cur(s).body /\ s.do = "return" /\ s.status \in Errors
         /\ TopF(s) \in {"try", "dpcall", "resume"}
         /\ TopF(s) # "try" =>
              /\ Cur(s).errorJmp = IF TopF(s) = "resume" THEN 0 ELSE Last(a).jmp
              /\ Cur(s).nCcalls >= Last(a).depth
              /\ Len(s.c) = 2 => Cur(s).nCcalls = 0
         /\ back = BackOf(s) /\ GoneBack(s, w, t, back)
         /\ t \in Threads /\ Cur(s) = s.th[t] /\ CIsRight(Cur(s).ci) /\ Cur(s) \in Thread /\ s.c # <<>>
         /\ Last(a) \in Mark /\ Len(s.c) \in Nat /\ t \in ToSet(ch)
<1> DEFINE t == Last(s.c).L
           ch == ErrorChain(w, t, back)
<1>1. /\ s \in Machine /\ w \in Wants /\ StackRight(s, ch, a)
      /\ AgreeBut(s, w, {t}) /\ Others(s, w, ch)
      /\ s.th[t].status = "OK" /\ ~s.th[t].body /\ s.do = "return" /\ s.status \in Errors
      /\ TopF(s) \in {"try", "dpcall", "resume"}
  BY Zenon DEF Unwinding, TypesRight, ErrorChain
<1>2. /\ TopF(s) # "try" =>
           /\ s.th[t].errorJmp = IF TopF(s) = "resume" THEN 0 ELSE Last(a).jmp
           /\ s.th[t].nCcalls >= Last(a).depth
           /\ Len(s.c) = 2 => s.th[t].nCcalls = 0
  BY Zenon DEF Unwinding
<1>3. Cur(s) = s.th[t]
  BY DEF Cur
<1>4. back = BackOf(s) /\ GoneBack(s, w, t, back)
  BY Zenon, <1>3 DEF Unwinding, BackOf, CatcherOf, GoneBack
<1> HIDE DEF ch
<1>5. t \in Threads /\ Cur(s) \in Thread /\ Len(s.c) >= 1 /\ Last(a) \in Mark /\ Len(s.c) \in Nat
      /\ t \in ToSet(ch)
  BY <1>1, StackEnds, LastOfChain
<1>6. CIsRight(Cur(s).ci)
  BY <1>3, <1>5 DEF TypesRight
<1>7. s.c # <<>>
  BY <1>1 DEF StackRight
<1> QED
  BY <1>1, <1>2, <1>3, <1>4, <1>5, <1>6, <1>7 DEF ch

\* It was an error that jumped.
LEMMA ReturnToTryErrorIs ==
  ASSUME NEW s, NEW w, NEW a, NEW back \in Nat, TypesRight(s, w), Unwinding(s, w, a, back),
         TopF(s) = "try", NEW r, r = Leave(Untried(s, Last(s.c).L), s.status)
  PROVE  Inv(r, w)
<1> DEFINE t == Last(s.c).L
           ch == ErrorChain(w, t, back)
<1>1. /\ s \in Machine /\ w \in Wants /\ StackRight(s, ch, a)
      /\ AgreeBut(s, w, {t}) /\ Others(s, w, ch)
      /\ Cur(s).status = "OK" /\ ~Cur(s).body /\ s.status \in Errors
      /\ back = BackOf(s) /\ GoneBack(s, w, t, back)
      /\ t \in Threads /\ Cur(s) = s.th[t] /\ t \in ToSet(ch)
  BY UnwindingIs
<1> HIDE DEF ch
<1>2. PICK b : TryLeft(s, r, ch, a, b)
  BY <1>1, TryLeftIs
<1> DEFINE f == s.c[Len(s.c) - 1].f
<1>3. /\ r \in Machine /\ r.do = "return" /\ r.status = s.status
      /\ \A u \in Threads \ {t} : r.th[u] = s.th[u]
      /\ r.th[t].ci = s.th[t].ci /\ r.th[t].status = s.th[t].status /\ r.th[t].body = s.th[t].body
      /\ StackRight(r, ch, b) /\ Last(r.c) = s.c[Len(s.c) - 1] /\ TopF(r) = f /\ Last(r.c).L = t
      /\ Cur(r) = r.th[t] /\ f \in {"dpcall", "resume"}
      /\ r.th[t].errorJmp = (IF f = "dpcall" THEN Last(b).jmp ELSE 0)
      /\ r.th[t].nCcalls >= Last(b).depth
      /\ Len(r.c) = 2 => r.th[t].nCcalls = 0
  BY Zenon, <1>2 DEF TryLeft
<1> HIDE DEF t, f
<1>4. Others(r, w, ch)
  BY <1>1, <1>3, OthersStay
<1>5. \A u \in Threads : r.th[u].ci = s.th[u].ci
  BY <1>1, <1>3
<1>6. AgreeBut(r, w, {t})
  BY <1>1, <1>5 DEF AgreeBut
<1>7. CatcherOf(s) = Last(r.c)
  BY <1>3 DEF CatcherOf
<1>8. CatcherOf(r) = Last(r.c)
  BY <1>3 DEF CatcherOf
<1>9. BackOf(r) = BackOf(s)
  BY <1>1, <1>3, <1>7, <1>8 DEF BackOf
<1>10. GoneBack(r, w, t, back)
  BY <1>1, <1>3 DEF GoneBack
<1>11. TypesRight(r, w)
  BY Zenon, <1>1, <1>3, <1>5 DEF TypesRight
<1>12. Unwinding(r, w, b, back)
  <2>1. StackRight(r, IF back = 0 THEN Append(w.chain, t) ELSE w.chain, b)
    BY <1>3 DEF ch, ErrorChain
  <2>2. Others(r, w, IF back = 0 THEN Append(w.chain, t) ELSE w.chain)
    BY <1>4 DEF ch, ErrorChain
  <2>3. TopF(r) # "try" /\ TopF(r) \in {"try", "dpcall", "resume"}
    BY SMTT(30), <1>3
  <2>4. back = IF (IF TopF(r) = "try" THEN r.c[Len(r.c) - 1] ELSE Last(r.c)).f = "dpcall"
               THEN (IF TopF(r) = "try" THEN r.c[Len(r.c) - 1] ELSE Last(r.c)).n
               ELSE LastYPCall(r.th[t].ci)
    BY <1>1, <1>3, <1>9 DEF BackOf, CatcherOf
  <2>5. r.th[t].errorJmp = IF TopF(r) = "resume" THEN 0 ELSE Last(b).jmp
    BY <1>3
  <2>6. IF back = 0 THEN t \in w.dead ELSE w.stack[t] = SubSeq(Names(r.th[t].ci), 1, back)
    BY <1>10 DEF GoneBack
  <2>7. r.th[t].status = "OK" /\ ~r.th[t].body /\ r.do = "return" /\ r.status \in Errors /\ Last(r.c).L = t
        /\ r.th[t].nCcalls >= Last(b).depth /\ (Len(r.c) = 2 => r.th[t].nCcalls = 0)
    BY <1>1, <1>3
  <2> QED
    BY Zenon, <1>6, <2>1, <2>2, <2>3, <2>4, <2>5, <2>6, <2>7 DEF Unwinding
<1> QED
  BY <1>11, <1>12 DEF Inv

-----------------------------------------------------------------------------
(* luaD_pcall after an error *)

\* The thread is where the protected call was made.
CutBack(s, t, n, p, e) ==
  SetErrFunc([s EXCEPT !.th[t].ci = SubSeq(@, 1, n), !.th[t].nny = p], t, e)

LEMMA CutBackIs ==
  ASSUME NEW s \in Machine, NEW t \in Threads, NEW n \in 0..Len(s.th[t].ci), NEW p \in Nat, NEW e \in {0, 1},
         NEW r, r = CutBack(s, t, n, p, e)
  PROVE  LET o == s.th[t]
             y == r.th[t]
         IN  /\ OneThread(s, r, t) /\ y \in Thread /\ y.ci = SubSeq(o.ci, 1, n) /\ y.nny = p /\ y.errfunc = e
             /\ y.status = o.status /\ y.nCcalls = o.nCcalls /\ y.errorJmp = o.errorJmp /\ y.body = o.body
             /\ o.ci \in Seq(CIs) /\ y.ci \in Seq(CIs) /\ Len(y.ci) = n /\ SameTo(o.ci, y.ci, n)
             /\ Names(y.ci) = SubSeq(Names(o.ci), 1, n) /\ (CIsRight(o.ci) => CIsRight(y.ci))
<1> DEFINE o == s.th[t]
           k == SubSeq(o.ci, 1, n)
           x == [o EXCEPT !.ci = k, !.nny = p]
           q == [s EXCEPT !.th[t].ci = SubSeq(@, 1, n), !.th[t].nny = p]
           y == r.th[t]
<1>1. s.th \in [Threads -> Thread] /\ o \in Thread
  BY MachineIs
<1>2. o.ci \in Seq(CIs)
  <2> HIDE DEF o
  <2> QED
    BY <1>1, ThreadIs
<1>3. k \in Seq(CIs) /\ Len(k) = n /\ \A i \in 1..n : k[i] = o.ci[i]
  <2> HIDE DEF k
  <2>1. k = SubSeq(o.ci, 1, n)
    BY DEF k
  <2>2. n \in 0..Len(o.ci)
    OBVIOUS
  <2> HIDE DEF o
  <2> QED
    BY <1>2, <2>1, <2>2, SubSeqIs
<1>4. Names(k) = SubSeq(Names(o.ci), 1, n)
  <2>1. n \in 0..Len(o.ci)
    OBVIOUS
  <2> HIDE DEF o
  <2> QED
    BY <1>2, <2>1, NamesCut
<1>5. CIsRight(o.ci) => CIsRight(k)
  <2>1. n \in 0..Len(o.ci)
    OBVIOUS
  <2> HIDE DEF o
  <2> QED
    BY <1>2, <2>1, CIsRightCut
<1>6. q = [s EXCEPT !.th[t] = x]
  BY <1>1 DEF Machine
<1> HIDE DEF k
<1>7. /\ x \in Thread /\ x.ci = k /\ x.nny = p /\ x.status = o.status /\ x.nCcalls = o.nCcalls
      /\ x.errorJmp = o.errorJmp /\ x.body = o.body
  <2> HIDE DEF o
  <2> QED
    BY <1>1, <1>3 DEF Thread
<1>8. r = SetErrFunc(q, t, e)
  BY DEF CutBack
<1> HIDE DEF x, q, o
<1>9. OneThread(s, q, t) /\ q.th[t] = x
  BY <1>6, <1>7, SetIs
<1>10. q \in Machine
  BY <1>9 DEF OneThread
<1>11. /\ OneThread(q, r, t) /\ y \in Thread /\ y.errfunc = e /\ y.ci = q.th[t].ci /\ y.nny = q.th[t].nny
       /\ y.status = q.th[t].status /\ y.nCcalls = q.th[t].nCcalls /\ y.errorJmp = q.th[t].errorJmp
       /\ y.body = q.th[t].body
  BY <1>8, <1>10, SetErrFuncIs
<1>12. OneThread(s, r, t)
  BY <1>9, <1>11 DEF OneThread
<1> HIDE DEF y
<1>13. y.ci = k /\ y.nny = p /\ y.status = o.status /\ y.nCcalls = o.nCcalls /\ y.errorJmp = o.errorJmp
       /\ y.body = o.body
  BY <1>7, <1>9, <1>11
<1>14. SameTo(o.ci, y.ci, n)
  BY <1>3, <1>13 DEF SameTo
<1> QED
  BY <1>2, <1>3, <1>4, <1>5, <1>11, <1>12, <1>13, <1>14 DEF y, o, k

\* The frame of a protected call at the top.
LEMMA CatchTop ==
  ASSUME NEW s \in Machine, NEW ch, NEW a, StackRight(s, ch, a), TopF(s) = "dpcall"
  PROVE  /\ Last(s.c).n = Last(a).ci /\ Last(s.c).p = Last(a).nny /\ Last(a).nny >= 1
         /\ (Last(s.c).e = 1) = HandledBy(Cur(s).ci, Last(a).ci - 1)
         /\ \/ s.c[Len(s.c) - 1].f = "host" /\ Last(a).ci = 0 /\ Last(a).link = 1 /\ Len(s.c) = 2
            \/ s.c[Len(s.c) - 1].f = "cfunc" /\ Last(a).ci >= 1
<1> DEFINE k == Len(s.c)
<1>1. k \in 1..Len(s.c) /\ Last(s.c) = s.c[k] /\ Last(a) = a[k] /\ s.c[k].f = "dpcall"
  BY StackEnds DEF TopF
<1>2. Cur(s) = s.th[s.c[k].L]
  BY <1>1 DEF Cur
<1>3. k = Len(s.c)
  OBVIOUS
<1> HIDE DEF k
<1>7. Catching(s, a, k)
  BY ZenonT(30), <1>1, CatchAt
<1>4. s.c[k].n = a[k].ci /\ s.c[k].p = a[k].nny /\ a[k].nny >= 1
  BY <1>7 DEF Catching
<1>5. (s.c[k].e = 1) = HandledBy(s.th[s.c[k].L].ci, a[k].ci - 1)
  BY Zenon, <1>7 DEF Catching
<1>6. \/ s.c[k - 1].f = "host" /\ a[k].ci = 0 /\ a[k].link = 1 /\ k = 2
      \/ /\ s.c[k - 1].f = "cfunc" /\ a[k].ci >= 1 /\ Protects(s.th[s.c[k].L].ci[a[k].ci].fn)
         /\ ~s.th[s.c[k].L].ci[a[k].ci].ypcall
  BY Zenon, <1>7 DEF Catching
<1> QED
  BY Zenon, <1>1, <1>2, <1>3, <1>4, <1>5, <1>6

\* What is left of luaD_pcall.
PCallLeft(s, r, ch, a, b) ==
  LET t == Last(s.c).L
      o == s.th[t]
      y == r.th[t]
      A == Last(a)
  IN
  /\ r \in Machine /\ r.do = "return" /\ r.status = s.status /\ A \in Mark
  /\ \A u \in Threads \ {t} : r.th[u] = s.th[u]
  /\ y \in Thread /\ y.ci = SubSeq(o.ci, 1, A.ci) /\ Len(y.ci) = A.ci /\ o.ci \in Seq(CIs) /\ y.ci \in Seq(CIs)
  /\ SameTo(o.ci, y.ci, A.ci) /\ Names(y.ci) = SubSeq(Names(o.ci), 1, A.ci) /\ CIsRight(y.ci)
  /\ y.nny = A.nny /\ y.status = o.status /\ y.nCcalls = o.nCcalls /\ y.errorJmp = o.errorJmp
  /\ y.body = o.body /\ (y.errfunc = 1) = HandledBy(o.ci, A.ci - 1) /\ y.errfunc \in {0, 1}
  /\ \/ TopF(r) = "host" /\ A.ci = 0 /\ A.link = 1 /\ Len(s.c) = 2
     \/ TopF(r) = "cfunc" /\ A.ci >= 1
  /\ Popped(s, r, ch, a, b) /\ A.ci \in Nat /\ TopF(r) = s.c[Len(s.c) - 1].f
  /\ A.nny = Last(b).nny /\ A.jmp = Last(b).jmp /\ A.depth = Last(b).depth

LEMMA PCallLeftIs ==
  ASSUME NEW s \in Machine, NEW ch, NEW a, StackRight(s, ch, a), TopF(s) = "dpcall", CIsRight(Cur(s).ci),
         NEW x, x = Last(s.c), NEW r, r = Leave(CutBack(s, Last(s.c).L, x.n, x.p, x.e), s.status)
  PROVE  x.n = Last(a).ci /\ \E b : PCallLeft(s, r, ch, a, b)
<1> DEFINE t == Last(s.c).L
           N == Len(s.c)
           A == Last(a)
           o == s.th[t]
           y == r.th[t]
           h == CutBack(s, t, x.n, x.p, x.e)
           f == s.c[N - 1].f
<1>1. t \in Threads /\ N \in Nat /\ N >= 1 /\ Last(s.c) = s.c[N] /\ s.c \in Seq(Frame) /\ A = a[N]
      /\ A \in Mark /\ Cur(s) = s.th[t]
  BY StackEnds DEF Cur
<1>2. s.c # <<>>
  BY DEF StackRight
<1>3. x = s.c[N] /\ s.c[N].f = "dpcall" /\ N \in 1..Len(s.c) /\ x.L = t
  BY <1>1 DEF TopF
<1>4. /\ x.n = A.ci /\ x.p = A.nny /\ A.nny >= 1
      /\ (x.e = 1) = HandledBy(o.ci, A.ci - 1)
      /\ \/ f = "host" /\ A.ci = 0 /\ A.link = 1 /\ N = 2
         \/ f = "cfunc" /\ A.ci >= 1
  <2>1. /\ Last(s.c).n = Last(a).ci /\ Last(s.c).p = Last(a).nny /\ Last(a).nny >= 1
        /\ (Last(s.c).e = 1) = HandledBy(Cur(s).ci, Last(a).ci - 1)
        /\ \/ s.c[Len(s.c) - 1].f = "host" /\ Last(a).ci = 0 /\ Last(a).link = 1 /\ Len(s.c) = 2
           \/ s.c[Len(s.c) - 1].f = "cfunc" /\ Last(a).ci >= 1
    BY CatchTop
  <2> QED
    BY <1>1, <2>1
<1>5. A.ci \in Nat /\ A.nny \in Nat
  <2> HIDE DEF A
  <2> QED
    BY SMTT(30), <1>1, MarkIs
<1>6. A.ci <= Len(o.ci) /\ Len(o.ci) \in Nat
  <2>1. A.ci <= Len(Cur(s).ci) /\ Cur(s) \in Thread
    BY TopIs
  <2> QED
    BY <1>1, <2>1, ThreadIs
<1>7. x.e \in {0, 1}
  <2>1. x \in Frame
    BY <1>2, <1>1, FrontIs
  <2> QED
    BY <2>1 DEF Frame
<1>8. /\ OneThread(s, h, t) /\ h.th[t] \in Thread /\ h.th[t].ci = SubSeq(o.ci, 1, A.ci) /\ h.th[t].nny = A.nny
      /\ h.th[t].errfunc = x.e
      /\ h.th[t].status = o.status /\ h.th[t].nCcalls = o.nCcalls /\ h.th[t].errorJmp = o.errorJmp
      /\ h.th[t].body = o.body
      /\ o.ci \in Seq(CIs) /\ h.th[t].ci \in Seq(CIs) /\ Len(h.th[t].ci) = A.ci
      /\ SameTo(o.ci, h.th[t].ci, A.ci)
      /\ Names(h.th[t].ci) = SubSeq(Names(o.ci), 1, A.ci) /\ CIsRight(h.th[t].ci)
  <2>1. A.ci \in 0..Len(s.th[t].ci)
    BY <1>5, <1>6
  <2>2. h = CutBack(s, t, A.ci, A.nny, x.e)
    BY <1>4
  <2>3. CIsRight(s.th[t].ci)
    BY <1>1
  <2> DEFINE n == A.ci
             p == A.nny
             e == x.e
  <2>4. s \in Machine /\ t \in Threads /\ n \in 0..Len(s.th[t].ci) /\ p \in Nat /\ e \in {0, 1}
        /\ h = CutBack(s, t, n, p, e)
    BY <1>1, <1>5, <1>7, <2>1, <2>2
  <2> HIDE DEF h, A, t, n, p, e, N, o, y, f
  <2>5. /\ OneThread(s, h, t) /\ h.th[t] \in Thread /\ h.th[t].ci = SubSeq(s.th[t].ci, 1, n) /\ h.th[t].nny = p
        /\ h.th[t].errfunc = e
        /\ h.th[t].status = s.th[t].status /\ h.th[t].nCcalls = s.th[t].nCcalls
        /\ h.th[t].errorJmp = s.th[t].errorJmp /\ h.th[t].body = s.th[t].body
    BY <2>4, CutBackIs
  <2>6. /\ s.th[t].ci \in Seq(CIs) /\ h.th[t].ci \in Seq(CIs) /\ Len(h.th[t].ci) = n
        /\ SameTo(s.th[t].ci, h.th[t].ci, n)
        /\ Names(h.th[t].ci) = SubSeq(Names(s.th[t].ci), 1, n)
        /\ CIsRight(s.th[t].ci) => CIsRight(h.th[t].ci)
    BY <2>4, CutBackIs
  <2> QED
    BY <2>3, <2>5, <2>6 DEF n, p, e, o
<1>9. r = Leave(h, s.status)
  OBVIOUS
<1> HIDE DEF h, t, o, y, N, A
<1>10. h \in Machine /\ h.c = s.c /\ \A u \in Threads \ {t} : h.th[u] = s.th[u]
  BY <1>8 DEF OneThread
<1>11. r \in Machine /\ r.th = h.th /\ r.c = Front(s.c) /\ r.do = "return" /\ r.status = s.status
  <2>1. s.status \in Statuses /\ h.c # <<>>
    BY <1>2, <1>10, MachineIs
  <2> QED
    BY <1>9, <1>10, <2>1, LeaveIs
<1>12. r.th[t] = h.th[t] /\ y = h.th[t] /\ \A u \in Threads \ {t} : r.th[u] = s.th[u]
  BY <1>10, <1>11 DEF y
<1>13. N > 1
  BY Zenon, <1>1, <1>3, CatchAt DEF Catching, N
<1>14. PICK b : Popped(s, r, ch, a, b)
  <2>1. A.ci <= Len(r.th[t].ci) /\ SameTo(s.th[t].ci, r.th[t].ci, A.ci)
    <3>1. r.th[t] = h.th[t] /\ SameTo(s.th[t].ci, h.th[t].ci, A.ci)
      BY <1>8, <1>12 DEF o
    <3>2. A.ci <= Len(h.th[t].ci)
      BY <1>5, <1>8
    <3> QED
      BY <3>1, <3>2
  <2>2. CanPop(s, r, ch, a)
    BY <1>11, <1>12, <1>13, <2>1 DEF CanPop, t, A, N
  <2> QED
    BY <2>2, PopFrame
<1>15. TopF(r) = f
  BY Zenon, <1>14 DEF Popped, N
<1>16. A.nny = Last(b).nny /\ A.jmp = Last(b).jmp /\ A.depth = Last(b).depth
  <2>1. A = MarkOf(Last(s.c), N, Last(b), A.ci)
    BY Zenon, <1>14 DEF Popped, A, N
  <2>2. Last(s.c).f = "dpcall"
    BY <1>1, <1>3
  <2> QED
    BY <2>1, <2>2 DEF MarkOf
<1>17. PCallLeft(s, r, ch, a, b)
  <2>1. \/ TopF(r) = "host" /\ A.ci = 0 /\ A.link = 1 /\ N = 2
        \/ TopF(r) = "cfunc" /\ A.ci >= 1
    BY <1>4, <1>15
  <2>2. (y.errfunc = 1) = HandledBy(o.ci, A.ci - 1) /\ y.errfunc \in {0, 1}
    BY <1>4, <1>7, <1>8, <1>12
  <2>3. TopF(r) = s.c[N - 1].f
    BY <1>15
  <2> HIDE DEF f
  <2> QED
    BY Zenon, <1>1, <1>5, <1>8, <1>11, <1>12, <1>14, <1>16, <2>1, <2>2, <2>3 DEF PCallLeft, t, o, y, A, N
<1> QED
  BY <1>4, <1>17 DEF A

\* The protected call returns the error to the C function that made it.
LEMMA ErrorToCIs ==
  ASSUME NEW s, NEW w, NEW a, NEW back \in Nat, TypesRight(s, w), Unwinding(s, w, a, back),
         TopF(s) = "dpcall", back = Last(a).ci,
         NEW r, NEW b, PCallLeft(s, r, ErrorChain(w, Last(s.c).L, back), a, b), TopF(r) = "cfunc"
  PROVE  Inv(r, w)
<1> DEFINE t == Last(s.c).L
           o == s.th[t]
           y == r.th[t]
           A == Last(a)
           B == Last(b)
           ch == w.chain
<1>1. /\ s \in Machine /\ w \in Wants /\ AgreeBut(s, w, {t})
      /\ Cur(s).status = "OK" /\ ~Cur(s).body /\ s.status \in Errors
      /\ Cur(s).errorJmp = A.jmp /\ Cur(s).nCcalls >= A.depth
      /\ GoneBack(s, w, t, back) /\ Cur(s) = o /\ t \in Threads
      /\ Others(s, w, ErrorChain(w, t, back))
  BY UnwindingIs
<1>2. /\ r \in Machine /\ r.do = "return" /\ r.status = s.status
      /\ \A u \in Threads \ {t} : r.th[u] = s.th[u]
      /\ y \in Thread /\ Len(y.ci) = A.ci /\ o.ci \in Seq(CIs) /\ y.ci \in Seq(CIs)
      /\ SameTo(o.ci, y.ci, A.ci) /\ Names(y.ci) = SubSeq(Names(o.ci), 1, A.ci) /\ CIsRight(y.ci)
      /\ y.nny = A.nny /\ y.status = o.status /\ y.nCcalls = o.nCcalls /\ y.errorJmp = o.errorJmp
      /\ y.body = o.body /\ (y.errfunc = 1) = HandledBy(o.ci, A.ci - 1)
      /\ A.ci >= 1 /\ A.ci \in Nat
      /\ A.nny = B.nny /\ A.jmp = B.jmp /\ A.depth = B.depth
      /\ Popped(s, r, ErrorChain(w, t, back), a, b)
  BY Zenon DEF PCallLeft
<1>3. back # 0 /\ back = A.ci
  <2>1. A.ci >= 1
    BY Zenon, <1>2
  <2>2. back = A.ci
    OBVIOUS
  <2> HIDE DEF A
  <2> QED
    BY <2>1, <2>2
<1>4. ErrorChain(w, t, back) = ch
  BY <1>3 DEF ErrorChain
<1>5. /\ Same(s, r) /\ StackRight(r, ch, b) /\ Last(r.c).L = t /\ Cur(r) = y
      /\ Owns("cfunc", B, y.ci, A.ci)
  BY Zenon, <1>2, <1>4 DEF Popped, Same
<1> HIDE DEF t, o, y, A, B, ch
<1>6. Len(r.c) > 2
  BY <1>2, <1>5, BaseIs
<1>7. Live(y, B)
  BY <1>1, <1>2 DEF Live
<1>8. TopRight(r, b)
  <2>1. Owns(TopF(r), Last(b), Cur(r).ci, Len(Cur(r).ci))
    BY <1>2, <1>5 DEF B
  <2>2. ~(Len(r.c) <= 2)
    <3>1. Len(r.c) \in Nat
      BY <1>2, <1>5, StackEnds
    <3> QED
      BY <1>6, <3>1
  <2> QED
    BY <1>5, <1>7, <2>1, <2>2 DEF TopRight, B
<1>9. Ready(r, ch)
  BY <1>2, <1>5, <1>8 DEF Ready
<1>10. w.stack[t] = Names(Cur(r).ci)
  <2>1. w.stack[t] = SubSeq(Names(o.ci), 1, back)
    BY <1>1, <1>3 DEF GoneBack, o
  <2>2. Names(y.ci) = SubSeq(Names(o.ci), 1, back)
    BY <1>2, <1>3
  <2> QED
    BY <1>5, <2>1, <2>2
<1>11. AtWork(r)
  <2>1. (Cur(r).errfunc = 1) = HandledBy(Cur(r).ci, Len(Cur(r).ci) - 1)
    <3>1. HandledBy(o.ci, A.ci - 1) = HandledBy(y.ci, A.ci - 1)
      BY <1>2, HandledSame
    <3> QED
      BY <1>2, <1>5, <3>1
  <2> QED
    BY <1>1, <1>2, <2>1 DEF AtWork
<1>12. Inv(r, w)
  <2>1. Others(s, w, w.chain) /\ AgreeBut(s, w, {Last(s.c).L}) /\ WSame(w, w, Last(s.c).L)
        /\ w.stack[Last(s.c).L] = Names(Cur(r).ci) /\ Ready(r, w.chain)
    BY <1>1, <1>4, <1>9, <1>10, WSameIs DEF ch, t
  <2> QED
    BY <1>5, <1>11, <2>1, StaysActive
<1> QED
  BY <1>12

\* The protected call of the host returns the error.
LEMMA ErrorToHostIs ==
  ASSUME NEW s, NEW w, NEW a, NEW back \in Nat, TypesRight(s, w), Unwinding(s, w, a, back),
         TopF(s) = "dpcall", back = Last(a).ci,
         NEW r, NEW b, PCallLeft(s, r, ErrorChain(w, Last(s.c).L, back), a, b), TopF(r) = "host"
  PROVE  Inv(r, w)
<1> DEFINE t == Last(s.c).L
           o == s.th[t]
           y == r.th[t]
           A == Last(a)
           B == Last(b)
           ch == ErrorChain(w, t, back)
<1>1. /\ s \in Machine /\ w \in Wants /\ AgreeBut(s, w, {t}) /\ StackRight(s, ch, a)
      /\ Cur(s).status = "OK" /\ ~Cur(s).body /\ s.status \in Errors
      /\ Cur(s).errorJmp = A.jmp /\ (Len(s.c) = 2 => Cur(s).nCcalls = 0)
      /\ GoneBack(s, w, t, back) /\ Cur(s) = o /\ t \in Threads
      /\ Others(s, w, ch)
  BY Zenon, UnwindingIs
<1>2. /\ r \in Machine /\ r.do = "return"
      /\ \A u \in Threads \ {t} : r.th[u] = s.th[u]
      /\ y \in Thread /\ Len(y.ci) = A.ci /\ o.ci \in Seq(CIs) /\ y.ci \in Seq(CIs) /\ CIsRight(y.ci)
      /\ y.nny = A.nny /\ y.status = o.status /\ y.nCcalls = o.nCcalls /\ y.errorJmp = o.errorJmp
      /\ y.body = o.body /\ (y.errfunc = 1) = HandledBy(o.ci, A.ci - 1) /\ y.errfunc \in {0, 1}
      /\ A.ci \in Nat /\ A.nny = B.nny /\ A.jmp = B.jmp
      /\ Popped(s, r, ch, a, b)
  BY Zenon DEF PCallLeft
<1>3. A.ci = 0 /\ A.link = 1 /\ Len(s.c) = 2
  BY Zenon DEF PCallLeft
<1>4. back = 0
  BY <1>3
<1>5. ch = Append(w.chain, t) /\ t \in w.dead
  BY <1>1, <1>4 DEF ErrorChain, GoneBack
<1>6. /\ StackRight(r, ch, b) /\ Last(r.c).L = t /\ Cur(r) = y
  BY Zenon, <1>2 DEF Popped, Same
<1> HIDE DEF ch, o, y, A
<1>7. B = Bottom /\ Len(r.c) = 1 /\ Len(ch) = 1 /\ t = Main /\ ToSet(ch) = {Main}
  BY <1>2, <1>6, HostTop
<1> HIDE DEF t, B
<1>8. w.chain = <<>>
  <2>1. w.chain \in Seq(Threads)
    BY <1>1, WantsAre
  <2>2. Len(w.chain) = 0
    <3>1. Len(Append(w.chain, t)) = Len(w.chain) + 1 /\ Len(w.chain) \in Nat
      BY <2>1, AppendLast
    <3>2. Len(w.chain) + 1 = 1
      BY <1>5, <1>7, <3>1
    <3> QED
      BY <3>1, <3>2
  <2> QED
    BY <2>1, <2>2
<1>9. Resting(y, Main, w.dead)
  <2>1. ~HandledBy(o.ci, A.ci - 1)
    <3>1. A.ci - 1 = -1
      BY <1>3
    <3> QED
      BY <3>1, HandledNone
  <2>2. y.errfunc = 0
    BY <1>2, <2>1
  <2>3. y.ci = <<>>
    BY <1>2, <1>3
  <2>4. y.nny = 1 /\ y.errorJmp = 0 /\ y.nCcalls = 0
    BY <1>1, <1>2, <1>3, <1>7 DEF Bottom
  <2>5. y.status = "OK" /\ ~y.body
    BY <1>1, <1>2
  <2> QED
    BY <2>2, <2>3, <2>4, <2>5 DEF Resting
<1>10. Others(r, w, <<>>)
  <2>1. ASSUME NEW u \in Threads PROVE Resting(r.th[u], u, w.dead)
    <3>1. CASE u = Main
      BY <1>6, <1>7, <1>9, <3>1 DEF y
    <3>2. CASE u # Main
      <4>1. u \in Threads \ ToSet(ch) /\ r.th[u] = s.th[u]
        BY <1>2, <1>7, <3>2
      <4> QED
        BY <1>1, <4>1 DEF Others
    <3> QED
      BY <3>1, <3>2
  <2>2. \A i \in 1..Len(w.chain) : w.chain[i] \notin w.dead
    BY <1>1 DEF Others
  <2> QED
    BY <2>1, <2>2 DEF Others
<1>11. AgreeBut(r, w, {})
  <2>1. ASSUME NEW u \in Threads \ w.dead PROVE Names(r.th[u].ci) = w.stack[u]
    <3>1. u # t
      BY <1>5
    <3> QED
      BY <1>1, <1>2, <3>1 DEF AgreeBut
  <2> QED
    BY <2>1 DEF AgreeBut
<1>12. r.c[1].f = "host" /\ r.c[1].L = Main
  <2>1. Last(r.c) = r.c[1]
    BY <1>2, <1>6, <1>7, StackEnds
  <2> QED
    BY <1>6, <1>7, <2>1 DEF TopF
<1>13. AtHost(r, w)
  BY <1>2, <1>7, <1>8, <1>10, <1>11, <1>12 DEF AtHost
<1>14. TypesRight(r, w)
  <2>1. \A u \in Threads : CIsRight(r.th[u].ci)
    BY <1>2 DEF TypesRight, y
  <2> QED
    BY <1>1, <1>2, <2>1 DEF TypesRight
<1> QED
  BY <1>13, <1>14 DEF Inv

\* The end of luaD_pcall with an error
LEMMA ReturnToDPCallErrorIs ==
  ASSUME NEW s, NEW w, NEW a, NEW back \in Nat, TypesRight(s, w), Unwinding(s, w, a, back),
         TopF(s) = "dpcall", NEW x, x = Last(s.c),
         NEW r, r = Leave(CutBack(s, Last(s.c).L, x.n, x.p, x.e), s.status)
  PROVE  Inv(r, w)
<1> DEFINE ch == ErrorChain(w, Last(s.c).L, back)
<1>1. /\ s \in Machine /\ StackRight(s, ch, a) /\ back = BackOf(s) /\ CIsRight(Cur(s).ci)
  BY UnwindingIs
<1> HIDE DEF ch
<1>2. x.n = Last(a).ci /\ \E b : PCallLeft(s, r, ch, a, b)
  BY <1>1, PCallLeftIs
<1>3. PICK b : PCallLeft(s, r, ch, a, b)
  BY <1>2
<1>4. back = Last(a).ci
  <2>1. CatcherOf(s) = x /\ Last(s.c).f = "dpcall"
    BY DEF CatcherOf, TopF
  <2>2. BackOf(s) = x.n
    BY <2>1 DEF BackOf
  <2> QED
    BY <1>1, <1>2, <2>2
<1>5. TopF(r) \in {"host", "cfunc"}
  BY Zenon, <1>3 DEF PCallLeft
<1>6. PCallLeft(s, r, ErrorChain(w, Last(s.c).L, back), a, b)
  BY <1>3 DEF ch
<1> QED
  BY <1>4, <1>5, <1>6, ErrorToCIs, ErrorToHostIs

-----------------------------------------------------------------------------
(* The end of lua_resume *)

\* What is left of lua_resume.
ResumeLeft(s, r, ch, a, b) ==
  LET t == Last(s.c).L
      o == s.th[t]
      y == r.th[t]
      N == Len(s.c)
      u == Last(r.c).L
  IN
  /\ r \in Machine /\ r.do = "return"
  /\ \A z \in Threads \ {t} : r.th[z] = s.th[z]
  /\ y \in Thread /\ y.ci = o.ci /\ y.nny = 1 /\ y.errorJmp = o.errorJmp /\ y.errfunc = o.errfunc
  /\ y.body = o.body /\ y.status = (IF s.status \in Errors THEN s.status ELSE o.status)
  /\ StackRight(r, SubSeq(ch, 1, Len(ch) - 1), b) /\ TopF(r) = "cfunc" /\ TopRight(r, b)
  /\ Cur(r) \in Thread /\ Waits(Cur(r), Last(b)) /\ Len(Cur(r).ci) >= 1
  /\ t # Main /\ t \in Threads

\* The frames below a resume are of other threads.
LEMMA BelowResume ==
  ASSUME NEW s \in Machine, NEW ch, NEW a, StackRight(s, ch, a), TopF(s) = "resume",
         NEW k \in 1..Len(s.c) - 1
  PROVE  s.c[k].L # Last(s.c).L
<1> DEFINE N == Len(s.c)
           n == N - 1
<1>1. N \in Nat /\ Len(a) = N /\ Len(ch) \in Nat
  BY StackEnds
<1>2. N > 4 /\ Last(a).link = Len(ch) /\ Last(a).link = a[n].link + 1 /\ a[n] \in Mark
  BY ResumeMark
<1>3. k \in 1..Len(a) /\ n \in 1..Len(a) /\ k <= n
  BY <1>1, <1>2
<1>4. a[k].link <= a[n].link
  BY <1>3 DEF StackRight, Ordered
<1>5. k \in 1..Len(s.c)
  BY <1>1
<1>6. (s.c[k].L = Last(s.c).L) = (a[k].link = Len(ch)) /\ a[k] \in Mark
  BY <1>5, StackAt
<1>7. a[n].link \in Nat /\ a[k].link \in Nat
  BY <1>2, <1>6, MarkIs
<1> HIDE DEF n, N
<1>8. a[k].link # Len(ch)
  BY <1>1, <1>2, <1>4, <1>7
<1> QED
  BY <1>6, <1>8

LEMMA ResumeLeftIs ==
  ASSUME NEW s \in Machine, NEW ch, NEW a, StackRight(s, ch, a), TopF(s) = "resume",
         NEW v \in Statuses,
         NEW r, r = Leave(EndsResume(s, Last(s.c).L, Last(s.c).n, s.status), v)
  PROVE  r.status = v /\ \E b : ResumeLeft(s, r, ch, a, b)
<1> DEFINE t == Last(s.c).L
           o == s.th[t]
           y == r.th[t]
           N == Len(s.c)
           h == EndsResume(s, t, Last(s.c).n, s.status)
           b == SubSeq(a, 1, N - 1)
           g == SubSeq(ch, 1, Len(ch) - 1)
           u == s.c[N - 1].L
<1>1. t \in Threads /\ N \in Nat /\ N >= 1 /\ Last(s.c) = s.c[N] /\ s.c \in Seq(Frame) /\ Linked(ch)
      /\ Len(ch) \in Nat /\ t = ch[Len(ch)] /\ a \in Seq(Mark) /\ Len(a) = N
  BY StackEnds
<1>2. s.c # <<>> /\ s.status \in Statuses
  BY MachineIs DEF StackRight
<1>3. N > 4 /\ Last(s.c).n = 1 /\ Len(ch) > 1 /\ Len(ch) = a[N - 1].link + 1 /\ a[N - 1] \in Mark
  BY ResumeMark
<1> HIDE DEF t
<1>4. /\ OneThread(s, h, t) /\ h.th[t] \in Thread /\ h.th[t].nny = 1
      /\ h.th[t].status = (IF s.status \in Errors THEN s.status ELSE o.status)
      /\ h.th[t].ci = o.ci /\ h.th[t].errorJmp = o.errorJmp /\ h.th[t].errfunc = o.errfunc
      /\ h.th[t].body = o.body
  <2>1. 1 \in Nat /\ h = EndsResume(s, t, 1, s.status)
    BY <1>3
  <2> HIDE DEF h, N
  <2> QED
    BY <1>1, <1>2, <2>1, EndsResumeIs
<1>5. r = Leave(h, v)
  BY DEF t
<1> HIDE DEF h
<1>6. h \in Machine /\ h.c = s.c /\ \A z \in Threads \ {t} : h.th[z] = s.th[z]
  BY <1>4 DEF OneThread
<1>7. r \in Machine /\ r.th = h.th /\ r.c = SubSeq(s.c, 1, N - 1) /\ r.do = "return" /\ r.status = v
  <2>1. h.c # <<>>
    BY <1>2, <1>6
  <2> QED
    BY <1>5, <1>6, <2>1, LeaveIs
<1>8. \A z \in Threads \ {t} : r.th[z] = s.th[z]
  BY <1>6, <1>7
<1>9. StackRight(r, g, b)
  <2> DEFINE n == N - 1
  <2>1. n \in 1..Len(s.c) /\ r.c = SubSeq(s.c, 1, n) /\ n = N - 1
    BY <1>1, <1>3, <1>7
  <2>2. \A k \in 1..n : r.th[s.c[k].L] = s.th[s.c[k].L]
    <3> TAKE k \in 1..n
    <3>1. k \in 1..Len(s.c) - 1 /\ k \in 1..Len(s.c)
      BY <1>1
    <3>2. s.c[k].L # t
      BY <3>1, BelowResume DEF t
    <3>3. s.c[k].L \in Threads
      BY <3>1, StackAt
    <3> QED
      BY <1>8, <3>2, <3>3
  <2> HIDE DEF n
  <2>3. StackRight(r, SubSeq(ch, 1, a[n].link), SubSeq(a, 1, n))
    BY <1>7, <2>1, <2>2, StackShrinks
  <2>4. a[n].link = Len(ch) - 1
    <3>1. a[n].link \in Nat
      BY <1>3, <2>1, MarkIs
    <3> QED
      BY <1>1, <1>3, <2>1, <3>1
  <2> QED
    BY <2>1, <2>3, <2>4
<1>10. Last(r.c) = s.c[N - 1] /\ Last(b) = a[N - 1] /\ Len(r.c) = N - 1
  <2>1. N - 1 \in 0..Len(s.c) /\ N - 1 \in 0..Len(a) /\ N - 1 >= 1
    BY <1>1, <1>3
  <2> HIDE DEF N
  <2>2. Len(SubSeq(s.c, 1, N - 1)) = N - 1 /\ Last(SubSeq(s.c, 1, N - 1)) = s.c[N - 1]
    BY <1>1, <2>1, SubSeqIs
  <2>3. Last(b) = a[N - 1]
    BY <1>1, <2>1, SubSeqIs
  <2> QED
    BY <1>7, <2>2, <2>3
<1>11. /\ u # t /\ Owns(s.c[N - 1].f, a[N - 1], s.th[u].ci, Len(s.th[u].ci))
       /\ Waits(s.th[u], a[N - 1]) /\ u \in Threads /\ s.th[u] \in Thread
  <2>1. Len(s.c) > 1
    BY <1>1, <1>3
  <2>2. /\ s.c[N - 1].L # Last(s.c).L
        /\ Owns(s.c[N - 1].f, a[N - 1], s.th[s.c[N - 1].L].ci, Len(s.th[s.c[N - 1].L].ci))
        /\ Waits(s.th[s.c[N - 1].L], a[N - 1])
    BY <2>1, UnderIs
  <2>3. N - 1 \in 1..Len(s.c)
    BY <1>1, <1>3
  <2>4. s.c[N - 1].L \in Threads /\ s.th[s.c[N - 1].L] \in Thread
    BY <2>3, StackAt
  <2> QED
    BY <2>2, <2>4 DEF t
<1>12. s.c[N - 1].f = "cfunc"
  <2>1. <<s.c[N - 1].f, TopF(s)>> \in Nesting
    <3>1. N > 1
      BY <1>1, <1>3
    <3> QED
      BY <3>1, TopIs
  <2> QED
    BY <2>1 DEF Nesting
<1>13. TopF(r) = "cfunc" /\ Cur(r) = s.th[u]
  BY Zenon, <1>8, <1>10, <1>11, <1>12 DEF TopF, Cur
<1>14. TopRight(r, b)
  <2>1. Owns(TopF(r), Last(b), Cur(r).ci, Len(Cur(r).ci))
    BY Zenon, <1>10, <1>11, <1>12, <1>13
  <2>2. Live(Cur(r), Last(b))
    BY Zenon, <1>10, <1>11, <1>13 DEF Waits
  <2>3. ~(Len(r.c) <= 2)
    BY <1>1, <1>3, <1>10
  <2> QED
    BY <2>1, <2>2, <2>3 DEF TopRight
<1>15. Len(Cur(r).ci) >= 1
  <2>1. Owns("cfunc", a[N - 1], Cur(r).ci, Len(Cur(r).ci))
    BY Zenon, <1>11, <1>12, <1>13
  <2>2. Len(Cur(r).ci) = a[N - 1].ci + 1
    BY <2>1 DEF Owns
  <2>3. a[N - 1].ci \in Nat
    BY <1>3, MarkIs
  <2> QED
    BY <2>2, <2>3
<1>16. t # Main
  BY <1>1, <1>3 DEF Linked
<1>17. Cur(r) \in Thread /\ Waits(Cur(r), Last(b))
  BY Zenon, <1>10, <1>11, <1>13
<1>18. ResumeLeft(s, r, ch, a, b)
  <2>1. /\ y \in Thread /\ y.ci = o.ci /\ y.nny = 1 /\ y.errorJmp = o.errorJmp /\ y.errfunc = o.errfunc
        /\ y.body = o.body /\ y.status = (IF s.status \in Errors THEN s.status ELSE o.status)
    BY <1>4, <1>7
  <2> HIDE DEF y, b, u, g
  <2> QED
    BY Zenon, <1>1, <1>7, <1>8, <1>9, <1>13, <1>14, <1>15, <1>16, <1>17, <2>1 DEF ResumeLeft, t, y, g
<1> QED
  BY <1>7, <1>18

LEMMA FrontOfAppend ==
  ASSUME NEW S, NEW l \in Seq(S), NEW x \in S, NEW k, k = Append(l, x)
  PROVE  SubSeq(k, 1, Len(k) - 1) = l
<1>1. k \in Seq(S) /\ k # <<>> /\ Front(k) = l
  BY AppendIs
<1> QED
  BY <1>1, FrontIs

\* The thread that has resumed another goes on, whatever became of that.
LEMMA ResumeEndsIs ==
  ASSUME NEW s, NEW r, NEW w, TypesRight(s, w), NEW v \in Wants, NEW ch, NEW a, NEW b,
         ResumeLeft(s, r, ch, a, b), NEW t, t = Last(s.c).L, ch = Append(v.chain, t),
         \A u \in Threads \ ToSet(ch) : Resting(s.th[u], u, v.dead),
         Resting(r.th[t], t, v.dead),
         \A i \in 1..Len(v.chain) : v.chain[i] \notin v.dead,
         \A u \in Threads \ v.dead : Names(s.th[u].ci) = v.stack[u],
         r.status \in {"OK", "YIELD"} \cup Errors
  PROVE  Inv(r, v)
<1>1. /\ r \in Machine /\ r.do = "return"
      /\ \A z \in Threads \ {t} : r.th[z] = s.th[z]
      /\ r.th[t].ci = s.th[t].ci
      /\ StackRight(r, SubSeq(ch, 1, Len(ch) - 1), b) /\ TopF(r) = "cfunc" /\ TopRight(r, b)
      /\ Cur(r) \in Thread /\ Waits(Cur(r), Last(b)) /\ Len(Cur(r).ci) >= 1 /\ t \in Threads
  BY DEF ResumeLeft
<1>2. v.chain \in Seq(Threads)
  BY WantsAre
<1>3. SubSeq(ch, 1, Len(ch) - 1) = v.chain
  BY <1>1, <1>2, FrontOfAppend
<1>4. \A u \in Threads : r.th[u].ci = s.th[u].ci
  BY <1>1
<1>5. TypesRight(r, v)
  BY <1>1, <1>4 DEF TypesRight
<1>6. AgreeBut(r, v, {})
  BY <1>4 DEF AgreeBut
<1>7. Others(r, v, v.chain)
  <2>1. ASSUME NEW u \in Threads \ ToSet(v.chain) PROVE Resting(r.th[u], u, v.dead)
    <3>1. CASE u = t
      BY <3>1
    <3>2. CASE u # t
      <4>1. u \notin ToSet(ch)
        <5> SUFFICES ASSUME u \in ToSet(ch) PROVE FALSE
          OBVIOUS
        <5>1. PICK i \in 1..Len(ch) : ch[i] = u
          <6>1. ch \in Seq(Threads)
            BY <1>1, <1>2, AppendIs
          <6> QED
            BY <6>1 DEF ToSet
        <5>2. /\ Len(ch) = Len(v.chain) + 1 /\ Len(v.chain) \in Nat
              /\ \A j \in 1..Len(v.chain) : ch[j] = v.chain[j]
              /\ ch[Len(v.chain) + 1] = t
          BY <1>1, <1>2, AppendIs
        <5>3. i \in 1..Len(v.chain)
          BY <3>2, <5>1, <5>2
        <5>4. v.chain[i] = u
          BY <5>1, <5>2, <5>3
        <5> QED
          BY <1>2, <5>3, <5>4 DEF ToSet
      <4>2. Resting(s.th[u], u, v.dead)
        BY <4>1
      <4> QED
        BY <1>1, <3>2, <4>2
    <3> QED
      BY <3>1, <3>2
  <2> QED
    BY <2>1 DEF Others
<1>8. AtWork(r)
  <2>1. (Cur(r).errfunc = 1) = HandledBy(Cur(r).ci, Len(Cur(r).ci) - 1)
    <3> DEFINE ci == Cur(r).ci
               n == Len(ci)
    <3>1. ci \in Seq(CIs) /\ n \in Nat /\ n >= 1
      BY <1>1, ThreadIs
    <3>2. (Cur(r).errfunc = 1) = HandledBy(ci, n) /\ Last(ci).fn \in {"resume", "wrap"}
      BY <1>1 DEF Waits, ErrFuncRight
    <3>3. ci # <<>>
      BY <3>1
    <3>4. Last(ci) = ci[n]
      <4> HIDE DEF ci
      <4> QED
        BY <3>1, <3>3, FrontIs
    <3>5. ~Protects(ci[n].fn)
      BY <3>2, <3>4 DEF Protects
    <3> HIDE DEF ci, n
    <3>6. HandledBy(ci, n) = HandledBy(ci, n - 1)
      BY <3>1, <3>5, HandledStep
    <3> QED
      BY <3>2, <3>6 DEF ci, n
  <2> QED
    BY <1>1, <2>1 DEF AtWork
<1>9. Active(r, v, b)
  BY <1>1, <1>3, <1>6, <1>7, <1>8 DEF Active
<1> QED
  BY <1>5, <1>9 DEF Inv

\* It was an error that no call of the thread has caught.
LEMMA ReturnToResumeErrorIs ==
  ASSUME NEW s, NEW w, NEW a, NEW back \in Nat, TypesRight(s, w), Unwinding(s, w, a, back),
         TopF(s) = "resume", back = 0,
         NEW r, r = Leave(EndsResume(s, Last(s.c).L, Last(s.c).n, s.status), s.status)
  PROVE  Inv(r, w)
<1> DEFINE t == Last(s.c).L
           ch == Append(w.chain, t)
<1>1. /\ s \in Machine /\ w \in Wants /\ StackRight(s, ch, a)
      /\ AgreeBut(s, w, {t}) /\ Others(s, w, ch)
      /\ Cur(s) = s.th[t] /\ s.status \in Errors /\ Cur(s).errorJmp = 0 /\ t \in w.dead
      /\ s.status \in Statuses
  <2>1. ErrorChain(w, t, back) = ch
    BY DEF ErrorChain
  <2>2. /\ s \in Machine /\ w \in Wants /\ StackRight(s, ErrorChain(w, t, back), a)
        /\ AgreeBut(s, w, {t}) /\ Others(s, w, ErrorChain(w, t, back))
        /\ Cur(s) = s.th[t] /\ s.status \in Errors /\ Cur(s).errorJmp = 0 /\ GoneBack(s, w, t, back)
    BY UnwindingIs
  <2>3. t \in w.dead
    BY <2>2 DEF GoneBack
  <2>4. s.status \in Statuses
    BY <2>2, MachineIs
  <2> QED
    BY <2>1, <2>2, <2>3, <2>4
<1> HIDE DEF ch
<1>2. r.status = s.status /\ \E b : ResumeLeft(s, r, ch, a, b)
  BY <1>1, ResumeLeftIs
<1>3. PICK b : ResumeLeft(s, r, ch, a, b)
  BY SMTT(30), <1>2
<1>4. /\ r.th[t].nny = 1 /\ r.th[t].errorJmp = 0 /\ r.th[t].status \in Errors /\ t # Main
  BY <1>1, <1>3 DEF ResumeLeft
<1>5. Resting(r.th[t], t, w.dead)
  BY <1>1, <1>4 DEF Resting
<1> QED
  <2>1. \A u \in Threads \ ToSet(ch) : Resting(s.th[u], u, w.dead)
    BY <1>1 DEF Others
  <2>2. \A i \in 1..Len(w.chain) : w.chain[i] \notin w.dead
    BY <1>1 DEF Others
  <2>3. \A u \in Threads \ w.dead : Names(s.th[u].ci) = w.stack[u]
    BY <1>1 DEF AgreeBut
  <2>4. ch = Append(w.chain, t)
    BY DEF ch
  <2>5. r.status \in {"OK", "YIELD"} \cup Errors
    BY <1>1, <1>2
  <2> HIDE DEF t
  <2>6. t = Last(s.c).L
    BY DEF t
  <2> QED
    BY <1>1, <1>3, <1>5, <2>1, <2>2, <2>3, <2>4, <2>5, <2>6, ResumeEndsIs

\* It was a yield.
LEMMA ReturnToResumeYieldIs ==
  ASSUME NEW s, NEW w, NEW a, TypesRight(s, w), Yielding(s, w, a), TopF(s) = "resume",
         NEW r, r = Leave(EndsResume(s, Last(s.c).L, Last(s.c).n, s.status), s.status)
  PROVE  s.status = "YIELD" /\ Inv(r, w)
<1> DEFINE t == Last(s.c).L
           ch == Append(w.chain, t)
<1>1. /\ s \in Machine /\ w \in Wants /\ StackRight(s, ch, a)
      /\ AgreeBut(s, w, {}) /\ Others(s, w, ch)
      /\ Suspended(Cur(s)) /\ t \notin w.dead /\ s.status = "YIELD" /\ Cur(s) = s.th[t]
  BY YieldingIs
<1>2. Cur(s).errorJmp = 0
  BY DEF Yielding
<1> HIDE DEF ch
<1>3. r.status = "YIELD" /\ \E b : ResumeLeft(s, r, ch, a, b)
  <2>1. "YIELD" \in Statuses
    BY DEF Statuses
  <2>2. r = Leave(EndsResume(s, Last(s.c).L, Last(s.c).n, s.status), "YIELD")
    BY <1>1
  <2> QED
    BY <1>1, <2>1, <2>2, ResumeLeftIs
<1>4. PICK b : ResumeLeft(s, r, ch, a, b)
  BY <1>3
<1>5. /\ r.th[t].nny = 1 /\ r.th[t].errorJmp = 0 /\ t # Main
      /\ r.th[t].status = s.th[t].status /\ r.th[t].ci = s.th[t].ci /\ r.th[t].body = s.th[t].body
      /\ r.th[t].errfunc = s.th[t].errfunc
  <2>1. s.status \notin Errors
    BY <1>1 DEF Errors
  <2> QED
    BY Zenon, <1>1, <1>2, <1>4, <2>1 DEF ResumeLeft
<1>6. Suspended(r.th[t])
  BY ZenonT(30), <1>1, <1>5 DEF Suspended, ErrFuncRight
<1>7. Resting(r.th[t], t, w.dead)
  BY Zenon, <1>1, <1>5, <1>6 DEF Resting
<1> QED
  <2>1. \A u \in Threads \ ToSet(ch) : Resting(s.th[u], u, w.dead)
    BY <1>1 DEF Others
  <2>2. \A i \in 1..Len(w.chain) : w.chain[i] \notin w.dead
    BY <1>1 DEF Others
  <2>3. \A u \in Threads \ w.dead : Names(s.th[u].ci) = w.stack[u]
    BY <1>1 DEF AgreeBut
  <2>4. ch = Append(w.chain, t)
    BY DEF ch
  <2>5. r.status \in {"OK", "YIELD"} \cup Errors
    BY <1>3
  <2> HIDE DEF t
  <2>6. t = Last(s.c).L
    BY DEF t
  <2> QED
    BY <1>1, <1>4, <1>7, <2>1, <2>2, <2>3, <2>4, <2>5, <2>6, ResumeEndsIs

\* The function of the thread has returned.
LEMMA ReturnToResumeIs ==
  ASSUME NEW s, NEW w, NEW a, TypesRight(s, w), Active(s, w, a), s.do = "return", TopF(s) = "resume",
         NEW r, r = Leave(EndsResume(s, Last(s.c).L, Last(s.c).n, s.status), s.status)
  PROVE  s.status = "OK" /\ Inv(r, WEnd(w))
<1> DEFINE t == Last(s.c).L
           ch == w.chain
           v == WEnd(w)
<1>1. /\ s \in Machine /\ w \in Wants /\ StackRight(s, ch, a) /\ TopRight(s, a)
      /\ AgreeBut(s, w, {}) /\ Others(s, w, ch) /\ AtWork(s) /\ Cur(s) = s.th[t] /\ t = Last(ch)
      /\ t \notin w.dead /\ Cur(s).ci \in Seq(CIs)
  BY ActiveIs
<1>2. s.status = "OK"
  BY <1>1 DEF AtWork
<1>3. Len(ch) \in Nat /\ Len(ch) >= 1 /\ Linked(ch) /\ t = ch[Len(ch)] /\ t \in ToSet(ch)
  BY <1>1, StackEnds, LastOfChain
<1>4. Cur(s).ci = <<>> /\ Cur(s).errorJmp = 0 /\ Cur(s).status = "OK" /\ ~Cur(s).body
  <2>1. Last(a).ci = 0 /\ Last(a).jmp = 0
    BY <1>1, ResumeMark
  <2>2. Owns("resume", Last(a), Cur(s).ci, Len(Cur(s).ci)) /\ Live(Cur(s), Last(a))
    BY <1>1 DEF TopRight
  <2>3. Len(Cur(s).ci) = 0
    BY <2>1, <2>2 DEF Owns
  <2>4. Cur(s).ci = <<>>
    BY <1>1, <2>3
  <2> QED
    BY <2>1, <2>2, <2>4 DEF Live
<1>5. /\ v \in Wants /\ v.stack = w.stack /\ v.dead = w.dead \cup {t}
      /\ Append(v.chain, t) = ch
  <2>1. Len(w.chain) >= 1
    BY <1>3
  <2> QED
    BY <1>1, <2>1, WEndIs
<1>6. r.status = "OK" /\ \E b : ResumeLeft(s, r, ch, a, b)
  <2>1. "OK" \in Statuses
    BY DEF Statuses
  <2>2. r = Leave(EndsResume(s, Last(s.c).L, Last(s.c).n, s.status), "OK")
    BY <1>2
  <2> HIDE DEF ch, v
  <2> QED
    BY <1>1, <2>1, <2>2, ResumeLeftIs
<1> HIDE DEF ch, v
<1>7. PICK b : ResumeLeft(s, r, ch, a, b)
  BY <1>6
<1>8. /\ r.th[t].nny = 1 /\ r.th[t].errorJmp = 0 /\ t # Main
      /\ r.th[t].status = "OK" /\ r.th[t].ci = <<>> /\ ~r.th[t].body
  <2>1. s.status \notin Errors
    BY <1>2 DEF Errors
  <2> QED
    BY <1>1, <1>4, <1>7, <2>1 DEF ResumeLeft
<1>9. Resting(r.th[t], t, v.dead)
  BY <1>5, <1>8 DEF Resting
<1> HIDE DEF t
<1>10. \A u \in Threads \ ToSet(ch) : Resting(s.th[u], u, v.dead)
  <2> TAKE u \in Threads \ ToSet(ch)
  <2>1. Resting(s.th[u], u, w.dead) /\ u # t
    BY <1>1, <1>3 DEF Others
  <2>2. u \in v.dead <=> u \in w.dead
    BY <1>5, <2>1
  <2> QED
    BY <2>1, <2>2 DEF Resting
<1>11. \A i \in 1..Len(v.chain) : v.chain[i] \notin v.dead
  <2> TAKE i \in 1..Len(v.chain)
  <2>1. v.chain \in Seq(Threads) /\ t \in Threads
    BY <1>1, <1>5, WantsAre, StackEnds DEF t
  <2>2. Len(ch) = Len(v.chain) + 1 /\ Len(v.chain) \in Nat /\ ch[i] = v.chain[i]
    BY <1>5, <2>1, AppendIs
  <2>3. i \in 1..Len(ch) /\ i # Len(ch)
    BY <2>2
  <2>4. ch[i] # t
    BY <1>3, <2>3 DEF Linked
  <2>5. ch[i] \notin w.dead
    BY <1>1, <2>3 DEF Others, ch
  <2> QED
    BY <1>5, <2>2, <2>4, <2>5
<1>12. \A u \in Threads \ v.dead : Names(s.th[u].ci) = v.stack[u]
  BY <1>1, <1>5 DEF AgreeBut
<1>13. Inv(r, v)
  <2>1. r.status \in {"OK", "YIELD"} \cup Errors /\ t = Last(s.c).L
    BY <1>6 DEF t
  <2> QED
    BY <1>5, <1>7, <1>9, <1>10, <1>11, <1>12, <2>1, ResumeEndsIs
<1> QED
  BY <1>2, <1>13 DEF v

-----------------------------------------------------------------------------
(* lua_resume goes on. *)

\* The mark of what lua_resume protects.
Fresh(A) == A \in Mark /\ A.ci = 0 /\ A.nny = 0 /\ A.pcall = 0 /\ A.link > 1

\* resume or unroll, called by luaD_rawrunprotected
LEMMA RollPush ==
  ASSUME NEW s \in Machine, NEW ch, NEW a, StackRight(s, ch, a), TopF(s) = "try", Fresh(Last(a)),
         NEW f \in {"resuming", "unroll"}, NEW r, r = Enters(s, f, Last(s.c).L)
  PROVE  /\ Same(s, r) /\ r.th = s.th /\ r.do = s.do /\ r.status = s.status /\ TopF(r) = f
         /\ Cur(r) = Cur(s) /\ Len(r.c) = Len(s.c) + 1
         /\ \E b : /\ StackRight(r, ch, b) /\ Fresh(Last(b)) /\ Last(b).jmp = Last(a).jmp
                   /\ Last(b).depth = Last(a).depth
<1> DEFINE t == Last(s.c).L
           ci == Cur(s).ci
           N == Len(s.c)
           B == Last(a)
           x == [f |-> f, L |-> t, n |-> 0, p |-> 0, e |-> 0]
           A == MarkOf(x, N + 1, B, 0)
           b == Append(a, A)
<1>1. t \in Threads /\ Cur(s) = s.th[t] /\ Cur(s) \in Thread /\ N \in Nat /\ N >= 1 /\ B \in Mark
  BY StackEnds DEF Cur
<1>2. ci \in Seq(CIs) /\ Len(ci) \in Nat
  BY <1>1, ThreadIs
<1>3. r \in Machine /\ r.th = s.th /\ r.c = Append(s.c, x) /\ r.do = s.do /\ r.status = s.status /\ x \in Frame
  <2>1. f \in FrameKinds
    BY DEF FrameKinds
  <2> QED
    BY <1>1, <2>1, EntersIs
<1>4. /\ x.f = f /\ x.L = t /\ x.f # "resume"
  OBVIOUS
<1>5. /\ B.ci = 0 /\ B.nny = 0 /\ B.pcall = 0 /\ B.link > 1
  BY DEF Fresh
<1>6. /\ A.ci = 0 /\ A.link = B.link /\ A.pcall = B.pcall /\ A.nny = B.nny /\ A.depth = B.depth
      /\ A.jmp = B.jmp
  BY DEF MarkOf
<1>7. A \in Mark
  BY <1>1, MarkOfIs
<1>8. <<TopF(s), f>> \in Nesting
  BY DEF Nesting
<1>9. A = MarkOf(x, Len(s.c) + 1, Last(a), 0)
  OBVIOUS
<1> HIDE DEF x, A
<1>10. Owns("try", B, ci, 0)
  BY <1>5 DEF Owns
<1>11. SavedOver(x, TopF(s), B, A, ci, N + 1)
  BY <1>4, <1>5, <1>6 DEF SavedOver
<1>12. Below(x.f, A, ci)
  <2>1. x.f \notin {"execute", "call", "cfunc"}
    BY <1>4
  <2>2. A.nny = 0 /\ A.link > 1 /\ A.pcall = 0 /\ A.ci = 0
    BY <1>5, <1>6
  <2> QED
    BY <2>1, <2>2 DEF Below
<1>13. Pushes(s, r, ch, a, x, 0, A)
  <2>1. r.th[x.L] = Cur(s) /\ r.th[x.L].ci = ci
    BY <1>1, <1>3, <1>4
  <2>2. Last(a).ci <= 0 /\ 0 <= Len(r.th[x.L].ci) /\ SameTo(Cur(s).ci, r.th[x.L].ci, Last(a).ci)
    BY <1>2, <1>5, <2>1 DEF SameTo
  <2>3. Owns(TopF(s), Last(a), r.th[x.L].ci, 0)
    BY <1>10, <2>1
  <2>4. SavedOver(x, TopF(s), Last(a), A, r.th[x.L].ci, Len(s.c) + 1) /\ Below(x.f, A, r.th[x.L].ci)
    BY <1>11, <1>12, <2>1
  <2>5. <<TopF(s), x.f>> \in Nesting /\ x.L = Last(s.c).L
    BY <1>4, <1>8
  <2> QED
    BY <1>3, <1>4, <1>9, <2>2, <2>3, <2>4, <2>5 DEF Pushes
<1>14. /\ StackRight(r, ch, b) /\ Last(b) = A /\ Last(r.c) = x
       /\ TopF(r) = x.f /\ Cur(r) = r.th[x.L] /\ Len(r.c) = Len(s.c) + 1
  BY <1>13, StackPush
<1>15. Fresh(Last(b)) /\ Last(b).jmp = Last(a).jmp /\ Last(b).depth = Last(a).depth
  BY <1>5, <1>6, <1>7, <1>14 DEF Fresh
<1>16. Same(s, r)
  BY <1>3, <1>4, <1>14 DEF Same
<1> QED
  BY <1>1, <1>3, <1>4, <1>14, <1>15, <1>16

\* A thread that goes on after what was cut off.
LEMMA RollTop ==
  ASSUME NEW r \in Machine, NEW ch, NEW b, StackRight(r, ch, b), TopF(r) \in {"resuming", "unroll"},
         Fresh(Last(b)), CIsRight(Cur(r).ci), \A i \in 1..Len(Cur(r).ci) : Pending(Cur(r).ci, i),
         Live(Cur(r), Last(b))
  PROVE  TopRight(r, b) /\ Ready(r, ch)
<1>1. Owns(TopF(r), Last(b), Cur(r).ci, Len(Cur(r).ci))
  BY DEF Owns
<1>2. ~(Len(r.c) <= 2)
  <2>1. TopF(r) \notin {"host", "dpcall"}
    OBVIOUS
  <2>2. Len(r.c) > 2 /\ Len(r.c) \in Nat
    BY <2>1, BaseIs, StackEnds
  <2> QED
    BY <2>2
<1>3. TopRight(r, b)
  BY <1>1, <1>2 DEF TopRight
<1> QED
  BY <1>3 DEF Ready

Recovers(s, t, k) ==
  Enters(RawRun(CutBack(s, t, k, 0, s.th[t].ci[k].old_errfunc), t), "unroll", t)

\* An error goes back to a protected call that the C stack knows no more of.
LEMMA RecoverIs ==
  ASSUME NEW s, NEW w, NEW a, NEW back \in Nat, TypesRight(s, w), Unwinding(s, w, a, back),
         TopF(s) = "resume", back # 0,
         NEW r, r = Recovers(s, Last(s.c).L, back)
  PROVE  Inv(r, w)
<1> DEFINE t == Last(s.c).L
           ch == w.chain
           o == s.th[t]
           ci == o.ci
           e == ci[back].old_errfunc
           q == CutBack(s, t, back, 0, e)
           g == RawRun(q, t)
           A == Last(a)
<1>1. /\ s \in Machine /\ w \in Wants /\ StackRight(s, ch, a)
      /\ AgreeBut(s, w, {t}) /\ Others(s, w, ch)
      /\ o.status = "OK" /\ ~o.body /\ s.do = "return" /\ s.status \in Errors
      /\ o.errorJmp = 0 /\ o.nCcalls >= A.depth
      /\ back = BackOf(s) /\ GoneBack(s, w, t, back)
      /\ t \in Threads /\ Cur(s) = o /\ CIsRight(ci) /\ o \in Thread
  <2>1. ErrorChain(w, t, back) = ch
    BY DEF ErrorChain
  <2>2. /\ s \in Machine /\ w \in Wants /\ StackRight(s, ErrorChain(w, t, back), a)
        /\ AgreeBut(s, w, {t}) /\ Others(s, w, ErrorChain(w, t, back))
        /\ Cur(s).status = "OK" /\ ~Cur(s).body /\ s.do = "return" /\ s.status \in Errors
        /\ Cur(s).errorJmp = 0 /\ Cur(s).nCcalls >= A.depth
        /\ back = BackOf(s) /\ GoneBack(s, w, t, back)
        /\ t \in Threads /\ Cur(s) = s.th[t] /\ CIsRight(Cur(s).ci) /\ Cur(s) \in Thread
    BY UnwindingIs
  <2> QED
    BY <2>1, <2>2
<1>2. A \in Mark /\ A.ci = 0 /\ A.nny = 0 /\ A.jmp = 0 /\ A.pcall = 0 /\ Len(s.c) > 4
      /\ Len(s.c) \in Nat /\ A.link > 1
  BY <1>1, ResumeMark
<1> HIDE DEF t, ch, A, o
<1>3. ci \in Seq(CIs) /\ Len(ci) \in Nat
  BY <1>1, ThreadIs
<1>4. back = LastYPCall(ci)
  <2>1. Last(s.c).f = "resume"
    BY DEF TopF
  <2>2. CatcherOf(s).f # "dpcall"
    BY <2>1 DEF CatcherOf
  <2> QED
    BY <1>1, <2>2 DEF BackOf
<1>5. back \in 0..Len(ci) /\ ci[back].ypcall
  BY <1>3, <1>4, LastYPCallIs
<1>6. back \in 1..Len(ci) /\ ci[back] \in CIs
  BY <1>3, <1>5
<1>7. (e = 1) = HandledBy(ci, back - 1) /\ Protects(ci[back].fn) /\ \A j \in 1..back : Pending(ci, j)
  BY <1>1, <1>5, <1>6 DEF CIsRight
<1>8. e \in {0, 1}
  BY <1>6 DEF CIs
<1>9. /\ OneThread(s, q, t) /\ q.th[t] \in Thread /\ q.th[t].nny = 0
      /\ q.th[t].status = o.status /\ q.th[t].nCcalls = o.nCcalls /\ q.th[t].errorJmp = o.errorJmp
      /\ q.th[t].body = o.body /\ q.th[t].ci \in Seq(CIs)
      /\ Len(q.th[t].ci) = back /\ SameTo(ci, q.th[t].ci, back)
      /\ Names(q.th[t].ci) = SubSeq(Names(ci), 1, back) /\ CIsRight(q.th[t].ci)
  <2>1. back \in 0..Len(s.th[t].ci) /\ 0 \in Nat
    BY <1>5 DEF o
  <2> HIDE DEF e, q
  <2>2. q = CutBack(s, t, back, 0, e)
    BY DEF q
  <2>3. /\ OneThread(s, q, t) /\ q.th[t] \in Thread /\ q.th[t].nny = 0
        /\ q.th[t].status = s.th[t].status /\ q.th[t].nCcalls = s.th[t].nCcalls
        /\ q.th[t].errorJmp = s.th[t].errorJmp /\ q.th[t].body = s.th[t].body
    BY <1>1, <1>8, <2>1, <2>2, CutBackIs
  <2>4. /\ q.th[t].ci \in Seq(CIs) /\ Len(q.th[t].ci) = back /\ SameTo(s.th[t].ci, q.th[t].ci, back)
        /\ Names(q.th[t].ci) = SubSeq(Names(s.th[t].ci), 1, back)
        /\ CIsRight(s.th[t].ci) => CIsRight(q.th[t].ci)
    BY <1>1, <1>8, <2>1, <2>2, CutBackIs
  <2> QED
    BY <1>1, <2>3, <2>4 DEF o
<1> HIDE DEF ci, e, q
<1>10. q \in Machine /\ q.c = s.c /\ q.do = s.do /\ q.status = s.status
       /\ \A u \in Threads \ {t} : q.th[u] = s.th[u]
  BY <1>9 DEF OneThread
<1>11. Cur(q) = q.th[t] /\ TopF(q) = "resume"
  BY <1>10 DEF Cur, TopF, t
<1>12. StackRight(q, ch, a)
  <2>1. A.ci <= Len(Cur(q).ci) /\ SameTo(Cur(s).ci, Cur(q).ci, A.ci)
    BY <1>2, <1>9, <1>11 DEF SameTo
  <2>2. q.c = s.c /\ \A u \in Threads \ {Last(s.c).L} : q.th[u] = s.th[u]
    BY <1>10 DEF t
  <2> QED
    BY <1>1, <1>10, <2>1, <2>2, StackTop DEF A
<1>13. CanTry(q, ch, a)
  <2>1. Cur(q).nCcalls >= A.depth /\ Cur(q).errorJmp = 0
    BY <1>1, <1>9, <1>11
  <2>2. Len(q.c) # 2
    <3>1. Len(q.c) > 4 /\ Len(q.c) \in Nat
      BY <1>2, <1>10
    <3>2. \A n \in Nat : n > 4 => n # 2
      OBVIOUS
    <3> QED
      BY <3>1, <3>2
  <2> QED
    BY <1>10, <1>11, <1>12, <2>1, <2>2 DEF CanTry, A
<1>14. Last(q.c).L = t
  BY <1>10 DEF t
<1>15. PICK E : Tried(q, g, ch, a, E)
  <2>1. g = RawRun(q, Last(q.c).L)
    BY <1>14
  <2> HIDE DEF g
  <2> QED
    BY <1>13, <2>1, TryIs
<1> HIDE DEF g
<1> DEFINE b == Append(a, E)
<1>16. /\ Same(q, g) /\ g.do = q.do /\ g.status = q.status /\ TopF(g) = "try" /\ Cur(g) = g.th[t]
       /\ g.th[t].ci = q.th[t].ci /\ g.th[t].status = q.th[t].status /\ g.th[t].nny = q.th[t].nny
       /\ g.th[t].nCcalls = q.th[t].nCcalls /\ g.th[t].errorJmp = Len(q.c) + 1
       /\ g.th[t].body = q.th[t].body
       /\ StackRight(g, ch, b) /\ Last(b) = E
       /\ E.ci = A.ci /\ E.nny = A.nny /\ E.jmp = Len(q.c) + 1
       /\ E.depth = A.depth /\ E.link = A.link /\ E.pcall = A.pcall
  BY <1>14, <1>15 DEF Tried, A
<1>17. g \in Machine /\ Last(g.c).L = t /\ \A u \in Threads \ {t} : g.th[u] = s.th[u]
  BY <1>10, <1>14, <1>16 DEF Same
<1> HIDE DEF b
<1>18. Fresh(Last(b))
  <2>1. Last(b) \in Mark
    BY <1>16, <1>17, StackEnds
  <2> QED
    BY <1>2, <1>16, <2>1 DEF Fresh
<1>19. r = Enters(g, "unroll", Last(g.c).L)
  BY Zenon, <1>17 DEF Recovers, g, q, e, ci, o, t
<1>20. /\ Same(g, r) /\ r.th = g.th /\ r.do = g.do /\ r.status = g.status /\ TopF(r) = "unroll"
       /\ Cur(r) = Cur(g)
       /\ \E d : /\ StackRight(r, ch, d) /\ Fresh(Last(d)) /\ Last(d).jmp = Last(b).jmp
                 /\ Last(d).depth = Last(b).depth
  <2>1. "unroll" \in {"resuming", "unroll"}
    OBVIOUS
  <2> QED
    BY <1>16, <1>17, <1>18, <1>19, <2>1, RollPush
<1>21. PICK d : /\ StackRight(r, ch, d) /\ Fresh(Last(d)) /\ Last(d).jmp = Last(b).jmp
                /\ Last(d).depth = Last(b).depth
  BY <1>20
<1>22. r \in Machine /\ Last(r.c).L = t /\ Cur(r) = g.th[t] /\ Cur(r).ci = q.th[t].ci
  BY <1>16, <1>17, <1>20 DEF Same
<1>23. \A i \in 1..Len(Cur(r).ci) : Pending(Cur(r).ci, i)
  <2>1. \A i \in 1..back : Pending(ci, i) = Pending(q.th[t].ci, i)
    BY <1>9, PendingSame
  <2> QED
    BY <1>7, <1>9, <1>22, <2>1
<1>24. Live(Cur(r), Last(d))
  <2>1. Cur(r).status = "OK" /\ ~Cur(r).body
    BY <1>1, <1>9, <1>16, <1>22
  <2>2. Cur(r).nny = Last(d).nny
    BY <1>9, <1>16, <1>21, <1>22 DEF Fresh
  <2>3. Cur(r).errorJmp = Last(d).jmp
    BY <1>16, <1>21, <1>22
  <2>4. Cur(r).nCcalls >= Last(d).depth
    BY <1>1, <1>9, <1>16, <1>21, <1>22
  <2> QED
    BY <2>1, <2>2, <2>3, <2>4 DEF Live
<1>25. Ready(r, ch)
  <2>1. CIsRight(Cur(r).ci) /\ TopF(r) \in {"resuming", "unroll"}
    BY <1>9, <1>20, <1>22
  <2> QED
    BY <1>21, <1>22, <1>23, <1>24, <2>1, RollTop
<1>26. Cur(r).ci # <<>> /\ TopCI(r).ypcall
  <2> DEFINE cj == q.th[t].ci
  <2>1. cj \in Seq(CIs) /\ Len(cj) = back /\ cj[back] = ci[back]
    BY <1>6, <1>9 DEF SameTo
  <2>2. cj # <<>>
    BY <2>1
  <2> HIDE DEF cj
  <2>3. Last(cj) = cj[back]
    BY <2>1, <2>2, FrontIs
  <2>4. Cur(r).ci = cj
    BY <1>22 DEF cj
  <2> QED
    BY <1>5, <2>1, <2>2, <2>3, <2>4 DEF TopCI
<1>27. AtWork(r)
  <2>1. r.do = "return" /\ TopF(r) = "unroll" /\ r.status \in Errors
    BY <1>1, <1>10, <1>16, <1>20
  <2> QED
    BY <1>26, <2>1 DEF AtWork
<1>28. Same(s, r)
  BY <1>10, <1>17, <1>20, <1>22 DEF Same, t
<1>29. w.stack[t] = Names(Cur(r).ci)
  BY <1>1, <1>9, <1>22 DEF GoneBack, ci, o
<1> QED
  <2>1. Others(s, w, w.chain) /\ AgreeBut(s, w, {Last(s.c).L}) /\ WSame(w, w, Last(s.c).L)
        /\ w.stack[Last(s.c).L] = Names(Cur(r).ci) /\ Ready(r, w.chain)
    BY <1>1, <1>25, <1>29, WSameIs DEF ch, t
  <2> QED
    BY <1>27, <1>28, <2>1, StaysActive

-----------------------------------------------------------------------------
(* C functions that switch threads *)

\* The C function fn has been entered: z is the machine, b its marks.
Into(s, w, a, z, b, fn) ==
  LET t == Last(s.c).L
      ci == Cur(s).ci
      ck == Cur(z).ci
      v == WPush(w, fn)
  IN
  /\ z \in Machine /\ Last(z.c).L = t /\ TopF(z) = "cfunc" /\ Same(s, z)
  /\ \A u \in Threads \ {t} : z.th[u] = s.th[u]
  /\ z.do = s.do /\ z.status = s.status /\ Cur(z) = z.th[t]
  /\ Cur(z).errfunc = Cur(s).errfunc /\ Cur(z).nny = Cur(s).nny
  /\ StackRight(z, w.chain, b) /\ TopRight(z, b)
  /\ Last(b).nny = Last(a).nny /\ Last(b).link = Last(a).link
  /\ Last(b).ci = Len(ci)
  /\ ck = Append(ci, NewCI(fn)) /\ CIsRight(ck) /\ ck \in Seq(CIs) /\ Len(ck) = Len(ci) + 1
  /\ Len(ci) \in Nat /\ ck # <<>> /\ SameTo(ci, ck, Len(ci)) /\ Front(ck) = ci
  /\ Names(ck) = Append(Names(ci), fn)
  /\ TopCI(z) = NewCI(fn) /\ TopCI(z).fn = fn /\ ~TopCI(z).ypcall
  /\ ErrFuncRight(Cur(z))
  /\ (Cur(z).errfunc = 1) = HandledBy(ck, Len(ck) - 1)
  /\ WSame(w, v, t) /\ v.stack[t] = Names(ck)

LEMMA IntoIs ==
  ASSUME NEW s, NEW w, NEW a, TypesRight(s, w), Active(s, w, a), TopF(s) = "execute",
         NEW fn \in {"yield", "resume", "wrap"}, NEW z, z = EnterC(s, Last(s.c).L, fn)
  PROVE  \E b : Into(s, w, a, z, b, fn)
<1> DEFINE t == Last(s.c).L
           A == Last(a)
           ci == Cur(s).ci
           ch == w.chain
           ck == Cur(z).ci
           v == WPush(w, fn)
<1>1. /\ s \in Machine /\ w \in Wants /\ StackRight(s, ch, a) /\ TopRight(s, a)
      /\ t \in Threads /\ t = Last(w.chain) /\ w.stack[t] = Names(ci)
      /\ Cur(s) = s.th[t] /\ ci \in Seq(CIs) /\ CIsRight(ci) /\ Len(ci) \in Nat
  BY ActiveIs
<1>2. ErrFuncRight(Cur(s))
  BY ExecuteTop
<1>3. fn \in Fns /\ ~IsLua(fn) /\ ~Protects(fn)
  BY DEF Fns, IsLua, Protects
<1>4. CEntered(s, z, ch, a, fn)
  <2>1. CanEnterC(s, ch, a, fn)
    BY <1>1, <1>3 DEF CanEnterC
  <2> QED
    BY <2>1, EnterCIs
<1>5. /\ Same(s, z) /\ TopF(z) = "cfunc" /\ ck = Append(ci, NewCI(fn)) /\ CIsRight(ck)
      /\ Cur(z).errfunc = Cur(s).errfunc /\ Cur(z) = z.th[t] /\ Cur(z).nny = Cur(s).nny
      /\ z.do = s.do /\ z.status = s.status
  BY Zenon, <1>4 DEF CEntered
<1>6. PICK b : /\ StackRight(z, ch, b) /\ TopRight(z, b)
               /\ Last(b).nny = A.nny /\ Last(b).link = A.link /\ Last(b).ci = Len(ci)
  BY ZenonT(30), <1>4 DEF CEntered
<1>7. z \in Machine /\ Last(z.c).L = t /\ \A u \in Threads \ {t} : z.th[u] = s.th[u]
  BY SMTT(30), <1>5 DEF Same
<1>8. ck \in Seq(CIs) /\ Len(ck) \in Nat /\ Len(ck) >= 1 /\ ck # <<>> /\ TopCI(z) = Last(ck)
  BY <1>5, <1>6, <1>7, CFuncTop
<1>9. NewCI(fn).fn = fn /\ ~NewCI(fn).ypcall /\ NewCI(fn) \in CIs
  BY <1>3, NewCIIs
<1> HIDE DEF ck, ci
<1>10. Last(ck) = NewCI(fn) /\ Front(ck) = ci /\ Len(ck) = Len(ci) + 1 /\ SameTo(ci, ck, Len(ci))
  BY <1>1, <1>5, <1>9, AppendIs DEF SameTo
<1>11. Names(ck) = Append(Names(ci), fn)
  BY <1>1, <1>5, <1>9, NamesAppend
<1>12. HandledBy(ck, Len(ck)) = HandledBy(ci, Len(ci))
  BY <1>1, <1>3, <1>8, <1>11, HandledPush
<1>13. HandledBy(ck, Len(ck) - 1) = HandledBy(ci, Len(ci))
  <2>1. Len(ck) - 1 = Len(ci) /\ Len(ci) \in Int /\ Len(ci) <= Len(ci)
    BY <1>1, <1>10
  <2> QED
    BY <1>10, <2>1, HandledSame
<1>14. (Cur(s).errfunc = 1) = HandledBy(ci, Len(ci))
  BY <1>2 DEF ErrFuncRight, ci
<1>15. ErrFuncRight(Cur(z)) /\ (Cur(z).errfunc = 1) = HandledBy(ck, Len(ck) - 1)
  BY <1>5, <1>12, <1>13, <1>14 DEF ErrFuncRight, ck
<1>16. WSame(w, v, t) /\ v.stack[t] = Names(ck)
  BY <1>1, <1>3, <1>11, WPushIs
<1>17. TopCI(z) = NewCI(fn)
  BY <1>8, <1>10
<1> HIDE DEF v
<1>18. Into(s, w, a, z, b, fn)
  BY Zenon, <1>1, <1>5, <1>6, <1>7, <1>8, <1>9, <1>10, <1>11, <1>15, <1>16, <1>17 DEF Into, ck, ci, v
<1> QED
  BY <1>18

\* What lies between a yield and its resume must be able to go on (the operator CanYield).
CanYieldAt(w, t) == t # Main /\ ~\E fn \in ToSet(w.stack[t]) : fn \in {"sort", "handler"}

\* nny says so.
LEMMA NnyIs ==
  ASSUME NEW s, NEW w, NEW a, TypesRight(s, w), Active(s, w, a), TopF(s) = "execute"
  PROVE  CanYieldAt(w, Last(s.c).L) = (Cur(s).nny = 0)
<1> DEFINE t == Last(s.c).L
           A == Last(a)
           ci == Cur(s).ci
           ch == w.chain
<1>1. /\ s \in Machine /\ StackRight(s, ch, a) /\ TopRight(s, a) /\ w.stack[t] = Names(ci)
      /\ ci \in Seq(CIs) /\ Len(ci) \in Nat
  BY ActiveIs
<1>2. /\ A.nny > 0 /\ A.link > 1 => \E i \in 1..Len(ci) : ci[i].fn \in {"sort", "handler"}
      /\ A.nny = 0 => A.link > 1 /\ \A i \in 1..Len(ci) : Pending(ci, i)
      /\ A \in Mark
  BY ExecuteTop
<1>3. Cur(s).nny = A.nny /\ A.nny \in Nat /\ A.link \in Nat
  BY <1>1, <1>2, MarkIs DEF TopRight, Live
<1>4. (A.link > 1) = (t # Main)
  <2>1. Linked(ch) /\ t = ch[Len(ch)] /\ Len(ch) \in Nat /\ Len(ch) >= 1 /\ A.link = Len(ch)
    BY <1>1, StackEnds
  <2>2. ch[1] = Main /\ \A i, j \in 1..Len(ch) : ch[i] = ch[j] => i = j
    BY <2>1 DEF Linked
  <2>3. 1 \in 1..Len(ch) /\ Len(ch) \in 1..Len(ch)
    BY <2>1
  <2> HIDE DEF ch, A
  <2>4. (t = Main) = (Len(ch) = 1)
    BY <2>1, <2>2, <2>3
  <2>5. \A n \in Nat : n >= 1 => (n > 1) = (n # 1)
    OBVIOUS
  <2> DEFINE n == Len(ch)
  <2> HIDE DEF n
  <2>6. (n > 1) = (n # 1) /\ A.link = n /\ (t = Main) = (n = 1)
    BY <2>1, <2>4, <2>5 DEF n
  <2> QED
    BY <2>6
<1>5. /\ Names(ci) \in Seq(Fns) /\ Len(Names(ci)) = Len(ci)
      /\ \A i \in 1..Len(ci) : Names(ci)[i] = ci[i].fn
  BY <1>1, NamesAre
<1> HIDE DEF ci
<1>6. ToSet(Names(ci)) = {ci[i].fn : i \in 1..Len(ci)}
  <2> DEFINE l == Names(ci)
  <2>1. DOMAIN l = 1..Len(ci)
    BY <1>5
  <2>2. ToSet(l) = {l[i] : i \in DOMAIN l}
    BY DEF ToSet
  <2>3. {l[i] : i \in 1..Len(ci)} = {ci[i].fn : i \in 1..Len(ci)}
    BY <1>5
  <2> QED
    BY <2>1, <2>2, <2>3
<1>7. ASSUME A.nny = 0 PROVE CanYieldAt(w, t)
  <2>1. \A i \in 1..Len(ci) : ci[i].fn \notin {"sort", "handler"}
    BY <1>2, <1>7 DEF Pending, Protects, ci
  <2> QED
    BY <1>1, <1>2, <1>4, <1>6, <1>7, <2>1 DEF CanYieldAt, ci
<1>8. ASSUME A.nny # 0 PROVE ~CanYieldAt(w, t)
  <2>1. A.nny > 0
    BY <1>3, <1>8
  <2>2. CASE A.link > 1
    <3>1. \E fn \in ToSet(w.stack[t]) : fn \in {"sort", "handler"}
      BY <1>1, <1>2, <1>6, <2>1, <2>2 DEF ci
    <3> QED
      BY <3>1 DEF CanYieldAt
  <2>3. CASE ~(A.link > 1)
    BY <1>4, <2>3 DEF CanYieldAt
  <2> QED
    BY <2>2, <2>3
<1>9. (Cur(s).nny = 0) = (A.nny = 0)
  BY <1>3
<1> QED
  BY <1>7, <1>8, <1>9 DEF CanYieldAt

\* The yield itself, where it is allowed.
LEMMA YieldsIs ==
  ASSUME NEW s, NEW w, NEW a, TypesRight(s, w), Active(s, w, a), TopF(s) = "execute", Cur(s).nny = 0,
         NEW z, NEW b, Into(s, w, a, z, b, "yield"),
         NEW r, r = Throw(SetStatus(z, Last(s.c).L, "YIELD"), "YIELD"),
         NEW v, v = [WPush(w, "yield") EXCEPT !.chain = Front(@)]
  PROVE  Inv(r, v)
<1> DEFINE t == Last(s.c).L
           A == Last(a)
           ci == Cur(s).ci
           ck == Cur(z).ci
           ch == w.chain
           x == WPush(w, "yield")
           y == SetStatus(z, t, "YIELD")
<1>1. /\ s \in Machine /\ w \in Wants /\ StackRight(s, ch, a) /\ TopRight(s, a)
      /\ AgreeBut(s, w, {}) /\ Others(s, w, ch)
      /\ t \in Threads /\ t = Last(ch) /\ t \notin w.dead /\ Cur(s) = s.th[t]
      /\ Len(ci) \in Nat
  BY ActiveIs
<1>2. \A i \in 1..Len(ci) : Pending(ci, i)
  <2>1. A.nny = 0
    BY <1>1 DEF TopRight, Live
  <2> QED
    BY <2>1, ExecuteTop
<1>3. /\ z \in Machine /\ Last(z.c).L = t /\ TopF(z) = "cfunc" /\ Cur(z) = z.th[t]
      /\ \A u \in Threads \ {t} : z.th[u] = s.th[u]
      /\ Cur(z).nny = 0
      /\ StackRight(z, ch, b) /\ TopRight(z, b)
  BY DEF Into
<1>4. /\ CIsRight(ck) /\ ck \in Seq(CIs) /\ Len(ck) = Len(ci) + 1 /\ ck # <<>>
      /\ SameTo(ci, ck, Len(ci)) /\ TopCI(z).fn = "yield" /\ ErrFuncRight(Cur(z))
  BY DEF Into
<1>5. WSame(w, x, t) /\ x.stack[t] = Names(ck)
  BY DEF Into
<1>6. x \in Wants /\ x.chain = ch /\ x.dead = w.dead /\ \A u \in Threads \ {t} : x.stack[u] = w.stack[u]
  BY <1>5 DEF WSame
<1>7. ch \in Seq(Threads) /\ Len(ch) \in Nat /\ Len(ch) >= 1
  BY <1>1, StackEnds
<1>8. Append(Front(ch), t) = ch /\ Front(ch) \in Seq(Threads)
  BY <1>1, <1>7, AppendFront
<1> HIDE DEF x
<1>9. v = [stack |-> x.stack, chain |-> Front(ch), dead |-> w.dead]
  <2>1. v = [x EXCEPT !.chain = Front(@)]
    BY DEF x
  <2>2. x = [stack |-> x.stack, chain |-> ch, dead |-> w.dead]
    BY <1>6, WantsAre
  <2> QED
    BY <2>1, <2>2
<1>10. v \in Wants /\ v.stack = x.stack /\ v.chain = Front(ch) /\ v.dead = w.dead
  <2>1. x.stack \in [Threads -> Seq(Fns)] /\ w.dead \in SUBSET Threads
    BY <1>1, <1>6, WantsAre
  <2> QED
    BY <1>8, <1>9, <2>1 DEF Wants
<1>11. "YIELD" \in Statuses
  BY DEF Statuses
<1>12. /\ OneThread(z, y, t) /\ y.th[t] \in Thread /\ y.th[t].status = "YIELD"
       /\ y.th[t].ci = ck /\ y.th[t].nny = Cur(z).nny /\ y.th[t].nCcalls = Cur(z).nCcalls
       /\ y.th[t].errorJmp = Cur(z).errorJmp /\ y.th[t].errfunc = Cur(z).errfunc
       /\ y.th[t].body = Cur(z).body
  BY <1>1, <1>3, <1>11, SetStatusIs
<1> HIDE DEF y
<1>13. y \in Machine /\ y.c = z.c /\ \A u \in Threads \ {t} : y.th[u] = z.th[u]
  BY <1>12 DEF OneThread
<1>14. r \in Machine /\ r.th = y.th /\ r.c = z.c /\ r.do = "throw" /\ r.status = "YIELD"
  BY <1>11, <1>13, ThrowIs DEF y
<1>15. Last(r.c).L = t /\ TopF(r) = "cfunc" /\ Cur(r) = y.th[t]
  BY <1>3, <1>14 DEF TopF, Cur
<1> HIDE DEF ck, ci, A
<1>16. StackRight(r, ch, b)
  <2>1. Last(b).ci <= Len(Cur(z).ci) /\ Last(b).ci \in Nat
    BY <1>3, TopIs, MarkIs
  <2>2. SameTo(Cur(z).ci, Cur(r).ci, Last(b).ci) /\ Cur(r).ci = Cur(z).ci
    BY <1>12, <1>15 DEF SameTo, ck
  <2>3. \A u \in Threads \ {Last(z.c).L} : r.th[u] = z.th[u]
    BY <1>3, <1>13, <1>14
  <2> QED
    BY <1>3, <1>14, <2>1, <2>2, <2>3, StackTop
<1>17. AgreeBut(r, v, {})
  <2> SUFFICES ASSUME NEW u \in Threads \ (v.dead \cup {})
               PROVE  Names(r.th[u].ci) = v.stack[u]
    BY DEF AgreeBut
  <2>1. CASE u = t
    BY <1>5, <1>10, <1>12, <1>14, <2>1
  <2>2. CASE u # t
    BY <1>1, <1>3, <1>6, <1>10, <1>13, <1>14, <2>2 DEF AgreeBut
  <2> QED
    BY <2>1, <2>2
<1>18. Others(r, v, ch)
  <2>1. \A u \in Threads \ ToSet(ch) : Resting(s.th[u], u, w.dead)
    BY <1>1 DEF Others
  <2>2. t \in ToSet(ch)
    BY <1>1, AgreeIs
  <2>3. \A u \in Threads \ ToSet(ch) : r.th[u] = s.th[u]
    BY <1>3, <1>13, <1>14, <2>2
  <2>4. \A i \in 1..Len(ch) : ch[i] \notin w.dead
    BY <1>1 DEF Others
  <2>5. \A i \in 1..Len(Front(ch)) : i \in 1..Len(ch) /\ Front(ch)[i] = ch[i]
    <3>1. Len(Front(ch)) = Len(ch) - 1 /\ \A i \in 1..Len(ch) - 1 : Front(ch)[i] = ch[i]
      BY <1>7, FrontIs
    <3> QED
      BY <1>7, <3>1
  <2> QED
    BY <1>10, <2>1, <2>3, <2>4, <2>5 DEF Others
<1>19. Suspended(Cur(r))
  <2>1. Last(ck).fn = "yield"
    BY <1>4 DEF TopCI, ck
  <2>2. ~Cur(z).body
    BY <1>3 DEF TopRight, Live
  <2>3. \A i \in 1..Len(ck) - 1 : Pending(ck, i)
    <3>1. Len(ck) - 1 = Len(ci)
      BY <1>1, <1>4 DEF ci
    <3>2. \A i \in 1..Len(ci) : Pending(ci, i) = Pending(ck, i)
      BY <1>1, <1>4, PendingSame DEF ci
    <3> QED
      BY <1>2, <3>1, <3>2 DEF ci
  <2>4. ErrFuncRight(Cur(r))
    BY <1>4, <1>12, <1>15 DEF ErrFuncRight, ck
  <2> QED
    BY <1>4, <1>12, <1>15, <2>1, <2>2, <2>3, <2>4 DEF Suspended
<1>20. Last(b).nny = 0 /\ Cur(r).errorJmp = Last(b).jmp /\ Cur(r).nCcalls >= Last(b).depth
  BY <1>3, <1>12, <1>15 DEF TopRight, Live
<1>21. Yielding(r, v, b)
  <2>1. Append(v.chain, t) = ch
    BY <1>8, <1>10
  <2> QED
    BY <1>1, <1>10, <1>14, <1>15, <1>16, <1>17, <1>18, <1>19, <1>20, <2>1 DEF Yielding
<1>22. TypesRight(r, v)
  <2>1. ASSUME NEW u \in Threads PROVE CIsRight(r.th[u].ci)
    <3>1. CASE u = t
      BY <1>4, <1>12, <1>14, <3>1
    <3>2. CASE u # t
      <4>1. r.th[u] = s.th[u]
        BY <1>3, <1>13, <1>14, <3>2
      <4> QED
        BY <4>1 DEF TypesRight
    <3> QED
      BY <3>1, <3>2
  <2> QED
    BY <1>10, <1>14, <2>1 DEF TypesRight
<1> QED
  BY <1>21, <1>22 DEF Inv

\* luaB_yield and lua_yieldk
LEMMA YieldIs ==
  ASSUME NEW s, NEW w, NEW a, TypesRight(s, w), Active(s, w, a), TopF(s) = "execute",
         NEW z, z = EnterC(s, Last(s.c).L, "yield"),
         NEW r, r = IF Cur(s).nny > 0 THEN Raise(z)
                    ELSE Throw(SetStatus(z, Last(s.c).L, "YIELD"), "YIELD"),
         NEW v, v = IF CanYieldAt(w, Last(s.c).L) THEN [WPush(w, "yield") EXCEPT !.chain = Front(@)]
                    ELSE WPush(w, "yield")
  PROVE  Inv(r, v)
<1> DEFINE t == Last(s.c).L
           ch == w.chain
<1>1. /\ s \in Machine /\ w \in Wants /\ StackRight(s, ch, a) /\ TopRight(s, a)
      /\ AgreeBut(s, w, {}) /\ Others(s, w, ch)
      /\ t \in Threads /\ Cur(s) \in Thread
  BY ActiveIs
<1>2. PICK b : Into(s, w, a, z, b, "yield")
  BY IntoIs
<1>3. CanYieldAt(w, t) = (Cur(s).nny = 0)
  BY NnyIs
<1>4. Cur(s).nny \in Nat
  BY <1>1, ThreadIs
<1>5. CASE Cur(s).nny > 0
  <2>1. r = Raise(z) /\ v = WPush(w, "yield")
    <3>1. Cur(s).nny # 0
      BY <1>4, <1>5
    <3>2. ~CanYieldAt(w, t)
      BY <1>3, <3>1
    <3> QED
      BY <1>5, <3>2
  <2>2. /\ z \in Machine /\ TopF(z) = "cfunc" /\ Same(s, z)
        /\ StackRight(z, ch, b) /\ TopRight(z, b) /\ CIsRight(Cur(z).ci)
        /\ TopCI(z).fn = "yield" /\ ErrFuncRight(Cur(z))
        /\ WSame(w, v, t) /\ v.stack[t] = Names(Cur(z).ci)
    BY <1>2, <2>1 DEF Into
  <2>3. r \in Machine /\ r.th = z.th /\ r.c = z.c /\ r.do = "raise"
    BY <2>1, <2>2, RaiseIs
  <2>4. TopF(r) = "cfunc" /\ Cur(r) = Cur(z) /\ TopCI(r) = TopCI(z) /\ Ready(r, ch) = Ready(z, ch)
    BY <2>2, <2>3, SameMachine
  <2>5. Ready(r, ch)
    BY <2>2, <2>4 DEF Ready
  <2>6. AtWork(r)
    BY <2>2, <2>3, <2>4 DEF AtWork, Raises
  <2>7. Same(s, r)
    BY <2>2, <2>3 DEF Same
  <2> QED
    BY <1>1, <2>2, <2>4, <2>5, <2>6, <2>7, StaysActive
<1>6. CASE ~(Cur(s).nny > 0)
  <2>1. Cur(s).nny = 0
    BY <1>4, <1>6
  <2>2. /\ r = Throw(SetStatus(z, t, "YIELD"), "YIELD")
        /\ v = [WPush(w, "yield") EXCEPT !.chain = Front(@)]
    BY <1>3, <1>6, <2>1
  <2> QED
    BY <1>2, <2>1, <2>2, YieldsIs
<1> QED
  BY <1>5, <1>6

\* Machines that count the C calls of some threads as those of the one at the top.
Recounts(s, r) ==
  /\ s \in Machine /\ r \in Machine /\ r.c = s.c
  /\ \A u \in Threads : \/ r.th[u] = s.th[u]
                        \/ r.th[u] = Resumes(s.th[u], s.th[u].nny, Cur(s).nCcalls, s.th[u].errorJmp)

LEMMA RecountsAre ==
  ASSUME NEW s, NEW r, Recounts(s, r), NEW u \in Threads
  PROVE  LET x == s.th[u]
             y == r.th[u]
         IN
         /\ x \in Thread /\ y \in Thread
         /\ y.ci = x.ci /\ y.status = x.status /\ y.nny = x.nny /\ y.errorJmp = x.errorJmp
         /\ y.errfunc = x.errfunc /\ y.body = x.body
         /\ y.nCcalls = x.nCcalls \/ y.nCcalls = Cur(s).nCcalls
         /\ ErrFuncRight(y) = ErrFuncRight(x)
<1> DEFINE x == s.th[u]
           y == r.th[u]
<1>1. s \in Machine /\ r \in Machine
  BY DEF Recounts
<1>2. x \in Thread /\ y \in Thread
  BY <1>1, MachineIs
<1>3. y = x \/ y = Resumes(x, x.nny, Cur(s).nCcalls, x.errorJmp)
  BY DEF Recounts
<1> HIDE DEF x, y
<1>4. /\ y.ci = x.ci /\ y.status = x.status /\ y.nny = x.nny /\ y.errorJmp = x.errorJmp
      /\ y.errfunc = x.errfunc /\ y.body = x.body
      /\ y.nCcalls = x.nCcalls \/ y.nCcalls = Cur(s).nCcalls
  <2>1. CASE y = x
    BY <2>1
  <2>2. CASE y # x
    <3> DEFINE v == Cur(s).nCcalls
    <3>1. y = Resumes(x, x.nny, v, x.errorJmp)
      BY <1>3, <2>2
    <3> HIDE DEF v
    <3> QED
      BY <1>2, <3>1 DEF Resumes, Thread, v
  <2> QED
    BY <2>1, <2>2
<1> QED
  BY <1>2, <1>4 DEF x, y, ErrFuncRight

LEMMA RecountsStack ==
  ASSUME NEW s, NEW r, Recounts(s, r), NEW ch, NEW a, StackRight(s, ch, a), TopRight(s, a),
         Len(s.c) > 2
  PROVE  StackRight(r, ch, a) /\ TopRight(r, a) /\ Cur(r).ci = Cur(s).ci /\ TopF(r) = TopF(s)
         /\ Cur(r).nCcalls = Cur(s).nCcalls /\ Cur(r).errfunc = Cur(s).errfunc
<1> DEFINE N == Len(s.c)
           v == Cur(s).nCcalls
<1>1. s \in Machine /\ r \in Machine /\ r.c = s.c
  BY DEF Recounts
<1>2. /\ N \in Nat /\ N >= 1 /\ Len(a) = N /\ Last(a) = a[N] /\ Last(s.c) = s.c[N] /\ a \in Seq(Mark)
      /\ Last(s.c).L \in Threads /\ Cur(s) \in Thread
  BY <1>1, StackEnds
<1>3. Cur(r) = r.th[Last(s.c).L] /\ Cur(s) = s.th[Last(s.c).L] /\ TopF(r) = TopF(s)
  BY <1>1 DEF Cur, TopF
<1>4. v >= a[N].depth /\ v \in Int
  BY <1>2, ThreadIs DEF TopRight, Live
<1>5. \A k \in 1..N : s.c[k].L \in Threads /\ a[k] \in Mark
  BY <1>1, StackAt
<1>6. ASSUME NEW k \in 1..N - 1, NEW u \in Threads, Waits(s.th[u], a[k])
      PROVE  Waits(r.th[u], a[k])
  <2> DEFINE x == s.th[u]
             y == r.th[u]
  <2>1. /\ x \in Thread /\ y \in Thread
        /\ y.ci = x.ci /\ y.status = x.status /\ y.nny = x.nny /\ y.errorJmp = x.errorJmp
        /\ y.errfunc = x.errfunc /\ y.body = x.body
        /\ y.nCcalls = x.nCcalls \/ y.nCcalls = v
        /\ ErrFuncRight(y) = ErrFuncRight(x)
    BY RecountsAre
  <2>2. a[k].depth <= a[N].depth
    <3>1. k \in 1..Len(a) /\ N \in 1..Len(a) /\ k <= N
      BY <1>2
    <3>2. \A i, n \in 1..Len(a) : i <= n => a[i].depth <= a[n].depth
      BY DEF StackRight, Ordered
    <3> HIDE DEF N
    <3> QED
      BY <3>1, <3>2
  <2>3. a[k] \in Mark /\ a[N] \in Mark
    BY <1>2, <1>5
  <2>4. a[k].depth \in Nat /\ a[N].depth \in Nat
    BY <2>3, MarkIs
  <2>5. Live(x, a[k]) /\ ErrFuncRight(x) /\ Last(x.ci).fn \in {"resume", "wrap"}
    BY <1>6 DEF Waits
  <2> HIDE DEF x, y, v, N
  <2>6. v >= a[k].depth
    BY <1>4, <2>2, <2>4
  <2>7. Live(y, a[k])
    BY <2>1, <2>5, <2>6 DEF Live
  <2> QED
    BY <2>1, <2>5, <2>7 DEF Waits, y
<1>7. \A u \in Threads : r.th[u].ci = s.th[u].ci
  BY RecountsAre
<1>8. StackRight(r, ch, a)
  <2>1. /\ a \in Seq(Mark) /\ Len(a) = Len(r.c) /\ r.c # <<>>
        /\ Linked(ch) /\ Last(a).link = Len(ch) /\ Ordered(a)
    BY <1>1 DEF StackRight
  <2>2. ASSUME NEW k \in 1..Len(a)
        PROVE  FrameRight(r.c, a, ch, r.th[r.c[k].L].ci, k)
    <3>1. FrameRight(s.c, a, ch, s.th[s.c[k].L].ci, k)
      BY DEF StackRight
    <3>2. r.th[r.c[k].L].ci = s.th[s.c[k].L].ci
      BY <1>1, <1>2, <1>5, <1>7
    <3> QED
      BY <1>1, <3>1, <3>2
  <2>3. ASSUME NEW k \in 1..Len(a) - 1
        PROVE  /\ Owns(r.c[k].f, a[k], r.th[r.c[k].L].ci, Upper(r, a, k))
               /\ r.c[k + 1].f = "resume" => Waits(r.th[r.c[k].L], a[k])
    <3>1. /\ Owns(s.c[k].f, a[k], s.th[s.c[k].L].ci, Upper(s, a, k))
          /\ s.c[k + 1].f = "resume" => Waits(s.th[s.c[k].L], a[k])
      BY DEF StackRight
    <3>2. k \in 1..N /\ k \in 1..N - 1
      BY <1>2
    <3>3. r.th[r.c[k].L].ci = s.th[s.c[k].L].ci /\ s.c[k].L \in Threads
      BY <1>1, <1>5, <1>7, <3>2
    <3>4. Upper(r, a, k) = Upper(s, a, k)
      BY <1>1, <3>3 DEF Upper
    <3>5. Waits(s.th[s.c[k].L], a[k]) => Waits(r.th[s.c[k].L], a[k])
      BY <1>6, <3>2, <3>3
    <3> QED
      BY <1>1, <3>1, <3>3, <3>4, <3>5
  <2> QED
    BY <2>1, <2>2, <2>3 DEF StackRight
<1>9. /\ Cur(r).ci = Cur(s).ci /\ Cur(r).status = Cur(s).status /\ Cur(r).nny = Cur(s).nny
      /\ Cur(r).errorJmp = Cur(s).errorJmp /\ Cur(r).errfunc = Cur(s).errfunc
      /\ Cur(r).body = Cur(s).body
      /\ Cur(r).nCcalls = v
  BY <1>2, <1>3, RecountsAre
<1>10. TopRight(r, a)
  <2>1. Owns(TopF(r), Last(a), Cur(r).ci, Len(Cur(r).ci))
    BY <1>3, <1>9 DEF TopRight
  <2>2. Live(Cur(r), Last(a))
    BY <1>9 DEF TopRight, Live
  <2>3. ~(Len(r.c) <= 2)
    BY <1>1, <1>2
  <2> QED
    BY <2>1, <2>2, <2>3 DEF TopRight
<1> QED
  BY <1>3, <1>8, <1>9, <1>10

\* The function that resumes another thread has failed.
LEMMA FailedIs ==
  ASSUME NEW s, NEW w, NEW a, TypesRight(s, w), Active(s, w, a), TopF(s) = "execute",
         NEW fn \in {"resume", "wrap"}, NEW z, NEW b, Into(s, w, a, z, b, fn),
         NEW r, Recounts(z, r), r.do = "return", r.status = "ERRRUN"
  PROVE  TypesRight(r, WPush(w, fn)) /\ Active(r, WPush(w, fn), b)
<1> DEFINE t == Last(s.c).L
           ch == w.chain
           v == WPush(w, fn)
<1>1. /\ s \in Machine /\ w \in Wants /\ AgreeBut(s, w, {}) /\ Others(s, w, ch)
      /\ t \in Threads /\ t = Last(ch) /\ t \notin w.dead
      /\ t \in ToSet(ch) /\ StackRight(s, ch, a)
  BY ActiveIs, AgreeIs
<1>2. /\ z \in Machine /\ Last(z.c).L = t /\ TopF(z) = "cfunc" /\ Cur(z) = z.th[t]
      /\ \A u \in Threads \ {t} : z.th[u] = s.th[u]
      /\ StackRight(z, ch, b) /\ TopRight(z, b) /\ CIsRight(Cur(z).ci)
      /\ (Cur(z).errfunc = 1) = HandledBy(Cur(z).ci, Len(Cur(z).ci) - 1)
  BY DEF Into
<1>3. WSame(w, v, t) /\ v.stack[t] = Names(Cur(z).ci)
  BY DEF Into
<1>4. Len(z.c) > 2
  BY <1>2, BaseIs
<1>5. /\ StackRight(r, ch, b) /\ TopRight(r, b) /\ Cur(r).ci = Cur(z).ci /\ TopF(r) = "cfunc"
      /\ Cur(r).errfunc = Cur(z).errfunc
  BY <1>2, <1>4, RecountsStack
<1>6. r \in Machine /\ \A u \in Threads : r.th[u].ci = z.th[u].ci
  BY RecountsAre DEF Recounts
<1>7. v \in Wants /\ v.chain = ch /\ v.dead = w.dead /\ \A u \in Threads \ {t} : v.stack[u] = w.stack[u]
  BY <1>3 DEF WSame
<1> HIDE DEF v
<1>8. TypesRight(r, v)
  <2>1. ASSUME NEW u \in Threads PROVE CIsRight(r.th[u].ci)
    <3>1. CASE u = t
      BY <1>2, <1>6, <3>1
    <3>2. CASE u # t
      <4>1. r.th[u].ci = s.th[u].ci
        BY <1>2, <1>6, <3>2
      <4> QED
        BY <4>1 DEF TypesRight
    <3> QED
      BY <3>1, <3>2
  <2> QED
    BY <1>6, <1>7, <2>1 DEF TypesRight
<1>9. AgreeBut(r, v, {})
  <2> SUFFICES ASSUME NEW u \in Threads \ (v.dead \cup {})
               PROVE  Names(r.th[u].ci) = v.stack[u]
    BY DEF AgreeBut
  <2>1. CASE u = t
    BY <1>2, <1>3, <1>6, <2>1 DEF v
  <2>2. CASE u # t
    BY <1>1, <1>2, <1>6, <1>7, <2>2 DEF AgreeBut
  <2> QED
    BY <2>1, <2>2
<1>10. Others(r, v, ch)
  <2>1. ASSUME NEW u \in Threads \ ToSet(ch) PROVE Resting(r.th[u], u, w.dead)
    <3> DEFINE x == s.th[u]
               y == r.th[u]
    <3>1. Resting(x, u, w.dead)
      BY <1>1 DEF Others
    <3>2. z.th[u] = x
      BY <1>1, <1>2
    <3>3. /\ y.ci = x.ci /\ y.status = x.status /\ y.nny = x.nny /\ y.errorJmp = x.errorJmp
          /\ y.errfunc = x.errfunc /\ y.body = x.body
          /\ ErrFuncRight(y) = ErrFuncRight(x)
      BY <3>2, RecountsAre
    <3>4. u # Main
      <4>1. Linked(ch) /\ Len(ch) \in Nat /\ Len(ch) >= 1 /\ ch \in Seq(Threads)
        BY <1>1, StackEnds
      <4>2. ch[1] = Main /\ 1 \in DOMAIN ch
        BY <4>1 DEF Linked
      <4> QED
        BY <4>2 DEF ToSet
    <3> HIDE DEF x, y
    <3>5. Suspended(x) => Suspended(y)
      BY <3>3 DEF Suspended
    <3> QED
      BY <3>1, <3>3, <3>4, <3>5 DEF Resting, y
  <2> QED
    BY <1>1, <1>7, <2>1 DEF Others
<1>11. AtWork(r)
  BY <1>2, <1>5 DEF AtWork, Errors
<1>12. Active(r, v, b)
  BY <1>5, <1>7, <1>9, <1>10, <1>11 DEF Active
<1> QED
  BY <1>8, <1>12 DEF v

\* lua_resume of the thread co by the thread t (the operator StartResume).
StartsResume(s, t, co) ==
  RawRun([Enter(s, "resume", co, s.th[co].nny, 0, 0) EXCEPT
            !.th[co].nCcalls = s.th[t].nCcalls + 1, !.th[co].nny = 0], co)

\* The frame of lua_resume, and what it does to the thread.
Resuming(s, t, co) ==
  SetNny(SetCCalls(Enter(s, "resume", co, s.th[co].nny, 0, 0), co, s.th[t].nCcalls + 1), co, 0)

\* The machine r, in which t has begun to resume co.
ResumeBegun(s, r, t, co) ==
  LET o == s.th[co]
      y == r.th[co]
  IN
  /\ r \in Machine /\ o \in Thread /\ y \in Thread
  /\ \A u \in Threads \ {co} : r.th[u] = s.th[u]
  /\ r.c = Append(s.c, ResumeFrame(co, o.nny)) /\ r.do = s.do /\ r.status = s.status
  /\ ResumeFrame(co, o.nny) \in Frame
  /\ y.ci = o.ci /\ y.status = o.status /\ y.errfunc = o.errfunc /\ y.body = o.body
  /\ y.errorJmp = o.errorJmp /\ y.nny = 0 /\ y.nCcalls = s.th[t].nCcalls + 1
  /\ StartsResume(s, t, co) = RawRun(r, co)
  /\ s.th[t].nCcalls \in Int

LEMMA ResumingIs ==
  ASSUME NEW s \in Machine, NEW t \in Threads, NEW co \in Threads, NEW r, r = Resuming(s, t, co)
  PROVE  ResumeBegun(s, r, t, co)
<1> DEFINE o == s.th[co]
           v == s.th[t].nCcalls + 1
           e == Enter(s, "resume", co, o.nny, 0, 0)
           q == SetCCalls(e, co, v)
           y == r.th[co]
<1>1. o \in Thread /\ s.th[t] \in Thread
  BY MachineIs
<1>2. o.nny \in Int /\ o.nny \in Nat /\ s.th[t].nCcalls \in Int /\ v \in Int
  <2>1. o.nny \in Nat
    <3> HIDE DEF o
    <3> QED
      BY <1>1, ThreadIs
  <2>2. s.th[t].nCcalls \in Int
    BY <1>1, ThreadIs
  <2> QED
    BY <2>1, <2>2
<1>3. "resume" \in FrameKinds /\ 0 \in Nat /\ 0 \in {0, 1}
  BY DEF FrameKinds
<1>4. /\ e \in Machine /\ e.th = s.th /\ e.c = Append(s.c, ResumeFrame(co, o.nny))
      /\ e.do = s.do /\ e.status = s.status /\ ResumeFrame(co, o.nny) \in Frame
  <2> DEFINE n == o.nny
  <2>1. n \in Int
    BY <1>2
  <2> HIDE DEF n
  <2>2. LET x == FrameOf("resume", co, n, 0, 0)
            k == Enter(s, "resume", co, n, 0, 0)
        IN  /\ k \in Machine /\ k.th = s.th /\ k.c = Append(s.c, x)
            /\ k.do = s.do /\ k.status = s.status /\ x \in Frame
    BY <1>3, <2>1, EnterIs
  <2> QED
    BY <2>2 DEF ResumeFrame, n
<1> HIDE DEF e, v
<1>5. /\ OneThread(e, q, co) /\ q.th[co] \in Thread /\ q.th[co].nCcalls = v
      /\ q.th[co].ci = o.ci /\ q.th[co].status = o.status /\ q.th[co].nny = o.nny
      /\ q.th[co].errorJmp = o.errorJmp /\ q.th[co].errfunc = o.errfunc /\ q.th[co].body = o.body
  BY <1>2, <1>4, SetCCallsIs
<1> HIDE DEF q
<1>6. /\ q \in Machine /\ q.c = e.c /\ q.do = e.do /\ q.status = e.status
      /\ \A u \in Threads \ {co} : q.th[u] = e.th[u]
  BY <1>5 DEF OneThread
<1>7. r = SetNny(q, co, 0)
  BY DEF Resuming, q, e, v
<1>8. /\ OneThread(q, r, co) /\ y \in Thread /\ y.nny = 0
      /\ y.ci = o.ci /\ y.status = o.status /\ y.nCcalls = v
      /\ y.errorJmp = o.errorJmp /\ y.errfunc = o.errfunc /\ y.body = o.body
  BY <1>3, <1>5, <1>6, <1>7, SetNnyIs
<1>9. /\ r \in Machine /\ r.c = q.c /\ r.do = q.do /\ r.status = q.status
      /\ \A u \in Threads \ {co} : r.th[u] = q.th[u]
  BY <1>8 DEF OneThread
<1>10. StartsResume(s, t, co) = RawRun(r, co)
  BY Zenon, <1>7 DEF StartsResume, SetNny, q, SetCCalls, e, v
<1>11. \A u \in Threads \ {co} : r.th[u] = s.th[u]
  BY <1>4, <1>6, <1>9
<1> HIDE DEF y, o
<1>12. r.c = Append(s.c, ResumeFrame(co, o.nny)) /\ r.do = s.do /\ r.status = s.status
  BY <1>4, <1>6, <1>9
<1>13. y.nCcalls = s.th[t].nCcalls + 1
  BY <1>8 DEF v
<1> QED
  BY <1>1, <1>2, <1>4, <1>8, <1>9, <1>10, <1>11, <1>12, <1>13 DEF y, o, ResumeBegun

LEMMA StartedIs ==
  ASSUME NEW s \in Machine, NEW t \in Threads, NEW co \in Threads, NEW r, r = StartsResume(s, t, co)
  PROVE  LET o == s.th[co] IN
         /\ r \in Machine /\ o \in Thread
         /\ \A u \in Threads \ {co} : r.th[u] = s.th[u]
         /\ r.c = Append(Append(s.c, ResumeFrame(co, o.nny)),
                         TryFrame(co, s.th[t].nCcalls + 1, o.errorJmp))
         /\ r.th[co] = Resumes(o, 0, s.th[t].nCcalls + 1, Len(s.c) + 2)
         /\ r.do = s.do /\ r.status = s.status
<1> DEFINE o == s.th[co]
           v == s.th[t].nCcalls + 1
           x == ResumeFrame(co, o.nny)
           q == Resuming(s, t, co)
           p == q.th[co]
           e == Enter(q, "try", co, p.nCcalls, p.errorJmp, 0)
           n == Len(q.c) + 1
           y == r.th[co]
<1>1. /\ q \in Machine /\ o \in Thread /\ p \in Thread
      /\ \A u \in Threads \ {co} : q.th[u] = s.th[u]
      /\ q.c = Append(s.c, x) /\ q.do = s.do /\ q.status = s.status
      /\ p.ci = o.ci /\ p.status = o.status /\ p.errfunc = o.errfunc /\ p.body = o.body
      /\ p.errorJmp = o.errorJmp /\ p.nny = 0 /\ p.nCcalls = v
      /\ r = RawRun(q, co) /\ x \in Frame /\ s.th[t].nCcalls \in Int
  <2>1. ResumeBegun(s, q, t, co)
    BY ResumingIs
  <2> QED
    BY <2>1 DEF ResumeBegun
<1> HIDE DEF q, p, o
<1>2. s.c \in Seq(Frame) /\ Len(s.c) \in Nat /\ Len(q.c) = Len(s.c) + 1
  <2>1. s.c \in Seq(Frame)
    BY MachineIs
  <2> HIDE DEF x
  <2> QED
    BY <1>1, <2>1, AppendIs
<1>3. p.nCcalls \in Int /\ p.errorJmp \in Nat /\ n \in Nat /\ v \in Int
  <2>1. p.nCcalls \in Int /\ p.errorJmp \in Nat
    BY <1>1, ThreadIs
  <2> QED
    BY <1>1, <1>2, <2>1
<1> DEFINE k == p.nCcalls
           j == p.errorJmp
<1>4. e \in Machine /\ e.th = q.th /\ e.c = Append(q.c, TryFrame(co, k, j)) /\ e.do = q.do
      /\ e.status = q.status
  <2>1. "try" \in FrameKinds /\ 0 \in {0, 1} /\ k \in Int /\ j \in Nat
    BY <1>3 DEF FrameKinds
  <2> HIDE DEF k, j
  <2>2. LET g == FrameOf("try", co, k, j, 0)
            h == Enter(q, "try", co, k, j, 0)
        IN  h \in Machine /\ h.th = q.th /\ h.c = Append(q.c, g) /\ h.do = q.do /\ h.status = q.status
    BY SMTT(30), <1>1, <2>1, EnterIs
  <2> QED
    BY <2>2 DEF TryFrame, k, j
<1> HIDE DEF e, n
<1>5. r = SetJmp(e, co, n)
  BY <1>1 DEF RawRun, SetJmp, e, n, p
<1>6. /\ OneThread(e, r, co) /\ y \in Thread /\ y.errorJmp = n
      /\ y.ci = p.ci /\ y.status = p.status /\ y.nny = p.nny /\ y.nCcalls = p.nCcalls
      /\ y.errfunc = p.errfunc /\ y.body = p.body
  BY <1>3, <1>4, <1>5, SetJmpIs DEF p
<1>7. /\ r \in Machine /\ r.c = e.c /\ r.do = e.do /\ r.status = e.status
      /\ \A u \in Threads \ {co} : r.th[u] = e.th[u]
  BY <1>6 DEF OneThread
<1>8. \A u \in Threads \ {co} : r.th[u] = s.th[u]
  BY <1>1, <1>4, <1>7
<1>9. r.c = Append(Append(s.c, x), TryFrame(co, v, o.errorJmp)) /\ r.do = s.do /\ r.status = s.status
  BY <1>1, <1>4, <1>7
<1> HIDE DEF y, v
<1>10. n = Len(s.c) + 2 /\ Len(s.c) + 2 \in Nat /\ 0 \in Nat
  BY <1>2 DEF n
<1>11. y = Resumes(o, 0, v, Len(s.c) + 2)
  <2> DEFINE l == Resumes(o, 0, v, Len(s.c) + 2)
             N == Len(s.c) + 2
  <2>1. l \in Thread /\ l.nny = 0 /\ l.nCcalls = v /\ l.errorJmp = n
        /\ l.ci = o.ci /\ l.status = o.status /\ l.errfunc = o.errfunc /\ l.body = o.body
    <3>1. N \in Nat /\ n = N
      BY <1>10
    <3> HIDE DEF N
    <3>2. LET g == Resumes(o, 0, v, N) IN
          /\ g \in Thread /\ g.nny = 0 /\ g.nCcalls = v /\ g.errorJmp = N
          /\ g.ci = o.ci /\ g.status = o.status /\ g.errfunc = o.errfunc /\ g.body = o.body
      BY <1>1, <1>3, <1>10, <3>1, ResumesIs
    <3> QED
      BY <3>1, <3>2 DEF N
  <2> HIDE DEF l
  <2>2. y = l
    BY <1>1, <1>6, <2>1, ThreadSame
  <2> QED
    BY <2>2 DEF l
<1> QED
  BY <1>1, <1>7, <1>8, <1>9, <1>11 DEF y, o, v, x

\* resume finds that it must not.
LEMMA ResumeRefusedIs ==
  ASSUME NEW s, NEW w, NEW a, TypesRight(s, w), Active(s, w, a), TopF(s) = "execute",
         NEW fn \in {"resume", "wrap"}, NEW z, NEW b, Into(s, w, a, z, b, fn),
         NEW co \in Threads, NEW r, r = Throw(StartsResume(z, Last(s.c).L, co), "REFUSED")
  PROVE  Inv(r, WPush(w, fn))
<1> DEFINE t == Last(s.c).L
           v == Cur(z).nCcalls
           y == SetCCalls(z, co, v)
           q == SetDo(y, "return", "ERRRUN")
           g == StartsResume(z, t, co)
           o == z.th[co]
           l == q.th[co]
           N == Len(z.c)
<1>1. z \in Machine /\ t \in Threads /\ Cur(z) = z.th[t] /\ TopF(z) = "cfunc" /\ Last(z.c).L = t
  BY ActiveIs DEF Into
<1>2. Cur(z) \in Thread /\ v \in Int /\ o \in Thread /\ N \in Nat
  <2>1. Cur(z) \in Thread /\ o \in Thread /\ z.c \in Seq(Frame)
    BY <1>1, MachineIs
  <2>2. v \in Int
    BY <2>1, ThreadIs
  <2> QED
    BY <2>1, <2>2
<1>3. "return" \in Dos /\ "ERRRUN" \in Statuses /\ "REFUSED" \in Statuses
  BY DEF Dos, Statuses, Errors
<1>4. /\ g \in Machine /\ \A u \in Threads \ {co} : g.th[u] = z.th[u]
      /\ g.c = Append(Append(z.c, ResumeFrame(co, o.nny)), TryFrame(co, z.th[t].nCcalls + 1, o.errorJmp))
      /\ g.th[co] = Resumes(o, 0, z.th[t].nCcalls + 1, Len(z.c) + 2)
  BY <1>1, StartedIs
<1> HIDE DEF g
<1>5. /\ r \in Machine /\ r.th = g.th /\ r.c = g.c /\ r.do = "throw" /\ r.status = "REFUSED"
  BY <1>3, <1>4, ThrowIs DEF g
<1> DEFINE k == y.th[co]
<1>6. /\ OneThread(z, y, co) /\ k \in Thread /\ k.nCcalls = v
      /\ k.ci = o.ci /\ k.status = o.status /\ k.nny = o.nny /\ k.errorJmp = o.errorJmp
      /\ k.errfunc = o.errfunc /\ k.body = o.body
  BY ZenonT(30), <1>1, <1>2, SetCCallsIs
<1> HIDE DEF y
<1>7. /\ y \in Machine /\ y.c = z.c /\ \A u \in Threads \ {co} : y.th[u] = z.th[u]
  BY <1>6 DEF OneThread
<1>8. q \in Machine /\ q.th = y.th /\ q.c = z.c /\ q.do = "return" /\ q.status = "ERRRUN"
  BY <1>3, <1>7, DoIs
<1> HIDE DEF q
<1>9. l = k
  BY <1>8
<1>10. TopF(q) = "cfunc" /\ Cur(q) = q.th[t]
  BY <1>1, <1>8 DEF TopF, Cur
<1>11. Cur(q).nCcalls = v
  <2>1. CASE t = co
    BY <1>6, <1>8, <1>10, <2>1
  <2>2. CASE t # co
    BY <1>1, <1>7, <1>8, <1>10, <2>2
  <2> QED
    BY <2>1, <2>2
<1> HIDE DEF k, o, v, l
<1>12. /\ l \in Thread /\ l.nCcalls = v /\ l.ci = o.ci /\ l.status = o.status /\ l.nny = o.nny
       /\ l.errorJmp = o.errorJmp /\ l.errfunc = o.errfunc /\ l.body = o.body
  BY <1>6, <1>9
<1>13. Recounts(z, q)
  <2>1. o.nny \in Nat /\ o.errorJmp \in Nat
    BY <1>2, ThreadIs
  <2>2. l = Resumes(o, o.nny, v, o.errorJmp)
    <3> DEFINE m1 == o.nny
               m2 == o.errorJmp
               h == Resumes(o, m1, v, m2)
    <3>1. m1 \in Nat /\ m2 \in Nat
      BY <2>1
    <3> HIDE DEF m1, m2
    <3>2. /\ h \in Thread /\ h.nny = m1 /\ h.nCcalls = v /\ h.errorJmp = m2
          /\ h.ci = o.ci /\ h.status = o.status /\ h.errfunc = o.errfunc /\ h.body = o.body
      BY <1>2, <3>1, ResumesIs
    <3> HIDE DEF h
    <3>3. l = h
      BY <1>12, <3>2, ThreadSame DEF m1, m2
    <3> QED
      BY <3>3 DEF h, m1, m2
  <2>3. \A u \in Threads \ {co} : q.th[u] = z.th[u]
    BY <1>7, <1>8
  <2> QED
    BY <1>1, <1>8, <2>2, <2>3 DEF Recounts, l, o, v
<1>14. TypesRight(q, WPush(w, fn)) /\ Active(q, WPush(w, fn), b)
  BY <1>8, <1>13, FailedIs
<1>15. RefusedMakes(q, r, co)
  <2>1. v = z.th[t].nCcalls
    BY <1>1 DEF v
  <2>2. r.c = Append(Append(q.c, ResumeFrame(co, l.nny)), TryFrame(co, l.nCcalls + 1, l.errorJmp))
    BY <1>4, <1>5, <1>8, <1>12, <2>1
  <2>3. r.th[co] = Resumes(l, 0, l.nCcalls + 1, Len(q.c) + 2)
    <3> DEFINE j == v + 1
               n == N + 2
               h1 == Resumes(o, 0, j, n)
               h2 == Resumes(l, 0, j, n)
    <3>1. j \in Int /\ n \in Nat /\ 0 \in Nat
      BY <1>2
    <3>2. r.th[co] = h1
      BY <1>4, <1>5, <2>1
    <3>3. l.nCcalls + 1 = j /\ Len(q.c) + 2 = n
      BY <1>8, <1>12
    <3> HIDE DEF j, n
    <3>4. /\ h1 \in Thread /\ h1.nny = 0 /\ h1.nCcalls = j /\ h1.errorJmp = n
          /\ h1.ci = o.ci /\ h1.status = o.status /\ h1.errfunc = o.errfunc /\ h1.body = o.body
      BY <1>2, <3>1, ResumesIs
    <3>5. /\ h2 \in Thread /\ h2.nny = 0 /\ h2.nCcalls = j /\ h2.errorJmp = n
          /\ h2.ci = l.ci /\ h2.status = l.status /\ h2.errfunc = l.errfunc /\ h2.body = l.body
      BY <1>12, <3>1, ResumesIs
    <3> HIDE DEF h1, h2
    <3>6. h1 = h2
      BY <1>12, <3>4, <3>5, ThreadSame
    <3> QED
      BY <3>2, <3>3, <3>6 DEF h2
  <2>4. \A u \in Threads \ {co} : r.th[u] = q.th[u]
    BY <1>4, <1>5, <1>7, <1>8
  <2>5. r.do \in {"throw", "return"} /\ Len(q.c) \in Nat
    BY <1>2, <1>5, <1>8
  <2>6. l.nCcalls = Cur(q).nCcalls
    BY <1>11, <1>12
  <2> QED
    BY <1>5, <1>8, <1>10, <2>2, <2>3, <2>4, <2>5, <2>6 DEF RefusedMakes, l
<1> QED
  BY SMTT(30), <1>14, <1>15, RefusedMade

\* The thread at the top resumes co.
CanResume(s, ch, a, co) ==
  /\ s \in Machine /\ StackRight(s, ch, a) /\ TopRight(s, a) /\ ErrFuncRight(Cur(s))
  /\ TopF(s) = "cfunc" /\ TopCI(s).fn \in {"resume", "wrap"}
  /\ co \in Threads \ ToSet(ch) /\ s.th[co].nny = 1 /\ s.th[co].errorJmp = 0

\* The chain ch and one thread more.
Links(ch, co, cg) ==
  /\ Linked(cg) /\ Len(cg) = Len(ch) + 1 /\ Len(ch) \in Nat /\ Len(ch) >= 1
  /\ cg[Len(ch) + 1] = co /\ Last(cg) = co
  /\ \A i \in 1..Len(ch) : cg[i] = ch[i]
  /\ ToSet(cg) = ToSet(ch) \cup {co} /\ co # Main

LEMMA LinkedPush ==
  ASSUME NEW ch, Linked(ch), NEW co \in Threads \ ToSet(ch), NEW cg, cg = Append(ch, co)
  PROVE  Links(ch, co, cg)
<1> DEFINE N == Len(ch)
<1>1. ch \in Seq(Threads) /\ ch # <<>> /\ ch[1] = Main /\ \A i, j \in 1..N : ch[i] = ch[j] => i = j
  BY DEF Linked
<1>2. N \in Nat /\ N >= 1
  BY <1>1
<1>3. /\ cg \in Seq(Threads) /\ Len(cg) = N + 1 /\ \A i \in 1..N : cg[i] = ch[i]
  BY <1>1, AppendIs
<1>4. cg[N + 1] = co /\ Last(cg) = co
  BY <1>1, AppendIs
<1>5. \A i \in 1..N : ch[i] # co
  BY <1>1 DEF ToSet
<1> HIDE DEF N
<1>6. \A i, j \in 1..N + 1 : cg[i] = cg[j] => i = j
  <2>1. \A i \in 1..N + 1 : i = N + 1 \/ i \in 1..N
    BY <1>2
  <2> SUFFICES ASSUME NEW i \in 1..N + 1, NEW j \in 1..N + 1, cg[i] = cg[j] PROVE i = j
    OBVIOUS
  <2>2. CASE i \in 1..N /\ j \in 1..N
    BY <1>1, <1>3, <2>2 DEF N
  <2>3. CASE i \in 1..N /\ j = N + 1
    BY <1>3, <1>4, <1>5, <2>3
  <2>4. CASE i = N + 1 /\ j \in 1..N
    BY <1>3, <1>4, <1>5, <2>4
  <2> QED
    BY <2>1, <2>2, <2>3, <2>4
<1>7. cg # <<>> /\ cg[1] = Main
  <2>1. 1 \in 1..N
    BY <1>2
  <2>2. cg[1] = Main
    BY <1>1, <1>3, <2>1 DEF N
  <2>3. cg # <<>>
    BY <1>2, <1>3
  <2> QED
    BY <2>2, <2>3
<1>8. Linked(cg)
  BY <1>3, <1>6, <1>7 DEF Linked
<1>9. ToSet(cg) = ToSet(ch) \cup {co}
  <2>1. DOMAIN ch = 1..N /\ DOMAIN cg = 1..N + 1
    BY <1>1, <1>3 DEF N
  <2>2. ToSet(ch) = {ch[i] : i \in 1..N} /\ ToSet(cg) = {cg[i] : i \in 1..N + 1}
    BY <2>1 DEF ToSet
  <2>3. \A i : i \in 1..N + 1 <=> (i = N + 1 \/ i \in 1..N)
    BY <1>2
  <2>4. {cg[i] : i \in 1..N + 1} = {ch[i] : i \in 1..N} \cup {co}
    BY <1>3, <1>4, <2>3
  <2> QED
    BY <2>2, <2>4
<1>10. co # Main
  <2>1. 1 \in 1..N
    BY <1>2
  <2> QED
    BY <1>1, <1>5, <2>1 DEF N
<1> QED
  BY <1>2, <1>3, <1>4, <1>8, <1>9, <1>10 DEF N, Links

\* The frame of lua_resume
LEMMA ResumePush ==
  ASSUME NEW s, NEW ch, NEW a, NEW co, CanResume(s, ch, a, co),
         NEW cg, cg = Append(ch, co), NEW p, p = Resuming(s, Last(s.c).L, co)
  PROVE  \E e : CanTry(p, cg, e) /\ Fresh(Last(e))
<1> DEFINE t == Last(s.c).L
           o == s.th[co]
           y == p.th[co]
           x == ResumeFrame(co, 1)
           N == Len(s.c)
           B == Last(a)
           A == MarkOf(x, N + 1, B, 0)
           e == Append(a, A)
<1>1. /\ s \in Machine /\ StackRight(s, ch, a) /\ TopRight(s, a) /\ ErrFuncRight(Cur(s))
      /\ TopF(s) = "cfunc" /\ TopCI(s).fn \in {"resume", "wrap"}
      /\ co \in Threads \ ToSet(ch) /\ o.nny = 1 /\ o.errorJmp = 0
  BY DEF CanResume
<1>2. /\ N \in Nat /\ N >= 1 /\ Len(a) = N /\ B = a[N] /\ B \in Mark /\ Last(s.c) = s.c[N]
      /\ Len(ch) \in Nat /\ Len(ch) >= 1 /\ B.link = Len(ch) /\ t \in Threads /\ Cur(s) \in Thread
      /\ Linked(ch) /\ a \in Seq(Mark) /\ s.c \in Seq(Frame) /\ Cur(s) = s.th[t]
  BY <1>1, StackEnds DEF Cur
<1>3. /\ p \in Machine /\ y \in Thread
      /\ \A u \in Threads \ {co} : p.th[u] = s.th[u]
      /\ p.c = Append(s.c, x) /\ x \in Frame
      /\ y.errorJmp = 0 /\ y.nny = 0 /\ y.nCcalls = Cur(s).nCcalls + 1
  <2>1. co \in Threads /\ t \in Threads /\ s \in Machine
    BY <1>1, <1>2
  <2> DEFINE l == ResumeFrame(co, o.nny)
  <2>4. ResumeBegun(s, p, t, co)
    BY <2>1, ResumingIs
  <2>2. /\ p \in Machine /\ y \in Thread
        /\ \A u \in Threads \ {co} : p.th[u] = s.th[u]
        /\ p.c = Append(s.c, l) /\ l \in Frame
        /\ y.errorJmp = o.errorJmp /\ y.nny = 0 /\ y.nCcalls = s.th[t].nCcalls + 1
    BY <2>4 DEF ResumeBegun
  <2>3. l = x
    BY <1>1
  <2> HIDE DEF l, x, o
  <2> QED
    BY Zenon, <1>1, <1>2, <2>2, <2>3
<1>4. /\ Linked(cg) /\ Len(cg) = Len(ch) + 1 /\ cg[Len(ch) + 1] = co
      /\ \A i \in 1..Len(ch) : cg[i] = ch[i]
  <2>1. Linked(ch) /\ co \in Threads \ ToSet(ch)
    BY <1>1, <1>2
  <2> HIDE DEF x, A, B, N, e, o, y, t
  <2>2. Links(ch, co, cg)
    BY <2>1, LinkedPush
  <2> QED
    BY <2>2 DEF Links
<1>5. x.f = "resume" /\ x.L = co /\ x.n = 1
  BY DEF ResumeFrame, FrameOf
<1>6. A = [ci |-> 0, nny |-> 0, depth |-> B.depth + 1, jmp |-> 0, pcall |-> 0, link |-> B.link + 1]
  BY <1>5 DEF MarkOf
<1>7. A \in Mark
  BY <1>2, MarkOfIs
<1>8. B.depth \in Nat /\ B.ci \in Nat
  BY <1>2, MarkIs
<1> HIDE DEF x, A, B
<1>9. A.ci = 0 /\ A.nny = 0 /\ A.depth = B.depth + 1 /\ A.jmp = 0 /\ A.pcall = 0 /\ A.link = Len(cg)
      /\ A.link > 1
  BY <1>2, <1>4, <1>6
<1>10. Fresh(A)
  BY <1>7, <1>9 DEF Fresh
<1>11. /\ Len(e) = N + 1 /\ Last(e) = A /\ e[N + 1] = A /\ e[N] = B
  <2>1. /\ Len(e) = Len(a) + 1 /\ Last(e) = A
        /\ e[Len(a) + 1] = A /\ \A i \in 1..Len(a) : e[i] = a[i]
    BY <1>2, <1>7, AppendIs
  <2>2. N \in 1..Len(a)
    BY <1>2
  <2> QED
    BY <1>2, <2>1, <2>2
<1>12. /\ Len(p.c) = N + 1 /\ Last(p.c) = x /\ p.c[N + 1] = x /\ p.c[N] = Last(s.c)
  <2> DEFINE c == s.c
  <2>1. c \in Seq(Frame) /\ N = Len(c) /\ N \in 1..Len(c)
    BY <1>2
  <2> HIDE DEF c
  <2>2. /\ Len(Append(c, x)) = Len(c) + 1 /\ Last(Append(c, x)) = x
        /\ Append(c, x)[Len(c) + 1] = x /\ \A i \in 1..Len(c) : Append(c, x)[i] = c[i]
    BY <1>3, <2>1, AppendIs
  <2>3. p.c = Append(c, x) /\ Last(s.c) = c[N]
    BY <1>2, <1>3 DEF c
  <2> QED
    BY <2>1, <2>2, <2>3
<1> HIDE DEF N, e
<1>13. Saved(p.c, e, y.ci, N + 1)
  <2> DEFINE k == N + 1
  <2>1. k - 1 = N
    BY <1>2
  <2> HIDE DEF k
  <2>2. p.c[k] = x /\ e[k] = A
    BY <1>11, <1>12 DEF k
  <2>3. SavedOver(x, p.c[N].f, e[N], A, y.ci, k)
    BY <1>5 DEF SavedOver
  <2>4. Saved(p.c, e, y.ci, k)
    BY <2>1, <2>2, <2>3 DEF Saved
  <2> QED
    BY <2>4 DEF k
<1>14. Below(x.f, A, y.ci)
  <2>1. \A i \in 1..A.ci : FALSE
    BY <1>9
  <2> QED
    BY <1>9, <2>1 DEF Below
<1>15. Len(y.ci) \in Nat
  BY <1>3, ThreadIs
<1>16. /\ FrameRight(p.c, e, cg, y.ci, N + 1) /\ B.depth <= A.depth
  <2> DEFINE c == p.c
             ci == y.ci
             n == 0
  <2>1. <<TopF(s), x.f>> \in Nesting
    BY <1>1, <1>5 DEF Nesting
  <2>2. A.link \in 1..Len(cg) /\ x.L = cg[A.link] /\ A.ci <= Len(ci)
    BY <1>2, <1>4, <1>5, <1>9, <1>15
  <2>3. n \in Nat
    OBVIOUS
  <2>4. Pushed(s, ch, cg, a, x, n, ci, c, A, e)
    <3>1. c = Append(s.c, x) /\ A = MarkOf(x, Len(s.c) + 1, Last(a), n) /\ e = Append(a, A)
      BY <1>3 DEF A, N, B, e
    <3>2. Saved(c, e, ci, Len(s.c) + 1) /\ Below(x.f, A, ci)
      BY <1>13, <1>14 DEF N
    <3> HIDE DEF c, ci, n
    <3> QED
      BY <1>1, <1>3, <2>1, <2>2, <2>3, <3>1, <3>2 DEF Pushed
  <2> HIDE DEF c, ci, n
  <2>5. /\ FrameRight(c, e, cg, ci, Len(s.c) + 1) /\ Last(a).depth <= A.depth
    BY <2>4, FramePush
  <2> QED
    BY <2>5 DEF c, ci, N, B
<1>17. Waits(Cur(s), B)
  BY <1>1 DEF Waits, TopRight, TopCI, B
<1>18. \A k \in 1..Len(s.c) : p.th[s.c[k].L] = s.th[s.c[k].L]
  <2> SUFFICES ASSUME NEW k \in 1..Len(s.c) PROVE p.th[s.c[k].L] = s.th[s.c[k].L]
    OBVIOUS
  <2>1. s.c[k].L \in Threads /\ a[k].link \in 1..Len(ch) /\ s.c[k].L = ch[a[k].link]
    BY <1>1, StackAt
  <2>2. ch \in Seq(Threads)
    BY <1>2 DEF Linked
  <2>3. s.c[k].L # co
    BY SMTT(30), <1>1, <2>1, <2>2 DEF ToSet
  <2> QED
    BY <1>3, <2>1, <2>3
<1>19. StackRight(p, cg, Append(a, A))
  <2>1. Len(cg) = A.link /\ Len(ch) <= Len(cg) /\ ~(Last(a).link = A.link)
    BY <1>2, <1>4, <1>9 DEF B
  <2>2. Owns(TopF(s), Last(a), Cur(s).ci, IF x.f = "resume" THEN Len(Cur(s).ci) ELSE A.ci)
    BY <1>1, <1>5 DEF TopRight
  <2>3. Last(a).depth <= A.depth /\ (x.f = "resume" => Waits(Cur(s), Last(a)))
    BY <1>16, <1>17 DEF B
  <2>4. FrameRight(p.c, Append(a, A), cg, p.th[x.L].ci, Len(s.c) + 1)
    BY <1>5, <1>16 DEF e, N
  <2> QED
    BY <1>1, <1>3, <1>4, <1>7, <1>18, <2>1, <2>2, <2>3, <2>4, StackGrows
<1>20. CanTry(p, cg, e)
  <2>1. TopF(p) = "resume" /\ Cur(p) = y
    BY <1>5, <1>12 DEF TopF, Cur
  <2>2. Cur(p).nCcalls >= Last(e).depth
    <3>1. Cur(s).nCcalls >= B.depth /\ Cur(s).nCcalls \in Int
      BY Zenon, <1>1, <1>2, ThreadIs DEF TopRight, Live, B
    <3> DEFINE q == Cur(s).nCcalls
               d == B.depth
    <3>2. q >= d /\ q \in Int /\ d \in Nat
      BY <1>8, <3>1
    <3>3. Cur(p).nCcalls = q + 1 /\ Last(e).depth = d + 1
      BY <1>3, <1>9, <1>11, <2>1
    <3> HIDE DEF q, d
    <3> QED
      BY <3>2, <3>3
  <2>3. Len(p.c) # 2
    <3>1. Len(s.c) > 2
      BY <1>1, BaseIs
    <3> QED
      BY <1>2, <1>12, <3>1 DEF N
  <2>4. Cur(p).errorJmp = 0
    BY <1>3, <2>1
  <2> QED
    BY <1>3, <1>19, <2>1, <2>2, <2>3, <2>4 DEF CanTry, e
<1> QED
  BY <1>10, <1>11, <1>20

\* The thread co, when lua_resume protects what it is about to do.
Protected(s, g, cg, co, e) ==
  LET o == s.th[co]
      y == g.th[co]
  IN
  /\ g \in Machine /\ Last(g.c).L = co /\ TopF(g) = "try" /\ StackRight(g, cg, e) /\ Fresh(Last(e))
  /\ \A u \in Threads \ {co} : g.th[u] = s.th[u]
  /\ y \in Thread /\ o \in Thread
  /\ y.ci = o.ci /\ y.status = o.status /\ y.errfunc = o.errfunc /\ y.body = o.body
  /\ y.nny = 0 /\ y.errorJmp = Last(e).jmp /\ y.nCcalls >= Last(e).depth

LEMMA ProtectedIs ==
  ASSUME NEW s, NEW ch, NEW a, NEW co, CanResume(s, ch, a, co),
         NEW cg, cg = Append(ch, co), NEW g, g = StartsResume(s, Last(s.c).L, co)
  PROVE  \E e : Protected(s, g, cg, co, e)
<1> DEFINE t == Last(s.c).L
           o == s.th[co]
           p == Resuming(s, t, co)
           y == p.th[co]
<1>1. s \in Machine /\ t \in Threads /\ co \in Threads
  BY StackEnds DEF CanResume
<1>2. ResumeBegun(s, p, t, co)
  BY <1>1, ResumingIs
<1> HIDE DEF p
<1>3. /\ p \in Machine /\ o \in Thread /\ \A u \in Threads \ {co} : p.th[u] = s.th[u]
      /\ p.c = Append(s.c, ResumeFrame(co, o.nny)) /\ ResumeFrame(co, o.nny) \in Frame
      /\ y.ci = o.ci /\ y.status = o.status /\ y.errfunc = o.errfunc /\ y.body = o.body
      /\ y.nny = 0 /\ g = RawRun(p, co)
  BY <1>2 DEF ResumeBegun
<1>4. PICK e : CanTry(p, cg, e) /\ Fresh(Last(e))
  BY ResumePush DEF p
<1>5. Last(p.c).L = co
  <2> DEFINE x == ResumeFrame(co, o.nny)
  <2>1. x.L = co
    BY DEF ResumeFrame, FrameOf
  <2>2. s.c \in Seq(Frame)
    BY <1>1, MachineIs
  <2> HIDE DEF x
  <2>3. Last(Append(s.c, x)) = x
    BY <1>3, <2>2, AppendIs DEF x
  <2> QED
    BY <1>3, <2>1, <2>3 DEF x
<1>6. PICK E : Tried(p, g, cg, e, E)
  <2>1. g = RawRun(p, Last(p.c).L)
    BY <1>3, <1>5
  <2> QED
    BY <1>4, <2>1, TryIs
<1> DEFINE f == Append(e, E)
           k == g.th[co]
<1>7. /\ Same(p, g) /\ TopF(g) = "try" /\ Cur(g) = k
      /\ k.ci = y.ci /\ k.status = y.status /\ k.nny = y.nny /\ k.nCcalls = y.nCcalls
      /\ k.errorJmp = Len(p.c) + 1 /\ k.errfunc = y.errfunc /\ k.body = y.body
      /\ StackRight(g, cg, f) /\ Last(f) = E
      /\ E.ci = Last(e).ci /\ E.nny = Last(e).nny /\ E.jmp = Len(p.c) + 1
      /\ E.depth = Last(e).depth /\ E.link = Last(e).link /\ E.pcall = Last(e).pcall
  BY <1>5, <1>6 DEF Tried
<1>8. g \in Machine /\ Last(g.c).L = co /\ \A u \in Threads \ {co} : g.th[u] = p.th[u]
  BY <1>5, <1>7 DEF Same
<1>9. k \in Thread
  BY <1>1, <1>8, MachineIs
<1>10. y.nCcalls >= Last(e).depth
  BY <1>4, <1>5 DEF CanTry, Cur
<1> HIDE DEF f, k, y
<1>11. Fresh(Last(f))
  <2>1. Last(f) \in Mark
    BY <1>7, <1>8, StackEnds
  <2> QED
    BY <1>4, <1>7, <2>1 DEF Fresh
<1>12. k.nCcalls >= Last(f).depth
  BY <1>7, <1>10
<1>13. \A u \in Threads \ {co} : g.th[u] = s.th[u]
  BY <1>3, <1>8
<1>14. Protected(s, g, cg, co, f)
  BY <1>3, <1>7, <1>8, <1>9, <1>11, <1>12, <1>13 DEF Protected, k, y
<1> QED
  BY <1>14

\* The calls of a thread that is resumed, as the program means them.
WResumes(x, co, l) == [x EXCEPT !.chain = Append(@, co), !.stack[co] = l]
WResume(w, fn, co, l) == WResumes(WPush(w, fn), co, l)

LEMMA WResumesIs ==
  ASSUME NEW x, NEW co, NEW l, x = [stack |-> x.stack, chain |-> x.chain, dead |-> x.dead]
  PROVE  WResumes(x, co, l)
           = [stack |-> [x.stack EXCEPT ![co] = l], chain |-> Append(x.chain, co), dead |-> x.dead]
<1> DEFINE k == Append(x.chain, co)
           p == x.stack
           d == x.dead
           q == x.chain
<1>1. WResumes(x, co, l) = [[x EXCEPT !.chain = k] EXCEPT !.stack[co] = l]
  BY DEF k, WResumes
<1>2. x = [stack |-> p, chain |-> q, dead |-> d]
  OBVIOUS
<1> HIDE DEF k, p, q, d
<1>3. [x EXCEPT !.chain = k] = [stack |-> p, chain |-> k, dead |-> d]
  BY <1>2
<1>4. [[stack |-> p, chain |-> k, dead |-> d] EXCEPT !.stack[co] = l]
        = [stack |-> [p EXCEPT ![co] = l], chain |-> k, dead |-> d]
  OBVIOUS
<1> QED
  BY <1>1, <1>3, <1>4 DEF k, p, d

\* The thread co runs in the machine r, in which the function fn has resumed it.
ResumeRun(s, w, a, fn, z, b, co, r, cg) ==
  /\ TypesRight(s, w) /\ Active(s, w, a) /\ TopF(s) = "execute"
  /\ fn \in {"resume", "wrap"} /\ Into(s, w, a, z, b, fn)
  /\ co \in Threads \ ToSet(w.chain) /\ co \notin w.dead
  /\ r \in Machine /\ Last(r.c).L = co /\ \A u \in Threads \ {co} : r.th[u] = z.th[u]
  /\ cg = Append(w.chain, co) /\ Ready(r, cg) /\ AtWork(r) /\ Cur(r) \in Thread

LEMMA ResumeRunsIs ==
  ASSUME NEW s, NEW w, NEW a, NEW fn, NEW z, NEW b, NEW co, NEW r, NEW cg,
         ResumeRun(s, w, a, fn, z, b, co, r, cg),
         NEW v, v = WResume(w, fn, co, Names(Cur(r).ci))
  PROVE  Inv(r, v)
<1>0. /\ TypesRight(s, w) /\ Active(s, w, a) /\ TopF(s) = "execute"
      /\ fn \in {"resume", "wrap"} /\ Into(s, w, a, z, b, fn)
      /\ co \in Threads \ ToSet(w.chain) /\ co \notin w.dead
      /\ r \in Machine /\ Last(r.c).L = co /\ \A u \in Threads \ {co} : r.th[u] = z.th[u]
      /\ cg = Append(w.chain, co) /\ Ready(r, cg) /\ AtWork(r) /\ Cur(r) \in Thread
  BY DEF ResumeRun
<1> USE <1>0
<1> DEFINE t == Last(s.c).L
           ch == w.chain
           l == Names(Cur(r).ci)
           x == WPush(w, fn)
<1>1. /\ s \in Machine /\ w \in Wants /\ AgreeBut(s, w, {}) /\ Others(s, w, ch)
      /\ t \in Threads /\ t \notin w.dead /\ t \in ToSet(ch) /\ StackRight(s, ch, a)
  BY SMTT(30), ActiveIs, AgreeIs
<1>2. /\ z \in Machine /\ Cur(z) = z.th[t] /\ \A u \in Threads \ {t} : z.th[u] = s.th[u]
      /\ CIsRight(Cur(z).ci)
  BY Zenon DEF Into
<1>3. WSame(w, x, t) /\ x.stack[t] = Names(Cur(z).ci)
  BY DEF Into
<1>4. x \in Wants /\ x.chain = ch /\ x.dead = w.dead /\ \A u \in Threads \ {t} : x.stack[u] = w.stack[u]
  BY <1>3 DEF WSame
<1>5. Links(ch, co, cg) /\ Linked(ch)
  <2>1. Linked(ch)
    BY <1>1, StackEnds
  <2> QED
    BY <2>1, LinkedPush
<1>6. /\ Linked(cg) /\ Len(cg) = Len(ch) + 1 /\ Len(ch) \in Nat /\ cg[Len(ch) + 1] = co
      /\ \A i \in 1..Len(ch) : cg[i] = ch[i]
      /\ ToSet(cg) = ToSet(ch) \cup {co}
  BY <1>5 DEF Links
<1>7. l \in Seq(Fns)
  <2>1. Cur(r).ci \in Seq(CIs)
    BY ThreadIs
  <2> QED
    BY <2>1, NamesAre
<1> HIDE DEF x, l
<1>8. v = [stack |-> [x.stack EXCEPT ![co] = l], chain |-> cg, dead |-> w.dead]
  <2>1. v = WResumes(x, co, l)
    BY DEF x, l, WResume
  <2>2. x = [stack |-> x.stack, chain |-> x.chain, dead |-> x.dead]
    BY <1>4, WantsAre
  <2>3. WResumes(x, co, l)
          = [stack |-> [x.stack EXCEPT ![co] = l], chain |-> Append(x.chain, co), dead |-> x.dead]
    BY <2>2, WResumesIs
  <2> QED
    BY <1>4, <2>1, <2>3
<1>9. x.stack \in [Threads -> Seq(Fns)] /\ w.dead \in SUBSET Threads
  BY <1>1, <1>4, WantsAre
<1>10. /\ v \in Wants /\ v.chain = cg /\ v.dead = w.dead /\ v.stack[co] = l
       /\ \A u \in Threads \ {co} : v.stack[u] = x.stack[u]
  <2>1. cg \in Seq(Threads)
    BY <1>6 DEF Linked
  <2>2. [x.stack EXCEPT ![co] = l] \in [Threads -> Seq(Fns)]
    BY <1>7, <1>9
  <2>3. v \in Wants
    BY <1>8, <1>9, <2>1, <2>2 DEF Wants
  <2> QED
    BY <1>8, <1>9, <2>3
<1>11. AgreeBut(z, v, {co})
  <2> SUFFICES ASSUME NEW u \in Threads \ (v.dead \cup {co})
               PROVE  Names(z.th[u].ci) = v.stack[u]
    BY DEF AgreeBut
  <2>1. CASE u = t
    BY <1>2, <1>3, <1>10, <2>1 DEF x
  <2>2. CASE u # t
    BY <1>1, <1>2, <1>4, <1>10, <2>2 DEF AgreeBut
  <2> QED
    BY <2>1, <2>2
<1>12. Others(z, v, cg)
  <2>1. \A u \in Threads \ ToSet(cg) : Resting(z.th[u], u, w.dead)
    BY <1>1, <1>2, <1>6 DEF Others
  <2>2. ASSUME NEW i \in 1..Len(cg) PROVE cg[i] \notin w.dead
    <3>1. i = Len(ch) + 1 \/ i \in 1..Len(ch)
      BY <1>6
    <3>2. CASE i \in 1..Len(ch)
      BY <1>1, <1>6, <3>2 DEF Others
    <3>3. CASE i = Len(ch) + 1
      BY <1>6, <3>3
    <3> QED
      BY <3>1, <3>2, <3>3
  <2> QED
    BY <1>10, <2>1, <2>2 DEF Others
<1>13. \A u \in Threads : CIsRight(z.th[u].ci)
  <2> SUFFICES ASSUME NEW u \in Threads PROVE CIsRight(z.th[u].ci)
    OBVIOUS
  <2>1. CASE u = t
    BY <1>2, <2>1
  <2>2. CASE u # t
    BY <1>2, <2>2 DEF TypesRight
  <2> QED
    BY <2>1, <2>2
<1>14. v.stack[Last(r.c).L] = Names(Cur(r).ci)
  BY <1>10 DEF l
<1> QED
  BY <1>10, <1>11, <1>12, <1>13, <1>14, IsActive

\* resume calls the function of a new thread.
ResumesNew(g, co) == ExecuteNew(Enters(SetBody(g, co, FALSE), "resuming", co), co, "lua")

LEMMA ResumeNewIs ==
  ASSUME NEW s, NEW w, NEW a, TypesRight(s, w), Active(s, w, a), TopF(s) = "execute",
         NEW fn \in {"resume", "wrap"}, NEW z, NEW b, Into(s, w, a, z, b, fn),
         NEW co \in Threads \ ToSet(w.chain), co \notin w.dead, CanResume(z, w.chain, b, co),
         z.th[co].status = "OK", z.th[co].ci = <<>>, z.th[co].errfunc = 0,
         NEW r, r = ResumesNew(StartsResume(z, Last(s.c).L, co), co),
         NEW v, v = WResume(w, fn, co, <<"lua">>)
  PROVE  r.do = "run" /\ Inv(r, v)
<1> DEFINE t == Last(s.c).L
           o == z.th[co]
           cg == Append(w.chain, co)
           g == StartsResume(z, t, co)
           y == SetBody(g, co, FALSE)
           q == Enters(y, "resuming", co)
           x == PushCI(q, co, NewCI("lua"))
<1>1. z \in Machine /\ Last(z.c).L = t
  BY DEF Into
<1>2. PICK e : Protected(z, g, cg, co, e)
  BY <1>1, ProtectedIs
<1> HIDE DEF g
<1> DEFINE k == g.th[co]
<1>3. /\ g \in Machine /\ Last(g.c).L = co /\ TopF(g) = "try" /\ StackRight(g, cg, e) /\ Fresh(Last(e))
      /\ \A u \in Threads \ {co} : g.th[u] = z.th[u]
      /\ k \in Thread /\ k.ci = o.ci /\ k.status = o.status /\ k.errfunc = o.errfunc
      /\ k.nny = 0 /\ k.errorJmp = Last(e).jmp /\ k.nCcalls >= Last(e).depth
  BY <1>2 DEF Protected
<1>4. "lua" \in Fns /\ IsLua("lua") /\ ~Protects("lua") /\ FALSE \in BOOLEAN /\ co \in Threads
  BY DEF Fns, IsLua, Protects
<1> DEFINE j == y.th[co]
<1>5. /\ OneThread(g, y, co) /\ j \in Thread /\ j.body = FALSE
      /\ j.ci = k.ci /\ j.status = k.status /\ j.nny = k.nny /\ j.nCcalls = k.nCcalls
      /\ j.errorJmp = k.errorJmp /\ j.errfunc = k.errfunc
  BY ZenonT(30), <1>3, <1>4, SetBodyIs
<1> HIDE DEF y
<1>6. y \in Machine /\ y.c = g.c /\ \A u \in Threads \ {co} : y.th[u] = g.th[u]
  BY <1>5 DEF OneThread
<1>7. Last(y.c).L = co /\ TopF(y) = "try" /\ Cur(y) = j
  BY <1>3, <1>6 DEF TopF, Cur
<1>8. Last(e).ci = 0 /\ Last(e) \in Mark
  BY <1>3 DEF Fresh
<1> HIDE DEF k, j, o
<1>9. StackRight(y, cg, e)
  <2>1. Last(e).ci <= Len(Cur(y).ci)
    BY <1>5, <1>7, <1>8, ThreadIs
  <2>2. SameTo(Cur(g).ci, Cur(y).ci, Last(e).ci)
    BY <1>8 DEF SameTo
  <2>3. \A u \in Threads \ {Last(g.c).L} : y.th[u] = g.th[u]
    BY <1>3, <1>6
  <2> QED
    BY <1>3, <1>6, <2>1, <2>2, <2>3, StackTop
<1>10. PICK d : /\ Same(y, q) /\ q.th = y.th /\ TopF(q) = "resuming" /\ Cur(q) = Cur(y)
                /\ StackRight(q, cg, d) /\ Fresh(Last(d)) /\ Last(d).jmp = Last(e).jmp
                /\ Last(d).depth = Last(e).depth
  <2>1. "resuming" \in {"resuming", "unroll"} /\ q = Enters(y, "resuming", Last(y.c).L)
    BY <1>7
  <2> HIDE DEF q
  <2> QED
    BY <1>3, <1>6, <1>7, <1>9, <2>1, RollPush
<1> HIDE DEF q
<1>11. q \in Machine /\ Last(q.c).L = co /\ Cur(q) = j
  BY <1>7, <1>10 DEF Same
<1>12. q.th[co] = j
  BY <1>10 DEF j
<1>13. CalledNew(q, x, co, "lua")
  BY <1>4, <1>11, PushCIIs
<1> HIDE DEF x
<1> DEFINE i == x.th[co]
<1>14. /\ OneThread(q, x, co) /\ i \in Thread
       /\ Len(i.ci) = Len(j.ci) + 1 /\ Last(i.ci) = NewCI("lua")
       /\ Names(i.ci) = Append(Names(j.ci), "lua") /\ (CIsRight(j.ci) => CIsRight(i.ci))
       /\ i.status = j.status /\ i.nny = j.nny /\ i.nCcalls = j.nCcalls
       /\ i.errorJmp = j.errorJmp /\ i.errfunc = j.errfunc /\ i.body = j.body
  BY <1>12, <1>13 DEF CalledNew
<1>15. x \in Machine /\ x.c = q.c /\ \A u \in Threads \ {co} : x.th[u] = q.th[u]
  BY <1>14 DEF OneThread
<1>16. Last(x.c).L = co /\ TopF(x) = "resuming" /\ Cur(x) = i
  BY <1>10, <1>11, <1>15 DEF TopF, Cur
<1> HIDE DEF i
<1>17. j.ci = <<>> /\ Len(j.ci) = 0 /\ CIsRight(j.ci)
  <2>1. j.ci = <<>>
    BY <1>3, <1>5 DEF o
  <2>2. \A l \in 1..Len(j.ci) : FALSE
    BY <2>1
  <2> QED
    BY <2>1, <2>2 DEF CIsRight
<1>18. Len(i.ci) = 1 /\ Names(i.ci) = <<"lua">>
  <2>1. Names(j.ci) = <<>>
    BY <1>17 DEF Names
  <2>2. Append(<<>>, "lua") = <<"lua">>
    OBVIOUS
  <2>3. Names(i.ci) = <<"lua">>
    BY <1>14, <2>1, <2>2
  <2>4. Len(i.ci) = 1
    BY <1>14, <1>17
  <2> QED
    BY <2>3, <2>4
<1>19. Last(d) \in Mark /\ Last(d).ci = 0 /\ Last(d).nny = 0
  BY <1>10 DEF Fresh
<1>20. StackRight(x, cg, d)
  <2>1. Last(d).ci <= Len(Cur(x).ci)
    BY <1>16, <1>18, <1>19
  <2>2. SameTo(Cur(q).ci, Cur(x).ci, Last(d).ci)
    BY <1>19 DEF SameTo
  <2>3. \A u \in Threads \ {Last(q.c).L} : x.th[u] = q.th[u]
    BY <1>11, <1>15
  <2> QED
    BY <1>10, <1>11, <1>15, <2>1, <2>2, <2>3, StackTop
<1>21. CanExecute(x, cg, d)
  <2>1. Len(i.ci) >= 1 /\ Len(i.ci) - 1 = 0 /\ Last(d).ci <= Len(i.ci) - 1
    BY <1>18, <1>19
  <2>2. IsLua(Last(i.ci).fn) /\ Last(i.ci).fn # "handler"
    BY <1>4, <1>14, NewCIIs
  <2>3. Owns("resuming", Last(d), i.ci, Len(i.ci) - 1)
    <3>0. \A l \in 1..0 : FALSE
      OBVIOUS
    <3>1. \A l \in 1..Len(i.ci) - 1 : FALSE
      BY <2>1, <3>0
    <3> QED
      BY <3>1 DEF Owns
  <2>4. Live(Cur(x), Last(d))
    <3>1. i.status = "OK" /\ ~i.body
      BY <1>3, <1>5, <1>14 DEF o
    <3>2. i.nny = Last(d).nny /\ i.errorJmp = Last(d).jmp
      BY <1>3, <1>5, <1>10, <1>14, <1>19
    <3>3. i.nCcalls >= Last(d).depth
      BY <1>3, <1>5, <1>10, <1>14
    <3> QED
      BY <1>16, <3>1, <3>2, <3>3 DEF Live
  <2>5. CIsRight(i.ci)
    BY <1>14, <1>17
  <2>6. ~(Last(d).nny > 0)
    BY <1>19
  <2> QED
    BY <1>15, <1>16, <1>20, <2>1, <2>2, <2>3, <2>4, <2>5, <2>6 DEF CanExecute
<1>22. r = Execute(x, Last(x.c).L)
  BY <1>16 DEF ResumesNew, ExecuteNew, x, q, y, g
<1>23. /\ Same(x, r) /\ Ready(r, cg) /\ Cur(r).errfunc = Cur(x).errfunc
       /\ r.do = "run" /\ TopF(r) = "execute" /\ Names(Cur(r).ci) = Names(Cur(x).ci)
  BY <1>21, <1>22, ExecuteIs
<1>24. r \in Machine /\ Last(r.c).L = co /\ \A u \in Threads \ {co} : r.th[u] = x.th[u]
  BY <1>16, <1>23 DEF Same
<1>25. \A u \in Threads \ {co} : r.th[u] = z.th[u]
  BY <1>3, <1>6, <1>10, <1>15, <1>24
<1>26. Cur(r) \in Thread /\ Cur(r).ci \in Seq(CIs)
  <2>1. Cur(r) \in Thread
    BY <1>4, <1>24, MachineIs DEF Cur
  <2> QED
    BY <2>1, ThreadIs
<1>27. Names(Cur(r).ci) = <<"lua">>
  BY <1>16, <1>18, <1>23
<1>28. ErrFuncRight(Cur(r))
  <2> DEFINE ci == Cur(r).ci
  <2>0. ci \in Seq(CIs) /\ Names(ci) = <<"lua">>
    BY <1>26, <1>27
  <2> HIDE DEF ci
  <2>1. Len(ci) = 1 /\ ci[1].fn = "lua"
    <3>1. Len(Names(ci)) = Len(ci) /\ \A n \in 1..Len(ci) : Names(ci)[n] = ci[n].fn
      BY <2>0, NamesAre
    <3>2. Len(<<"lua">>) = 1 /\ <<"lua">>[1] = "lua"
      OBVIOUS
    <3>4. Len(ci) = 1
      BY <2>0, <3>1, <3>2
    <3>3. 1 \in 1..Len(ci)
      BY <3>4
    <3>5. Names(ci)[1] = "lua"
      BY <2>0, <3>2
    <3> QED
      BY <3>1, <3>3, <3>4, <3>5
  <2>2. HandledBy(ci, 1) = FALSE
    BY <2>1 DEF HandledBy
  <2>3. Cur(r).errfunc = 0
    BY <1>3, <1>5, <1>14, <1>16, <1>23 DEF o
  <2>4. (Cur(r).errfunc = 1) = FALSE
    BY <2>3
  <2>5. HandledBy(ci, Len(ci)) = FALSE
    BY <2>1, <2>2
  <2> QED
    BY <2>4, <2>5 DEF ErrFuncRight, ci
<1>29. AtWork(r)
  BY <1>23, <1>28 DEF AtWork
<1>30. v = WResume(w, fn, co, Names(Cur(r).ci))
  BY <1>27
<1> HIDE DEF cg
<1>31. cg = Append(w.chain, co)
  BY DEF cg
<1>32. Inv(r, v)
  <2>1. ResumeRun(s, w, a, fn, z, b, co, r, cg)
    BY <1>23, <1>24, <1>25, <1>26, <1>29, <1>31 DEF ResumeRun
  <2> QED
    BY <1>30, <2>1, ResumeRunsIs
<1> QED
  BY SMTT(30), <1>23, <1>32

\* resume lets a thread go on behind its yield.
ResumesOn(g, co) ==
  [Enters(PopCI(g, co), "resuming", co) EXCEPT !.th[co].status = "OK", !.do = "return", !.status = "OK"]

LEMMA ResumesOnIs ==
  ASSUME NEW g, NEW co
  PROVE  ResumesOn(g, co) = SetDo(SetStatus(Enters(PopCI(g, co), "resuming", co), co, "OK"), "return", "OK")
BY DEF ResumesOn, SetDo, SetStatus

\* A yield is not protected, nor does it protect.
LEMMA SuspendedIs ==
  ASSUME NEW o \in Thread, Suspended(o), CIsRight(o.ci), NEW cj, cj = Front(o.ci)
  PROVE  /\ o.ci # <<>> /\ cj \in Seq(CIs) /\ Names(cj) = Front(Names(o.ci)) /\ CIsRight(cj)
         /\ \A i \in 1..Len(cj) : Pending(cj, i)
         /\ (o.errfunc = 1) = HandledBy(cj, Len(cj))
         /\ Names(o.ci) # <<>>
<1> DEFINE ci == o.ci
           N == Len(ci)
<1>1. /\ ci # <<>> /\ Last(ci).fn = "yield" /\ \A i \in 1..N - 1 : Pending(ci, i)
      /\ (o.errfunc = 1) = HandledBy(ci, N)
  BY DEF Suspended, ErrFuncRight
<1>2. ci \in Seq(CIs) /\ CIsRight(ci)
  BY ThreadIs
<1> HIDE DEF ci
<1>3. /\ N >= 1 /\ N \in Nat /\ cj \in Seq(CIs) /\ Len(cj) = N - 1
      /\ \A i \in 1..N - 1 : cj[i] = ci[i]
      /\ Last(ci) = ci[N] /\ cj = SubSeq(ci, 1, N - 1)
  BY <1>1, <1>2, FrontIs DEF ci
<1>4. N - 1 \in 0..Len(ci) /\ N - 1 \in Nat
  BY <1>3
<1>5. Names(cj) = SubSeq(Names(ci), 1, N - 1) /\ CIsRight(cj)
  BY <1>2, <1>3, <1>4, NamesCut, CIsRightCut
<1>6. Names(ci) \in Seq(Fns) /\ Len(Names(ci)) = N
  BY <1>2, NamesAre
<1>7. Names(ci) # <<>>
  BY <1>3, <1>6
<1>8. Names(cj) = Front(Names(ci))
  BY <1>5, <1>6, <1>7, FrontIs
<1> HIDE DEF N
<1>9. SameTo(ci, cj, N - 1)
  BY <1>3 DEF SameTo
<1>10. \A i \in 1..Len(cj) : Pending(cj, i)
  <2>1. \A i \in 1..N - 1 : Pending(ci, i) = Pending(cj, i)
    <3>1. N - 1 \in Int
      BY <1>4
    <3> QED
      BY <1>9, <3>1, PendingSame
  <2> QED
    BY <1>1, <1>3, <2>1
<1>11. HandledBy(ci, N) = HandledBy(ci, N - 1)
  <2>1. ~Protects("yield")
    BY DEF Protects
  <2>2. HandledBy(ci, N) = IF Protects(ci[N].fn) THEN ci[N].fn = "xpcall" ELSE HandledBy(ci, N - 1)
    BY <1>3, HandledStep
  <2> QED
    BY <1>1, <1>3, <2>1, <2>2
<1>12. HandledBy(ci, N - 1) = HandledBy(cj, N - 1)
  <2>1. N - 1 \in Int /\ N - 1 <= N - 1
    BY <1>4
  <2> QED
    BY <1>9, <2>1, HandledSame
<1>13. HandledBy(cj, Len(cj)) = HandledBy(ci, N)
  BY <1>3, <1>11, <1>12
<1> QED
  BY <1>1, <1>3, <1>5, <1>7, <1>8, <1>10, <1>13 DEF ci

LEMMA ResumeOnIs ==
  ASSUME NEW s, NEW w, NEW a, TypesRight(s, w), Active(s, w, a), TopF(s) = "execute",
         NEW fn \in {"resume", "wrap"}, NEW z, NEW b, Into(s, w, a, z, b, fn),
         NEW co \in Threads \ ToSet(w.chain), co \notin w.dead, CanResume(z, w.chain, b, co),
         Suspended(z.th[co]), CIsRight(z.th[co].ci),
         NEW r, r = ResumesOn(StartsResume(z, Last(s.c).L, co), co),
         NEW v, v = WResume(w, fn, co, Front(Names(z.th[co].ci)))
  PROVE  r.do # "throw" /\ Names(z.th[co].ci) # <<>> /\ Inv(r, v)
<1> DEFINE t == Last(s.c).L
           o == z.th[co]
           cg == Append(w.chain, co)
           g == StartsResume(z, t, co)
           y == PopCI(g, co)
           q == Enters(y, "resuming", co)
           x == SetStatus(q, co, "OK")
<1>1. z \in Machine /\ Last(z.c).L = t
  BY DEF Into
<1>2. PICK e : Protected(z, g, cg, co, e)
  BY <1>1, ProtectedIs
<1> HIDE DEF g
<1> DEFINE k == g.th[co]
<1>3. /\ g \in Machine /\ Last(g.c).L = co /\ TopF(g) = "try" /\ StackRight(g, cg, e) /\ Fresh(Last(e))
      /\ \A u \in Threads \ {co} : g.th[u] = z.th[u]
      /\ k \in Thread /\ o \in Thread /\ k.ci = o.ci /\ k.errfunc = o.errfunc /\ k.body = o.body
      /\ k.nny = 0 /\ k.errorJmp = Last(e).jmp /\ k.nCcalls >= Last(e).depth
  BY <1>2 DEF Protected
<1>4. co \in Threads /\ "OK" \in Statuses /\ "return" \in Dos
  BY DEF Statuses, Dos
<1> DEFINE cj == Front(o.ci)
<1>5. /\ o.ci # <<>> /\ cj \in Seq(CIs) /\ Names(cj) = Front(Names(o.ci)) /\ CIsRight(cj)
      /\ \A i \in 1..Len(cj) : Pending(cj, i)
      /\ (o.errfunc = 1) = HandledBy(cj, Len(cj))
      /\ Names(o.ci) # <<>>
  <2> HIDE DEF o
  <2>1. Suspended(o) /\ CIsRight(o.ci) /\ o \in Thread
    BY <1>3 DEF o
  <2> QED
    BY <2>1, SuspendedIs
<1>6. CallGone(g, y, co)
  BY <1>3, <1>4, <1>5, PopCIIs
<1> HIDE DEF y
<1> DEFINE j == y.th[co]
<1>7. /\ OneThread(g, y, co) /\ j \in Thread /\ j.ci = cj
      /\ j.nny = k.nny /\ j.nCcalls = k.nCcalls
      /\ j.errorJmp = k.errorJmp /\ j.errfunc = k.errfunc /\ j.body = k.body
  BY <1>3, <1>6 DEF CallGone
<1>8. y \in Machine /\ y.c = g.c /\ \A u \in Threads \ {co} : y.th[u] = g.th[u]
  BY <1>7 DEF OneThread
<1>9. Last(y.c).L = co /\ TopF(y) = "try" /\ Cur(y) = j
  BY <1>3, <1>8 DEF TopF, Cur
<1>10. Last(e).ci = 0 /\ Last(e) \in Mark
  BY <1>3 DEF Fresh
<1> HIDE DEF k, j, o, cj
<1>11. StackRight(y, cg, e)
  <2>1. Last(e).ci <= Len(Cur(y).ci)
    BY <1>7, <1>9, <1>10, ThreadIs
  <2>2. SameTo(Cur(g).ci, Cur(y).ci, Last(e).ci)
    BY <1>10 DEF SameTo
  <2>3. \A u \in Threads \ {Last(g.c).L} : y.th[u] = g.th[u]
    BY <1>3, <1>8
  <2> QED
    BY <1>3, <1>8, <2>1, <2>2, <2>3, StackTop
<1>12. PICK d : /\ Same(y, q) /\ q.th = y.th /\ TopF(q) = "resuming" /\ Cur(q) = Cur(y)
                /\ StackRight(q, cg, d) /\ Fresh(Last(d)) /\ Last(d).jmp = Last(e).jmp
                /\ Last(d).depth = Last(e).depth
  <2>1. "resuming" \in {"resuming", "unroll"} /\ q = Enters(y, "resuming", Last(y.c).L)
    BY <1>9
  <2> HIDE DEF q
  <2> QED
    BY <1>3, <1>8, <1>9, <1>11, <2>1, RollPush
<1> HIDE DEF q
<1>13. q \in Machine /\ Last(q.c).L = co /\ q.th[co] = j /\ Cur(q) = j
  BY <1>9, <1>12 DEF Same, j
<1> DEFINE i == x.th[co]
<1>14. /\ OneThread(q, x, co) /\ i \in Thread /\ i.status = "OK" /\ i.ci = cj
       /\ i.nny = j.nny /\ i.nCcalls = j.nCcalls
       /\ i.errorJmp = j.errorJmp /\ i.errfunc = j.errfunc /\ i.body = j.body
  BY <1>4, <1>7, <1>13, SetStatusIs
<1> HIDE DEF x
<1>15. x \in Machine /\ x.c = q.c /\ \A u \in Threads \ {co} : x.th[u] = q.th[u]
  BY <1>14 DEF OneThread
<1>16. r = SetDo(x, "return", "OK")
  BY ResumesOnIs DEF x, q, y, g
<1>17. /\ r \in Machine /\ r.th = x.th /\ r.c = q.c /\ r.do = "return" /\ r.status = "OK"
  BY <1>4, <1>15, <1>16, DoIs
<1>18. Last(r.c).L = co /\ TopF(r) = "resuming" /\ Cur(r) = i
  BY <1>12, <1>13, <1>17 DEF TopF, Cur
<1> HIDE DEF i
<1>19. Last(d) \in Mark /\ Last(d).ci = 0 /\ Last(d).nny = 0
  BY <1>12 DEF Fresh
<1>20. StackRight(r, cg, d)
  <2>1. Last(d).ci <= Len(Cur(r).ci)
    BY <1>14, <1>18, <1>19, ThreadIs
  <2>2. SameTo(Cur(q).ci, Cur(r).ci, Last(d).ci)
    BY <1>19 DEF SameTo
  <2>3. \A u \in Threads \ {Last(q.c).L} : r.th[u] = q.th[u]
    BY <1>13, <1>15, <1>17
  <2> QED
    BY <1>12, <1>13, <1>17, <2>1, <2>2, <2>3, StackTop
<1>21. Live(Cur(r), Last(d))
  <2>1. i.status = "OK" /\ ~i.body
    BY <1>3, <1>7, <1>14 DEF o, Suspended
  <2>2. i.nny = Last(d).nny /\ i.errorJmp = Last(d).jmp
    BY <1>3, <1>7, <1>12, <1>14, <1>19
  <2>3. i.nCcalls >= Last(d).depth
    BY <1>3, <1>7, <1>12, <1>14
  <2> QED
    BY <1>18, <2>1, <2>2, <2>3 DEF Live
<1>22. Cur(r).ci = cj /\ Cur(r) \in Thread /\ Cur(r).errfunc = o.errfunc
  BY <1>3, <1>7, <1>14, <1>18
<1>23. Ready(r, cg)
  <2>1. TopF(r) \in {"resuming", "unroll"} /\ CIsRight(Cur(r).ci)
        /\ \A l \in 1..Len(Cur(r).ci) : Pending(Cur(r).ci, l)
    BY <1>5, <1>18, <1>22
  <2> QED
    BY <1>12, <1>17, <1>20, <1>21, <2>1, RollTop
<1>24. AtWork(r)
  <2>1. ErrFuncRight(Cur(r))
    BY <1>5, <1>22 DEF ErrFuncRight
  <2> QED
    BY <1>17, <1>18, <2>1 DEF AtWork
<1>25. \A u \in Threads \ {co} : r.th[u] = z.th[u]
  BY <1>3, <1>8, <1>12, <1>15, <1>17
<1> HIDE DEF cg
<1>26. ResumeRun(s, w, a, fn, z, b, co, r, cg)
  BY <1>17, <1>18, <1>22, <1>23, <1>24, <1>25 DEF ResumeRun, cg
<1>27. v = WResume(w, fn, co, Names(Cur(r).ci))
  BY <1>5, <1>22 DEF o
<1>28. Inv(r, v)
  BY <1>26, <1>27, ResumeRunsIs
<1> QED
  BY <1>5, <1>17, <1>28 DEF o

\* A thread that has resumed another is waiting for it.
Waiting(o) ==
  /\ o.status = "OK" /\ ~o.body /\ o.ci # <<>> /\ Last(o.ci).fn \in {"resume", "wrap"}

LEMMA ChainWaits ==
  ASSUME NEW s \in Machine, NEW ch, NEW a, StackRight(s, ch, a), NEW i \in 1..Len(ch), i # Len(ch)
  PROVE  Waiting(s.th[ch[i]])
<1> DEFINE N == Len(s.c)
           I == {k \in 1..N : a[k].link <= i}
           n == Max(I)
<1>1. /\ N \in Nat /\ N >= 1 /\ Len(a) = N /\ a[N].link = Len(ch) /\ Len(ch) \in Nat /\ Len(ch) >= 1
  BY StackEnds
<1>2. I \subseteq 1..N /\ I # {}
  <2>1. FrameRight(s.c, a, ch, s.th[s.c[1].L].ci, 1)
    BY <1>1 DEF StackRight
  <2>2. a[1] = Bottom
    BY <2>1 DEF FrameRight
  <2>3. a[1].link = 1
    BY <2>2 DEF Bottom
  <2>4. 1 \in 1..N /\ a[1].link <= i
    BY <1>1, <2>3
  <2>5. 1 \in I
    BY <2>4
  <2> QED
    BY <2>5
<1> HIDE DEF I
<1>3. n \in I /\ \A j \in I : j <= n
  <2> HIDE DEF N
  <2> QED
    BY <1>1, <1>2, MaxIs
<1> HIDE DEF n
<1>4. n \in 1..N /\ a[n].link <= i
  BY <1>3 DEF I
<1>5. n # N
  <2>1. ~(Len(ch) <= i)
    BY <1>1
  <2> QED
    BY <1>1, <1>4, <2>1
<1>6. n + 1 \in 1..N /\ n \in 1..N - 1 /\ n + 1 - 1 = n /\ n + 1 # 1
  <2> HIDE DEF N
  <2> QED
    BY <1>1, <1>4, <1>5
<1>7. ~(a[n + 1].link <= i)
  <2>1. ~(n + 1 <= n)
    BY <1>6
  <2>2. n + 1 \notin I
    BY <1>3, <2>1
  <2> QED
    BY <1>6, <2>2 DEF I
<1> DEFINE k == n + 1
           x == s.c[k]
           G == s.c[n]
           o == s.th[G.L]
<1>8. FrameRight(s.c, a, ch, s.th[x.L].ci, k)
  BY <1>1, <1>6 DEF StackRight
<1>9. <<G.f, x.f>> \in Nesting /\ a[k] = MarkOf(x, k, a[n], a[k].ci)
  <2> HIDE DEF k
  <2>1. k # 1 /\ k - 1 = n
    BY <1>6 DEF k
  <2> QED
    BY <1>8, <2>1 DEF FrameRight
<1>10. a[n] \in Mark /\ a[k] \in Mark /\ o \in Thread /\ G.L = ch[a[n].link] /\ G.L \in Threads
  BY <1>4, <1>6, StackAt
<1> DEFINE A == a[n]
<1> HIDE DEF k, x, G, o, A
<1>11. x.f = "resume" /\ A.link = i
  <2>1. A.link \in Nat /\ A.link <= i
    BY <1>4, <1>10, MarkIs DEF A
  <2>2. CASE x.f # "resume"
    <3>1. a[k].link = A.link
      BY <1>9, <2>2 DEF MarkOf, A
    <3> QED
      BY <1>7, <2>1, <3>1 DEF k
  <2>3. CASE x.f = "resume"
    <3>1. a[k].link = A.link + 1
      BY <1>9, <2>3 DEF MarkOf, A
    <3>2. ~(A.link + 1 <= i)
      BY <1>7, <3>1 DEF k
    <3> QED
      BY <2>1, <2>3, <3>2
  <2> QED
    BY <2>2, <2>3
<1>12. G.f = "cfunc"
  BY <1>9, <1>11 DEF Nesting
<1>13. /\ Owns(s.c[n].f, a[n], s.th[s.c[n].L].ci, Upper(s, a, n))
       /\ s.c[n + 1].f = "resume" => Waits(s.th[s.c[n].L], a[n])
  BY <1>1, <1>6 DEF StackRight
<1>14. Owns("cfunc", A, o.ci, Len(o.ci)) /\ Waits(o, A)
  <2>1. s.c[n + 1].f = "resume"
    BY <1>11 DEF x, k
  <2>2. Upper(s, a, n) = Len(o.ci)
    BY <2>1 DEF Upper, o, G
  <2> QED
    BY <1>12, <1>13, <2>1, <2>2 DEF o, G, A
<1>15. o.ci # <<>>
  <2>1. Len(o.ci) = A.ci + 1 /\ A.ci \in Nat
    BY <1>10, <1>14, MarkIs DEF Owns, A
  <2>2. Len(o.ci) # 0
    BY <2>1
  <2> QED
    BY <2>2
<1>16. Waiting(o)
  BY <1>14, <1>15 DEF Waiting, Waits, Live
<1>17. o = s.th[ch[i]]
  BY <1>10, <1>11 DEF o, A
<1> QED
  BY <1>16, <1>17

\* coroutine.status of a thread, as the program means it (the operator WStatus).
WStatusOf(w, t) ==
  IF t = Last(w.chain) THEN "running"
  ELSE IF t \in ToSet(w.chain) THEN "normal"
  ELSE IF t \in w.dead THEN "dead" ELSE "suspended"

\* lua_gettop finds nothing (the operator NothingThere).
NothingIn(s, t) ==
  LET ci == s.th[t].ci IN IF ci = <<>> THEN ~s.th[t].body ELSE Last(ci).fn = "wrap"

\* What a thread is.
LEMMA ThreadsAre ==
  ASSUME NEW s, NEW w, NEW a, TypesRight(s, w), Active(s, w, a), NEW co \in Threads
  PROVE  LET o == s.th[co]
             S == WStatusOf(w, co)
         IN
         \/ co = Last(s.c).L /\ S = "running"
         \/ co # Last(s.c).L /\ co \in ToSet(w.chain) /\ S = "normal" /\ Waiting(o)
         \/ /\ co # Last(s.c).L /\ co \notin ToSet(w.chain) /\ co \in w.dead /\ S = "dead"
            /\ o.status \in Errors \/ (o.status = "OK" /\ o.ci = <<>> /\ ~o.body)
         \/ /\ co # Last(s.c).L /\ co \notin ToSet(w.chain) /\ co \notin w.dead /\ S = "suspended"
            /\ o.nny = 1 /\ o.errorJmp = 0
            /\ (o.status = "OK" /\ o.ci = <<>> /\ o.body /\ o.errfunc = 0) \/ Suspended(o)
<1> DEFINE t == Last(s.c).L
           ch == w.chain
           o == s.th[co]
<1>1. /\ s \in Machine /\ w \in Wants /\ StackRight(s, ch, a) /\ Others(s, w, ch)
      /\ t = Last(ch) /\ t \notin w.dead
  BY ActiveIs
<1>2. /\ Linked(ch) /\ Len(ch) \in Nat /\ Len(ch) >= 1 /\ ch \in Seq(Threads) /\ t = ch[Len(ch)]
  BY <1>1, StackEnds
<1>3. CASE co = t
  BY <1>1, <1>3 DEF WStatusOf
<1>4. CASE co # t /\ co \in ToSet(ch)
  <2>1. PICK i \in 1..Len(ch) : co = ch[i]
    BY <1>2, <1>4 DEF ToSet
  <2>2. i # Len(ch)
    BY <1>2, <1>4, <2>1
  <2>3. Waiting(s.th[ch[i]])
    BY <1>1, <2>2, ChainWaits
  <2> QED
    BY <1>1, <1>4, <2>1, <2>3 DEF WStatusOf
<1>5. CASE co # t /\ co \notin ToSet(ch)
  <2>1. co # Main
    <3>1. 1 \in 1..Len(ch) /\ ch[1] = Main
      BY <1>2 DEF Linked
    <3> QED
      BY <1>2, <1>5, <3>1 DEF ToSet
  <2>2. Resting(o, co, w.dead)
    BY <1>1, <1>5 DEF Others
  <2> HIDE DEF o
  <2>3. CASE co \in w.dead
    BY <1>1, <1>5, <2>1, <2>2, <2>3 DEF Resting, WStatusOf, o
  <2>4. CASE co \notin w.dead
    BY <1>1, <1>5, <2>1, <2>2, <2>4 DEF Resting, WStatusOf, o
  <2> QED
    BY <2>3, <2>4
<1> QED
  BY <1>3, <1>4, <1>5

\* What the program means when co is resumed.
WResumption(w, fn, co, refused) ==
  LET x == WPush(w, fn) IN
  IF WStatusOf(w, co) # "suspended" \/ refused THEN x
  ELSE [x EXCEPT !.chain = Append(@, co), !.stack[co] = IF @ = <<>> THEN <<"lua">> ELSE Front(@)]

\* luaB_coresume and luaB_auxwrap do not try to resume a thread that has nothing to do.
LEMMA ResumeDeadIs ==
  ASSUME NEW s, NEW w, NEW a, TypesRight(s, w), Active(s, w, a), TopF(s) = "execute",
         NEW fn \in {"resume", "wrap"}, NEW z, NEW b, Into(s, w, a, z, b, fn),
         NEW r, r = SetDo(z, "return", "ERRRUN")
  PROVE  Inv(r, WPush(w, fn))
<1>1. z \in Machine
  BY DEF Into
<1>2. "return" \in Dos /\ "ERRRUN" \in Statuses
  BY DEF Dos, Statuses, Errors
<1>3. r \in Machine /\ r.th = z.th /\ r.c = z.c /\ r.do = "return" /\ r.status = "ERRRUN"
  BY <1>1, <1>2, DoIs
<1>4. Recounts(z, r)
  BY <1>1, <1>3 DEF Recounts
<1>5. TypesRight(r, WPush(w, fn)) /\ Active(r, WPush(w, fn), b)
  BY <1>3, <1>4, FailedIs
<1> QED
  BY <1>5 DEF Inv

\* What resume does, by what the thread is.
LEMMA ResumedIs ==
  ASSUME NEW z \in Machine, NEW t \in Threads, NEW co \in Threads,
         NEW g, g = StartsResume(z, t, co), NEW r, r = Resumed(g, co)
  PROVE  LET o == z.th[co] IN
         /\ o.status \in Errors \/ (o.status = "OK" /\ o.ci # <<>>) => r = Throw(g, "REFUSED")
         /\ o.status = "OK" /\ o.ci = <<>> => r = Throw(g, "REFUSED") \/ r = ResumesNew(g, co)
         /\ o.status = "YIELD" => r = Throw(g, "REFUSED") \/ r = ResumesOn(g, co)
<1> DEFINE o == z.th[co]
           y == g.th[co]
           v == z.th[t].nCcalls + 1
           n == Len(z.c) + 2
<1>1. y = Resumes(o, 0, v, n) /\ o \in Thread
  BY StartedIs
<1>2. y.status = o.status /\ y.ci = o.ci
  <2> HIDE DEF v, n, o, y
  <2> QED
    BY <1>1 DEF Resumes, Thread
<1> HIDE DEF o
<1> DEFINE R == y.nCcalls >= MaxCCalls \/ y.status \in Errors \/ (y.status = "OK" /\ y.ci # <<>>)
<1>3. r = IF R THEN Throw(g, "REFUSED")
          ELSE IF y.status = "OK" THEN ResumesNew(g, co) ELSE ResumesOn(g, co)
  BY DEF Resumed, ResumesNew, ResumesOn, SetBody
<1>4. o.status \in Errors \/ (o.status = "OK" /\ o.ci # <<>>) => R
  BY <1>2
<1> HIDE DEF R, y
<1>5. o.status \in Errors \/ (o.status = "OK" /\ o.ci # <<>>) => r = Throw(g, "REFUSED")
  BY <1>3, <1>4
<1>6. o.status = "OK" => r = Throw(g, "REFUSED") \/ r = ResumesNew(g, co)
  BY <1>2, <1>3
<1>7. o.status = "YIELD" => r = Throw(g, "REFUSED") \/ r = ResumesOn(g, co)
  BY <1>2, <1>3
<1> QED
  BY <1>5, <1>6, <1>7 DEF o

\* luaB_coresume or luaB_auxwrap, and auxresume
LEMMA ResumeIs ==
  ASSUME NEW s, NEW w, NEW a, TypesRight(s, w), Active(s, w, a), TopF(s) = "execute", s.do = "run",
         NEW fn \in {"resume", "wrap"}, NEW co \in Threads, NEW t, t = Last(s.c).L,
         NEW z, z = EnterC(s, t, fn),
         NEW r, r = IF s.th[co].status = "OK" /\ co # t /\ NothingIn(s, co)
                    THEN SetDo(z, "return", "ERRRUN")
                    ELSE Resumed(StartsResume(z, t, co), co),
         NEW v, v = WResumption(w, fn, co, r.do = "throw")
  PROVE  Inv(r, v)
<1> DEFINE o == s.th[co]
           g == StartsResume(z, t, co)
           S == WStatusOf(w, co)
           x == WPush(w, fn)
           D == SetDo(z, "return", "ERRRUN")
           F == Throw(g, "REFUSED")
           d == z.th[co]
<1>1. /\ s \in Machine /\ w \in Wants /\ StackRight(s, w.chain, a) /\ TopRight(s, a)
      /\ t \in Threads /\ AgreeBut(s, w, {}) /\ Others(s, w, w.chain) /\ t \in ToSet(w.chain)
  BY ActiveIs, AgreeIs
<1>2. PICK b : Into(s, w, a, z, b, fn)
  BY IntoIs
<1>3. /\ z \in Machine /\ Last(z.c).L = t /\ \A u \in Threads \ {t} : z.th[u] = s.th[u]
      /\ StackRight(z, w.chain, b) /\ TopRight(z, b) /\ ErrFuncRight(Cur(z)) /\ TopF(z) = "cfunc"
      /\ TopCI(z).fn \in {"resume", "wrap"} /\ Cur(z) = z.th[t]
      /\ Cur(z).ci # <<>>
  BY Zenon, <1>2 DEF Into
<1>4. Inv(D, x)
  BY <1>2, ResumeDeadIs
<1>5. Inv(F, x)
  BY <1>2, ResumeRefusedIs
<1>6. F.do = "throw"
  BY DEF Throw
<1> DEFINE q == Resumed(g, co)
<1> HIDE DEF g
<1>7. /\ d.status \in Errors \/ (d.status = "OK" /\ d.ci # <<>>) => q = F
      /\ d.status = "OK" /\ d.ci = <<>> => q = F \/ q = ResumesNew(g, co)
      /\ d.status = "YIELD" => q = F \/ q = ResumesOn(g, co)
  BY <1>1, <1>3, ResumedIs DEF g
<1>8. r = IF o.status = "OK" /\ co # t /\ NothingIn(s, co) THEN D ELSE q
  BY DEF g
<1> HIDE DEF F, D, q
<1>9. S # "suspended" \/ r.do = "throw" => v = x
  BY DEF WResumption
<1>10. \/ co = t /\ S = "running"
       \/ co # t /\ co \in ToSet(w.chain) /\ S = "normal" /\ Waiting(o)
       \/ /\ co # t /\ co \notin ToSet(w.chain) /\ co \in w.dead /\ S = "dead"
          /\ o.status \in Errors \/ (o.status = "OK" /\ o.ci = <<>> /\ ~o.body)
       \/ /\ co # t /\ co \notin ToSet(w.chain) /\ co \notin w.dead /\ S = "suspended"
          /\ o.nny = 1 /\ o.errorJmp = 0
          /\ (o.status = "OK" /\ o.ci = <<>> /\ o.body /\ o.errfunc = 0) \/ Suspended(o)
  BY ThreadsAre
<1> HIDE DEF S
<1>11. co # t => d = o
  BY <1>3
<1>12. ASSUME r = F PROVE Inv(r, v)
  BY <1>5, <1>6, <1>9, <1>12
<1>13. ASSUME r = D, S # "suspended" PROVE Inv(r, v)
  BY <1>4, <1>9, <1>13
<1>14. CASE co = t
  <2>1. r = q
    BY <1>8, <1>14
  <2>2. d.status = "OK" /\ d.ci # <<>>
    BY Zenon, <1>3, <1>14 DEF TopRight, Live
  <2> QED
    BY <1>7, <1>12, <2>1, <2>2
<1>15. CASE co # t /\ co \in ToSet(w.chain) /\ S = "normal" /\ Waiting(o)
  <2>1. d.status = "OK" /\ d.ci # <<>>
    BY <1>11, <1>15 DEF Waiting
  <2>2. r = D \/ r = q
    BY <1>8
  <2> QED
    BY <1>7, <1>12, <1>13, <1>15, <2>1, <2>2
<1>16. CASE /\ co # t /\ co \notin ToSet(w.chain) /\ co \in w.dead /\ S = "dead"
            /\ o.status \in Errors \/ (o.status = "OK" /\ o.ci = <<>> /\ ~o.body)
  <2>1. CASE o.status \in Errors
    <3>1. r = q
      BY <1>8, <2>1 DEF Errors
    <3> QED
      BY <1>7, <1>11, <1>12, <1>16, <2>1, <3>1
  <2>2. CASE o.status = "OK" /\ o.ci = <<>> /\ ~o.body
    <3>1. NothingIn(s, co)
      BY <2>2 DEF NothingIn
    <3>2. r = D
      BY <1>8, <1>16, <2>2, <3>1
    <3> QED
      BY <1>13, <1>16, <3>2
  <2> QED
    BY <1>16, <2>1, <2>2
<1>17. CASE /\ co # t /\ co \notin ToSet(w.chain) /\ co \notin w.dead /\ S = "suspended"
            /\ o.nny = 1 /\ o.errorJmp = 0
            /\ (o.status = "OK" /\ o.ci = <<>> /\ o.body /\ o.errfunc = 0) \/ Suspended(o)
  <2>1. d = o /\ co \in Threads \ ToSet(w.chain)
    BY <1>11, <1>17
  <2>2. CanResume(z, w.chain, b, co)
    BY <1>3, <1>17, <2>1 DEF CanResume
  <2>3. x.stack[co] = Names(o.ci)
    <3>1. WSame(w, x, t)
      BY Zenon, <1>2 DEF Into
    <3>2. x.stack[co] = w.stack[co]
      BY <1>17, <3>1 DEF WSame
    <3> QED
      BY <1>1, <1>17, <3>2 DEF AgreeBut
  <2>4. ASSUME r.do # "throw"
        PROVE  v = WResume(w, fn, co, IF Names(o.ci) = <<>> THEN <<"lua">> ELSE Front(Names(o.ci)))
    <3> DEFINE l == IF Names(o.ci) = <<>> THEN <<"lua">> ELSE Front(Names(o.ci))
    <3>1. v = [x EXCEPT !.chain = Append(@, co), !.stack[co] = IF @ = <<>> THEN <<"lua">> ELSE Front(@)]
      BY <1>17, <2>4 DEF WResumption, S
    <3> HIDE DEF x
    <3>2. v = [x EXCEPT !.chain = Append(@, co), !.stack[co] = l]
      BY <2>3, <3>1
    <3> HIDE DEF l
    <3>3. v = WResumes(x, co, l)
      BY <3>2 DEF WResumes
    <3> QED
      BY <3>3 DEF x, WResume, l
  <2>5. CASE o.status = "OK" /\ o.ci = <<>> /\ o.body /\ o.errfunc = 0
    <3>1. ~NothingIn(s, co)
      BY <2>5 DEF NothingIn
    <3>2. r = q
      BY <1>8, <3>1
    <3>3. CASE r = F
      BY <1>12, <3>3
    <3>4. CASE r # F
      <4>1. r = ResumesNew(g, co)
        BY <1>7, <2>1, <2>5, <3>2, <3>4
      <4> DEFINE y == WResume(w, fn, co, <<"lua">>)
      <4>2. r.do = "run" /\ Inv(r, y)
        BY <1>2, <1>17, <2>1, <2>2, <2>5, <4>1, ResumeNewIs DEF g
      <4>3. v = y
        <5>1. Names(o.ci) = <<>>
          BY <2>5 DEF Names
        <5> QED
          BY <2>4, <4>2, <5>1
      <4> QED
        BY <4>2, <4>3
    <3> QED
      BY <3>3, <3>4
  <2>6. CASE Suspended(o)
    <3>1. o.status = "YIELD"
      BY <2>6 DEF Suspended
    <3>2. r = q
      BY <1>8, <3>1
    <3>3. CASE r = F
      BY <1>12, <3>3
    <3>4. CASE r # F
      <4>1. r = ResumesOn(g, co)
        BY <1>7, <2>1, <3>1, <3>2, <3>4
      <4> DEFINE y == WResume(w, fn, co, Front(Names(d.ci)))
      <4>2. Suspended(d) /\ CIsRight(d.ci)
        BY <2>1, <2>6 DEF TypesRight
      <4>3. r.do # "throw" /\ Names(d.ci) # <<>> /\ Inv(r, y)
        BY <1>2, <1>17, <2>1, <2>2, <4>1, <4>2, ResumeOnIs DEF g
      <4>4. v = y
        BY <2>1, <2>4, <4>3
      <4> QED
        BY <4>3, <4>4
    <3> QED
      BY <3>3, <3>4
  <2> QED
    BY <1>17, <2>5, <2>6
<1> QED
  BY <1>10, <1>14, <1>15, <1>16, <1>17

-----------------------------------------------------------------------------
(* The host *)

\* The C stack has room for the first call of a script.
LEMMA ExecuteNewRuns ==
  ASSUME NEW s \in Machine, NEW t \in Threads, NEW fn \in Fns
  PROVE  ExecuteNew(s, t, fn).do = "run"
<1> DEFINE p == PushCI(s, t, NewCI(fn))
           e == Enters(p, "execute", t)
           x == [CI(p, t) EXCEPT !.fresh = TRUE]
           q == SetCI(e, t, x)
<1>1. p \in Machine
  BY PushCIIs DEF CalledNew, OneThread
<1>2. "execute" \in FrameKinds
  BY DEF FrameKinds
<1>3. e \in Machine
  BY <1>1, <1>2, EntersIs
<1> HIDE DEF x
<1>4. DOMAIN q = DOMAIN e
  BY DEF SetCI
<1>5. "do" \in DOMAIN e
  BY <1>3 DEF Machine
<1> DEFINE r == ExecuteNew(s, t, fn)
<1>6. r = [q EXCEPT !.do = "run", !.status = "OK"]
  BY DEF ExecuteNew, Execute, x
<1> HIDE DEF q, r
<1>7. r.do = "run"
  BY <1>4, <1>5, <1>6
<1> QED
  BY <1>7 DEF r

LEMMA DCallRuns ==
  ASSUME NEW s \in Machine, NEW t \in Threads, NEW fn \in Fns, s.th[t].nCcalls = 0, LuaCallsAssumption
  PROVE  DCall(s, t, fn).do = "run"
<1> DEFINE u == SetCCalls(s, t, 1)
           e == Enters(u, "call", t)
<1>1. u \in Machine
  BY SetCCallsIs DEF OneThread
<1>2. "call" \in FrameKinds
  BY DEF FrameKinds
<1>3. e \in Machine
  BY <1>1, <1>2, EntersIs
<1>4. s.th[t].nCcalls + 1 = 1
  OBVIOUS
<1>5. 1 # MaxCCalls /\ ~(1 >= ErrCCalls)
  BY DEF LuaCallsAssumption
<1>6. DCall(s, t, fn) = ExecuteNew(e, t, fn)
  BY <1>4, <1>5 DEF DCall, SetCCalls
<1> HIDE DEF e
<1> QED
  BY <1>3, <1>6, ExecuteNewRuns

LEMMA DPCallRuns ==
  ASSUME NEW s \in Machine, NEW t \in Threads, s.th[t].nCcalls = 0, LuaCallsAssumption
  PROVE  DPCall(s, t, 0).do = "run"
<1> DEFINE o == s.th[t]
           d == Enter(s, "dpcall", t, Len(o.ci), o.nny, o.errfunc)
           z == SetErrFunc(d, t, 0)
           y == Enter(z, "try", t, z.th[t].nCcalls, z.th[t].errorJmp, 0)
           k == Len(z.c) + 1
           q == SetJmp(y, t, k)
           p == SetNny(q, t, q.th[t].nny + 1)
           e == Enters(p, "noyield", t)
<1>1. "dpcall" \in FrameKinds /\ "try" \in FrameKinds /\ "noyield" \in FrameKinds /\ 0 \in {0, 1}
      /\ 0 \in Nat /\ 0 \in Int
  BY DEF FrameKinds
<1>2. Len(o.ci) \in Int /\ o.nny \in Nat /\ o.errfunc \in {0, 1}
  BY MachineIs, ThreadIs
<1>3. d \in Machine /\ d.th = s.th
  BY <1>1, <1>2, EnterIs
<1> HIDE DEF d
<1>4. z \in Machine /\ z.th[t].nCcalls = 0
  BY <1>1, <1>3, SetErrFuncIs DEF OneThread
<1> HIDE DEF z
<1>5. z.th[t].errorJmp \in Nat /\ k \in Nat
  <2>1. Len(z.c) \in Nat
    BY <1>4, MachineIs
  <2> QED
    BY <1>4, <2>1, MachineIs, ThreadIs
<1>6. y \in Machine /\ y.th = z.th
  BY <1>1, <1>4, <1>5, EnterIs
<1>7. q = RawRun(z, t)
  BY DEF RawRun, SetJmp
<1> HIDE DEF y, k
<1>8. q \in Machine /\ q.th[t].nCcalls = 0
  <2>1. OneThread(y, q, t) /\ q.th[t].nCcalls = y.th[t].nCcalls
    BY <1>5, <1>6, SetJmpIs
  <2> HIDE DEF q
  <2> QED
    BY <1>4, <1>6, <2>1 DEF OneThread
<1> HIDE DEF q
<1>9. q.th[t].nny + 1 \in Nat
  BY <1>8, MachineIs, ThreadIs
<1>10. p \in Machine /\ p.th[t].nCcalls = 0
  BY <1>8, <1>9, SetNnyIs DEF OneThread
<1>11. p = [q EXCEPT !.th[t].nny = @ + 1]
  BY DEF SetNny
<1> HIDE DEF p
<1>12. e \in Machine /\ e.th = p.th
  <2>1. "noyield" \in FrameKinds /\ p \in Machine
    BY <1>1, <1>10
  <2>2. e \in Machine
    BY <2>1, EntersIs
  <2>3. e.th = p.th
    BY Zenon, <2>1, EntersIs
  <2> QED
    BY <2>2, <2>3
<1>13. DPCall(s, t, 0) = DCall(e, t, "lua")
  BY Zenon, <1>7, <1>11 DEF DPCall, DCallNoYield, d, z, SetErrFunc
<1>14. "lua" \in Fns
  BY DEF Fns
<1> HIDE DEF e
<1> QED
  BY <1>10, <1>12, <1>13, <1>14, DCallRuns

\* The stack of a script that is called.
LEMMA HostStack ==
  ASSUME NEW s \in Machine, NEW x \in Frame, s.c = <<x>>, x.f = "host", x.L = Main,
         s.th[Main].ci = <<>>, s.th[Main].status = "OK", ~s.th[Main].body, s.th[Main].nny = 1,
         s.th[Main].errorJmp = 0, s.th[Main].nCcalls = 0
  PROVE  /\ StackRight(s, <<Main>>, <<Bottom>>) /\ TopRight(s, <<Bottom>>)
         /\ TopF(s) = "host" /\ Last(s.c).L = Main /\ Cur(s) = s.th[Main]
<1> DEFINE ch == <<Main>>
           a == <<Bottom>>
<1>1. Main \in Threads
  BY DEF Threads
<1>2. /\ Bottom \in Mark /\ Bottom.ci = 0 /\ Bottom.nny = 1 /\ Bottom.depth = 0 /\ Bottom.jmp = 0
      /\ Bottom.pcall = 0 /\ Bottom.link = 1
  BY DEF Bottom, Mark
<1>3. /\ ch \in Seq(Threads) /\ Len(ch) = 1 /\ ch[1] = Main /\ ch # <<>>
  BY <1>1
<1> DEFINE B == Bottom
<1> HIDE DEF B
<1>4. /\ a \in Seq(Mark) /\ Len(a) = 1 /\ a[1] = B /\ Last(a) = B
  BY <1>2 DEF Last, B
<1>5. /\ Len(s.c) = 1 /\ s.c[1] = x /\ Last(s.c) = x /\ s.c # <<>>
  BY DEF Last
<1>6. Linked(ch)
  BY <1>3 DEF Linked
<1> HIDE DEF ch, a
<1>7. Ordered(a)
  <2>1. \A k, n \in 1..1 : k = 1 /\ n = 1
    OBVIOUS
  <2>2. B.link <= B.link /\ B.depth <= B.depth /\ B.ci <= B.ci
    BY <1>2 DEF B
  <2> QED
    BY <1>4, <2>1, <2>2 DEF Ordered
<1>8. s.th[Main].ci = <<>> /\ Len(s.th[Main].ci) = 0
  OBVIOUS
<1>9. FrameRight(s.c, a, ch, s.th[s.c[1].L].ci, 1)
  <2> DEFINE c == s.c
             ci == s.th[Main].ci
  <2>1. a[1].link \in 1..Len(ch) /\ c[1].L = ch[a[1].link] /\ a[1].ci <= Len(ci)
    BY <1>2, <1>3, <1>4, <1>5, <1>8 DEF B
  <2>2. Jumps(c, a, 1)
    <3>1. a[1].jmp = 0 /\ c[1].f = "host"
      BY <1>2, <1>4, <1>5 DEF B
    <3>2. \A n \in a[1].jmp + 1..1 : c[n].f # "try"
      BY <1>5, <3>1
    <3> QED
      BY <3>1, <3>2 DEF Jumps
  <2>3. a[1].depth = Cardinality({n \in 1..1 : c[n].f \in {"call", "resume"}})
    <3>1. {n \in 1..1 : c[n].f \in {"call", "resume"}} = {}
      BY <1>5
    <3> QED
      BY <1>2, <1>4, <3>1, FS_EmptySet DEF B
  <2>4. Saved(c, a, ci, 1)
    BY <1>5 DEF Saved, SavedOver
  <2>5. Below(c[1].f, a[1], ci)
    <3>1. a[1].nny = 1 /\ a[1].pcall = 0 /\ a[1].ci = 0
      BY <1>2, <1>4 DEF B
    <3>2. \A i \in 1..0 : FALSE
      OBVIOUS
    <3> QED
      BY <3>1, <3>2 DEF Below
  <2>6. c[1].f = "host" /\ a[1] = Bottom /\ c[1].L = Main
    BY <1>4, <1>5 DEF B
  <2> HIDE DEF c, ci
  <2>7. FrameRight(c, a, ch, ci, 1)
    BY <2>1, <2>2, <2>3, <2>4, <2>5, <2>6 DEF FrameRight
  <2> QED
    BY <2>6, <2>7 DEF c, ci
<1>10. StackRight(s, ch, a)
  <2>1. \A k \in 1..Len(a) : k = 1
    BY <1>4
  <2>2. \A k \in 1..Len(a) - 1 : FALSE
    BY <1>4
  <2>3. Last(a).link = Len(ch) /\ Len(a) = Len(s.c)
    BY <1>2, <1>3, <1>4, <1>5 DEF B
  <2> QED
    BY <1>4, <1>5, <1>6, <1>7, <1>9, <2>1, <2>2, <2>3 DEF StackRight
<1>11. TopF(s) = "host" /\ Last(s.c).L = Main /\ Cur(s) = s.th[Main]
  BY <1>5 DEF TopF, Cur
<1>12. TopRight(s, a)
  <2>1. Owns("host", B, s.th[Main].ci, Len(s.th[Main].ci))
    BY <1>2, <1>8 DEF Owns, B
  <2>2. Live(s.th[Main], B)
    BY <1>2 DEF Live, B
  <2> QED
    BY <1>4, <1>11, <2>1, <2>2 DEF TopRight
<1> QED
  BY <1>10, <1>11, <1>12 DEF ch, a

WHost(w) == [w EXCEPT !.chain = <<Main>>, !.stack[Main] = <<"lua">>, !.dead = @ \ {Main}]

LEMMA WHostIs ==
  ASSUME NEW w \in Wants
  PROVE  LET v == WHost(w) IN
         /\ v \in Wants /\ v.chain = <<Main>> /\ v.dead = w.dead \ {Main} /\ v.stack[Main] = <<"lua">>
         /\ \A u \in Threads \ {Main} : v.stack[u] = w.stack[u]
<1> DEFINE W == [w.stack EXCEPT ![Main] = <<"lua">>]
           ch == <<Main>>
           D == w.dead \ {Main}
           v == [stack |-> W, chain |-> ch, dead |-> D]
<1>1. w.stack \in [Threads -> Seq(Fns)] /\ w.dead \subseteq Threads /\ Main \in Threads
  BY DEF Wants, Threads
<1>2. <<"lua">> \in Seq(Fns)
  BY DEF Fns
<1>3. W \in [Threads -> Seq(Fns)] /\ W[Main] = <<"lua">> /\ \A u \in Threads \ {Main} : W[u] = w.stack[u]
  BY <1>1, <1>2
<1>4. ch \in Seq(Threads) /\ D \in SUBSET Threads
  BY <1>1
<1>5. WHost(w) = v
  <2>1. WHost(w) = [w EXCEPT !.chain = ch, !.stack = W, !.dead = D]
    BY <1>1 DEF Wants, WHost
  <2>2. DOMAIN w = {"stack", "chain", "dead"}
    BY DEF Wants
  <2> HIDE DEF W, ch, D
  <2> QED
    BY <2>1, <2>2 DEF Wants
<1> HIDE DEF W, ch, D
<1>6. v \in Wants /\ v.stack = W /\ v.chain = ch /\ v.dead = D
  BY <1>3, <1>4 DEF Wants
<1> QED
  BY <1>3, <1>5, <1>6 DEF ch, D

\* execute_script calls a script.
LEMMA HostIs ==
  ASSUME NEW s, NEW w, TypesRight(s, w), AtHost(s, w), s.do = "idle", LuaCallsAssumption,
         NEW r, r = DPCall(Enters(s, "host", Main), Main, 0),
         NEW v, v = [w EXCEPT !.chain = <<Main>>, !.stack[Main] = <<"lua">>, !.dead = @ \ {Main}]
  PROVE  Inv(r, v)
<1> DEFINE x == [f |-> "host", L |-> Main, n |-> 0, p |-> 0, e |-> 0]
           z == Enters(s, "host", Main)
           ch == <<Main>>
           o == s.th[Main]
<1>1. /\ s \in Machine /\ w \in Wants /\ \A u \in Threads : CIsRight(s.th[u].ci)
      /\ Main \in Threads /\ "host" \in FrameKinds
  BY DEF TypesRight, Threads, FrameKinds
<1>2. /\ s.c = <<>> /\ w.chain = <<>> /\ Others(s, w, <<>>) /\ AgreeBut(s, w, {})
  BY DEF AtHost
<1>3. z \in Machine /\ z.th = s.th /\ z.c = <<x>> /\ x \in Frame /\ x.f = "host" /\ x.L = Main
  <2>1. z \in Machine /\ z.th = s.th
    BY <1>1, EntersIs
  <2>2. z.c = Append(s.c, x) /\ x \in Frame
    BY <1>1, EntersIs
  <2>3. z.c = <<x>>
    <3> HIDE DEF x, z
    <3> QED
      BY <1>2, <2>2
  <2> QED
    BY <2>1, <2>2, <2>3
<1> HIDE DEF x
<1>4. \A u \in Threads : Resting(s.th[u], u, w.dead)
  <2>1. ToSet(<<>>) = {}
    BY DEF ToSet
  <2> QED
    BY <1>2, <2>1 DEF Others
<1>5. /\ o.ci = <<>> /\ o.status = "OK" /\ ~o.body /\ o.nny = 1 /\ o.errorJmp = 0 /\ o.nCcalls = 0
      /\ o.errfunc = 0
  BY <1>1, <1>4 DEF Resting
<1> HIDE DEF z
<1>6. /\ StackRight(z, ch, <<Bottom>>) /\ TopRight(z, <<Bottom>>)
      /\ TopF(z) = "host" /\ Last(z.c).L = Main /\ Cur(z) = o
  BY <1>3, <1>5, HostStack
<1>7. Last(<<Bottom>>) = Bottom /\ Bottom.nny = 1 /\ Bottom.link = 1
  BY DEF Last, Bottom
<1>8. CanPCall(z, ch, <<Bottom>>, 0)
  <2>1. Len(o.ci) = 0 /\ ~HandledBy(o.ci, Len(o.ci) - 1) /\ CIsRight(o.ci)
    BY <1>1, <1>5, HandledNone
  <2>2. (o.errfunc = 1) = HandledBy(o.ci, Len(o.ci) - 1)
    <3>1. HandledBy(o.ci, Len(o.ci) - 1) \in BOOLEAN
      BY DEF HandledBy
    <3> QED
      BY <1>5, <2>1, <3>1
  <2> QED
    BY <1>3, <1>6, <1>7, <2>1, <2>2 DEF CanPCall
<1>9. r = DPCall(z, Last(z.c).L, 0)
  BY <1>6 DEF z
<1>10. Called(z, r, ch, Names(Cur(z).ci), "lua") /\ Cur(r).errfunc = 0
  BY <1>8, <1>9, DPCallIs
<1>11. r.do = "run"
  BY <1>1, <1>3, <1>5, <1>6, <1>9, DPCallRuns
<1>12. Same(z, r) /\ Ready(r, ch) /\ TopF(r) = "execute" /\ Names(Cur(r).ci) = Append(Names(o.ci), "lua")
  BY <1>6, <1>10, <1>11 DEF Called
<1>13. r \in Machine /\ Last(r.c).L = Main /\ \A u \in Threads \ {Main} : r.th[u] = s.th[u]
  BY <1>3, <1>6, <1>12 DEF Same
<1>14. Cur(r).ci \in Seq(CIs)
  BY <1>1, <1>13, MachineIs, ThreadIs DEF Cur
<1>15. Names(o.ci) = <<>> /\ Names(Cur(r).ci) = <<"lua">>
  <2>1. Names(<<>>) = <<>>
    BY DEF Names
  <2> QED
    BY <1>5, <1>12, <2>1
<1>16. AtWork(r)
  <2>1. "lua" \in Fns /\ ~Protects("lua") /\ o.ci \in Seq(CIs)
    BY <1>1, MachineIs, ThreadIs DEF Fns, Protects
  <2>2. HandledBy(Cur(r).ci, Len(Cur(r).ci)) = HandledBy(o.ci, Len(o.ci))
    BY <1>12, <1>14, <2>1, HandledPush
  <2>3. ~HandledBy(o.ci, Len(o.ci))
    <3>1. Len(o.ci) = 0
      BY <1>5
    <3> QED
      BY <3>1, HandledNone
  <2>4. HandledBy(o.ci, Len(o.ci)) \in BOOLEAN
    BY DEF HandledBy
  <2>5. ErrFuncRight(Cur(r))
    BY <1>10, <2>2, <2>3, <2>4 DEF ErrFuncRight
  <2> QED
    BY <1>11, <1>12, <2>5 DEF AtWork
<1>17. /\ v \in Wants /\ v.chain = ch /\ v.dead = w.dead \ {Main} /\ v.stack[Main] = <<"lua">>
       /\ \A u \in Threads \ {Main} : v.stack[u] = w.stack[u]
  BY <1>1, WHostIs DEF WHost
<1>18. AgreeBut(s, v, {Main})
  BY <1>2, <1>17 DEF AgreeBut
<1>19. Others(s, v, ch)
  <2>1. Main \in ToSet(ch)
    <3>1. 1 \in DOMAIN ch /\ ch[1] = Main
      OBVIOUS
    <3> QED
      BY <3>1 DEF ToSet
  <2>2. \A u \in Threads \ ToSet(ch) : Resting(s.th[u], u, v.dead)
    BY <1>4, <1>17, <2>1 DEF Resting
  <2>3. \A i \in 1..Len(ch) : ch[i] = Main
    OBVIOUS
  <2> QED
    BY <1>17, <2>2, <2>3 DEF Others
<1> HIDE DEF ch
<1> QED
  BY ZenonT(30), <1>1, <1>12, <1>13, <1>15, <1>16, <1>17, <1>18, <1>19, IsActive

-----------------------------------------------------------------------------
(* Each action keeps the invariant *)

LEMMA RefusedTop ==
  ASSUME NEW s, NEW r \in Machine, Refused(s, r)
  PROVE  s.do \in {"throw", "return"} /\ TopF(s) \in {"try", "resume"}
<1> DEFINE x == [f |-> "resume", L |-> Last(s.c).L, n |-> r.th[Last(s.c).L].nny, p |-> 0, e |-> 0]
           y == [f |-> "try", L |-> Last(s.c).L, n |-> r.th[Last(s.c).L].nCcalls + 1,
                 p |-> r.th[Last(s.c).L].errorJmp, e |-> 0]
<1>1. s.do \in {"throw", "return"} /\ (s.c = Append(Append(r.c, x), y) \/ s.c = Append(r.c, x))
  BY Zenon DEF Refused
<1>2. x.f = "resume" /\ y.f = "try"
  OBVIOUS
<1> HIDE DEF x, y
<1>3. r.c \in Seq(Frame)
  BY MachineIs
<1>4. Last(Append(r.c, x)) = x
  BY <1>3, AppendLast
<1>5. Last(Append(Append(r.c, x), y)) = y
  BY <1>3, AppendLast
<1> QED
  BY Zenon, <1>1, <1>2, <1>4, <1>5 DEF TopF

\* What goes on, by what the machine does next.
Cases(s, w) ==
  \/ AtHost(s, w) /\ (s.do = "idle" \/ (s.do = "return" /\ TopF(s) = "host"))
  \/ s.do \in {"run", "raise", "throw", "return"} /\ \E a : Active(s, w, a)
  \/ /\ s.do = "throw" \/ (s.do = "return" /\ TopF(s) \in {"try", "resume"})
     /\ \E a : Yielding(s, w, a)
  \/ /\ s.do = "return" /\ TopF(s) \in {"try", "dpcall", "resume"}
     /\ \E a : \E back \in Nat : Unwinding(s, w, a, back)
  \/ /\ s.do \in {"throw", "return"} /\ TopF(s) \in {"try", "resume"}
     /\ \E r, a : r \in Machine /\ Active(r, w, a) /\ Refused(s, r)

LEMMA InvCases ==
  ASSUME NEW s, NEW w, Inv(s, w)
  PROVE  TypesRight(s, w) /\ Cases(s, w)
<1>1. TypesRight(s, w)
  BY DEF Inv
<1>2. ASSUME AtHost(s, w) PROVE Cases(s, w)
  <2>1. ASSUME s.do = "return", Len(s.c) = 1, s.c[1].f = "host" PROVE TopF(s) = "host"
    BY <2>1 DEF TopF, Last
  <2> QED
    BY <1>2, <2>1 DEF AtHost, Cases
<1>3. ASSUME NEW a, Active(s, w, a) PROVE Cases(s, w)
  <2>1. AtWork(s)
    BY <1>3 DEF Active
  <2>2. s.do \in {"run", "raise", "throw", "return"}
    BY <2>1 DEF AtWork
  <2> QED
    BY <1>3, <2>2 DEF Cases
<1>4. ASSUME NEW a, Yielding(s, w, a) PROVE Cases(s, w)
  <2>1. s.do = "throw" \/ (s.do = "return" /\ TopF(s) \in {"try", "resume"})
    BY <1>4 DEF Yielding
  <2> QED
    BY <1>4, <2>1 DEF Cases
<1>5. ASSUME NEW a, NEW back \in Nat, Unwinding(s, w, a, back) PROVE Cases(s, w)
  <2>1. s.do = "return" /\ TopF(s) \in {"try", "dpcall", "resume"}
    BY Zenon, <1>5 DEF Unwinding
  <2> QED
    BY <1>5, <2>1 DEF Cases
<1>6. ASSUME NEW r \in Machine, NEW a, Active(r, w, a), Refused(s, r) PROVE Cases(s, w)
  <2>1. s.do \in {"throw", "return"} /\ TopF(s) \in {"try", "resume"}
    BY <1>6, RefusedTop
  <2> QED
    BY <1>6, <2>1 DEF Cases
<1> QED
  BY <1>1, <1>2, <1>3, <1>4, <1>5, <1>6 DEF Inv

\* Lua code runs.
LEMMA RunIs ==
  ASSUME NEW s, NEW w, Inv(s, w), s.do = "run"
  PROVE  TypesRight(s, w) /\ TopF(s) = "execute" /\ \E a : Active(s, w, a)
<1>1. TypesRight(s, w) /\ Cases(s, w)
  BY InvCases
<1>2. PICK a : Active(s, w, a)
  BY <1>1 DEF Cases
<1>3. AtWork(s)
  BY <1>2 DEF Active
<1> QED
  BY <1>1, <1>2, <1>3 DEF AtWork

CallsInv == Inv(m, want)

LEMMA StepCallLua ==
  ASSUME CallsInv, CallLua
  PROVE  CallsInv'
<1>1. m.do = "run" /\ m' = PushCI(m, L, NewCI("lua")) /\ want' = WPush(want, "lua")
  BY DEF CallLua, Running
<1>2. PICK a : TypesRight(m, want) /\ TopF(m) = "execute" /\ Active(m, want, a)
  BY <1>1, RunIs DEF CallsInv
<1>3. Inv(PushCI(m, L, NewCI("lua")), WPush(want, "lua"))
  BY <1>1, <1>2, CallLuaIs DEF L
<1>4. Inv(m', want')
  BY <1>1, <1>3
<1> QED
  BY <1>4 DEF CallsInv

LEMMA StepCallMeta ==
  ASSUME CallsInv, CallMeta
  PROVE  CallsInv'
<1>1. m.do = "run" /\ m' = DCall(m, L, "meta") /\ want' = IF m'.do = "run" THEN WPush(want, "meta") ELSE want
  BY DEF CallMeta, Running
<1>2. PICK a : TypesRight(m, want) /\ TopF(m) = "execute" /\ Active(m, want, a)
  BY <1>1, RunIs DEF CallsInv
<1>3. Inv(m', IF m'.do = "run" THEN WPush(want, "meta") ELSE want)
  BY <1>1, <1>2, CallMetaIs DEF L
<1>4. Inv(m', want')
  BY <1>1, <1>3
<1> QED
  BY <1>4 DEF CallsInv

LEMMA StepCallC ==
  ASSUME CallsInv, NEW fn \in {"pcall", "xpcall", "dofile", "sort"}, CallC(fn)
  PROVE  CallsInv'
<1>1. /\ m.do = "run" /\ m' = CalledBack(EnterC(m, L, fn), L, fn)
      /\ want' = IF m'.do = "run" THEN WPush(WPush(want, fn), "lua") ELSE WPush(want, fn)
  BY DEF CallC, Running, CalledBack
<1>2. PICK a : TypesRight(m, want) /\ TopF(m) = "execute" /\ Active(m, want, a)
  BY <1>1, RunIs DEF CallsInv
<1>3. Inv(m', IF m'.do = "run" THEN WPush(WPush(want, fn), "lua") ELSE WPush(want, fn))
  BY <1>1, <1>2, CallCIs DEF L
<1>4. Inv(m', want')
  BY <1>1, <1>3
<1> QED
  BY <1>4 DEF CallsInv

LEMMA StepRuntimeError ==
  ASSUME CallsInv, RuntimeError
  PROVE  CallsInv'
<1>1. m.do = "run" /\ m' = Raise(m) /\ want' = want
  BY DEF RuntimeError
<1>2. PICK a : TypesRight(m, want) /\ TopF(m) = "execute" /\ Active(m, want, a)
  BY <1>1, RunIs DEF CallsInv
<1>3. Inv(m', want')
  BY <1>1, <1>2, RuntimeErrorIs
<1> QED
  BY <1>3 DEF CallsInv

LEMMA StepReturnLua ==
  ASSUME CallsInv, ReturnLua
  PROVE  CallsInv'
<1> DEFINE q == PopCI(m, L)
<1>1. m.do = "run" /\ m' = (IF CI(m, L).fresh THEN Leave(q, "OK") ELSE q) /\ want' = WPop(want)
  BY DEF ReturnLua
<1>2. PICK a : TypesRight(m, want) /\ TopF(m) = "execute" /\ Active(m, want, a)
  BY <1>1, RunIs DEF CallsInv
<1>3. Inv(IF CI(m, L).fresh THEN Leave(q, "OK") ELSE q, WPop(want))
  BY <1>1, <1>2, ReturnLuaIs DEF L
<1>4. Inv(m', want')
  BY <1>1, <1>3
<1> QED
  BY <1>4 DEF CallsInv

LEMMA StepYield ==
  ASSUME CallsInv, Yield
  PROVE  CallsInv'
<1> DEFINE t == Last(m.c).L
           z == EnterC(m, t, "yield")
           r == IF Cur(m).nny > 0 THEN Raise(z) ELSE Throw(SetStatus(z, t, "YIELD"), "YIELD")
           v == IF CanYieldAt(want, t) THEN [WPush(want, "yield") EXCEPT !.chain = Front(@)]
                ELSE WPush(want, "yield")
<1>1. m.do = "run"
  BY DEF Yield, Running
<1>2. PICK a : TypesRight(m, want) /\ TopF(m) = "execute" /\ Active(m, want, a)
  BY <1>1, RunIs DEF CallsInv
<1>3. Runner = t
  BY <1>2, ActiveIs DEF Runner
<1>4. CanYield(want) = CanYieldAt(want, t)
  BY <1>3 DEF CanYield, CanYieldAt
<1>5. m' = r
  BY DEF Yield, L, Cur, SetStatus
<1>6. want' = v
  BY <1>4 DEF Yield
<1> HIDE DEF z
<1>7. Inv(r, v)
  BY <1>2, YieldIs DEF z
<1> HIDE DEF r, v
<1>8. Inv(m', want')
  BY <1>5, <1>6, <1>7
<1> QED
  BY <1>8 DEF CallsInv

LEMMA StepResume ==
  ASSUME CallsInv, NEW fn \in {"resume", "wrap"}, NEW co \in Threads, Resume(fn, co)
  PROVE  CallsInv'
<1> DEFINE t == Last(m.c).L
           z == EnterC(m, t, fn)
           r == IF m.th[co].status = "OK" /\ co # t /\ NothingIn(m, co)
                THEN SetDo(z, "return", "ERRRUN")
                ELSE Resumed(StartsResume(z, t, co), co)
<1>1. m.do = "run"
  BY DEF Resume, Running
<1>2. PICK a : TypesRight(m, want) /\ TopF(m) = "execute" /\ Active(m, want, a)
  BY <1>1, RunIs DEF CallsInv
<1>3. Runner = t
  BY <1>2, ActiveIs DEF Runner
<1>4. WStatus(co) = WStatusOf(want, co)
  BY <1>3 DEF WStatus, WStatusOf, Runner
<1>5. m' = r
  BY Zenon DEF Resume, L, NothingThere, NothingIn, SetDo, StartResume, StartsResume
<1>6. want' = WResumption(want, fn, co, m'.do = "throw")
  BY <1>4 DEF Resume, WResumption
<1> HIDE DEF z
<1>7. Inv(r, WResumption(want, fn, co, r.do = "throw"))
  BY <1>1, <1>2, ResumeIs DEF z
<1> HIDE DEF r
<1>8. Inv(m', want')
  BY <1>5, <1>6, <1>7
<1> QED
  BY <1>8 DEF CallsInv

\* A function returns to a frame that neither errors nor yields come back to.
LEMMA ReturnIs ==
  ASSUME NEW s, NEW w, Inv(s, w), s.do = "return", TopF(s) \notin {"try", "dpcall", "resume", "host"}
  PROVE  TypesRight(s, w) /\ \E a : Active(s, w, a)
BY InvActive

LEMMA StepReturnToLua ==
  ASSUME CallsInv, ReturnToLua
  PROVE  CallsInv'
<1>1. /\ m.do = "return" /\ TopF(m) = "execute"
      /\ m' = [m EXCEPT !.do = "run", !.status = "OK"] /\ want' = want
  BY DEF ReturnToLua, Returns, TopF
<1>2. PICK a : TypesRight(m, want) /\ Active(m, want, a)
  BY <1>1, ReturnIs DEF CallsInv
<1>3. Inv([m EXCEPT !.do = "run", !.status = "OK"], want)
  BY <1>1, <1>2, ReturnToLuaIs
<1>4. Inv(m', want')
  BY <1>1, <1>3
<1> QED
  BY <1>4 DEF CallsInv

LEMMA StepReturnToCall ==
  ASSUME CallsInv, ReturnToCall
  PROVE  CallsInv'
<1>1. /\ m.do = "return" /\ TopF(m) = "call" /\ want' = want
      /\ m' = Leave([m EXCEPT !.th[L].nCcalls = @ - 1], m.status)
  BY DEF ReturnToCall, Returns, TopF
<1>2. PICK a : TypesRight(m, want) /\ Active(m, want, a)
  BY <1>1, ReturnIs DEF CallsInv
<1>3. m' = Leave(SetCCalls(m, Last(m.c).L, Cur(m).nCcalls - 1), m.status)
  <2>1. [m EXCEPT !.th[L].nCcalls = @ - 1] = SetCCalls(m, L, m.th[L].nCcalls - 1)
    BY DEF SetCCalls
  <2> QED
    BY <1>1, <2>1 DEF L, Cur
<1>4. Inv(m', want)
  BY <1>1, <1>2, <1>3, ReturnToCallIs
<1>5. Inv(m', want')
  BY <1>1, <1>4
<1> QED
  BY <1>5 DEF CallsInv

LEMMA StepReturnToNoYield ==
  ASSUME CallsInv, ReturnToNoYield
  PROVE  CallsInv'
<1>1. /\ m.do = "return" /\ TopF(m) = "noyield" /\ want' = want
      /\ m' = Leave([m EXCEPT !.th[L].nny = @ - 1], m.status)
  BY DEF ReturnToNoYield, Returns, TopF
<1>2. PICK a : TypesRight(m, want) /\ Active(m, want, a)
  BY <1>1, ReturnIs DEF CallsInv
<1>3. m' = Leave(SetNny(m, Last(m.c).L, Cur(m).nny - 1), m.status)
  <2>1. [m EXCEPT !.th[L].nny = @ - 1] = SetNny(m, L, m.th[L].nny - 1)
    BY DEF SetNny
  <2> QED
    BY <1>1, <2>1 DEF L, Cur
<1>4. Inv(m', want)
  BY <1>1, <1>2, <1>3, ReturnToNoYieldIs
<1>5. Inv(m', want')
  BY <1>1, <1>4
<1> QED
  BY <1>5 DEF CallsInv

LEMMA StepReturnToC ==
  ASSUME CallsInv, ReturnToC
  PROVE  CallsInv'
<1> DEFINE o == IF TopCI(m).ypcall THEN SetErrFunc(m, L, TopCI(m).old_errfunc) ELSE m
           fails == TopCI(m).fn = "wrap" /\ m.status \in Errors
<1>1. m.do = "return" /\ TopF(m) = "cfunc"
  BY DEF ReturnToC, Returns, TopF
<1>2. CI(m, L) = TopCI(m)
  BY DEF CI, L, TopCI, Cur
<1>3. /\ m' = (IF fails THEN Raise(m) ELSE Leave(PopCI(o, L), "OK"))
      /\ want' = IF fails THEN want ELSE WPop(want)
  BY <1>2 DEF ReturnToC, SetErrFunc
<1>4. PICK a : TypesRight(m, want) /\ Active(m, want, a)
  BY <1>1, ReturnIs DEF CallsInv
<1>5. CASE fails
  <2>1. Inv(Raise(m), want)
    BY <1>1, <1>4, <1>5, ErrorHandedOnIs
  <2>2. Inv(m', want')
    BY <1>3, <1>5, <2>1
  <2> QED
    BY <2>2 DEF CallsInv
<1>6. CASE ~fails
  <2> HIDE DEF fails
  <2>1. m' = Leave(PopCI(o, L), "OK") /\ want' = WPop(want)
    BY <1>3, <1>6
  <2>2. Inv(m', WPop(want))
    BY <1>1, <1>4, <2>1, ReturnToCIs DEF L
  <2>3. Inv(m', want')
    BY <2>1, <2>2
  <2> QED
    BY <2>3 DEF CallsInv
<1> QED
  BY <1>5, <1>6

LEMMA StepReturnToResuming ==
  ASSUME CallsInv, ReturnToResuming
  PROVE  CallsInv'
<1>1. /\ m.do = "return" /\ TopF(m) = "resuming" /\ want' = want
      /\ m' = Rolls(m, Last(m.c).L)
  BY DEF ReturnToResuming, Returns, TopF, Rolls, L
<1>2. PICK a : TypesRight(m, want) /\ Active(m, want, a)
  BY <1>1, ReturnIs DEF CallsInv
<1>3. Inv(m', want)
  BY <1>1, <1>2, ReturnToResumingIs
<1>4. Inv(m', want')
  BY <1>1, <1>3
<1> QED
  BY <1>4 DEF CallsInv

LEMMA StepUnroll ==
  ASSUME CallsInv, Unroll
  PROVE  CallsInv'
<1>1. m.do = "return" /\ TopF(m) = "unroll"
  BY DEF Unroll, Returns, TopF
<1>2. PICK a : TypesRight(m, want) /\ Active(m, want, a)
  BY <1>1, ReturnIs DEF CallsInv
<1>3. m.th[L].ci = Cur(m).ci /\ CI(m, L) = TopCI(m)
  BY DEF Cur, L, CI, TopCI
<1>4. CASE Cur(m).ci = <<>>
  <2>1. m' = Leave(m, "OK") /\ want' = want
    BY <1>3, <1>4 DEF Unroll
  <2>2. Inv(m', want)
    BY <1>1, <1>2, <1>4, <2>1, UnrollEndsIs
  <2>3. Inv(m', want')
    BY <2>1, <2>2
  <2> QED
    BY <2>3 DEF CallsInv
<1>5. CASE Cur(m).ci # <<>> /\ IsLua(TopCI(m).fn)
  <2>1. m' = Execute(m, Last(m.c).L) /\ want' = want
    BY <1>3, <1>5 DEF Unroll, L
  <2>2. Inv(m', want)
    BY <1>1, <1>2, <1>5, <2>1, UnrollLuaIs
  <2>3. Inv(m', want')
    BY <2>1, <2>2
  <2> QED
    BY <2>3 DEF CallsInv
<1>6. CASE Cur(m).ci # <<>> /\ ~IsLua(TopCI(m).fn)
  <2>1. m' = Finished(m, Last(m.c).L) /\ want' = WPop(want)
    BY <1>3, <1>6 DEF Unroll, L, Finished
  <2>2. Inv(m', WPop(want))
    BY <1>1, <1>2, <1>6, <2>1, UnrollCIs
  <2>3. Inv(m', want')
    BY <2>1, <2>2
  <2> QED
    BY <2>3 DEF CallsInv
<1> QED
  BY <1>4, <1>5, <1>6

LEMMA StepErrorMsg ==
  ASSUME CallsInv, ErrorMsg
  PROVE  CallsInv'
<1> DEFINE t == Last(m.c).L
           r == IF Cur(m).errfunc # 0 THEN DCallNoYield(Enters(m, "errormsg", t), t, "handler")
                ELSE Throw(m, "ERRRUN")
           v(q) == IF Handled(want.stack[t]) /\ q.do = "run" THEN WPush(want, "handler") ELSE want
<1>1. m.do = "raise" /\ m' = r
  BY DEF ErrorMsg, L, Cur
<1>2. PICK a : TypesRight(m, want) /\ Active(m, want, a)
  BY <1>1, InvActive DEF CallsInv
<1>3. Runner = t
  BY <1>2, ActiveIs DEF Runner
<1>4. want' = v(m')
  BY <1>3 DEF ErrorMsg
<1>5. Inv(m', v(m'))
  BY <1>1, <1>2, ErrorMsgIs
<1>6. Inv(m', want')
  BY <1>4, <1>5
<1> QED
  BY <1>6 DEF CallsInv

LEMMA StepReturnToErrorMsg ==
  ASSUME CallsInv, ReturnToErrorMsg
  PROVE  CallsInv'
<1>1. m.do = "return" /\ TopF(m) = "errormsg" /\ m' = Throw(m, "ERRRUN") /\ want' = want
  BY DEF ReturnToErrorMsg, Returns, TopF
<1>2. PICK a : TypesRight(m, want) /\ Active(m, want, a)
  BY <1>1, ReturnIs DEF CallsInv
<1>3. Inv(m', want)
  BY <1>1, <1>2, ReturnToErrorMsgIs
<1>4. Inv(m', want')
  BY <1>1, <1>3
<1> QED
  BY <1>4 DEF CallsInv

LEMMA StepHost ==
  ASSUME CallsInv, Host, LuaCallsAssumption
  PROVE  CallsInv'
<1>1. m.do = "idle" /\ m' = DPCall(Enters(m, "host", Main), Main, 0)
  BY DEF Host
<1>2. want' = [want EXCEPT !.chain = <<Main>>, !.stack[Main] = <<"lua">>, !.dead = @ \ {Main}]
  BY DEF Host
<1>3. TypesRight(m, want) /\ Cases(m, want)
  BY InvCases DEF CallsInv
<1>4. AtHost(m, want)
  BY <1>1, <1>3 DEF Cases
<1>5. Inv(m', want')
  BY <1>1, <1>2, <1>3, <1>4, HostIs
<1> QED
  BY <1>5 DEF CallsInv

LEMMA StepReturnToHost ==
  ASSUME CallsInv, ReturnToHost
  PROVE  CallsInv'
<1>1. m.do = "return" /\ TopF(m) = "host" /\ m' = Idle(m) /\ want' = Unchained(want)
  BY DEF ReturnToHost, Returns, TopF, Idle, Unchained
<1>2. TypesRight(m, want) /\ Cases(m, want)
  BY InvCases DEF CallsInv
<1>3. AtHost(m, want) \/ \E a : Active(m, want, a)
  BY <1>1, <1>2 DEF Cases
<1>4. CASE AtHost(m, want)
  <2>1. Inv(m', want')
    BY <1>1, <1>2, <1>4, HostEndsIs
  <2> QED
    BY <2>1 DEF CallsInv
<1>5. ASSUME NEW a, Active(m, want, a) PROVE CallsInv'
  <2>1. Inv(m', want')
    BY <1>1, <1>2, <1>5, ReturnToHostIs
  <2> QED
    BY <2>1 DEF CallsInv
<1> QED
  BY <1>3, <1>4, <1>5

LEMMA StepLongJump ==
  ASSUME CallsInv, LongJump
  PROVE  CallsInv'
<1>1. m.do = "throw" /\ m' = LongJumps(m)
  BY DEF LongJump, LongJumps, L, Cur
<1>2. want' = IF m.status \in Errors THEN WUnwind(want) ELSE want
  BY DEF LongJump
<1>3. TypesRight(m, want) /\ Cases(m, want)
  BY InvCases DEF CallsInv
<1>4. ASSUME NEW a, Active(m, want, a) PROVE CallsInv'
  <2>1. m.status \in Errors /\ Inv(m', WUnwind(want))
    BY <1>1, <1>3, <1>4, LongJumpErrorIs
  <2>2. Inv(m', want')
    BY <1>2, <2>1
  <2> QED
    BY <2>2 DEF CallsInv
<1>5. ASSUME NEW a, Yielding(m, want, a) PROVE CallsInv'
  <2>1. m.status \notin Errors /\ Inv(m', want)
    BY <1>1, <1>3, <1>5, LongJumpYieldIs
  <2>2. Inv(m', want')
    BY <1>2, <2>1
  <2> QED
    BY <2>2 DEF CallsInv
<1>6. ASSUME NEW r \in Machine, NEW a, Active(r, want, a), Refused(m, r) PROVE CallsInv'
  <2>1. m.status \notin Errors /\ Inv(m', want)
    BY <1>1, <1>3, <1>6, LongJumpRefusedIs
  <2>2. Inv(m', want')
    BY <1>2, <2>1
  <2> QED
    BY <2>2 DEF CallsInv
<1> QED
  BY <1>1, <1>3, <1>4, <1>5, <1>6 DEF Cases

LEMMA StepReturnToTry ==
  ASSUME CallsInv, ReturnToTry
  PROVE  CallsInv'
<1>1. m.do = "return" /\ TopF(m) = "try" /\ want' = want
  BY DEF ReturnToTry, Returns, TopF
<1>2. m' = Leave(Untried(m, Last(m.c).L), m.status)
  BY DEF ReturnToTry, Untried, SetCCalls, SetJmp, L, Top
<1>3. TypesRight(m, want) /\ Cases(m, want)
  BY InvCases DEF CallsInv
<1>4. ASSUME NEW a, Active(m, want, a) PROVE CallsInv'
  <2>1. Inv(m', want)
    BY <1>1, <1>2, <1>3, <1>4, ReturnToTryIs DEF Untried
  <2>2. Inv(m', want')
    BY <1>1, <2>1
  <2> QED
    BY <2>2 DEF CallsInv
<1>5. ASSUME NEW a, Yielding(m, want, a) PROVE CallsInv'
  <2>1. Inv(m', want)
    BY <1>1, <1>2, <1>3, <1>5, ReturnToTryYieldIs
  <2>2. Inv(m', want')
    BY <1>1, <2>1
  <2> QED
    BY <2>2 DEF CallsInv
<1>6. ASSUME NEW a, NEW back \in Nat, Unwinding(m, want, a, back) PROVE CallsInv'
  <2>1. Inv(m', want)
    BY <1>1, <1>2, <1>3, <1>6, ReturnToTryErrorIs
  <2>2. Inv(m', want')
    BY <1>1, <2>1
  <2> QED
    BY <2>2 DEF CallsInv
<1>7. ASSUME NEW r \in Machine, NEW a, Active(r, want, a), Refused(m, r) PROVE CallsInv'
  <2>1. Inv(m', want)
    BY <1>1, <1>2, <1>3, <1>7, ReturnToTryRefusedIs DEF Untried
  <2>2. Inv(m', want')
    BY <1>1, <2>1
  <2> QED
    BY <2>2 DEF CallsInv
<1> QED
  BY <1>1, <1>3, <1>4, <1>5, <1>6, <1>7 DEF Cases

LEMMA StepReturnToDPCall ==
  ASSUME CallsInv, ReturnToDPCall
  PROVE  CallsInv'
<1> DEFINE x == Last(m.c)
           s == IF m.status = "OK" THEN m
                ELSE [m EXCEPT !.th[x.L].ci = SubSeq(@, 1, x.n), !.th[x.L].nny = x.p]
<1>1. m.do = "return" /\ TopF(m) = "dpcall" /\ want' = want
  BY DEF ReturnToDPCall, Returns, TopF
<1>2. m' = Leave(SetErrFunc(s, x.L, x.e), m.status)
  BY Zenon DEF ReturnToDPCall, SetErrFunc, L, Top
<1>3. TypesRight(m, want) /\ Cases(m, want)
  BY InvCases DEF CallsInv
<1>4. ASSUME NEW a, Active(m, want, a) PROVE CallsInv'
  <2>1. m.status = "OK"
    <3>1. AtWork(m)
      BY <1>4 DEF Active
    <3> QED
      BY <1>1, <3>1 DEF AtWork
  <2>2. m' = Leave(SetErrFunc(m, x.L, x.e), m.status)
    BY <1>2, <2>1
  <2>3. Inv(m', want)
    BY <1>1, <1>3, <1>4, <2>2, ReturnToDPCallIs
  <2>4. Inv(m', want')
    BY <1>1, <2>3
  <2> QED
    BY <2>4 DEF CallsInv
<1>5. ASSUME NEW a, NEW back \in Nat, Unwinding(m, want, a, back) PROVE CallsInv'
  <2>1. m.status # "OK"
    BY Zenon, <1>5 DEF Unwinding, Errors
  <2>2. m' = Leave(CutBack(m, x.L, x.n, x.p, x.e), m.status)
    BY <1>2, <2>1 DEF CutBack
  <2>3. Inv(m', want)
    BY <1>1, <1>3, <1>5, <2>2, ReturnToDPCallErrorIs
  <2>4. Inv(m', want')
    BY <1>1, <2>3
  <2> QED
    BY <2>4 DEF CallsInv
<1> QED
  BY <1>1, <1>3, <1>4, <1>5 DEF Cases

\* The frame of lua_resume: how the thread has ended, or what it does.
LEMMA ResumeEnds ==
  ASSUME NEW s, NEW w, Cases(s, w), s.do = "return", TopF(s) = "resume"
  PROVE  \/ \E a : Active(s, w, a) /\ s.status = "OK"
         \/ \E a : Yielding(s, w, a) /\ s.status = "YIELD"
         \/ \E a : \E back \in Nat : /\ Unwinding(s, w, a, back) /\ s.status \in Errors
                                     /\ back = LastYPCall(Cur(s).ci)
         \/ \E r, a : r \in Machine /\ Active(r, w, a) /\ Refused(s, r) /\ s.status = "REFUSED"
<1>1. ASSUME NEW a, Active(s, w, a) PROVE s.status = "OK"
  <2>1. AtWork(s)
    BY <1>1 DEF Active
  <2> QED
    BY <2>1 DEF AtWork
<1>2. ASSUME NEW a, Yielding(s, w, a) PROVE s.status = "YIELD"
  BY <1>2 DEF Yielding
<1>3. ASSUME NEW a, NEW back \in Nat, Unwinding(s, w, a, back)
      PROVE  s.status \in Errors /\ back = LastYPCall(Cur(s).ci)
  BY Zenon, <1>3 DEF Unwinding, Cur, TopF
<1>4. ASSUME NEW r \in Machine, NEW a, Active(r, w, a), Refused(s, r) PROVE s.status = "REFUSED"
  BY Zenon, <1>4 DEF Refused
<1> QED
  BY <1>1, <1>2, <1>3, <1>4 DEF Cases

LEMMA StepRecover ==
  ASSUME CallsInv, Recover
  PROVE  CallsInv'
<1> DEFINE t == Last(m.c).L
           k == LastYPCall(Cur(m).ci)
<1>1. m.do = "return" /\ TopF(m) = "resume" /\ m.status \in Errors /\ want' = want
  BY DEF Recover, Returns, TopF
<1>2. RecoverPoint(L) = k
  BY DEF RecoverPoint, LastYPCall, L, Cur
<1>3. k # 0
  BY <1>2 DEF Recover
<1>4. m' = Recovers(m, t, k)
  <2>1. L = t
    BY DEF L
  <2> HIDE DEF t, k
  <2> QED
    BY <1>2, <2>1 DEF Recover, Recovers, CutBack, SetErrFunc
<1>5. TypesRight(m, want) /\ Cases(m, want)
  BY InvCases DEF CallsInv
<1>6. PICK a : \E back \in Nat : Unwinding(m, want, a, back) /\ back = k
  <2>1. m.status \notin {"OK", "YIELD", "REFUSED"}
    BY <1>1 DEF Errors
  <2> QED
    BY <1>1, <1>5, <2>1, ResumeEnds
<1>7. k \in Nat /\ Unwinding(m, want, a, k)
  BY <1>6
<1> HIDE DEF k
<1>8. Inv(m', want)
  BY <1>1, <1>3, <1>4, <1>5, <1>7, RecoverIs
<1>9. Inv(m', want')
  BY <1>1, <1>8
<1> QED
  BY <1>9 DEF CallsInv

LEMMA StepReturnToResume ==
  ASSUME CallsInv, ReturnToResume
  PROVE  CallsInv'
<1> DEFINE t == Last(m.c).L
           n == Last(m.c).n
           e == EndsResume(m, t, n, m.status)
<1>1. /\ m.do = "return" /\ TopF(m) = "resume"
      /\ m' = Leave(e, IF m.status = "REFUSED" THEN "ERRRUN" ELSE m.status)
  BY DEF ReturnToResume, Returns, TopF, EndResume, EndsResume, L, Top
<1>2. m.status \in Errors => LastYPCall(Cur(m).ci) = 0
  BY DEF ReturnToResume, RecoverPoint, LastYPCall, L, Cur
<1>3. want' = IF m.status = "OK" THEN WEnd(want) ELSE want
  BY DEF ReturnToResume
<1>4. TypesRight(m, want) /\ Cases(m, want)
  BY InvCases DEF CallsInv
<1> HIDE DEF e
<1>5. ASSUME NEW a, Active(m, want, a), m.status = "OK" PROVE CallsInv'
  <2>1. m' = Leave(e, m.status) /\ want' = WEnd(want)
    BY <1>1, <1>3, <1>5
  <2>2. Inv(m', WEnd(want))
    BY <1>1, <1>4, <1>5, <2>1, ReturnToResumeIs DEF e
  <2>3. Inv(m', want')
    BY <2>1, <2>2
  <2> QED
    BY <2>3 DEF CallsInv
<1>6. ASSUME NEW a, Yielding(m, want, a), m.status = "YIELD" PROVE CallsInv'
  <2>1. m' = Leave(e, m.status) /\ want' = want
    BY <1>1, <1>3, <1>6
  <2>2. Inv(m', want)
    BY <1>1, <1>4, <1>6, <2>1, ReturnToResumeYieldIs DEF e
  <2>3. Inv(m', want')
    BY <2>1, <2>2
  <2> QED
    BY <2>3 DEF CallsInv
<1>7. ASSUME NEW a, NEW back \in Nat, Unwinding(m, want, a, back), m.status \in Errors,
             back = LastYPCall(Cur(m).ci)
      PROVE  CallsInv'
  <2>1. back = 0 /\ m.status \notin {"OK", "REFUSED"}
    BY <1>2, <1>7 DEF Errors
  <2>2. m' = Leave(e, m.status) /\ want' = want
    BY <1>1, <1>3, <2>1
  <2>3. Inv(m', want)
    BY <1>1, <1>4, <1>7, <2>1, <2>2, ReturnToResumeErrorIs DEF e
  <2>4. Inv(m', want')
    BY <2>2, <2>3
  <2> QED
    BY <2>4 DEF CallsInv
<1>8. ASSUME NEW r \in Machine, NEW a, Active(r, want, a), Refused(m, r), m.status = "REFUSED"
      PROVE  CallsInv'
  <2>1. m' = Leave(e, "ERRRUN") /\ want' = want
    BY <1>1, <1>3, <1>8
  <2>2. Inv(m', want)
    BY <1>1, <1>4, <1>8, <2>1, ReturnToResumeRefusedIs DEF e
  <2>3. Inv(m', want')
    BY <2>1, <2>2
  <2> QED
    BY <2>3 DEF CallsInv
<1> QED
  BY <1>1, <1>4, <1>5, <1>6, <1>7, <1>8, ResumeEnds

LEMMA InitCalls == CallsInit => CallsInv
<1> SUFFICES ASSUME CallsInit PROVE CallsInv
  OBVIOUS
<1> DEFINE o(t) == [ci |-> <<>>, status |-> "OK", nny |-> 1, nCcalls |-> 0,
                    errorJmp |-> 0, errfunc |-> 0, body |-> t # Main]
           th == [t \in Threads |-> o(t)]
           st == [t \in Threads |-> <<>>]
<1>1. m = [th |-> th, c |-> <<>>, do |-> "idle", status |-> "OK"]
  BY DEF CallsInit
<1>2. want = [stack |-> st, chain |-> <<>>, dead |-> {}]
  BY DEF CallsInit
<1>3. \A t \in Threads : o(t) \in Thread
  <2>1. <<>> \in Seq(CIs) /\ "OK" \in Statuses /\ 0 \in {0, 1}
    BY DEF Statuses
  <2> QED
    BY <2>1 DEF Thread
<1>4. \A t \in Threads : th[t] = o(t) /\ st[t] = <<>>
  OBVIOUS
<1>5. \A t \in Threads : /\ o(t).ci = <<>> /\ o(t).status = "OK" /\ o(t).nny = 1 /\ o(t).nCcalls = 0
                         /\ o(t).errorJmp = 0 /\ o(t).errfunc = 0 /\ o(t).body = (t # Main)
  OBVIOUS
<1> HIDE DEF o
<1>6. th \in [Threads -> Thread] /\ st \in [Threads -> Seq(Fns)]
  BY <1>3
<1> HIDE DEF th, st
<1>7. m \in Machine
  <2>1. <<>> \in Seq(Frame) /\ "idle" \in Dos /\ "OK" \in Statuses
    BY DEF Dos, Statuses
  <2> QED
    BY <1>1, <1>6, <2>1 DEF Machine
<1>8. want \in Wants
  <2>1. <<>> \in Seq(Threads) /\ {} \in SUBSET Threads
    OBVIOUS
  <2> QED
    BY <1>2, <1>6, <2>1 DEF Wants
<1>9. m.th = th /\ m.c = <<>> /\ m.do = "idle" /\ want.stack = st /\ want.chain = <<>> /\ want.dead = {}
  BY <1>1, <1>2
<1>10. \A t \in Threads : CIsRight(m.th[t].ci)
  <2>1. CIsRight(<<>>)
    BY DEF CIsRight
  <2> QED
    BY <1>4, <1>5, <1>9, <2>1
<1>11. AgreeBut(m, want, {})
  <2>1. Names(<<>>) = <<>>
    BY DEF Names
  <2> QED
    BY <1>4, <1>5, <1>9, <2>1 DEF AgreeBut
<1>12. Others(m, want, <<>>)
  <2>1. \A t \in Threads : Resting(m.th[t], t, {})
    BY <1>4, <1>5, <1>9 DEF Resting
  <2> QED
    BY <1>9, <2>1 DEF Others
<1>13. AtHost(m, want)
  BY <1>9, <1>11, <1>12 DEF AtHost
<1> QED
  BY <1>7, <1>8, <1>10, <1>13 DEF CallsInv, Inv, TypesRight

LEMMA StepCalls == LuaCallsAssumption /\ CallsInv /\ [CallsNext]_callsVars => CallsInv'
<1> SUFFICES ASSUME LuaCallsAssumption, CallsInv, [CallsNext]_callsVars PROVE CallsInv'
  OBVIOUS
<1>1. CASE CallsNext
  BY <1>1, StepHost, StepCallLua, StepCallMeta, StepRuntimeError, StepReturnLua, StepYield, StepCallC,
     StepResume, StepReturnToLua, StepReturnToCall, StepReturnToNoYield, StepReturnToC, StepReturnToTry,
     StepReturnToDPCall, StepReturnToHost, StepReturnToResuming, StepUnroll, StepRecover,
     StepReturnToResume, StepErrorMsg, StepReturnToErrorMsg, StepLongJump DEF CallsNext
<1>2. CASE UNCHANGED callsVars
  BY <1>2 DEF callsVars, CallsInv
<1> QED
  BY <1>1, <1>2

-----------------------------------------------------------------------------
(* What the invariant says of the program *)

LEMMA RunsRight == CallsInv => RunsWhatIsMeant
<1> SUFFICES ASSUME CallsInv, m.do = "run"
             PROVE  L = Runner /\ \A t \in Threads \ want.dead : Names(m.th[t].ci) = want.stack[t]
  BY DEF RunsWhatIsMeant
<1>1. PICK a : TypesRight(m, want) /\ Active(m, want, a)
  BY RunIs DEF CallsInv
<1>2. L = Runner
  BY <1>1, ActiveIs DEF L, Runner
<1>3. AgreeBut(m, want, {})
  BY <1>1 DEF Active
<1> QED
  BY <1>2, <1>3 DEF AgreeBut

LEMMA StatusIsRight == CallsInv => StatusRight
<1> SUFFICES ASSUME CallsInv, m.do = "run", NEW t \in Threads
             PROVE  CoStatus(t) = WStatus(t)
  BY DEF StatusRight
<1>1. PICK a : TypesRight(m, want) /\ Active(m, want, a)
  BY RunIs DEF CallsInv
<1> DEFINE o == m.th[t]
           S == WStatusOf(want, t)
<1>2. S = WStatus(t)
  BY DEF WStatus, WStatusOf, Runner
<1>3. \/ t = Last(m.c).L /\ S = "running"
      \/ t # Last(m.c).L /\ t \in ToSet(want.chain) /\ S = "normal" /\ Waiting(o)
      \/ /\ t # Last(m.c).L /\ S = "dead"
         /\ o.status \in Errors \/ (o.status = "OK" /\ o.ci = <<>> /\ ~o.body)
      \/ /\ t # Last(m.c).L /\ S = "suspended"
         /\ (o.status = "OK" /\ o.ci = <<>> /\ o.body /\ o.errfunc = 0) \/ Suspended(o)
  BY <1>1, ThreadsAre
<1> HIDE DEF S
<1>4. CASE t = Last(m.c).L /\ S = "running"
  BY <1>2, <1>4 DEF CoStatus, L
<1>5. CASE t # Last(m.c).L /\ S = "normal" /\ Waiting(o)
  BY <1>2, <1>5 DEF CoStatus, L, Waiting
<1>6. CASE t # Last(m.c).L /\ S = "dead" /\ (o.status \in Errors \/ (o.status = "OK" /\ o.ci = <<>> /\ ~o.body))
  BY <1>2, <1>6 DEF CoStatus, L, Errors
<1>7. CASE /\ t # Last(m.c).L /\ S = "suspended"
           /\ (o.status = "OK" /\ o.ci = <<>> /\ o.body /\ o.errfunc = 0) \/ Suspended(o)
  BY <1>2, <1>7 DEF CoStatus, L, Suspended
<1> QED
  BY <1>3, <1>4, <1>5, <1>6, <1>7

LEMMA HandlerIsRight == CallsInv => HandlerRight
<1> SUFFICES ASSUME CallsInv, m.do \in {"run", "raise"}
             PROVE  (m.th[L].errfunc = 1) = Handled(Names(m.th[L].ci))
  BY DEF HandlerRight
<1>1. PICK a : TypesRight(m, want) /\ Active(m, want, a)
  BY InvActive DEF CallsInv
<1>2. AtWork(m) /\ Cur(m).ci \in Seq(CIs)
  BY <1>1, ActiveIs
<1>3. ErrFuncRight(Cur(m))
  BY <1>2 DEF AtWork
<1>4. (Cur(m).errfunc = 1) = Handled(Names(Cur(m).ci))
  BY <1>2, <1>3, HandledIs DEF ErrFuncRight
<1> QED
  BY <1>4 DEF Cur, L

\* What the last mark says of the C stack.
LEMMA CountedIs ==
  ASSUME NEW s \in Machine, NEW ch, NEW a, StackRight(s, ch, a), TopF(s) # "resume"
  PROVE  /\ Last(a).depth = Cardinality({n \in DOMAIN s.c : s.c[n].f \in {"call", "resume"}})
         /\ Last(a).jmp = LastTry(s.c)
<1> DEFINE N == Len(s.c)
           A == Last(a)
<1>1. N \in Nat /\ N >= 1 /\ A = a[N] /\ A \in Mark /\ s.c \in Seq(Frame) /\ Last(s.c) = s.c[N]
  BY StackEnds
<1>2. Jumps(s.c, a, N) /\ A.depth = Cardinality({n \in 1..N : s.c[n].f \in {"call", "resume"}})
  <2>1. Jumps(s.c, a, N)
    BY TopIs
  <2>2. A.depth = Cardinality({n \in 1..N : s.c[n].f \in {"call", "resume"}})
    BY ZenonT(30), TopIs
  <2> QED
    BY <2>1, <2>2
<1>3. DOMAIN s.c = 1..N
  BY <1>1
<1>4. A.jmp \in Nat /\ A.jmp <= N /\ (A.jmp > 0 => s.c[A.jmp].f = "try")
      /\ \A n \in A.jmp + 1..N : s.c[n].f # "try"
  <2>1. A.jmp \in Nat
    BY <1>1, MarkIs
  <2>2. s.c[N].f # "resume"
    BY <1>1 DEF TopF
  <2> HIDE DEF N, A
  <2> QED
    BY <1>1, <1>2, <2>1, <2>2 DEF Jumps
<1>5. A.jmp = LastTry(s.c)
  <2> DEFINE j == A.jmp
             c == s.c
  <2>1. /\ c \in Seq(Frame) /\ j \in Nat /\ j <= Len(c) /\ (j > 0 => c[j].f = "try")
        /\ \A n \in j + 1..Len(c) : c[n].f # "try"
    BY <1>1, <1>4
  <2> HIDE DEF j, c
  <2>2. LastTry(c) = j
    BY <2>1, LastTryIs
  <2> QED
    BY <2>2 DEF j, c
<1> QED
  BY <1>2, <1>3, <1>5

Counted(s) ==
  /\ Cardinality({n \in DOMAIN s.c : s.c[n].f \in {"call", "resume"}}) <= Cur(s).nCcalls
  /\ Cur(s).errorJmp = LastTry(s.c)

\* A resume that is refused has counted itself.
LEMMA RefusedCounted ==
  ASSUME NEW r, NEW w, TypesRight(r, w), NEW s \in Machine, NEW ch, NEW a, StackRight(s, ch, a),
         TopRight(s, a), Refused(r, s), r.do = "throw"
  PROVE  Counted(r)
<1> DEFINE co == Last(r.c).L
           N == Len(s.c)
           old == s.th[co]
           x == FrameOf("resume", co, old.nny, 0, 0)
           y == FrameOf("try", co, old.nCcalls + 1, old.errorJmp, 0)
           D == {n \in DOMAIN s.c : s.c[n].f \in {"call", "resume"}}
           E == {n \in DOMAIN r.c : r.c[n].f \in {"call", "resume"}}
<1>1. /\ RefusedAt(s, r, N, co, old) /\ r.c = Append(Append(s.c, x), y)
      /\ r.th[co] = Resumes(old, 0, old.nCcalls + 1, N + 2)
  BY RefusedIs
<1>2. r.c = Append(Append(s.c, x), y)
  BY <1>1
<1>3. /\ s \in Machine /\ N \in Nat /\ co \in Threads /\ old \in Thread /\ r \in Machine
      /\ TopF(s) = "cfunc" /\ old.nCcalls = Cur(s).nCcalls
  BY <1>1 DEF RefusedAt
<1>4. x.f = "resume" /\ y.f = "try"
  BY DEF FrameOf
<1>5. s.c \in Seq(Frame) /\ N \in Nat /\ N >= 1 /\ Last(a) \in Mark /\ Cur(s) \in Thread
  BY StackEnds
<1>7. old.nCcalls \in Int
  BY <1>3, ThreadIs
<1>8. Cur(r).nCcalls = old.nCcalls + 1 /\ Cur(r).errorJmp = N + 2
  <2> DEFINE n == old.nCcalls + 1
             k == N + 2
  <2>1. n \in Int /\ k \in Nat /\ 0 \in Nat
    BY <1>3, <1>7
  <2>2. Cur(r) = Resumes(old, 0, n, k)
    BY <1>1 DEF Cur
  <2> HIDE DEF n, k, old
  <2>3. Cur(r).nCcalls = n /\ Cur(r).errorJmp = k
    BY <1>3, <2>1, <2>2, ResumesIs
  <2> QED
    BY <2>3 DEF n, k
<1>9. /\ DOMAIN s.c = 1..N /\ DOMAIN r.c = 1..N + 2 /\ Len(r.c) = N + 2
      /\ \A n \in 1..N : r.c[n] = s.c[n]
      /\ r.c[N + 1] = x /\ r.c[N + 2] = y
  <2> HIDE DEF x, y
  <2> QED
    BY <1>2, <1>5
<1> HIDE DEF x, y, old, co
<1>10. E = D \cup {N + 1} /\ N + 1 \notin D
  <2>1. \A n \in 1..N + 2 : n \in 1..N \/ n = N + 1 \/ n = N + 2
    BY <1>5
  <2>2. N + 2 \notin E /\ N + 1 \in E
    BY <1>4, <1>5, <1>9
  <2>3. N + 1 \notin 1..N /\ N + 2 \notin 1..N /\ \A n \in 1..N : n \in 1..N + 2
    BY <1>5
  <2> HIDE DEF N
  <2> QED
    BY <1>9, <2>1, <2>2, <2>3
<1>11. IsFiniteSet(D)
  <2>1. IsFiniteSet(1..N)
    BY <1>5, FS_Interval
  <2>2. D \subseteq 1..N
    BY <1>9
  <2> HIDE DEF D
  <2> QED
    BY <2>1, <2>2, FS_Subset
<1> HIDE DEF E, D
<1>12. Cardinality(E) = Cardinality(D) + 1
  BY <1>10, <1>11, FS_AddElement
<1>13. Last(a).depth = Cardinality(D)
  BY <1>3, CountedIs DEF D
<1>14. Cur(s).nCcalls >= Last(a).depth
  BY DEF TopRight, Live
<1>15. Cardinality(E) <= Cur(r).nCcalls
  <2>1. Last(a).depth \in Nat
    BY <1>5, MarkIs
  <2> QED
    BY <1>3, <1>7, <1>8, <1>12, <1>13, <1>14, <2>1
<1>16. LastTry(r.c) = N + 2
  <2>1. r.c \in Seq(Frame)
    BY <1>3, MachineIs
  <2>2. N + 2 \in Nat /\ N + 2 <= Len(r.c) /\ r.c[N + 2].f = "try" /\ \A i \in N + 2 + 1..Len(r.c) : FALSE
    BY <1>4, <1>5, <1>9
  <2> DEFINE k == N + 2
  <2> HIDE DEF k
  <2>3. LastTry(r.c) = k
    BY <2>1, <2>2, LastTryIs DEF k
  <2> QED
    BY <2>3 DEF k
<1>17. Cardinality({n \in DOMAIN r.c : r.c[n].f \in {"call", "resume"}}) <= Cur(r).nCcalls
  BY <1>15 DEF E
<1>18. Cur(r).errorJmp = LastTry(r.c)
  BY <1>8, <1>16
<1> QED
  BY <1>17, <1>18 DEF Counted

LEMMA CountedRight == CallsInv => CStackCounted
<1> SUFFICES ASSUME CallsInv, m.do \in {"run", "raise", "throw"} PROVE Counted(m)
  BY DEF CStackCounted, Counted, Depth, Cur, L, LastTry
<1>1. TypesRight(m, want) /\ Cases(m, want) /\ m \in Machine
  BY InvCases DEF CallsInv, TypesRight
<1>2. ASSUME NEW a, Active(m, want, a) PROVE Counted(m)
  <2>1. StackRight(m, want.chain, a) /\ TopRight(m, a) /\ AtWork(m)
    BY <1>2 DEF Active
  <2>2. TopF(m) # "resume"
    BY <2>1 DEF AtWork
  <2>3. Cur(m).errorJmp = Last(a).jmp /\ Cur(m).nCcalls >= Last(a).depth
    BY <2>1 DEF TopRight, Live
  <2>4. Cur(m).nCcalls \in Int /\ Last(a).depth \in Nat
    BY <1>1, <2>1, StackEnds, ThreadIs, MarkIs
  <2> QED
    BY <1>1, <2>1, <2>2, <2>3, <2>4, CountedIs DEF Counted
<1>3. ASSUME NEW a, Yielding(m, want, a), m.do = "throw" PROVE Counted(m)
  <2> DEFINE ch == Append(want.chain, Last(m.c).L)
  <2>1. StackRight(m, ch, a)
    BY <1>3 DEF Yielding
  <2>2. TopF(m) = "cfunc" /\ Cur(m).errorJmp = Last(a).jmp /\ Cur(m).nCcalls >= Last(a).depth
    BY <1>3 DEF Yielding
  <2> HIDE DEF ch
  <2>3. Cur(m).nCcalls \in Int /\ Last(a).depth \in Nat
    BY <1>1, <2>1, StackEnds, ThreadIs, MarkIs
  <2> QED
    BY <1>1, <2>1, <2>2, <2>3, CountedIs DEF Counted
<1>4. ASSUME NEW r \in Machine, NEW a, Active(r, want, a), Refused(m, r), m.do = "throw" PROVE Counted(m)
  <2>1. StackRight(r, want.chain, a) /\ TopRight(r, a)
    BY <1>4 DEF Active
  <2> QED
    BY <1>1, <1>4, <2>1, RefusedCounted
<1> QED
  BY <1>1, <1>2, <1>3, <1>4 DEF Cases

LEMMA ContinuesRight == CallsInv => Continues
<1> SUFFICES ASSUME CallsInv, m.do = "return", TopF(m) = "unroll", Cur(m).ci # <<>>, ~IsLua(TopCI(m).fn)
             PROVE  /\ TopCI(m).k /\ Cur(m).nny = 0
                    /\ m.status \in Errors => TopCI(m).ypcall
  BY DEF Continues, Cur, L, Top, TopF, CI, TopCI
<1>1. PICK a : TypesRight(m, want) /\ Active(m, want, a)
  BY ReturnIs DEF CallsInv
<1> DEFINE ci == Cur(m).ci
           n == Len(ci)
           A == Last(a)
<1>2. /\ m \in Machine /\ StackRight(m, want.chain, a) /\ TopRight(m, a) /\ AtWork(m) /\ ci \in Seq(CIs)
  BY <1>1, ActiveIs
<1>3. n \in 1..n /\ TopCI(m) = ci[n]
  <2>1. n \in Nat /\ n >= 1 /\ Last(ci) = ci[n]
    BY <1>2, FrontIs
  <2> QED
    BY <2>1 DEF TopCI
<1>4. Pending(ci, n)
  <2>1. Owns("unroll", A, ci, n)
    BY <1>2 DEF TopRight
  <2> HIDE DEF n, ci, A
  <2> QED
    BY <1>3, <2>1 DEF Owns
<1>5. TopCI(m).k
  BY <1>3, <1>4 DEF Pending, IsLua
<1>6. Cur(m).nny = 0
  <2>1. Saved(m.c, a, ci, Len(m.c)) /\ A = a[Len(m.c)] /\ Last(m.c) = m.c[Len(m.c)]
    <3>1. Saved(m.c, a, Cur(m).ci, Len(m.c))
      BY <1>2, TopIs
    <3> HIDE DEF A
    <3>2. A = a[Len(m.c)] /\ Last(m.c) = m.c[Len(m.c)]
      BY <1>2, StackEnds DEF A
    <3> QED
      BY <3>1, <3>2
  <2>2. A.nny = 0
    BY <2>1 DEF Saved, SavedOver, TopF
  <2> QED
    BY <1>2, <2>2 DEF TopRight, Live
<1>7. m.status \in Errors => TopCI(m).ypcall
  BY <1>2 DEF AtWork, Errors
<1> QED
  BY <1>5, <1>6, <1>7

-----------------------------------------------------------------------------

\* For any coroutines and any limits of the C stack: what runs is what the program means to
\* run, coroutine.status says what is so, the handler in force is that of the innermost
\* protected call, nCcalls bounds the C stack, and what unroll finishes can go on (luaD_call,
\* luaD_throw, luaD_pcall, lua_resume, unroll and recover of ldo.c).
THEOREM CallsSafe == LuaCallsAssumption /\ CallsSpec => []CallsReturn
<1> SUFFICES ASSUME LuaCallsAssumption PROVE CallsSpec => []CallsReturn
  OBVIOUS
<1>1. CallsInv => CallsReturn
  BY RunsRight, StatusIsRight, HandlerIsRight, CountedRight, ContinuesRight DEF CallsReturn
<1>2. CallsInv /\ [CallsNext]_callsVars => CallsInv'
  BY StepCalls
<1> QED
  BY InitCalls, <1>1, <1>2, PTL DEF CallsSpec
=============================================================================
