------------------------- MODULE LuaCallsInvariant --------------------------
(***************************************************************************)
(* The invariant of LuaCalls, and what it says of the frames and the       *)
(* calls, for any number of coroutines and calls, whatever the limits of   *)
(* the C stack are.                                                        *)
(*                                                                         *)
(* A frame of the C stack says little about the calls of its thread that   *)
(* it stands for.  The invariant marks each frame: how many of the calls   *)
(* are below it, and what nny, nCcalls and errorJmp are when control comes *)
(* back to it.                                                             *)
(***************************************************************************)
EXTENDS LuaCalls, FiniteSetTheorems, WellFoundedInduction, TLAPS

-----------------------------------------------------------------------------
(* Types *)

Fns == {"lua", "meta", "handler", "pcall", "xpcall", "dofile", "sort", "resume", "wrap", "yield"}
FrameKinds == {"host", "dpcall", "try", "noyield", "call", "execute", "cfunc", "errormsg",
               "resume", "resuming", "unroll"}
Statuses == {"OK", "YIELD", "REFUSED"} \cup Errors
Dos == {"idle", "run", "return", "raise", "throw"}

CIs == [fn : Fns, k : BOOLEAN, ypcall : BOOLEAN, fresh : BOOLEAN, old_errfunc : {0, 1}]
Thread == [ci : Seq(CIs), status : Statuses, nny : Nat, nCcalls : Int, errorJmp : Nat,
           errfunc : {0, 1}, body : BOOLEAN]
Frame == [f : FrameKinds, L : Threads, n : Int, p : Nat, e : {0, 1}]
Machine == [th : [Threads -> Thread], c : Seq(Frame), do : Dos, status : Statuses]
Wants == [stack : [Threads -> Seq(Fns)], chain : Seq(Threads), dead : SUBSET Threads]

-----------------------------------------------------------------------------
(* The calls of a thread *)

\* The innermost protected call of the first n has a handler.
HandledBy(ci, n) ==
  \E i \in 1..n : ci[i].fn = "xpcall" /\ \A j \in i + 1..n : ~Protects(ci[j].fn)

\* The call can go on when a yield or an error has cut off its C function.
Pending(ci, i) ==
  \/ ci[i].fn \in {"lua", "meta"}
  \/ Protects(ci[i].fn) /\ ci[i].k /\ ci[i].ypcall
  \/ ci[i].fn = "dofile" /\ ci[i].k

\* The calls that luaD_pcall's continuation protects have saved the handler before theirs, and
\* all of the calls up to them can go on.
CIsRight(ci) ==
  \A i \in 1..Len(ci) : ci[i].ypcall =>
    /\ Protects(ci[i].fn)
    /\ (ci[i].old_errfunc = 1) = HandledBy(ci, i - 1)
    /\ \A j \in 1..i : Pending(ci, j)

ErrFuncRight(t) == (t.errfunc = 1) = HandledBy(t.ci, Len(t.ci))

\* A thread that has yielded.
Suspended(t) ==
  /\ t.status = "YIELD" /\ ~t.body
  /\ t.ci # <<>> /\ Last(t.ci).fn = "yield"
  /\ \A i \in 1..Len(t.ci) - 1 : Pending(t.ci, i)
  /\ ErrFuncRight(t)

\* A thread without frames.
Resting(t, x, dead) ==
  /\ t.nny = 1 /\ t.errorJmp = 0
  /\ IF x = Main THEN t.status = "OK" /\ t.ci = <<>> /\ ~t.body /\ t.errfunc = 0 /\ t.nCcalls = 0
     ELSE IF x \in dead THEN t.status \in Errors \/ (t.status = "OK" /\ t.ci = <<>> /\ ~t.body)
     ELSE \/ t.status = "OK" /\ t.ci = <<>> /\ t.body /\ t.errfunc = 0
          \/ Suspended(t)

-----------------------------------------------------------------------------
(* The frames *)

\* How many calls are below the frame, what nny is in it, how many frames up to it count in
\* nCcalls, where a jump from it goes, what the frame of luaD_pcall around it goes back to, and
\* which thread of the chain it is in.
Mark == [ci : Nat, nny : Nat, depth : Nat, jmp : Nat, pcall : Nat, link : Nat]

Bottom == [ci |-> 0, nny |-> 1, depth |-> 0, jmp |-> 0, pcall |-> 0, link |-> 1]

\* The mark of a frame x, the n-th, over one with mark b, when ci calls are below it.
MarkOf(x, n, b, ci) ==
  IF x.f = "resume"
  THEN [ci |-> 0, nny |-> 0, depth |-> b.depth + 1, jmp |-> 0, pcall |-> 0, link |-> b.link + 1]
  ELSE [ci    |-> ci,
        nny   |-> IF x.f = "noyield" THEN b.nny + 1 ELSE b.nny,
        depth |-> IF x.f = "call" THEN b.depth + 1 ELSE b.depth,
        jmp   |-> IF x.f = "try" THEN n ELSE b.jmp,
        pcall |-> IF x.f = "dpcall" THEN ci ELSE b.pcall,
        link  |-> b.link]

\* What lies on what.
Nesting ==
  {<<"host", "dpcall">>, <<"cfunc", "dpcall">>, <<"dpcall", "try">>, <<"resume", "try">>,
   <<"cfunc", "noyield">>, <<"try", "noyield">>, <<"errormsg", "noyield">>,
   <<"noyield", "call">>, <<"cfunc", "call">>, <<"execute", "call">>,
   <<"call", "execute">>, <<"resuming", "execute">>, <<"unroll", "execute">>,
   <<"execute", "cfunc">>, <<"execute", "errormsg">>, <<"call", "errormsg">>,
   <<"cfunc", "errormsg">>, <<"cfunc", "resume">>, <<"try", "resuming">>, <<"try", "unroll">>}

\* Where longjmp goes from a frame.
Jumps(c, a, k) ==
  /\ a[k].jmp <= k
  /\ a[k].jmp > 0 => c[a[k].jmp].f = "try"
  /\ c[k].f # "resume" => \A n \in a[k].jmp + 1..k : c[n].f # "try"
  /\ c[k].f \notin {"host", "dpcall", "resume"} =>
       LET j == a[a[k].jmp] IN
       /\ a[k].jmp > 0
       /\ j.link = a[k].link /\ j.pcall = a[k].pcall /\ j.nny <= a[k].nny

\* What the k-th frame x with mark A, over f with mark B, has saved, and which call it works for.
SavedOver(x, f, B, A, ci, k) ==
  /\ x.f = "dpcall" =>
       /\ x.n = A.ci /\ x.p = A.nny /\ A.nny >= 1
       /\ (x.e = 1) = HandledBy(ci, A.ci - 1)
       /\ f = "host" => A.ci = 0
       /\ f = "cfunc" => A.ci >= 1 /\ Protects(ci[A.ci].fn) /\ ~ci[A.ci].ypcall
  /\ x.f = "try" =>
       /\ x.n >= A.depth
       /\ A.ci = B.ci
       /\ x.p = IF f = "dpcall" THEN B.jmp ELSE 0
       /\ k = 3 => x.n = 0
  /\ x.f = "resume" => x.n = 1
  /\ x.f = "call" /\ f = "cfunc" => A.nny = 0 /\ A.ci >= 1 /\ Pending(ci, A.ci)
  /\ x.f = "noyield" /\ f = "cfunc" => A.ci >= 1 /\ ~Protects(ci[A.ci].fn)
  /\ x.f \in {"resuming", "unroll"} => A.ci = 0 /\ A.nny = 0
Saved(c, a, ci, k) == SavedOver(c[k], c[k - 1].f, a[k - 1], a[k], ci, k)

\* No sort and no handler where a yield is allowed; and which calls are protected how.
Below(f, A, ci) ==
  /\ A.nny = 0 => A.link > 1
  /\ A.pcall > 0 => A.nny > 0
  /\ A.nny = 0 /\ f \in {"execute", "call", "cfunc"} => \A i \in 1..A.ci : Pending(ci, i)
  /\ \A i \in 1..A.ci : i > A.pcall /\ Protects(ci[i].fn) =>
                          ci[i].ypcall /\ A.pcall = 0 /\ A.link > 1

\* The k-th frame c[k] with mark a[k], of a thread of the chain ch with the calls ci.
FrameRight(c, a, ch, ci, k) ==
  /\ a[k].link \in 1..Len(ch) /\ c[k].L = ch[a[k].link]
  /\ a[k].ci <= Len(ci)
  /\ IF k = 1 THEN c[k].f = "host" /\ a[k] = Bottom
     ELSE <<c[k - 1].f, c[k].f>> \in Nesting /\ a[k] = MarkOf(c[k], k, a[k - 1], a[k].ci)
  /\ Jumps(c, a, k)
  /\ a[k].depth = Cardinality({n \in 1..k : c[n].f \in {"call", "resume"}})
  /\ Saved(c, a, ci, k)
  /\ Below(c[k].f, a[k], ci)

\* The calls of a frame: those up to the u-th that are not below it.
Owns(f, A, ci, u) ==
  /\ f = "execute" =>
       /\ A.ci < u
       /\ ci[A.ci + 1].fresh
       /\ \A i \in A.ci + 1..u : IsLua(ci[i].fn) /\ (i > A.ci + 1 => ~ci[i].fresh)
       /\ A.nny = 0 => \A i \in A.ci + 1..u : ci[i].fn # "handler"
       /\ A.nny > 0 /\ A.link > 1 => \E i \in 1..A.ci + 1 : ci[i].fn \in {"sort", "handler"}
  /\ f = "cfunc" => u = A.ci + 1 /\ ~IsLua(ci[u].fn)
  /\ f \in {"resuming", "unroll"} => \A i \in 1..u : Pending(ci, i)
  /\ f \notin {"execute", "cfunc", "resuming", "unroll"} => u = A.ci

\* A thread when control is in a frame of it.
Live(t, A) ==
  /\ t.status = "OK" /\ ~t.body
  /\ t.nny = A.nny /\ t.errorJmp = A.jmp /\ t.nCcalls >= A.depth

\* The last call that the k-th frame is for: what is above it stands for the others.
Upper(s, a, k) ==
  IF s.c[k + 1].f = "resume" THEN Len(s.th[s.c[k].L].ci) ELSE a[k + 1].ci

\* The frame that resumes another thread.
Waits(t, A) == Live(t, A) /\ ErrFuncRight(t) /\ Last(t.ci).fn \in {"resume", "wrap"}

\* What stays when the frames above are taken off: fewer threads, fewer calls.
Ordered(a) ==
  \A k, n \in 1..Len(a) : k <= n =>
    /\ a[k].link <= a[n].link /\ a[k].depth <= a[n].depth
    /\ a[k].link = a[n].link => a[k].ci <= a[n].ci

\* The main thread resumes the second of the chain, which resumes the third, and so on.
Linked(ch) ==
  /\ ch \in Seq(Threads) /\ ch # <<>> /\ ch[1] = Main
  /\ \A i, j \in 1..Len(ch) : ch[i] = ch[j] => i = j

\* a marks the C stack of s, whose frames are in the threads of ch.
StackRight(s, ch, a) ==
  /\ a \in Seq(Mark) /\ Len(a) = Len(s.c) /\ s.c # <<>>
  /\ Linked(ch) /\ Last(a).link = Len(ch)
  /\ Ordered(a)
  /\ \A k \in 1..Len(a) : FrameRight(s.c, a, ch, s.th[s.c[k].L].ci, k)
  /\ \A k \in 1..Len(a) - 1 :
       /\ Owns(s.c[k].f, a[k], s.th[s.c[k].L].ci, Upper(s, a, k))
       /\ s.c[k + 1].f = "resume" => Waits(s.th[s.c[k].L], a[k])

-----------------------------------------------------------------------------
(* What goes on at the top *)

Cur(s) == s.th[Last(s.c).L]
TopF(s) == Last(s.c).f
TopCI(s) == Last(Cur(s).ci)

\* Control is in the last frame.
TopRight(s, a) ==
  /\ Owns(TopF(s), Last(a), Cur(s).ci, Len(Cur(s).ci))
  /\ Live(Cur(s), Last(a))
  /\ Len(s.c) <= 2 => Cur(s).nCcalls = 0

\* C functions that raise an error themselves.
Raises(s) == TopF(s) = "cfunc" => TopCI(s).fn \in {"yield", "wrap"}

\* But for those of X, the threads are in the calls that the program means them to be in.
AgreeBut(s, w, X) == \A t \in Threads \ (w.dead \cup X) : Names(s.th[t].ci) = w.stack[t]

\* The threads that no frame is in.
Others(s, w, ch) ==
  /\ \A t \in Threads \ ToSet(ch) : Resting(s.th[t], t, w.dead)
  /\ \A i \in 1..Len(w.chain) : w.chain[i] \notin w.dead

\* What goes on.
AtWork(s) ==
  \/ /\ ErrFuncRight(Cur(s))
     /\ \/ s.do = "run" /\ TopF(s) = "execute"
        \/ s.do = "raise" /\ TopF(s) \in {"execute", "call", "cfunc"} /\ Raises(s)
        \/ /\ s.do = "throw" /\ s.status \in Errors
           /\ TopF(s) \in {"execute", "call", "cfunc", "errormsg"} /\ Raises(s)
        \/ /\ s.do = "return" /\ s.status = "OK"
           /\ TopF(s) \in {"execute", "call", "noyield", "errormsg", "try", "dpcall", "resume", "host"}
  \/ /\ s.do = "return" /\ TopF(s) = "cfunc"
     /\ s.status \in {"OK", "YIELD"} \cup Errors
     /\ ~TopCI(s).ypcall => (Cur(s).errfunc = 1) = HandledBy(Cur(s).ci, Len(Cur(s).ci) - 1)
  \/ /\ s.do = "return" /\ TopF(s) \in {"resuming", "unroll"}
     /\ (Cur(s).ci # <<>> /\ TopCI(s).ypcall) \/ ErrFuncRight(Cur(s))
     /\ \/ s.status = "OK"
        \/ TopF(s) = "unroll" /\ s.status \in Errors /\ Cur(s).ci # <<>> /\ TopCI(s).ypcall

\* A thread runs, returns, or raises an error that nothing has acted on yet.
Active(s, w, a) ==
  /\ StackRight(s, w.chain, a) /\ TopRight(s, a)
  /\ AgreeBut(s, w, {}) /\ Others(s, w, w.chain)
  /\ AtWork(s)

\* A yield on its way.
Yielding(s, w, a) ==
  LET ch == Append(w.chain, Last(s.c).L) IN
  /\ StackRight(s, ch, a)
  /\ AgreeBut(s, w, {}) /\ Others(s, w, ch)
  /\ Suspended(Cur(s)) /\ Last(s.c).L \notin w.dead
  /\ s.status = "YIELD"
  /\ \/ /\ s.do = "throw" /\ TopF(s) = "cfunc" /\ Last(a).nny = 0
        /\ Cur(s).errorJmp = Last(a).jmp /\ Cur(s).nCcalls >= Last(a).depth
     \/ s.do = "return" /\ TopF(s) = "try" /\ s.c[Len(s.c) - 1].f = "resume"
     \/ s.do = "return" /\ TopF(s) = "resume" /\ Cur(s).errorJmp = 0

LastYPCall(ci) == SelectLastInSeq(ci, LAMBDA x : x.ypcall)

\* An error on its way; back is where it goes.
Unwinding(s, w, a, back) ==
  LET t == Last(s.c).L
      ch == IF back = 0 THEN Append(w.chain, t) ELSE w.chain
      catcher == IF TopF(s) = "try" THEN s.c[Len(s.c) - 1] ELSE Last(s.c)
  IN
  /\ StackRight(s, ch, a)
  /\ AgreeBut(s, w, {t}) /\ Others(s, w, ch)
  /\ s.th[t].status = "OK" /\ ~s.th[t].body
  /\ s.do = "return" /\ s.status \in Errors /\ TopF(s) \in {"try", "dpcall", "resume"}
  /\ TopF(s) # "try" => /\ s.th[t].errorJmp = IF TopF(s) = "resume" THEN 0 ELSE Last(a).jmp
                        /\ s.th[t].nCcalls >= Last(a).depth
                        /\ Len(s.c) = 2 => s.th[t].nCcalls = 0
  /\ back = IF catcher.f = "dpcall" THEN catcher.n ELSE LastYPCall(s.th[t].ci)
  /\ IF back = 0 THEN t \in w.dead ELSE w.stack[t] = SubSeq(Names(s.th[t].ci), 1, back)

\* The script has ended, with an error or without, or none was started.
AtHost(s, w) ==
  /\ w.chain = <<>> /\ Others(s, w, <<>>) /\ AgreeBut(s, w, {})
  /\ \/ s.do = "idle" /\ s.c = <<>>
     \/ s.do = "return" /\ Len(s.c) = 1 /\ s.c[1].f = "host" /\ s.c[1].L = Main

\* A resume that is refused: what follows when it has returned is s.
Refused(r, s) ==
  LET co == Last(r.c).L
      N  == Len(s.c)
      old == s.th[co]
      resume == [f |-> "resume", L |-> co, n |-> old.nny, p |-> 0, e |-> 0]
      try == [f |-> "try", L |-> co, n |-> old.nCcalls + 1, p |-> old.errorJmp, e |-> 0]
  IN
  /\ s.do = "return" /\ s.status = "ERRRUN" /\ TopF(s) = "cfunc"
  /\ old.nCcalls = Cur(s).nCcalls
  /\ r.status = "REFUSED"
  /\ \/ /\ r.do \in {"throw", "return"}
        /\ r.c = Append(Append(s.c, resume), try)
        /\ r.th = [s.th EXCEPT ![co].nny = 0, ![co].nCcalls = @ + 1, ![co].errorJmp = N + 2]
     \/ /\ r.do = "return"
        /\ r.c = Append(s.c, resume)
        /\ r.th = [s.th EXCEPT ![co].nny = 0, ![co].nCcalls = @ + 1]

TypesRight(s, w) == s \in Machine /\ w \in Wants /\ \A t \in Threads : CIsRight(s.th[t].ci)

Inv(s, w) ==
  /\ TypesRight(s, w)
  /\ \/ AtHost(s, w)
     \/ \E a : \/ Active(s, w, a)
               \/ Yielding(s, w, a)
               \/ \E back \in Nat : Unwinding(s, w, a, back)
     \/ \E r, a : r \in Machine /\ Active(r, w, a) /\ Refused(s, r)

-----------------------------------------------------------------------------
(* Lemmas about the calls of a thread *)

\* Two lists of calls that begin with the same n.
SameTo(ci, cj, n) == \A i \in 1..n : ci[i] = cj[i]

LEMMA HandledSame ==
  ASSUME NEW ci, NEW cj, NEW n \in Int, NEW h \in Int, h <= n, SameTo(ci, cj, n)
  PROVE  HandledBy(ci, h) = HandledBy(cj, h)
<1>1. \A i \in 1..h : ci[i] = cj[i] /\ \A j \in i + 1..h : ci[j] = cj[j]
  BY DEF SameTo
<1> QED
  BY <1>1 DEF HandledBy

LEMMA HandledStep ==
  ASSUME NEW ci, NEW n \in Nat, n >= 1
  PROVE  HandledBy(ci, n) = IF Protects(ci[n].fn) THEN ci[n].fn = "xpcall" ELSE HandledBy(ci, n - 1)
<1>1. CASE Protects(ci[n].fn)
  <2>1. ASSUME NEW i \in 1..n, i # n PROVE n \in i + 1..n
    <3>1. i \in Int /\ i <= n /\ i + 1 <= n
      BY <2>1
    <3> QED
      BY <3>1
  <2>2. n \in 1..n /\ \A j \in n + 1..n : FALSE
    OBVIOUS
  <2> QED
    BY <1>1, <2>1, <2>2 DEF HandledBy
<1>2. CASE ~Protects(ci[n].fn)
  <2>1. ci[n].fn # "xpcall"
    BY <1>2 DEF Protects
  <2>2. 1..n = (1..(n - 1)) \cup {n}
    OBVIOUS
  <2>3. \A i \in 1..(n - 1) : i + 1..n = (i + 1..(n - 1)) \cup {n}
    OBVIOUS
  <2> QED
    BY <1>2, <2>1, <2>2, <2>3 DEF HandledBy
<1> QED
  BY <1>1, <1>2

LEMMA HandledNone == \A ci : ~HandledBy(ci, 0) /\ ~HandledBy(ci, -1)
BY DEF HandledBy

LEMMA PendingSame ==
  ASSUME NEW ci, NEW cj, NEW n \in Int, SameTo(ci, cj, n)
  PROVE  \A i \in 1..n : Pending(ci, i) = Pending(cj, i)
BY DEF SameTo, Pending

\* One more call, or a last call that is another one.
LEMMA CIsRightStep ==
  ASSUME NEW ci \in Seq(CIs), NEW cj \in Seq(CIs), CIsRight(ci),
         Len(cj) >= 1, Len(cj) - 1 <= Len(ci), SameTo(ci, cj, Len(cj) - 1),
         LET x == cj[Len(cj)] IN
           x.ypcall => /\ Protects(x.fn)
                       /\ (x.old_errfunc = 1) = HandledBy(cj, Len(cj) - 1)
                       /\ \A j \in 1..Len(cj) : Pending(cj, j)
  PROVE  CIsRight(cj)
<1> DEFINE n == Len(cj) - 1
<1>1. n \in Nat /\ Len(cj) = n + 1 /\ n <= Len(ci)
  OBVIOUS
<1>2. ASSUME NEW i \in 1..n, cj[i].ypcall
      PROVE  /\ Protects(cj[i].fn)
             /\ (cj[i].old_errfunc = 1) = HandledBy(cj, i - 1)
             /\ \A j \in 1..i : Pending(cj, j)
  <2>1. i \in 1..Len(ci) /\ cj[i] = ci[i] /\ i - 1 \in Int /\ i - 1 <= n
    BY <1>1 DEF SameTo
  <2>2. HandledBy(ci, i - 1) = HandledBy(cj, i - 1)
    BY <1>1, <2>1, HandledSame
  <2>3. \A j \in 1..i : Pending(ci, j) = Pending(cj, j)
    BY <1>1, <2>1, PendingSame
  <2> QED
    BY <1>2, <2>1, <2>2, <2>3 DEF CIsRight
<1> HIDE DEF n
<1>3. \A i \in 1..(n + 1) : i \in 1..n \/ i = n + 1
  BY <1>1
<1>4. \A i \in 1..Len(cj) : i \in 1..n \/ i = Len(cj)
  BY <1>1, <1>3
<1>5. LET x == cj[Len(cj)] IN
        x.ypcall => /\ Protects(x.fn)
                    /\ (x.old_errfunc = 1) = HandledBy(cj, Len(cj) - 1)
                    /\ \A j \in 1..Len(cj) : Pending(cj, j)
  OBVIOUS
<1> QED
  BY <1>2, <1>4, <1>5 DEF CIsRight

LEMMA CIsRightCut ==
  ASSUME NEW ci \in Seq(CIs), CIsRight(ci), NEW n \in 0..Len(ci)
  PROVE  CIsRight(SubSeq(ci, 1, n))
<1> DEFINE cj == SubSeq(ci, 1, n)
<1>1. Len(cj) = n /\ SameTo(ci, cj, n)
  BY DEF SameTo
<1> HIDE DEF cj
<1>2. ASSUME NEW i \in 1..Len(cj), cj[i].ypcall
      PROVE  /\ Protects(cj[i].fn)
             /\ (cj[i].old_errfunc = 1) = HandledBy(cj, i - 1)
             /\ \A j \in 1..i : Pending(cj, j)
  <2>1. i \in 1..Len(ci) /\ cj[i] = ci[i] /\ i - 1 \in Int /\ i - 1 <= n
    BY <1>1 DEF SameTo
  <2>2. HandledBy(ci, i - 1) = HandledBy(cj, i - 1)
    BY <1>1, <2>1, HandledSame
  <2>3. \A j \in 1..i : Pending(ci, j) = Pending(cj, j)
    BY <1>1, <2>1, PendingSame
  <2> QED
    BY <1>2, <2>1, <2>2, <2>3 DEF CIsRight
<1> QED
  BY <1>2 DEF CIsRight, cj

LEMMA FrontIs ==
  ASSUME NEW S, NEW l \in Seq(S), l # <<>>
  PROVE  /\ Len(l) >= 1 /\ Len(l) \in Nat
         /\ Front(l) \in Seq(S) /\ Len(Front(l)) = Len(l) - 1
         /\ \A i \in 1..Len(l) - 1 : Front(l)[i] = l[i]
         /\ Last(l) = l[Len(l)] /\ Last(l) \in S
         /\ Front(l) = SubSeq(l, 1, Len(l) - 1)
<1>1. Len(l) \in Nat /\ Len(l) >= 1
  OBVIOUS
<1>2. Front(l) = SubSeq(l, 1, Len(l) - 1) /\ Last(l) = l[Len(l)]
  BY DEF Front, Last
<1>3. l[Len(l)] \in S
  BY <1>1
<1>4. /\ SubSeq(l, 1, Len(l) - 1) \in Seq(S) /\ Len(SubSeq(l, 1, Len(l) - 1)) = Len(l) - 1
      /\ \A i \in 1..Len(l) - 1 : SubSeq(l, 1, Len(l) - 1)[i] = l[i]
  <2> DEFINE n == Len(l) - 1
  <2>1. n \in 0..Len(l) /\ n \in Nat
    BY <1>1
  <2> HIDE DEF n
  <2>2. /\ SubSeq(l, 1, n) \in Seq(S) /\ Len(SubSeq(l, 1, n)) = n
        /\ \A i \in 1..n : SubSeq(l, 1, n)[i] = l[i]
    BY <2>1
  <2> QED
    BY <2>2 DEF n
<1> QED
  BY <1>1, <1>2, <1>3, <1>4

LEMMA AppendIs ==
  ASSUME NEW S, NEW l \in Seq(S), NEW x \in S
  PROVE  /\ Append(l, x) \in Seq(S) /\ Len(Append(l, x)) = Len(l) + 1
         /\ \A i \in 1..Len(l) : Append(l, x)[i] = l[i]
         /\ Append(l, x)[Len(l) + 1] = x /\ Last(Append(l, x)) = x
         /\ Append(l, x) # <<>> /\ Front(Append(l, x)) = l
         /\ Len(l) \in Nat
BY DEF Front, Last

LEMMA SubSeqIs ==
  ASSUME NEW S, NEW l \in Seq(S), NEW n \in 0..Len(l)
  PROVE  /\ SubSeq(l, 1, n) \in Seq(S) /\ Len(SubSeq(l, 1, n)) = n
         /\ \A i \in 1..n : SubSeq(l, 1, n)[i] = l[i]
         /\ n >= 1 => Last(SubSeq(l, 1, n)) = l[n]
BY DEF Last

-----------------------------------------------------------------------------
(* Lemmas about frames and stacks *)

LEMMA SavedSame ==
  ASSUME NEW c, NEW d, NEW a, NEW b, NEW ci, NEW cj, NEW k \in Nat, k > 1,
         c[k] = d[k], c[k - 1] = d[k - 1], a[k] = b[k], a[k - 1] = b[k - 1],
         a[k].ci \in Nat, SameTo(ci, cj, a[k].ci), Saved(c, a, ci, k)
  PROVE  Saved(d, b, cj, k)
<1> DEFINE n == a[k].ci
<1>1. n \in Nat /\ n - 1 \in Int /\ n - 1 <= n
  OBVIOUS
<1>2. HandledBy(ci, n - 1) = HandledBy(cj, n - 1)
  BY <1>1, HandledSame
<1>3. n >= 1 => ci[n] = cj[n]
  BY <1>1 DEF SameTo
<1>4. n >= 1 => Pending(ci, n) = Pending(cj, n)
  BY <1>3 DEF Pending
<1> QED
  BY <1>2, <1>3, <1>4 DEF Saved, SavedOver

LEMMA BelowSame ==
  ASSUME NEW f, NEW A, NEW ci, NEW cj, A.ci \in Nat, SameTo(ci, cj, A.ci), Below(f, A, ci)
  PROVE  Below(f, A, cj)
<1>1. \A i \in 1..A.ci : ci[i] = cj[i] /\ Pending(ci, i) = Pending(cj, i)
  BY PendingSame DEF SameTo
<1> QED
  BY <1>1 DEF Below

LEMMA FrameSame ==
  ASSUME NEW c, NEW d, NEW a, NEW b, NEW ch, NEW cg, NEW ci, NEW cj, NEW k \in Nat, k >= 1,
         \A i \in 1..k : c[i] = d[i] /\ a[i] = b[i],
         a[k] \in Mark, a[k].link \in 1..Len(cg), ch[a[k].link] = cg[a[k].link],
         a[k].ci <= Len(cj), SameTo(ci, cj, a[k].ci),
         FrameRight(c, a, ch, ci, k)
  PROVE  FrameRight(d, b, cg, cj, k)
<1>1. c[k] = d[k] /\ a[k] = b[k]
  OBVIOUS
<1>2. k > 1 => c[k - 1] = d[k - 1] /\ a[k - 1] = b[k - 1]
  OBVIOUS
<1>3. a[k].ci \in Nat /\ a[k].jmp \in Nat
  BY DEF Mark
<1>4. Jumps(d, b, k)
  <2>1. a[k].jmp <= k
    BY DEF FrameRight, Jumps
  <2>2. a[k].jmp > 0 => a[k].jmp \in 1..k
    BY <1>3, <2>1
  <2>3. \A n \in a[k].jmp + 1..k : n \in 1..k
    BY <1>3
  <2> QED
    BY <1>1, <2>2, <2>3 DEF FrameRight, Jumps
<1>5. {n \in 1..k : c[n].f \in {"call", "resume"}} = {n \in 1..k : d[n].f \in {"call", "resume"}}
  OBVIOUS
<1>6. Saved(d, b, cj, k)
  <2>1. CASE k > 1
    BY <1>1, <1>2, <1>3, <2>1, SavedSame DEF FrameRight
  <2>2. CASE k = 1
    BY <1>1, <2>2 DEF FrameRight, Saved, SavedOver
  <2> QED
    BY <2>1, <2>2
<1>7. Below(d[k].f, b[k], cj)
  BY <1>1, <1>3, BelowSame DEF FrameRight
<1>8. IF k = 1 THEN d[k].f = "host" /\ b[k] = Bottom
      ELSE <<d[k - 1].f, d[k].f>> \in Nesting /\ b[k] = MarkOf(d[k], k, b[k - 1], b[k].ci)
  BY SMTT(30), <1>1, <1>2 DEF FrameRight
<1> QED
  BY <1>1, <1>4, <1>5, <1>6, <1>7, <1>8 DEF FrameRight

LEMMA OwnsSame ==
  ASSUME NEW f, NEW A, NEW ci, NEW cj, NEW u \in Nat, A \in Mark, A.ci <= u,
         SameTo(ci, cj, u), Owns(f, A, ci, u)
  PROVE  Owns(f, A, cj, u)
<1>1. A.ci \in Nat /\ \A i \in 1..u : ci[i] = cj[i] /\ Pending(ci, i) = Pending(cj, i)
  BY PendingSame DEF SameTo, Mark
<1>2. \A i \in A.ci + 1..u : i \in 1..u
  BY <1>1
<1>3. A.ci < u => A.ci + 1 \in 1..u /\ \A i \in 1..A.ci + 1 : i \in 1..u
  BY <1>1
<1>4. u = A.ci + 1 => u \in 1..u
  BY <1>1
<1>5. f = "execute" =>
        /\ A.ci < u
        /\ cj[A.ci + 1].fresh
        /\ \A i \in A.ci + 1..u : IsLua(cj[i].fn) /\ (i > A.ci + 1 => ~cj[i].fresh)
        /\ A.nny = 0 => \A i \in A.ci + 1..u : cj[i].fn # "handler"
        /\ A.nny > 0 /\ A.link > 1 => \E i \in 1..A.ci + 1 : cj[i].fn \in {"sort", "handler"}
  BY <1>1, <1>2, <1>3 DEF Owns
<1>6. f = "cfunc" => u = A.ci + 1 /\ ~IsLua(cj[u].fn)
  BY <1>1, <1>4 DEF Owns
<1> QED
  BY <1>1, <1>5, <1>6 DEF Owns
LEMMA MachineIs ==
  ASSUME NEW s \in Machine
  PROVE  /\ s.th \in [Threads -> Thread] /\ s.c \in Seq(Frame) /\ s.do \in Dos /\ s.status \in Statuses
         /\ \A t \in Threads : s.th[t] \in Thread
         /\ s = [th |-> s.th, c |-> s.c, do |-> s.do, status |-> s.status]
BY DEF Machine

LEMMA ThreadIs ==
  ASSUME NEW t \in Thread
  PROVE  /\ t.ci \in Seq(CIs) /\ Len(t.ci) \in Nat /\ t.status \in Statuses /\ t.nny \in Nat
         /\ t.nCcalls \in Int /\ t.errorJmp \in Nat /\ t.errfunc \in {0, 1} /\ t.body \in BOOLEAN
BY DEF Thread

LEMMA MarkIs ==
  ASSUME NEW A \in Mark
  PROVE  /\ A.ci \in Nat /\ A.nny \in Nat /\ A.depth \in Nat /\ A.jmp \in Nat /\ A.pcall \in Nat
         /\ A.link \in Nat
BY DEF Mark

\* What a stack says of each of its frames.
LEMMA StackIs ==
  ASSUME NEW s \in Machine, NEW ch, NEW a, StackRight(s, ch, a)
  PROVE  LET N == Len(s.c) IN
         /\ N \in Nat /\ N >= 1 /\ Len(a) = N /\ Last(a) = a[N] /\ Last(s.c) = s.c[N]
         /\ Len(ch) \in Nat /\ Len(ch) >= 1
         /\ ch \in Seq(Threads) /\ a[N].link = Len(ch)
         /\ Last(s.c).L = ch[Len(ch)] /\ Last(s.c).L \in Threads /\ Cur(s) \in Thread
         /\ \A k \in 1..N : /\ a[k] \in Mark /\ s.c[k] \in Frame /\ s.c[k].L \in Threads
                            /\ s.th[s.c[k].L] \in Thread
                            /\ a[k].link \in 1..Len(ch) /\ s.c[k].L = ch[a[k].link]
                            /\ (s.c[k].L = Last(s.c).L) = (a[k].link = Len(ch))
                            /\ a[k].ci <= Len(s.th[s.c[k].L].ci)
                            /\ s.c[k].L = Last(s.c).L => a[k].ci <= Last(a).ci
                            /\ k < N /\ s.c[k + 1].f = "resume" => s.c[k].L # Last(s.c).L
                            /\ k < N /\ s.c[k + 1].f # "resume" => s.c[k].L = s.c[k + 1].L
                            /\ k < N => s.c[k + 1].f # "host"
<1> DEFINE N == Len(s.c)
<1>1. s.c \in Seq(Frame) /\ s.c # <<>> /\ a \in Seq(Mark) /\ Len(a) = N
  BY MachineIs DEF StackRight
<1>2. N \in Nat /\ N >= 1 /\ Last(a) = a[N] /\ Last(s.c) = s.c[N]
  BY <1>1 DEF Last
<1>3. ch \in Seq(Threads) /\ Len(ch) \in Nat /\ Len(ch) >= 1 /\ a[N].link = Len(ch)
      /\ \A i, j \in 1..Len(ch) : ch[i] = ch[j] => i = j
  BY <1>2 DEF StackRight, Linked
<1>4. ASSUME NEW k \in 1..N
      PROVE  /\ a[k] \in Mark /\ s.c[k] \in Frame /\ s.c[k].L \in Threads
             /\ s.th[s.c[k].L] \in Thread
             /\ FrameRight(s.c, a, ch, s.th[s.c[k].L].ci, k)
  <2>1. a[k] \in Mark /\ s.c[k] \in Frame
    BY <1>1
  <2> QED
    BY <2>1, MachineIs DEF StackRight, Frame
<1>5. ASSUME NEW k \in 1..N
      PROVE  /\ a[k].link \in 1..Len(ch) /\ s.c[k].L = ch[a[k].link]
             /\ a[k].ci <= Len(s.th[s.c[k].L].ci)
             /\ k < N => a[k + 1].link = IF s.c[k + 1].f = "resume" THEN a[k].link + 1 ELSE a[k].link
             /\ k < N => s.c[k + 1].f # "host"
  <2>1. a[k].link \in 1..Len(ch) /\ s.c[k].L = ch[a[k].link] /\ a[k].ci <= Len(s.th[s.c[k].L].ci)
    BY <1>4 DEF FrameRight
  <2>2. ASSUME k < N
        PROVE  a[k + 1].link = IF s.c[k + 1].f = "resume" THEN a[k].link + 1 ELSE a[k].link
    <3>1. k + 1 \in 1..N /\ k + 1 # 1 /\ (k + 1) - 1 = k
      BY <1>2, <2>2
    <3>2. a[k + 1] = MarkOf(s.c[k + 1], k + 1, a[k], a[k + 1].ci)
      BY <1>4, <3>1 DEF FrameRight
    <3> QED
      BY <3>2 DEF MarkOf
  <2>3. ASSUME k < N PROVE s.c[k + 1].f # "host"
    <3>1. k + 1 \in 1..N /\ k + 1 # 1 /\ (k + 1) - 1 = k
      BY <1>2, <2>3
    <3>2. <<s.c[k].f, s.c[k + 1].f>> \in Nesting
      BY <1>4, <3>1 DEF FrameRight
    <3> QED
      BY <3>2 DEF Nesting
  <2> QED
    BY <2>1, <2>2, <2>3
<1>6. N \in 1..N
  BY <1>2
<1>7. Last(s.c).L = ch[Len(ch)]
  BY <1>2, <1>3, <1>5, <1>6
<1>8. Last(s.c).L \in Threads /\ Cur(s) \in Thread
  BY <1>2, <1>4, <1>6 DEF Cur
<1>9. ASSUME NEW k \in 1..N
      PROVE  /\ (s.c[k].L = Last(s.c).L) = (a[k].link = Len(ch))
             /\ s.c[k].L = Last(s.c).L => a[k].ci <= Last(a).ci
             /\ k < N /\ s.c[k + 1].f = "resume" => s.c[k].L # Last(s.c).L
             /\ k < N /\ s.c[k + 1].f # "resume" => s.c[k].L = s.c[k + 1].L
  <2>1. (s.c[k].L = Last(s.c).L) = (a[k].link = Len(ch))
    BY <1>3, <1>5, <1>7
  <2>2. s.c[k].L = Last(s.c).L => a[k].ci <= Last(a).ci
    <3>1. N \in 1..Len(a) /\ k \in 1..Len(a) /\ k <= N
      BY <1>1, <1>6
    <3>2. a[k].link = a[N].link => a[k].ci <= a[N].ci
      BY <3>1 DEF StackRight, Ordered
    <3> QED
      BY <1>2, <1>3, <2>1, <3>2
  <2>3. k < N => k + 1 \in 1..N
    BY <1>2
  <2>4. k < N /\ s.c[k + 1].f = "resume" => s.c[k].L # Last(s.c).L
    <3>1. k < N /\ s.c[k + 1].f = "resume" => a[k + 1].link = a[k].link + 1 /\ a[k + 1].link \in 1..Len(ch)
      BY <1>5, <2>3
    <3>2. a[k].link \in 1..Len(ch)
      BY <1>5
    <3> QED
      BY <1>3, <2>1, <3>1, <3>2
  <2>5. k < N /\ s.c[k + 1].f # "resume" => s.c[k].L = s.c[k + 1].L
    BY <1>5, <2>3
  <2> QED
    BY <2>1, <2>2, <2>4, <2>5
<1> QED
  BY <1>1, <1>2, <1>3, <1>4, <1>5, <1>7, <1>8, <1>9

LEMMA StackEnds ==
  ASSUME NEW s \in Machine, NEW ch, NEW a, StackRight(s, ch, a)
  PROVE  /\ Len(s.c) \in Nat /\ Len(s.c) >= 1 /\ Len(a) = Len(s.c)
         /\ Last(a) = a[Len(s.c)] /\ Last(s.c) = s.c[Len(s.c)]
         /\ Len(ch) \in Nat /\ Len(ch) >= 1 /\ ch \in Seq(Threads) /\ a[Len(s.c)].link = Len(ch)
         /\ Last(s.c).L = ch[Len(ch)] /\ Last(s.c).L \in Threads /\ Cur(s) \in Thread
         /\ Linked(ch) /\ a \in Seq(Mark) /\ s.c \in Seq(Frame) /\ Last(a) \in Mark
<1>1. Linked(ch) /\ a \in Seq(Mark) /\ s.c \in Seq(Frame)
  BY MachineIs DEF StackRight
<1>2. Len(s.c) \in 1..Len(s.c)
  BY StackIs
<1>3. Last(a) \in Mark
  BY <1>2, StackIs
<1> QED
  BY <1>1, <1>3, StackIs

LEMMA StackAt ==
  ASSUME NEW s \in Machine, NEW ch, NEW a, StackRight(s, ch, a), NEW k \in 1..Len(s.c)
  PROVE  /\ a[k] \in Mark /\ s.c[k] \in Frame /\ s.c[k].L \in Threads
         /\ s.th[s.c[k].L] \in Thread
         /\ a[k].link \in 1..Len(ch) /\ s.c[k].L = ch[a[k].link]
         /\ (s.c[k].L = Last(s.c).L) = (a[k].link = Len(ch))
         /\ a[k].ci <= Len(s.th[s.c[k].L].ci)
         /\ s.c[k].L = Last(s.c).L => a[k].ci <= Last(a).ci
         /\ k < Len(s.c) /\ s.c[k + 1].f = "resume" => s.c[k].L # Last(s.c).L
         /\ k < Len(s.c) /\ s.c[k + 1].f # "resume" => s.c[k].L = s.c[k + 1].L
         /\ k < Len(s.c) => s.c[k + 1].f # "host"
BY StackIs

\* The thread at the top goes on: what is below its last frame stays.
LEMMA StackTop ==
  ASSUME NEW s \in Machine, NEW r \in Machine, NEW ch, NEW a, StackRight(s, ch, a),
         r.c = s.c,
         \A u \in Threads \ {Last(s.c).L} : r.th[u] = s.th[u],
         Last(a).ci <= Len(Cur(r).ci), SameTo(Cur(s).ci, Cur(r).ci, Last(a).ci)
  PROVE  StackRight(r, ch, a)
<1> DEFINE N == Len(s.c)
           t == Last(s.c).L
<1>1. /\ N \in Nat /\ Len(a) = N /\ Last(s.c) = s.c[N] /\ t \in Threads
      /\ \A k \in 1..N : /\ a[k] \in Mark /\ s.c[k].L \in Threads /\ s.th[s.c[k].L] \in Thread
                         /\ a[k].link \in 1..Len(ch)
                         /\ a[k].ci <= Len(s.th[s.c[k].L].ci)
                         /\ s.c[k].L = t => a[k].ci <= Last(a).ci
                         /\ k < N /\ s.c[k + 1].f = "resume" => s.c[k].L # t
                         /\ k < N /\ s.c[k + 1].f # "resume" => s.c[k].L = s.c[k + 1].L
  BY StackIs
<1>2. Last(a) \in Mark
  BY StackIs
<1>3. Cur(r) = r.th[t] /\ Cur(s) = s.th[t] /\ Cur(r) \in Thread
  BY Zenon, <1>1, MachineIs DEF Cur
<1>4. ASSUME NEW k \in 1..N, NEW n \in Nat, n <= Len(s.th[s.c[k].L].ci), s.c[k].L = t => n <= Last(a).ci
      PROVE  SameTo(s.th[s.c[k].L].ci, r.th[s.c[k].L].ci, n) /\ n <= Len(r.th[s.c[k].L].ci)
  <2>1. CASE s.c[k].L = t
    <3>1. n <= Last(a).ci /\ Last(a).ci \in Nat /\ Len(Cur(r).ci) \in Nat
      BY <1>2, <1>3, <1>4, <2>1, MarkIs, ThreadIs
    <3> QED
      BY <1>3, <2>1, <3>1 DEF SameTo
  <2>2. CASE s.c[k].L # t
    BY <1>1, <1>4, <2>2 DEF SameTo
  <2> QED
    BY <2>1, <2>2
<1>5. ASSUME NEW k \in 1..N
      PROVE  FrameRight(r.c, a, ch, r.th[r.c[k].L].ci, k)
  <2>1. FrameRight(s.c, a, ch, s.th[s.c[k].L].ci, k)
    BY <1>1 DEF StackRight
  <2>2. a[k].ci \in Nat /\ a[k] \in Mark /\ k \in Nat /\ k >= 1 /\ a[k].link \in 1..Len(ch)
    BY <1>1, MarkIs
  <2>3. SameTo(s.th[s.c[k].L].ci, r.th[s.c[k].L].ci, a[k].ci) /\ a[k].ci <= Len(r.th[s.c[k].L].ci)
    BY <1>1, <1>4, <2>2
  <2> QED
    BY <2>1, <2>2, <2>3, FrameSame
<1>6. ASSUME NEW k \in 1..N - 1
      PROVE  /\ Owns(r.c[k].f, a[k], r.th[r.c[k].L].ci, Upper(r, a, k))
             /\ r.c[k + 1].f = "resume" => Waits(r.th[r.c[k].L], a[k])
  <2>1. k \in 1..N /\ k + 1 \in 1..N /\ k < N /\ k <= k + 1
    BY <1>1
  <2>2. /\ Owns(s.c[k].f, a[k], s.th[s.c[k].L].ci, Upper(s, a, k))
        /\ s.c[k + 1].f = "resume" => Waits(s.th[s.c[k].L], a[k])
    BY <1>1 DEF StackRight
  <2>3. CASE s.c[k + 1].f = "resume"
    <3>1. r.th[s.c[k].L] = s.th[s.c[k].L]
      BY <1>1, <2>1, <2>3
    <3> QED
      BY <2>2, <2>3, <3>1 DEF Upper
  <2>4. CASE s.c[k + 1].f # "resume"
    <3> DEFINE u == a[k + 1].ci
    <3>1. s.c[k].L = s.c[k + 1].L /\ u \in Nat /\ u <= Len(s.th[s.c[k].L].ci)
          /\ (s.c[k].L = t => u <= Last(a).ci) /\ Upper(s, a, k) = u /\ Upper(r, a, k) = u
      BY <1>1, <2>1, <2>4, MarkIs DEF Upper
    <3>2. a[k].ci <= u
      <4>1. a[k].link = a[k + 1].link
        <5>1. FrameRight(s.c, a, ch, s.th[s.c[k + 1].L].ci, k + 1) /\ k + 1 # 1 /\ (k + 1) - 1 = k
          BY <1>1, <2>1 DEF StackRight
        <5> QED
          BY <2>4, <5>1 DEF FrameRight, MarkOf
      <4> QED
        BY SMTT(30), <1>1, <2>1, <4>1 DEF StackRight, Ordered
    <3>3. SameTo(s.th[s.c[k].L].ci, r.th[s.c[k].L].ci, u)
      BY <1>4, <2>1, <3>1
    <3>4. Owns(s.c[k].f, a[k], r.th[s.c[k].L].ci, u)
      <4>1. Owns(s.c[k].f, a[k], s.th[s.c[k].L].ci, u) /\ a[k] \in Mark
        BY <1>1, <2>1, <2>2, <3>1
      <4> HIDE DEF u
      <4> QED
        BY ZenonT(30), <3>1, <3>2, <3>3, <4>1, OwnsSame
    <3> QED
      BY <2>4, <3>1, <3>4
  <2> QED
    BY <2>3, <2>4
<1> QED
  BY <1>1, <1>5, <1>6 DEF StackRight
\* Another frame x with mark A, in the thread at the top or in one that it resumes.
LEMMA StackGrows ==
  ASSUME NEW s \in Machine, NEW r \in Machine, NEW ch, NEW cg, NEW a, StackRight(s, ch, a),
         NEW x \in Frame, NEW A \in Mark, r.c = Append(s.c, x),
         \A k \in 1..Len(s.c) : r.th[s.c[k].L] = s.th[s.c[k].L],
         Linked(cg), Len(cg) = A.link, Len(ch) <= Len(cg), \A i \in 1..Len(ch) : cg[i] = ch[i],
         Last(a).depth <= A.depth, Last(a).link = A.link => Last(a).ci <= A.ci,
         FrameRight(r.c, Append(a, A), cg, r.th[x.L].ci, Len(s.c) + 1),
         Owns(TopF(s), Last(a), Cur(s).ci, IF x.f = "resume" THEN Len(Cur(s).ci) ELSE A.ci),
         x.f = "resume" => Waits(Cur(s), Last(a))
  PROVE  StackRight(r, cg, Append(a, A))
<1> DEFINE N == Len(s.c)
           b == Append(a, A)
<1>1. /\ N \in Nat /\ N >= 1 /\ Len(a) = N /\ Last(a) = a[N] /\ Last(s.c) = s.c[N]
      /\ Len(ch) \in Nat /\ a[N].link = Len(ch)
      /\ \A k \in 1..N : /\ a[k] \in Mark /\ s.c[k].L \in Threads /\ s.th[s.c[k].L] \in Thread
                         /\ a[k].link \in 1..Len(ch)
                         /\ a[k].ci <= Len(s.th[s.c[k].L].ci)
  BY StackIs
<1>2. s.c \in Seq(Frame) /\ a \in Seq(Mark)
  BY MachineIs DEF StackRight
<1>3. /\ b \in Seq(Mark) /\ Len(b) = N + 1 /\ b[N + 1] = A /\ Last(b) = A
      /\ \A k \in 1..N : b[k] = a[k]
  <2>1. /\ Append(a, A) \in Seq(Mark) /\ Len(Append(a, A)) = Len(a) + 1
        /\ \A k \in 1..Len(a) : Append(a, A)[k] = a[k]
        /\ Append(a, A)[Len(a) + 1] = A /\ Last(Append(a, A)) = A
    <3>1. a \in Seq(Mark) /\ A \in Mark
      BY <1>2
    <3> QED
      BY <3>1, AppendIs
  <2> QED
    BY <1>1, <2>1
<1>4. /\ Len(r.c) = N + 1 /\ r.c[N + 1] = x /\ r.c # <<>>
      /\ \A k \in 1..N : r.c[k] = s.c[k]
  <2> DEFINE l == s.c
  <2>1. l \in Seq(Frame) /\ x \in Frame
    BY <1>2
  <2> HIDE DEF l
  <2>2. /\ Len(Append(l, x)) = Len(l) + 1 /\ \A k \in 1..Len(l) : Append(l, x)[k] = l[k]
        /\ Append(l, x)[Len(l) + 1] = x /\ Append(l, x) # <<>>
    BY <2>1, AppendIs
  <2> QED
    BY <1>1, <2>2 DEF l
<1>5. N \in 1..N
  BY <1>1
<1>6. ASSUME NEW k \in 1..N
      PROVE  FrameRight(r.c, b, cg, r.th[r.c[k].L].ci, k)
  <2>1. FrameRight(s.c, a, ch, s.th[s.c[k].L].ci, k)
    BY <1>1 DEF StackRight
  <2>2. a[k].ci \in Nat /\ a[k] \in Mark /\ k \in Nat /\ k >= 1 /\ k <= N /\ a[k].link \in 1..Len(ch)
    BY <1>1, MarkIs
  <2>3. SameTo(s.th[s.c[k].L].ci, r.th[s.c[k].L].ci, a[k].ci) /\ a[k].ci <= Len(r.th[s.c[k].L].ci)
    BY <1>1 DEF SameTo
  <2>4. \A i \in 1..k : i \in 1..N
    BY <1>1, <2>2
  <2>5. \A i \in 1..k : s.c[i] = r.c[i] /\ a[i] = b[i]
    BY <1>3, <1>4, <2>4
  <2>6. Len(cg) \in Nat
    BY MarkIs
  <2>7. a[k].link \in 1..Len(cg) /\ ch[a[k].link] = cg[a[k].link]
    BY <1>1, <2>2, <2>6
  <2>8. r.c[k].L = s.c[k].L
    BY <1>4
  <2> HIDE DEF b, N
  <2> DEFINE ci == s.th[s.c[k].L].ci
             cj == r.th[s.c[k].L].ci
             c == s.c
             d == r.c
  <2>9. /\ FrameRight(c, a, ch, ci, k) /\ SameTo(ci, cj, a[k].ci) /\ a[k].ci <= Len(cj)
        /\ \A i \in 1..k : c[i] = d[i] /\ a[i] = b[i]
    BY Zenon, <2>1, <2>3, <2>5
  <2> HIDE DEF ci, cj, c, d
  <2>10. FrameRight(d, b, cg, cj, k)
    BY <2>2, <2>7, <2>9, FrameSame
  <2> QED
    BY <2>8, <2>10 DEF d, cj
<1>7. \A k \in 1..N + 1 : k \in 1..N \/ k = N + 1
  BY <1>1
<1>8. \A k \in 1..N + 1 : FrameRight(r.c, b, cg, r.th[r.c[k].L].ci, k)
  BY <1>4, <1>6, <1>7
<1>9. ASSUME NEW k \in 1..N
      PROVE  /\ Owns(r.c[k].f, b[k], r.th[r.c[k].L].ci, Upper(r, b, k))
             /\ r.c[k + 1].f = "resume" => Waits(r.th[r.c[k].L], b[k])
  <2>1. CASE k = N
    <3>1. Upper(r, b, k) = IF x.f = "resume" THEN Len(Cur(s).ci) ELSE A.ci
      BY Zenon, <1>1, <1>3, <1>4, <1>5, <2>1 DEF Upper, Cur
    <3>2. r.c[k].f = TopF(s) /\ b[k] = Last(a) /\ r.th[r.c[k].L] = Cur(s) /\ r.c[k + 1] = x
      BY Zenon, <1>1, <1>3, <1>4, <1>5, <2>1 DEF TopF, Cur
    <3> QED
      BY <3>1, <3>2
  <2>2. CASE k # N
    <3>1. k \in 1..N - 1 /\ k + 1 \in 1..N
      BY <1>1, <2>2
    <3>2. /\ Owns(s.c[k].f, a[k], s.th[s.c[k].L].ci, Upper(s, a, k))
          /\ s.c[k + 1].f = "resume" => Waits(s.th[s.c[k].L], a[k])
      BY <1>1, <3>1 DEF StackRight
    <3>3. r.c[k] = s.c[k] /\ r.c[k + 1] = s.c[k + 1] /\ b[k] = a[k] /\ b[k + 1] = a[k + 1]
          /\ r.th[s.c[k].L] = s.th[s.c[k].L]
      BY <1>3, <1>4, <3>1
    <3>4. Upper(r, b, k) = Upper(s, a, k)
      BY <3>3 DEF Upper
    <3> QED
      BY <3>2, <3>3, <3>4
  <2> QED
    BY <2>1, <2>2
<1>10. Ordered(b)
  <2>1. ASSUME NEW k \in 1..N + 1, NEW n \in 1..N + 1, k <= n
        PROVE  /\ b[k].link <= b[n].link /\ b[k].depth <= b[n].depth
               /\ b[k].link = b[n].link => b[k].ci <= b[n].ci
    <3>1. CASE n \in 1..N
      <4>1. k \in 1..N
        BY <1>1, <2>1, <3>1
      <4> QED
        BY <1>1, <1>3, <2>1, <3>1, <4>1 DEF StackRight, Ordered
    <3>2. CASE n = N + 1 /\ k \in 1..N
      <4>1. /\ a[k].link <= a[N].link /\ a[k].depth <= a[N].depth
            /\ a[k].link = a[N].link => a[k].ci <= a[N].ci
        BY SMTT(30), <1>1, <1>5, <3>2 DEF StackRight, Ordered
      <4>2. b[k] = a[k] /\ b[n] = A /\ a[k] \in Mark /\ a[N] \in Mark /\ a[N] = Last(a)
        BY <1>1, <1>3, <1>5, <3>2
      <4>3. /\ A.link \in Nat /\ A.depth \in Nat /\ A.ci \in Nat
            /\ a[k].link \in Nat /\ a[k].depth \in Nat /\ a[k].ci \in Nat
            /\ a[N].link \in Nat /\ a[N].depth \in Nat /\ a[N].ci \in Nat
        BY <4>2, MarkIs
      <4>4. a[N].link <= A.link /\ a[N].depth <= A.depth
        BY <1>1, <4>2
      <4>5. a[N].link = A.link => a[N].ci <= A.ci
        BY <4>2
      <4> HIDE DEF N
      <4>6. a[k].link <= A.link
        BY SMTT(30), <4>1, <4>3, <4>4
      <4>7. a[k].depth <= A.depth
        BY SMTT(30), <4>1, <4>3, <4>4
      <4>8. ASSUME a[k].link = A.link PROVE a[k].ci <= A.ci
        <5>1. a[k].link = a[N].link /\ a[N].link = A.link
          BY <4>1, <4>3, <4>4, <4>8
        <5> QED
          BY <4>1, <4>3, <4>5, <5>1
      <4> QED
        BY <4>2, <4>6, <4>7, <4>8
    <3>3. CASE n = N + 1 /\ k = N + 1
      BY <1>3, <3>3, MarkIs
    <3> QED
      BY <1>7, <3>1, <3>2, <3>3
  <2> QED
    BY <1>3, <2>1 DEF Ordered
<1>11. N + 1 - 1 = N
  BY <1>1
<1>12. b \in Seq(Mark) /\ Len(b) = Len(r.c) /\ r.c # <<>> /\ Linked(cg) /\ Last(b).link = Len(cg)
  BY <1>3, <1>4
<1>13. \A k \in 1..Len(b) : FrameRight(r.c, b, cg, r.th[r.c[k].L].ci, k)
  BY <1>3, <1>8
<1>14. \A k \in 1..Len(b) - 1 :
         /\ Owns(r.c[k].f, b[k], r.th[r.c[k].L].ci, Upper(r, b, k))
         /\ r.c[k + 1].f = "resume" => Waits(r.th[r.c[k].L], b[k])
  BY <1>3, <1>9, <1>11
<1> QED
  BY Zenon, <1>10, <1>12, <1>13, <1>14 DEF StackRight

LEMMA MarkOfIs ==
  ASSUME NEW x, NEW k \in Nat, NEW B \in Mark, NEW n \in Nat
  PROVE  MarkOf(x, k + 1, B, n) \in Mark
<1>1. /\ B.ci \in Nat /\ B.nny \in Nat /\ B.depth \in Nat /\ B.jmp \in Nat /\ B.pcall \in Nat
      /\ B.link \in Nat
  BY MarkIs
<1>2. B.nny + 1 \in Nat /\ B.depth + 1 \in Nat /\ B.link + 1 \in Nat /\ k + 1 \in Nat
  BY <1>1
<1>3. CASE x.f = "resume"
  BY <1>1, <1>2, <1>3 DEF MarkOf, Mark
<1>4. CASE x.f # "resume"
  BY <1>1, <1>2, <1>4 DEF MarkOf, Mark
<1> QED
  BY <1>3, <1>4

\* A frame x with mark A over a stack, with n of the calls ci below it.
Pushed(s, ch, cg, a, x, n, ci, c, A, b) ==
  /\ s \in Machine /\ StackRight(s, ch, a) /\ x \in Frame /\ n \in Nat
  /\ c = Append(s.c, x) /\ A = MarkOf(x, Len(s.c) + 1, Last(a), n) /\ b = Append(a, A)
  /\ <<TopF(s), x.f>> \in Nesting
  /\ A.link \in 1..Len(cg) /\ x.L = cg[A.link] /\ A.ci <= Len(ci)
  /\ Saved(c, b, ci, Len(s.c) + 1) /\ Below(x.f, A, ci)

\* The parts of a new frame that are right by the frame under it.
LEMMA FramePush ==
  ASSUME NEW s, NEW ch, NEW cg, NEW a, NEW x, NEW n, NEW ci, NEW c, NEW A, NEW b,
         Pushed(s, ch, cg, a, x, n, ci, c, A, b)
  PROVE  /\ A \in Mark /\ FrameRight(c, b, cg, ci, Len(s.c) + 1)
         /\ Last(a).depth <= A.depth
<1> USE DEF Pushed
<1> DEFINE N == Len(s.c)
           B == Last(a)
<1>1. /\ N \in Nat /\ N >= 1 /\ Len(a) = N /\ B = a[N] /\ Last(s.c) = s.c[N] /\ B \in Mark
      /\ \A k \in 1..N : a[k] \in Mark
  BY StackIs
<1>2. s.c \in Seq(Frame) /\ a \in Seq(Mark)
  BY MachineIs DEF StackRight
<1>3. /\ B.ci \in Nat /\ B.nny \in Nat /\ B.depth \in Nat /\ B.jmp \in Nat /\ B.pcall \in Nat
      /\ B.link \in Nat
  BY <1>1, MarkIs
<1>4. A \in Mark
  BY <1>1, MarkOfIs
<1>5. /\ b[N + 1] = A /\ \A k \in 1..N : b[k] = a[k]
  BY <1>1, <1>2, <1>4, AppendIs
<1>6. /\ c[N + 1] = x /\ \A k \in 1..N : c[k] = s.c[k]
  BY <1>1, <1>2, AppendIs
<1>7. N \in 1..N /\ c[N] = Last(s.c) /\ b[N] = B
  BY <1>1, <1>5, <1>6
<1>8. FrameRight(s.c, a, ch, s.th[s.c[N].L].ci, N)
  BY <1>1, <1>7 DEF StackRight
<1>9. /\ B.jmp <= N
      /\ B.jmp > 0 => s.c[B.jmp].f = "try"
      /\ TopF(s) # "resume" => \A k \in B.jmp + 1..N : s.c[k].f # "try"
      /\ TopF(s) \notin {"host", "dpcall", "resume"} =>
           LET j == a[B.jmp] IN
           /\ B.jmp > 0
           /\ j.link = B.link /\ j.pcall = B.pcall /\ j.nny <= B.nny
  BY Zenon, <1>1, <1>8 DEF FrameRight, Jumps, TopF
<1>10. Jumps(c, b, N + 1)
  <2>1. CASE x.f = "resume"
    <3>1. A.jmp = 0
      BY <2>1 DEF MarkOf
    <3> QED
      BY <1>1, <1>5, <1>6, <2>1, <3>1 DEF Jumps
  <2>2. CASE x.f = "try"
    <3>1. A.jmp = N + 1 /\ b[A.jmp] = A /\ A.nny \in Nat
      BY <1>4, <1>5, <2>2, MarkIs DEF MarkOf
    <3>2. \A k \in (N + 1) + 1..N + 1 : FALSE
      BY <1>1
    <3>3. N + 1 > 0 /\ N + 1 <= N + 1
      BY <1>1
    <3> HIDE DEF N
    <3>4. A.link = A.link /\ A.pcall = A.pcall /\ A.nny <= A.nny
      BY <3>1
    <3> QED
      BY <1>5, <1>6, <2>2, <3>1, <3>2, <3>3, <3>4 DEF Jumps
  <2>3. CASE x.f \notin {"resume", "try"}
    <3>1. TopF(s) # "resume"
      BY <2>3 DEF Nesting
    <3>2. A.jmp = B.jmp /\ A.jmp <= N + 1
      <4>1. A = MarkOf(x, N + 1, B, n)
        OBVIOUS
      <4>2. A.jmp = B.jmp
        BY <2>3, <4>1 DEF MarkOf
      <4> QED
        BY <1>1, <1>3, <1>9, <4>2
    <3>3. A.jmp > 0 => A.jmp \in 1..N
      BY <1>1, <1>3, <1>9, <3>2
    <3>4. A.jmp > 0 => c[A.jmp].f = "try" /\ b[A.jmp] = a[B.jmp]
      BY <1>5, <1>6, <1>9, <3>2, <3>3
    <3>5. ASSUME NEW k \in A.jmp + 1..N + 1 PROVE c[k].f # "try"
      <4>1. CASE k = N + 1
        BY <1>6, <2>3, <4>1
      <4>2. CASE k # N + 1
        <5>1. k \in B.jmp + 1..N /\ k \in 1..N
          <6>1. k \in Int /\ k >= B.jmp + 1 /\ k <= N + 1 /\ k # N + 1
            BY <1>1, <1>3, <3>2, <4>2
          <6> HIDE DEF N, B
          <6>2. k <= N /\ k >= 1
            BY <1>1, <1>3, <6>1
          <6> QED
            BY <1>1, <1>3, <6>1, <6>2
        <5> QED
          BY <1>6, <1>9, <3>1, <5>1
      <4> QED
        BY <4>1, <4>2
    <3>6. ASSUME x.f \notin {"host", "dpcall", "resume"}
          PROVE  LET j == b[A.jmp] IN
                 /\ A.jmp > 0
                 /\ j.link = A.link /\ j.pcall = A.pcall /\ j.nny <= A.nny
      <4>1. TopF(s) \notin {"host", "dpcall", "resume"}
        BY <2>3, <3>6 DEF Nesting
      <4>2. B.jmp > 0 /\ B.jmp \in 1..N
        BY <1>1, <1>3, <1>9, <4>1
      <4>3. LET j == a[B.jmp] IN j.link = B.link /\ j.pcall = B.pcall /\ j.nny <= B.nny
        BY <1>9, <4>1
      <4>4. a[B.jmp].nny \in Nat
        BY <1>1, <4>2, MarkIs
      <4>5. A.link = B.link /\ A.pcall = B.pcall /\ (A.nny = B.nny \/ A.nny = B.nny + 1)
        BY <2>3, <3>6 DEF MarkOf
      <4>6. A.jmp > 0 /\ b[A.jmp] = a[B.jmp]
        BY <3>2, <3>4, <4>2
      <4>7. a[B.jmp].nny <= A.nny
        BY SMTT(30), <1>3, <4>3, <4>4, <4>5
      <4> QED
        BY <4>3, <4>5, <4>6, <4>7
    <3> HIDE DEF N
    <3> QED
      BY <1>5, <1>6, <3>2, <3>4, <3>5, <3>6 DEF Jumps
  <2> QED
    BY <2>1, <2>2, <2>3
<1>11. A.depth = Cardinality({k \in 1..N + 1 : c[k].f \in {"call", "resume"}})
  <2> DEFINE X == {k \in 1..N : s.c[k].f \in {"call", "resume"}}
             Y == {k \in 1..N + 1 : c[k].f \in {"call", "resume"}}
  <2>1. B.depth = Cardinality(X)
    BY Zenon, <1>1, <1>8 DEF FrameRight
  <2>2. IsFiniteSet(X)
    <3>1. IsFiniteSet(1..N)
      BY <1>1, FS_Interval
    <3> QED
      BY <3>1, FS_Subset
  <2>3. \A k \in 1..N + 1 : k \in 1..N \/ k = N + 1
    BY <1>1
  <2>4. \A k \in 1..N : k \in 1..N + 1
    BY <1>1
  <2>5. N + 1 \notin X /\ N + 1 \in 1..N + 1
    BY <1>1
  <2>6. CASE x.f \in {"call", "resume"}
    <3>1. Y = X \cup {N + 1}
      BY <1>6, <2>3, <2>4, <2>5, <2>6
    <3>2. Cardinality(Y) = Cardinality(X) + 1
      BY <2>2, <2>5, <3>1, FS_AddElement
    <3>3. A.depth = B.depth + 1
      BY <2>6 DEF MarkOf
    <3> QED
      BY <2>1, <3>2, <3>3
  <2>7. CASE x.f \notin {"call", "resume"}
    <3>1. Y = X
      BY <1>6, <2>3, <2>4, <2>5, <2>7
    <3>2. A.depth = B.depth
      BY <2>7 DEF MarkOf
    <3> QED
      BY <2>1, <3>1, <3>2
  <2> QED
    BY <2>6, <2>7
<1>12. B.depth <= A.depth
  BY <1>3 DEF MarkOf
<1>13. N + 1 # 1 /\ (N + 1) - 1 = N
  BY <1>1
<1>14. A = MarkOf(x, N + 1, B, A.ci)
  BY DEF MarkOf
<1>15. <<c[N].f, x.f>> \in Nesting
  BY <1>7 DEF TopF
<1> QED
  BY <1>4, <1>5, <1>6, <1>7, <1>10, <1>11, <1>12, <1>13, <1>14, <1>15 DEF FrameRight
\* The stack up to its n-th frame, where control goes back.
LEMMA StackShrinks ==
  ASSUME NEW s \in Machine, NEW r \in Machine, NEW ch, NEW a, StackRight(s, ch, a),
         NEW n \in 1..Len(s.c), r.c = SubSeq(s.c, 1, n),
         \A k \in 1..n : r.th[s.c[k].L] = s.th[s.c[k].L]
  PROVE  StackRight(r, SubSeq(ch, 1, a[n].link), SubSeq(a, 1, n))
<1> DEFINE N == Len(s.c)
           b == SubSeq(a, 1, n)
           l == a[n].link
           cg == SubSeq(ch, 1, l)
<1>1. /\ N \in Nat /\ N >= 1 /\ Len(a) = N
      /\ Len(ch) \in Nat /\ ch \in Seq(Threads)
      /\ \A k \in 1..N : /\ a[k] \in Mark /\ s.c[k].L \in Threads /\ s.th[s.c[k].L] \in Thread
                         /\ a[k].link \in 1..Len(ch)
                         /\ a[k].ci <= Len(s.th[s.c[k].L].ci)
  BY StackIs
<1>2. s.c \in Seq(Frame) /\ a \in Seq(Mark)
  BY MachineIs DEF StackRight
<1>3. n \in Nat /\ n >= 1 /\ n <= N /\ \A k \in 1..n : k \in 1..N
  BY <1>1
<1>4. /\ b \in Seq(Mark) /\ Len(b) = n /\ Last(b) = a[n]
      /\ \A k \in 1..n : b[k] = a[k]
  <2>1. n \in 0..Len(a) /\ n >= 1
    BY <1>1, <1>3
  <2>2. /\ SubSeq(a, 1, n) \in Seq(Mark) /\ Len(SubSeq(a, 1, n)) = n
        /\ \A i \in 1..n : SubSeq(a, 1, n)[i] = a[i]
        /\ n >= 1 => Last(SubSeq(a, 1, n)) = a[n]
    BY <1>2, <2>1, SubSeqIs
  <2> QED
    BY <2>1, <2>2
<1>5. Len(r.c) = n /\ r.c # <<>> /\ \A k \in 1..n : r.c[k] = s.c[k]
  <2> DEFINE c == s.c
  <2>1. c \in Seq(Frame) /\ n \in 0..Len(c) /\ n >= 1
    BY <1>2, <1>3
  <2> HIDE DEF c
  <2>2. SubSeq(c, 1, n) \in Seq(Frame) /\ Len(SubSeq(c, 1, n)) = n /\ \A i \in 1..n : SubSeq(c, 1, n)[i] = c[i]
    BY <2>1, SubSeqIs
  <2>3. SubSeq(c, 1, n) # <<>>
    BY <2>1, <2>2
  <2> QED
    BY <2>2, <2>3 DEF c
<1>6. l \in 1..Len(ch) /\ l \in Nat /\ l >= 1 /\ l <= Len(ch)
  BY <1>1, <1>3
<1>7. /\ cg \in Seq(Threads) /\ Len(cg) = l /\ \A i \in 1..l : cg[i] = ch[i] /\ i \in 1..Len(ch)
  <2>1. l \in 0..Len(ch)
    BY <1>1, <1>6
  <2> HIDE DEF l
  <2>2. SubSeq(ch, 1, l) \in Seq(Threads) /\ Len(SubSeq(ch, 1, l)) = l
        /\ \A i \in 1..l : SubSeq(ch, 1, l)[i] = ch[i]
    BY <1>1, <2>1, SubSeqIs
  <2> QED
    BY <1>1, <1>6, <2>2
<1>8. Linked(cg)
  <2>1. cg # <<>>
    BY <1>6, <1>7
  <2>2. cg[1] = ch[1] /\ ch[1] = Main
    BY <1>6, <1>7 DEF StackRight, Linked
  <2>3. \A i, j \in 1..Len(ch) : ch[i] = ch[j] => i = j
    BY DEF StackRight, Linked
  <2> HIDE DEF cg, l
  <2> QED
    BY <1>7, <2>1, <2>2, <2>3 DEF Linked
<1>9. ASSUME NEW k \in 1..n
      PROVE  FrameRight(r.c, b, cg, r.th[r.c[k].L].ci, k)
  <2>1. FrameRight(s.c, a, ch, s.th[s.c[k].L].ci, k)
    BY <1>1, <1>3 DEF StackRight
  <2>2. a[k].ci \in Nat /\ a[k] \in Mark /\ k \in Nat /\ k >= 1 /\ k <= n
        /\ a[k].link \in 1..Len(ch)
    BY <1>1, <1>3, MarkIs
  <2>3. SameTo(s.th[s.c[k].L].ci, r.th[s.c[k].L].ci, a[k].ci) /\ a[k].ci <= Len(r.th[s.c[k].L].ci)
    BY <1>1, <1>3 DEF SameTo
  <2>4. \A i \in 1..k : i \in 1..n
    BY <1>3, <2>2
  <2>5. \A i \in 1..k : s.c[i] = r.c[i] /\ a[i] = b[i]
    BY <1>4, <1>5, <2>4
  <2>6. a[k].link <= l
    BY <1>1, <1>3, <2>2 DEF StackRight, Ordered
  <2>7. a[k].link \in 1..Len(cg) /\ ch[a[k].link] = cg[a[k].link]
    <3>1. a[k].link \in 1..l
      BY <1>6, <2>2, <2>6
    <3> QED
      BY <1>7, <3>1
  <2>8. r.c[k].L = s.c[k].L
    BY <1>5
  <2> HIDE DEF b, N, cg, l
  <2> DEFINE ci == s.th[s.c[k].L].ci
             cj == r.th[s.c[k].L].ci
             c == s.c
             d == r.c
  <2>9. /\ FrameRight(c, a, ch, ci, k) /\ SameTo(ci, cj, a[k].ci) /\ a[k].ci <= Len(cj)
        /\ \A i \in 1..k : c[i] = d[i] /\ a[i] = b[i]
    BY <2>1, <2>3, <2>5
  <2> HIDE DEF ci, cj, c, d
  <2>10. FrameRight(d, b, cg, cj, k)
    BY <2>2, <2>7, <2>9, FrameSame
  <2> QED
    BY <2>8, <2>10 DEF d, cj
<1>10. ASSUME NEW k \in 1..n - 1
      PROVE  /\ Owns(r.c[k].f, b[k], r.th[r.c[k].L].ci, Upper(r, b, k))
             /\ r.c[k + 1].f = "resume" => Waits(r.th[r.c[k].L], b[k])
  <2>1. k \in 1..n /\ k + 1 \in 1..n /\ k \in 1..Len(a) - 1
    BY <1>1, <1>3
  <2>2. /\ Owns(s.c[k].f, a[k], s.th[s.c[k].L].ci, Upper(s, a, k))
        /\ s.c[k + 1].f = "resume" => Waits(s.th[s.c[k].L], a[k])
    BY <2>1 DEF StackRight
  <2>3. r.c[k] = s.c[k] /\ r.c[k + 1] = s.c[k + 1] /\ b[k] = a[k] /\ b[k + 1] = a[k + 1]
        /\ r.th[s.c[k].L] = s.th[s.c[k].L]
    BY <1>4, <1>5, <2>1
  <2>4. Upper(r, b, k) = Upper(s, a, k)
    BY <2>3 DEF Upper
  <2> QED
    BY <2>2, <2>3, <2>4
<1>11. Ordered(b)
  BY <1>1, <1>3, <1>4 DEF StackRight, Ordered
<1> HIDE DEF b, cg
<1> QED
  BY <1>4, <1>5, <1>7, <1>8, <1>9, <1>10, <1>11 DEF StackRight, b, cg

\* The last frame of a stack.
LEMMA TopIs ==
  ASSUME NEW s \in Machine, NEW ch, NEW a, StackRight(s, ch, a)
  PROVE  LET N == Len(s.c)
             A == Last(a)
         IN
         /\ A \in Mark /\ Cur(s) \in Thread /\ Last(s.c) \in Frame
         /\ A.ci <= Len(Cur(s).ci)
         /\ Jumps(s.c, a, N) /\ Saved(s.c, a, Cur(s).ci, N) /\ Below(TopF(s), A, Cur(s).ci)
         /\ A.depth = Cardinality({k \in 1..N : s.c[k].f \in {"call", "resume"}})
         /\ N = 1 => TopF(s) = "host" /\ A = Bottom
         /\ (TopF(s) = "host") = (N = 1)
         /\ N > 1 => <<s.c[N - 1].f, TopF(s)>> \in Nesting /\ A = MarkOf(Last(s.c), N, a[N - 1], A.ci)
<1> DEFINE N == Len(s.c)
<1>1. N \in Nat /\ N >= 1 /\ Len(a) = N /\ Last(a) = a[N] /\ Last(s.c) = s.c[N] /\ N \in 1..N
      /\ Last(a) \in Mark /\ Cur(s) \in Thread /\ Last(s.c) \in Frame
  BY StackIs
<1>2. FrameRight(s.c, a, ch, s.th[s.c[N].L].ci, N)
  BY <1>1 DEF StackRight
<1>3. /\ Last(a).ci <= Len(Cur(s).ci)
      /\ Jumps(s.c, a, N) /\ Saved(s.c, a, Cur(s).ci, N) /\ Below(TopF(s), Last(a), Cur(s).ci)
      /\ Last(a).depth = Cardinality({k \in 1..N : s.c[k].f \in {"call", "resume"}})
      /\ IF N = 1 THEN TopF(s) = "host" /\ Last(a) = Bottom
         ELSE <<s.c[N - 1].f, TopF(s)>> \in Nesting
              /\ Last(a) = MarkOf(Last(s.c), N, a[N - 1], Last(a).ci)
  BY Zenon, <1>1, <1>2 DEF FrameRight, Cur, TopF
<1>4. (TopF(s) = "host") = (N = 1)
  BY <1>3 DEF Nesting
<1> QED
  BY <1>1, <1>3, <1>4

\* The frame under the last one, when it works for the same thread and when it resumes another.
LEMMA UnderIs ==
  ASSUME NEW s \in Machine, NEW ch, NEW a, StackRight(s, ch, a), Len(s.c) > 1
  PROVE  LET N == Len(s.c)
             G == s.c[N - 1]
             B == a[N - 1]
             u == s.th[G.L]
         IN
         /\ N - 1 \in 1..N /\ G \in Frame /\ B \in Mark /\ u \in Thread
         /\ TopF(s) # "resume" =>
              /\ G.L = Last(s.c).L /\ B.link = Len(ch) /\ B.ci <= Last(a).ci
              /\ Owns(G.f, B, Cur(s).ci, Last(a).ci)
         /\ TopF(s) = "resume" =>
              /\ G.L # Last(s.c).L /\ B.link = Len(ch) - 1 /\ Len(ch) > 1
              /\ Owns(G.f, B, u.ci, Len(u.ci)) /\ Waits(u, B)
         /\ Below(G.f, B, u.ci) /\ B.ci <= Len(u.ci)
<1> DEFINE N == Len(s.c)
           G == s.c[N - 1]
           B == a[N - 1]
           u == s.th[G.L]
<1>1. N \in Nat /\ N > 1 /\ N - 1 \in 1..N /\ N - 1 \in 1..N - 1 /\ N - 1 < N /\ (N - 1) + 1 = N
  BY StackIs
<1>2. /\ Len(a) = N /\ Last(a) = a[N] /\ Last(s.c) = s.c[N] /\ a[N].link = Len(ch) /\ Len(ch) \in Nat
      /\ a[N - 1] \in Mark /\ G \in Frame /\ u \in Thread
      /\ a[N - 1].link \in 1..Len(ch) /\ B.ci <= Len(u.ci)
  <2>1. Len(a) = N /\ Last(a) = a[N] /\ Last(s.c) = s.c[N] /\ a[N].link = Len(ch) /\ Len(ch) \in Nat
    BY StackIs
  <2> DEFINE k == N - 1
  <2>2. k \in 1..Len(s.c)
    BY <1>1
  <2> HIDE DEF k
  <2>3. a[k] \in Mark /\ s.c[k] \in Frame /\ s.th[s.c[k].L] \in Thread
        /\ a[k].link \in 1..Len(ch) /\ a[k].ci <= Len(s.th[s.c[k].L].ci)
    BY <2>2, StackAt
  <2> QED
    BY <2>1, <2>3 DEF k
<1>3. /\ s.c[N].f = "resume" => G.L # Last(s.c).L
      /\ s.c[N].f # "resume" => G.L = s.c[N].L
      /\ (G.L = Last(s.c).L) = (B.link = Len(ch))
  <2> DEFINE k == N - 1
  <2>1. k \in 1..Len(s.c) /\ k < Len(s.c) /\ k + 1 = N
    BY <1>1
  <2> HIDE DEF k
  <2>2. /\ s.c[k + 1].f = "resume" => s.c[k].L # Last(s.c).L
        /\ s.c[k + 1].f # "resume" => s.c[k].L = s.c[k + 1].L
        /\ (s.c[k].L = Last(s.c).L) = (a[k].link = Len(ch))
    BY <2>1, StackAt
  <2> QED
    BY <2>1, <2>2 DEF k
<1>4. Owns(G.f, B, u.ci, Upper(s, a, N - 1)) /\ (s.c[N].f = "resume" => Waits(u, B))
  <2> DEFINE k == N - 1
  <2>1. k \in 1..Len(a) - 1 /\ k + 1 = N
    BY <1>1, <1>2
  <2> HIDE DEF k
  <2>2. /\ Owns(s.c[k].f, a[k], s.th[s.c[k].L].ci, Upper(s, a, k))
        /\ s.c[k + 1].f = "resume" => Waits(s.th[s.c[k].L], a[k])
    BY <2>1 DEF StackRight
  <2> QED
    BY <2>1, <2>2 DEF k
<1>5. Upper(s, a, N - 1) = IF s.c[N].f = "resume" THEN Len(u.ci) ELSE Last(a).ci
  BY <1>1, <1>2 DEF Upper
<1>6. Last(a) = MarkOf(Last(s.c), N, B, Last(a).ci)
  BY <1>1, TopIs
<1>7. s.c[N].f = "resume" => B.link = Len(ch) - 1 /\ Len(ch) > 1
  BY <1>2, <1>6 DEF MarkOf
<1>8. s.c[N].f # "resume" => B.ci <= Last(a).ci
  <2>1. s.c[N].f # "resume" => B.link = a[N].link
    BY <1>2, <1>6 DEF MarkOf
  <2>2. N - 1 \in 1..Len(a) /\ N \in 1..Len(a) /\ N - 1 <= N
    BY <1>1, <1>2
  <2> QED
    BY <1>2, <2>1, <2>2 DEF StackRight, Ordered
<1>9. Below(G.f, B, u.ci)
  <2>1. FrameRight(s.c, a, ch, u.ci, N - 1)
    BY <1>1, <1>2 DEF StackRight
  <2> QED
    BY Zenon, <2>1 DEF FrameRight
<1> QED
  BY Zenon, <1>1, <1>2, <1>3, <1>4, <1>5, <1>7, <1>8, <1>9 DEF TopF, Cur
-----------------------------------------------------------------------------
(* What the small steps do to the machine *)

FrameOf(f, t, n, p, e) == [f |-> f, L |-> t, n |-> n, p |-> p, e |-> e]

LEMMA FrameOfIs ==
  ASSUME NEW f \in FrameKinds, NEW t \in Threads, NEW n \in Int, NEW p \in Nat, NEW e \in {0, 1}
  PROVE  LET x == FrameOf(f, t, n, p, e)
         IN  x \in Frame /\ x.f = f /\ x.L = t /\ x.n = n /\ x.p = p /\ x.e = e
BY DEF Frame, FrameOf

LEMMA EnterIs ==
  ASSUME NEW s \in Machine, NEW f \in FrameKinds, NEW t \in Threads, NEW n \in Int, NEW p \in Nat,
         NEW e \in {0, 1}
  PROVE  LET x == FrameOf(f, t, n, p, e)
             r == Enter(s, f, t, n, p, e)
         IN  /\ r \in Machine /\ r.th = s.th /\ r.c = Append(s.c, x)
             /\ r.do = s.do /\ r.status = s.status
             /\ x \in Frame /\ x.f = f /\ x.L = t /\ x.n = n /\ x.p = p /\ x.e = e
<1> DEFINE x == FrameOf(f, t, n, p, e)
<1>1. x \in Frame /\ x.f = f /\ x.L = t /\ x.n = n /\ x.p = p /\ x.e = e
  BY DEF Frame, FrameOf
<1>2. Append(s.c, x) \in Seq(Frame)
  BY <1>1, MachineIs
<1> HIDE DEF x
<1>3. Enter(s, f, t, n, p, e) = [s EXCEPT !.c = Append(@, x)]
  BY DEF Enter, x, FrameOf
<1> QED
  BY <1>1, <1>2, <1>3 DEF Machine, x

LEMMA EntersIs ==
  ASSUME NEW s \in Machine, NEW f \in FrameKinds, NEW t \in Threads
  PROVE  LET x == [f |-> f, L |-> t, n |-> 0, p |-> 0, e |-> 0]
             r == Enters(s, f, t)
         IN  /\ r \in Machine /\ r.th = s.th /\ r.c = Append(s.c, x)
             /\ r.do = s.do /\ r.status = s.status
             /\ x \in Frame /\ x.f = f /\ x.L = t /\ x.n = 0 /\ x.p = 0 /\ x.e = 0
<1> DEFINE x == [f |-> f, L |-> t, n |-> 0, p |-> 0, e |-> 0]
<1>1. x \in Frame
  BY DEF Frame
<1>2. Append(s.c, x) \in Seq(Frame)
  BY <1>1, MachineIs
<1> QED
  BY <1>1, <1>2 DEF Enters, Enter, Machine

LEMMA LeaveIs ==
  ASSUME NEW s \in Machine, s.c # <<>>, NEW v \in Statuses
  PROVE  LET r == Leave(s, v)
         IN  /\ r \in Machine /\ r.th = s.th /\ r.c = Front(s.c) /\ r.do = "return" /\ r.status = v
             /\ r.c = SubSeq(s.c, 1, Len(s.c) - 1)
<1>1. Front(s.c) \in Seq(Frame) /\ Front(s.c) = SubSeq(s.c, 1, Len(s.c) - 1)
  BY MachineIs, FrontIs
<1> QED
  BY <1>1 DEF Leave, Machine, Dos

SetDo(s, d, v) == [s EXCEPT !.do = d, !.status = v]
LEMMA DoIs ==
  ASSUME NEW s \in Machine, NEW d \in Dos, NEW v \in Statuses
  PROVE  LET r == SetDo(s, d, v)
         IN  r \in Machine /\ r.th = s.th /\ r.c = s.c /\ r.do = d /\ r.status = v
BY DEF Machine, SetDo

\* A machine that differs from another in one thread.
OneThread(s, r, t) ==
  /\ r \in Machine /\ r.c = s.c /\ r.do = s.do /\ r.status = s.status
  /\ \A u \in Threads \ {t} : r.th[u] = s.th[u]

LEMMA SetIs ==
  ASSUME NEW s \in Machine, NEW t \in Threads, NEW x \in Thread
  PROVE  LET r == [s EXCEPT !.th[t] = x]
         IN  OneThread(s, r, t) /\ r.th[t] = x
<1>1. [s.th EXCEPT ![t] = x] \in [Threads -> Thread]
  BY MachineIs
<1> QED
  BY <1>1 DEF Machine, OneThread

SetCalls(s, t, v) == [s EXCEPT !.th[t].ci = v]
LEMMA SetCallsIs ==
  ASSUME NEW s \in Machine, NEW t \in Threads, NEW v \in Seq(CIs)
  PROVE  LET r == SetCalls(s, t, v)
             o == s.th[t]
             y == r.th[t]
         IN  OneThread(s, r, t) /\ y \in Thread /\ y.ci = v
             /\ y.status = o.status /\ y.nny = o.nny /\ y.nCcalls = o.nCcalls
             /\ y.errorJmp = o.errorJmp /\ y.errfunc = o.errfunc /\ y.body = o.body
<1> DEFINE x == [s.th[t] EXCEPT !.ci = v]
<1>1. s.th[t] \in Thread
  BY MachineIs
<1>2. x \in Thread
  BY <1>1 DEF Thread
<1>3. [s EXCEPT !.th[t].ci = v] = [s EXCEPT !.th[t] = x]
  OBVIOUS
<1>4. x.ci = v /\ x.status = s.th[t].status /\ x.nny = s.th[t].nny /\ x.nCcalls = s.th[t].nCcalls
      /\ x.errorJmp = s.th[t].errorJmp /\ x.errfunc = s.th[t].errfunc /\ x.body = s.th[t].body
  BY <1>1 DEF Thread
<1> HIDE DEF x
<1> DEFINE q == [s EXCEPT !.th[t] = x]
           r == [s EXCEPT !.th[t].ci = v]
<1>5. OneThread(s, q, t) /\ q.th[t] = x
  BY <1>2, SetIs
<1>6. r = q
  BY <1>3
<1> HIDE DEF q, r
<1>7. OneThread(s, r, t) /\ r.th[t] = x
  BY <1>5, <1>6
<1> QED
  BY <1>2, <1>4, <1>7 DEF r, SetCalls

SetStatus(s, t, v) == [s EXCEPT !.th[t].status = v]
LEMMA SetStatusIs ==
  ASSUME NEW s \in Machine, NEW t \in Threads, NEW v \in Statuses
  PROVE  LET r == SetStatus(s, t, v)
             o == s.th[t]
             y == r.th[t]
         IN  OneThread(s, r, t) /\ y \in Thread /\ y.status = v
             /\ y.ci = o.ci /\ y.nny = o.nny /\ y.nCcalls = o.nCcalls /\ y.errorJmp = o.errorJmp
             /\ y.errfunc = o.errfunc /\ y.body = o.body
<1> DEFINE x == [s.th[t] EXCEPT !.status = v]
<1>1. s.th[t] \in Thread
  BY MachineIs
<1>2. x \in Thread
  BY <1>1 DEF Thread
<1>3. [s EXCEPT !.th[t].status = v] = [s EXCEPT !.th[t] = x]
  OBVIOUS
<1>4. x.status = v /\ x.ci = s.th[t].ci /\ x.nny = s.th[t].nny /\ x.nCcalls = s.th[t].nCcalls
      /\ x.errorJmp = s.th[t].errorJmp /\ x.errfunc = s.th[t].errfunc /\ x.body = s.th[t].body
  BY <1>1 DEF Thread
<1> HIDE DEF x
<1> DEFINE q == [s EXCEPT !.th[t] = x]
           r == [s EXCEPT !.th[t].status = v]
<1>5. OneThread(s, q, t) /\ q.th[t] = x
  BY <1>2, SetIs
<1>6. r = q
  BY <1>3
<1> HIDE DEF q, r
<1>7. OneThread(s, r, t) /\ r.th[t] = x
  BY <1>5, <1>6
<1> QED
  BY <1>2, <1>4, <1>7 DEF r, SetStatus

SetNny(s, t, v) == [s EXCEPT !.th[t].nny = v]
LEMMA SetNnyIs ==
  ASSUME NEW s \in Machine, NEW t \in Threads, NEW v \in Nat
  PROVE  LET r == SetNny(s, t, v)
             o == s.th[t]
             y == r.th[t]
         IN  OneThread(s, r, t) /\ y \in Thread /\ y.nny = v
             /\ y.ci = o.ci /\ y.status = o.status /\ y.nCcalls = o.nCcalls
             /\ y.errorJmp = o.errorJmp /\ y.errfunc = o.errfunc /\ y.body = o.body
<1> DEFINE x == [s.th[t] EXCEPT !.nny = v]
<1>1. s.th[t] \in Thread
  BY MachineIs
<1>2. x \in Thread
  BY <1>1 DEF Thread
<1>3. [s EXCEPT !.th[t].nny = v] = [s EXCEPT !.th[t] = x]
  OBVIOUS
<1>4. x.nny = v /\ x.ci = s.th[t].ci /\ x.status = s.th[t].status /\ x.nCcalls = s.th[t].nCcalls
      /\ x.errorJmp = s.th[t].errorJmp /\ x.errfunc = s.th[t].errfunc /\ x.body = s.th[t].body
  BY <1>1 DEF Thread
<1> HIDE DEF x
<1> DEFINE q == [s EXCEPT !.th[t] = x]
           r == [s EXCEPT !.th[t].nny = v]
<1>5. OneThread(s, q, t) /\ q.th[t] = x
  BY <1>2, SetIs
<1>6. r = q
  BY <1>3
<1> HIDE DEF q, r
<1>7. OneThread(s, r, t) /\ r.th[t] = x
  BY <1>5, <1>6
<1> QED
  BY <1>2, <1>4, <1>7 DEF r, SetNny

SetCCalls(s, t, v) == [s EXCEPT !.th[t].nCcalls = v]
LEMMA SetCCallsIs ==
  ASSUME NEW s \in Machine, NEW t \in Threads, NEW v \in Int
  PROVE  LET r == SetCCalls(s, t, v)
             o == s.th[t]
             y == r.th[t]
         IN  OneThread(s, r, t) /\ y \in Thread /\ y.nCcalls = v
             /\ y.ci = o.ci /\ y.status = o.status /\ y.nny = o.nny /\ y.errorJmp = o.errorJmp
             /\ y.errfunc = o.errfunc /\ y.body = o.body
<1> DEFINE x == [s.th[t] EXCEPT !.nCcalls = v]
<1>1. s.th[t] \in Thread
  BY MachineIs
<1>2. x \in Thread
  BY <1>1 DEF Thread
<1>3. [s EXCEPT !.th[t].nCcalls = v] = [s EXCEPT !.th[t] = x]
  OBVIOUS
<1>4. x.nCcalls = v /\ x.ci = s.th[t].ci /\ x.status = s.th[t].status /\ x.nny = s.th[t].nny
      /\ x.errorJmp = s.th[t].errorJmp /\ x.errfunc = s.th[t].errfunc /\ x.body = s.th[t].body
  BY <1>1 DEF Thread
<1> HIDE DEF x
<1> DEFINE q == [s EXCEPT !.th[t] = x]
           r == [s EXCEPT !.th[t].nCcalls = v]
<1>5. OneThread(s, q, t) /\ q.th[t] = x
  BY <1>2, SetIs
<1>6. r = q
  BY <1>3
<1> HIDE DEF q, r
<1>7. OneThread(s, r, t) /\ r.th[t] = x
  BY <1>5, <1>6
<1> QED
  BY <1>2, <1>4, <1>7 DEF r, SetCCalls

SetJmp(s, t, v) == [s EXCEPT !.th[t].errorJmp = v]
LEMMA SetJmpIs ==
  ASSUME NEW s \in Machine, NEW t \in Threads, NEW v \in Nat
  PROVE  LET r == SetJmp(s, t, v)
             o == s.th[t]
             y == r.th[t]
         IN  OneThread(s, r, t) /\ y \in Thread /\ y.errorJmp = v
             /\ y.ci = o.ci /\ y.status = o.status /\ y.nny = o.nny /\ y.nCcalls = o.nCcalls
             /\ y.errfunc = o.errfunc /\ y.body = o.body
<1> DEFINE x == [s.th[t] EXCEPT !.errorJmp = v]
<1>1. s.th[t] \in Thread
  BY MachineIs
<1>2. x \in Thread
  BY <1>1 DEF Thread
<1>3. [s EXCEPT !.th[t].errorJmp = v] = [s EXCEPT !.th[t] = x]
  OBVIOUS
<1>4. x.errorJmp = v /\ x.ci = s.th[t].ci /\ x.status = s.th[t].status /\ x.nny = s.th[t].nny
      /\ x.nCcalls = s.th[t].nCcalls /\ x.errfunc = s.th[t].errfunc /\ x.body = s.th[t].body
  BY <1>1 DEF Thread
<1> HIDE DEF x
<1> DEFINE q == [s EXCEPT !.th[t] = x]
           r == [s EXCEPT !.th[t].errorJmp = v]
<1>5. OneThread(s, q, t) /\ q.th[t] = x
  BY <1>2, SetIs
<1>6. r = q
  BY <1>3
<1> HIDE DEF q, r
<1>7. OneThread(s, r, t) /\ r.th[t] = x
  BY <1>5, <1>6
<1> QED
  BY <1>2, <1>4, <1>7 DEF r, SetJmp

SetErrFunc(s, t, v) == [s EXCEPT !.th[t].errfunc = v]
LEMMA SetErrFuncIs ==
  ASSUME NEW s \in Machine, NEW t \in Threads, NEW v \in {0, 1}
  PROVE  LET r == SetErrFunc(s, t, v)
             o == s.th[t]
             y == r.th[t]
         IN  OneThread(s, r, t) /\ y \in Thread /\ y.errfunc = v
             /\ y.ci = o.ci /\ y.status = o.status /\ y.nny = o.nny /\ y.nCcalls = o.nCcalls
             /\ y.errorJmp = o.errorJmp /\ y.body = o.body
<1> DEFINE x == [s.th[t] EXCEPT !.errfunc = v]
<1>1. s.th[t] \in Thread
  BY MachineIs
<1>2. x \in Thread
  BY <1>1 DEF Thread
<1>3. [s EXCEPT !.th[t].errfunc = v] = [s EXCEPT !.th[t] = x]
  OBVIOUS
<1>4. x.errfunc = v /\ x.ci = s.th[t].ci /\ x.status = s.th[t].status /\ x.nny = s.th[t].nny
      /\ x.nCcalls = s.th[t].nCcalls /\ x.errorJmp = s.th[t].errorJmp /\ x.body = s.th[t].body
  BY <1>1 DEF Thread
<1> HIDE DEF x
<1> DEFINE q == [s EXCEPT !.th[t] = x]
           r == [s EXCEPT !.th[t].errfunc = v]
<1>5. OneThread(s, q, t) /\ q.th[t] = x
  BY <1>2, SetIs
<1>6. r = q
  BY <1>3
<1> HIDE DEF q, r
<1>7. OneThread(s, r, t) /\ r.th[t] = x
  BY <1>5, <1>6
<1> QED
  BY <1>2, <1>4, <1>7 DEF r, SetErrFunc

SetBody(s, t, v) == [s EXCEPT !.th[t].body = v]
LEMMA SetBodyIs ==
  ASSUME NEW s \in Machine, NEW t \in Threads, NEW v \in BOOLEAN
  PROVE  LET r == SetBody(s, t, v)
             o == s.th[t]
             y == r.th[t]
         IN  OneThread(s, r, t) /\ y \in Thread /\ y.body = v
             /\ y.ci = o.ci /\ y.status = o.status /\ y.nny = o.nny /\ y.nCcalls = o.nCcalls
             /\ y.errorJmp = o.errorJmp /\ y.errfunc = o.errfunc
<1> DEFINE x == [s.th[t] EXCEPT !.body = v]
<1>1. s.th[t] \in Thread
  BY MachineIs
<1>2. x \in Thread
  BY <1>1 DEF Thread
<1>3. [s EXCEPT !.th[t].body = v] = [s EXCEPT !.th[t] = x]
  OBVIOUS
<1>4. x.body = v /\ x.ci = s.th[t].ci /\ x.status = s.th[t].status /\ x.nny = s.th[t].nny
      /\ x.nCcalls = s.th[t].nCcalls /\ x.errorJmp = s.th[t].errorJmp /\ x.errfunc = s.th[t].errfunc
  BY <1>1 DEF Thread
<1> HIDE DEF x
<1> DEFINE q == [s EXCEPT !.th[t] = x]
           r == [s EXCEPT !.th[t].body = v]
<1>5. OneThread(s, q, t) /\ q.th[t] = x
  BY <1>2, SetIs
<1>6. r = q
  BY <1>3
<1> HIDE DEF q, r
<1>7. OneThread(s, r, t) /\ r.th[t] = x
  BY <1>5, <1>6
<1> QED
  BY <1>2, <1>4, <1>7 DEF r, SetBody

-----------------------------------------------------------------------------
(* Calls *)

\* The machine r is s with another frame x, with mark A, when n of the calls of its thread are
\* below it; the thread may have done something else.
Pushes(s, r, ch, a, x, n, A) ==
  /\ s \in Machine /\ r \in Machine /\ StackRight(s, ch, a) /\ x \in Frame /\ n \in Nat
  /\ r.c = Append(s.c, x) /\ x.L = Last(s.c).L /\ x.f # "resume" /\ <<TopF(s), x.f>> \in Nesting
  /\ \A u \in Threads \ {x.L} : r.th[u] = s.th[u]
  /\ Last(a).ci <= n /\ n <= Len(r.th[x.L].ci) /\ SameTo(Cur(s).ci, r.th[x.L].ci, Last(a).ci)
  /\ Owns(TopF(s), Last(a), r.th[x.L].ci, n)
  /\ A = MarkOf(x, Len(s.c) + 1, Last(a), n)
  /\ SavedOver(x, TopF(s), Last(a), A, r.th[x.L].ci, Len(s.c) + 1)
  /\ Below(x.f, A, r.th[x.L].ci)

LEMMA StackPush ==
  ASSUME NEW s, NEW r, NEW ch, NEW a, NEW x, NEW n, NEW A, Pushes(s, r, ch, a, x, n, A)
  PROVE  /\ StackRight(r, ch, Append(a, A)) /\ A \in Mark /\ Last(Append(a, A)) = A
         /\ Last(r.c) = x /\ TopF(r) = x.f /\ Cur(r) = r.th[x.L] /\ Len(r.c) = Len(s.c) + 1
<1> USE DEF Pushes
<1> DEFINE q == [s EXCEPT !.th = r.th]
           t == Last(s.c).L
           ci == r.th[x.L].ci
           N == Len(s.c)
           B == Last(a)
<1>1. q \in Machine /\ q.c = s.c /\ q.th = r.th
  BY MachineIs DEF Machine
<1> HIDE DEF q
<1>2. Cur(q) = r.th[t]
  BY <1>1 DEF Cur
<1>3. StackRight(q, ch, a)
  <2>1. Last(a).ci <= Len(Cur(q).ci)
    <3>1. Last(a).ci \in Nat /\ Cur(q) \in Thread
      BY ZenonT(30), <1>1, <1>2, TopIs, MarkIs, StackIs, MachineIs
    <3>2. Len(Cur(q).ci) \in Nat
      BY <3>1, ThreadIs
    <3> QED
      BY <1>2, <3>1, <3>2
  <2>2. SameTo(Cur(s).ci, Cur(q).ci, Last(a).ci)
    BY <1>2
  <2>3. \A u \in Threads \ {Last(s.c).L} : q.th[u] = s.th[u]
    BY <1>1
  <2> QED
    BY <1>1, <2>1, <2>2, <2>3, StackTop
<1>4. /\ N \in Nat /\ N >= 1 /\ Len(a) = N /\ B = a[N] /\ B \in Mark /\ Last(s.c) = s.c[N]
      /\ Len(ch) \in Nat /\ Len(ch) >= 1 /\ a[N].link = Len(ch) /\ t = ch[Len(ch)] /\ t \in Threads
  BY SMTT(30), StackEnds
<1>5. s.c \in Seq(Frame) /\ a \in Seq(Mark) /\ Linked(ch) /\ q.c \in Seq(Frame)
  BY <1>1, MachineIs DEF StackRight
<1>6. A.link = B.link /\ A.ci = n
  BY DEF MarkOf
<1>7. A \in Mark
  BY <1>4, MarkOfIs
<1>8. /\ Len(Append(a, A)) = N + 1 /\ Last(Append(a, A)) = A
      /\ Append(a, A)[N + 1] = A /\ Append(a, A)[N] = B
  <2>1. /\ Len(Append(a, A)) = Len(a) + 1 /\ Last(Append(a, A)) = A
        /\ Append(a, A)[Len(a) + 1] = A /\ \A i \in 1..Len(a) : Append(a, A)[i] = a[i]
    BY <1>5, <1>7, AppendIs
  <2>2. N \in 1..Len(a)
    BY <1>4
  <2> QED
    BY <1>4, <2>1, <2>2
<1>9. /\ Len(r.c) = N + 1 /\ Last(r.c) = x /\ r.c[N + 1] = x /\ r.c[N] = Last(s.c)
  <2> DEFINE c == s.c
  <2>1. c \in Seq(Frame) /\ N = Len(c) /\ N \in 1..Len(c)
    BY <1>4, <1>5
  <2> HIDE DEF c
  <2>2. /\ Len(Append(c, x)) = Len(c) + 1 /\ Last(Append(c, x)) = x
        /\ Append(c, x)[Len(c) + 1] = x /\ \A i \in 1..Len(c) : Append(c, x)[i] = c[i]
    BY <2>1, AppendIs
  <2>3. r.c = Append(c, x) /\ Last(s.c) = c[N]
    BY <1>4 DEF c
  <2> QED
    BY <2>1, <2>2, <2>3
<1>10. TopF(r) = x.f /\ Cur(r) = r.th[x.L] /\ Cur(q) = r.th[x.L] /\ TopF(q) = TopF(s)
  BY <1>1, <1>2, <1>9 DEF TopF, Cur
<1>11. Saved(r.c, Append(a, A), ci, N + 1)
  <2> DEFINE k == N + 1
             b == Append(a, A)
             c == r.c
  <2>1. k - 1 = N
    BY <1>4
  <2>2. c[k] = x /\ c[k - 1].f = TopF(s) /\ b[k] = A /\ b[k - 1] = B
    BY <1>8, <1>9, <2>1 DEF TopF
  <2>3. SavedOver(x, TopF(s), B, A, ci, k)
    OBVIOUS
  <2> HIDE DEF k, b, c, ci, B
  <2>4. Saved(c, b, ci, k)
    BY <2>2, <2>3 DEF Saved
  <2> QED
    BY <2>4 DEF k, b, c
<1>12. A.link \in 1..Len(ch) /\ x.L = ch[A.link]
  BY <1>4, <1>6
<1>13. /\ A \in Mark /\ FrameRight(r.c, Append(a, A), ch, ci, Len(q.c) + 1)
       /\ Last(a).depth <= A.depth
  <2> DEFINE b == Append(a, A)
             c == r.c
  <2>1. Pushed(q, ch, ch, a, x, n, ci, c, A, b)
    BY <1>1, <1>3, <1>6, <1>10, <1>11, <1>12 DEF Pushed
  <2> HIDE DEF b, c, ci
  <2>2. /\ A \in Mark /\ FrameRight(c, b, ch, ci, Len(q.c) + 1)
        /\ Last(a).depth <= A.depth
    BY <2>1, FramePush
  <2> QED
    BY SMTT(30), <2>2 DEF b, c
<1>14. Owns(TopF(q), Last(a), Cur(q).ci, IF x.f = "resume" THEN Len(Cur(q).ci) ELSE A.ci)
  BY <1>6, <1>10
<1>15. /\ r.c = Append(q.c, x) /\ \A k \in 1..Len(q.c) : r.th[q.c[k].L] = q.th[q.c[k].L]
       /\ Len(ch) = A.link /\ Len(ch) <= Len(ch) /\ (Last(a).link = A.link => Last(a).ci <= A.ci)
  BY SMTT(30), <1>1, <1>4, <1>6
<1>16. StackRight(r, ch, Append(a, A))
  <2> HIDE DEF ci
  <2>1. FrameRight(r.c, Append(a, A), ch, r.th[x.L].ci, Len(q.c) + 1)
    BY <1>13 DEF ci
  <2> QED
    BY <1>1, <1>3, <1>5, <1>7, <1>13, <1>14, <1>15, <2>1, StackGrows
<1> QED
  BY <1>7, <1>8, <1>9, <1>10, <1>16

\* What a frame says of the calls below it, by what the frame under it says.
LEMMA BelowPush ==
  ASSUME NEW B \in Mark, NEW A \in Mark, NEW f, NEW g, NEW ci, Below(g, B, ci),
         A.link = B.link, A.pcall = B.pcall, A.nny = B.nny \/ A.nny = B.nny + 1, B.ci <= A.ci,
         \A i \in B.ci + 1..A.ci : Protects(ci[i].fn) => ci[i].ypcall /\ A.pcall = 0 /\ A.link > 1,
         A.nny = 0 /\ f \in {"execute", "call", "cfunc"} =>
           /\ g \in {"execute", "call", "cfunc"} \/ B.ci = 0
           /\ \A i \in B.ci + 1..A.ci : Pending(ci, i)
  PROVE  Below(f, A, ci)
<1>1. /\ A.ci \in Nat /\ A.nny \in Nat /\ A.pcall \in Nat /\ A.link \in Nat
      /\ B.ci \in Nat /\ B.nny \in Nat /\ B.pcall \in Nat /\ B.link \in Nat
  BY MarkIs
<1>2. \A i \in 1..A.ci : i \in 1..B.ci \/ i \in B.ci + 1..A.ci
  BY <1>1
<1>3. A.nny = 0 => B.nny = 0
  BY <1>1
<1>4. A.nny = 0 => A.link > 1
  BY <1>3 DEF Below
<1>5. A.pcall > 0 => A.nny > 0
  BY <1>1, <1>3 DEF Below
<1>6. ASSUME A.nny = 0, f \in {"execute", "call", "cfunc"}, NEW i \in 1..A.ci
      PROVE  Pending(ci, i)
  <2>1. CASE i \in B.ci + 1..A.ci
    BY <1>6, <2>1
  <2>2. CASE i \in 1..B.ci
    <3>1. B.ci # 0
      BY <1>1, <2>2
    <3> QED
      BY <1>3, <1>6, <2>2, <3>1 DEF Below
  <2> QED
    BY <1>2, <2>1, <2>2
<1>7. \A i \in 1..A.ci : i > A.pcall /\ Protects(ci[i].fn) =>
                           ci[i].ypcall /\ A.pcall = 0 /\ A.link > 1
  BY <1>2 DEF Below
<1> QED
  BY <1>4, <1>5, <1>6, <1>7 DEF Below
\* The names of calls.
LEMMA SameSeq ==
  ASSUME NEW S, NEW T, NEW k \in Seq(S), NEW l \in Seq(T), Len(k) = Len(l), \A i \in 1..Len(k) : k[i] = l[i]
  PROVE  k = l
OBVIOUS

LEMMA NamesAre ==
  ASSUME NEW ci \in Seq(CIs)
  PROVE  /\ Names(ci) \in Seq(Fns) /\ Len(Names(ci)) = Len(ci)
         /\ \A i \in 1..Len(ci) : Names(ci)[i] = ci[i].fn
<1>1. DOMAIN ci = 1..Len(ci) /\ Len(ci) \in Nat /\ \A i \in 1..Len(ci) : ci[i] \in CIs
  OBVIOUS
<1>2. \A i \in 1..Len(ci) : ci[i].fn \in Fns
  BY <1>1 DEF CIs
<1>3. Names(ci) \in [1..Len(ci) -> Fns]
  BY <1>1, <1>2 DEF Names
<1>4. Names(ci) \in Seq(Fns) /\ Len(Names(ci)) = Len(ci)
  BY <1>1, <1>3
<1> QED
  BY <1>1, <1>4 DEF Names

LEMMA NamesSame ==
  ASSUME NEW ci \in Seq(CIs), NEW cj \in Seq(CIs), Len(ci) = Len(cj),
         \A i \in 1..Len(ci) : ci[i].fn = cj[i].fn
  PROVE  Names(ci) = Names(cj)
BY NamesAre, SameSeq

LEMMA NamesAppend ==
  ASSUME NEW ci \in Seq(CIs), NEW x \in CIs
  PROVE  Names(Append(ci, x)) = Append(Names(ci), x.fn)
<1> DEFINE cj == Append(ci, x)
           l == Append(Names(ci), x.fn)
<1>1. x.fn \in Fns
  BY DEF CIs
<1>2. /\ cj \in Seq(CIs) /\ Len(cj) = Len(ci) + 1 /\ Len(ci) \in Nat
      /\ \A i \in 1..Len(ci) : cj[i] = ci[i]
      /\ cj[Len(ci) + 1] = x
  BY AppendIs
<1>3. /\ l \in Seq(Fns) /\ Len(l) = Len(ci) + 1
      /\ \A i \in 1..Len(ci) : l[i] = ci[i].fn
      /\ l[Len(ci) + 1] = x.fn
  <2> DEFINE k == Names(ci)
  <2>1. k \in Seq(Fns) /\ Len(k) = Len(ci) /\ \A i \in 1..Len(ci) : k[i] = ci[i].fn
    BY NamesAre
  <2> HIDE DEF k
  <2>2. /\ Append(k, x.fn) \in Seq(Fns) /\ Len(Append(k, x.fn)) = Len(k) + 1
        /\ \A i \in 1..Len(k) : Append(k, x.fn)[i] = k[i]
        /\ Append(k, x.fn)[Len(k) + 1] = x.fn
    BY <1>1, <2>1, AppendIs
  <2> QED
    BY <2>1, <2>2 DEF k
<1>4. \A i \in 1..Len(ci) + 1 : i \in 1..Len(ci) \/ i = Len(ci) + 1
  BY <1>2
<1> HIDE DEF cj, l
<1>5. /\ Names(cj) \in Seq(Fns) /\ Len(Names(cj)) = Len(ci) + 1
      /\ \A i \in 1..Len(cj) : Names(cj)[i] = cj[i].fn
  BY <1>2, NamesAre
<1>6. \A i \in 1..Len(Names(cj)) : Names(cj)[i] = l[i]
  BY <1>2, <1>3, <1>4, <1>5
<1>7. Names(cj) = l
  BY <1>3, <1>5, <1>6, SameSeq
<1> QED
  BY <1>7 DEF cj, l

LEMMA NamesCut ==
  ASSUME NEW ci \in Seq(CIs), NEW n \in 0..Len(ci)
  PROVE  Names(SubSeq(ci, 1, n)) = SubSeq(Names(ci), 1, n)
<1> DEFINE cj == SubSeq(ci, 1, n)
           l == SubSeq(Names(ci), 1, n)
<1>1. /\ cj \in Seq(CIs) /\ Len(cj) = n /\ \A i \in 1..n : cj[i] = ci[i]
  BY SubSeqIs
<1>2. /\ l \in Seq(Fns) /\ Len(l) = n /\ \A i \in 1..n : l[i] = ci[i].fn
  <2> DEFINE k == Names(ci)
  <2>1. k \in Seq(Fns) /\ Len(k) = Len(ci) /\ \A i \in 1..Len(ci) : k[i] = ci[i].fn
    BY NamesAre
  <2>2. \A i \in 1..n : i \in 1..Len(ci)
    OBVIOUS
  <2> HIDE DEF k
  <2>3. SubSeq(k, 1, n) \in Seq(Fns) /\ Len(SubSeq(k, 1, n)) = n /\ \A i \in 1..n : SubSeq(k, 1, n)[i] = k[i]
    BY <2>1, SubSeqIs
  <2> QED
    BY <2>1, <2>2, <2>3 DEF k
<1> HIDE DEF cj, l
<1>3. /\ Names(cj) \in Seq(Fns) /\ Len(Names(cj)) = n /\ \A i \in 1..n : Names(cj)[i] = cj[i].fn
  BY <1>1, NamesAre
<1>4. Names(cj) = l
  BY <1>1, <1>2, <1>3, SameSeq
<1> QED
  BY <1>4 DEF cj, l

\* HandledBy looks at the names alone.
LEMMA HandledNames ==
  ASSUME NEW ci \in Seq(CIs), NEW cj \in Seq(CIs), Names(ci) = Names(cj), NEW n \in Int, n <= Len(ci)
  PROVE  Len(ci) = Len(cj) /\ HandledBy(ci, n) = HandledBy(cj, n)
<1>1. Len(ci) = Len(cj) /\ Len(ci) \in Nat /\ \A i \in 1..Len(ci) : ci[i].fn = cj[i].fn
  BY NamesAre
<1>2. \A i \in 1..n : ci[i].fn = cj[i].fn /\ \A j \in i + 1..n : ci[j].fn = cj[j].fn
  BY <1>1
<1> QED
  BY <1>1, <1>2 DEF HandledBy
\* luaV_execute of the last call of the thread at the top, whose calls below it are in order.
CanExecute(s, ch, a) ==
  LET ci == Cur(s).ci IN
  /\ s \in Machine /\ StackRight(s, ch, a) /\ CIsRight(ci)
  /\ Len(ci) >= 1 /\ IsLua(Last(ci).fn)
  /\ TopF(s) \in {"call", "resuming", "unroll"}
  /\ Last(a).ci <= Len(ci) - 1 /\ Owns(TopF(s), Last(a), ci, Len(ci) - 1)
  /\ Live(Cur(s), Last(a))
  /\ Last(a).nny = 0 => Last(ci).fn # "handler"
  /\ Last(a).nny > 0 /\ Last(a).link > 1 => \E i \in 1..Len(ci) : ci[i].fn \in {"sort", "handler"}

\* What the machine r has become of s, where only the thread at the top has done something.
Same(s, r) ==
  /\ r \in Machine /\ Last(r.c).L = Last(s.c).L
  /\ \A u \in Threads \ {Last(s.c).L} : r.th[u] = s.th[u]

Ready(r, ch) == CIsRight(Cur(r).ci) /\ \E b : StackRight(r, ch, b) /\ TopRight(r, b)

LEMMA ExecuteIs ==
  ASSUME NEW s, NEW ch, NEW a, CanExecute(s, ch, a)
  PROVE  LET r == Execute(s, Last(s.c).L) IN
         /\ Same(s, r) /\ Ready(r, ch) /\ Cur(r).errfunc = Cur(s).errfunc
         /\ r.do = "run" /\ TopF(r) = "execute" /\ Names(Cur(r).ci) = Names(Cur(s).ci)
<1> DEFINE t == Last(s.c).L
           ci == Cur(s).ci
           n == Len(ci) - 1
           N == Len(s.c)
           B == Last(a)
           x == [f |-> "execute", L |-> t, n |-> 0, p |-> 0, e |-> 0]
           e == Enters(s, "execute", t)
           y == [CI(s, t) EXCEPT !.fresh = TRUE]
           cj == Append(Front(ci), y)
           q == SetCalls(e, t, cj)
           r == Execute(s, t)
           A == MarkOf(x, N + 1, B, n)
           b == Append(a, A)
<1>1. s \in Machine /\ StackRight(s, ch, a) /\ CIsRight(ci) /\ Len(ci) >= 1
  BY DEF CanExecute
<1>2. t \in Threads /\ Cur(s) = s.th[t] /\ Cur(s) \in Thread /\ N \in Nat /\ N >= 1 /\ B \in Mark
  BY <1>1, StackEnds DEF Cur
<1>3. ci \in Seq(CIs) /\ ci # <<>> /\ n \in Nat /\ Len(ci) = n + 1 /\ Len(ci) \in Nat
  BY <1>1, <1>2, ThreadIs
<1>4. e \in Machine /\ e.th = s.th /\ e.c = Append(s.c, x) /\ x \in Frame
  <2>1. "execute" \in FrameKinds
    BY DEF FrameKinds
  <2> QED
    BY <1>1, <1>2, <2>1, EntersIs
<1>5. /\ Front(ci) \in Seq(CIs) /\ Len(Front(ci)) = n /\ \A i \in 1..n : Front(ci)[i] = ci[i]
      /\ Last(ci) = ci[n + 1] /\ Last(ci) \in CIs
  BY Zenon, <1>3, FrontIs
<1>6. y \in CIs /\ y.fn = Last(ci).fn /\ y.fresh /\ y.ypcall = Last(ci).ypcall
  BY Zenon, <1>2, <1>5 DEF CIs, CI
<1> HIDE DEF y
<1>7. /\ cj \in Seq(CIs) /\ Len(cj) = n + 1 /\ SameTo(ci, cj, n) /\ cj[n + 1] = y
  <2>1. /\ cj \in Seq(CIs) /\ Len(cj) = n + 1 /\ \A i \in 1..n : cj[i] = Front(ci)[i]
        /\ cj[n + 1] = y
    BY SMTT(30), <1>5, <1>6, AppendIs
  <2> QED
    BY <1>5, <2>1 DEF SameTo
<1> HIDE DEF cj, e
<1>8. OneThread(e, q, t) /\ q.th[t] \in Thread /\ q.th[t].ci = cj
      /\ q.th[t].status = s.th[t].status /\ q.th[t].nny = s.th[t].nny /\ q.th[t].nCcalls = s.th[t].nCcalls
      /\ q.th[t].errorJmp = s.th[t].errorJmp /\ q.th[t].errfunc = s.th[t].errfunc
      /\ q.th[t].body = s.th[t].body
  BY <1>2, <1>4, <1>7, SetCallsIs
<1>9. r = [q EXCEPT !.do = "run", !.status = "OK"]
  BY <1>2, <1>4 DEF Execute, SetCI, SetCalls, CI, y, cj, e
<1> HIDE DEF q, r
<1>10. r \in Machine /\ r.th = q.th /\ r.c = Append(s.c, x) /\ r.do = "run"
  <2>1. q \in Machine /\ "run" \in Dos /\ "OK" \in Statuses /\ q.c = e.c
    BY <1>8 DEF OneThread, Dos, Statuses
  <2> QED
    BY <1>4, <1>9, <2>1 DEF Machine
<1>11. \A u \in Threads \ {t} : r.th[u] = s.th[u]
  BY <1>4, <1>8, <1>10 DEF OneThread
<1>12. r.th[t].ci = cj /\ r.th[t].status = s.th[t].status /\ r.th[t].nny = s.th[t].nny
       /\ r.th[t].nCcalls = s.th[t].nCcalls /\ r.th[t].errorJmp = s.th[t].errorJmp
       /\ r.th[t].errfunc = s.th[t].errfunc /\ r.th[t].body = s.th[t].body
  BY <1>8, <1>10
<1>13. ~y.ypcall /\ IsLua(y.fn) /\ ~Protects(y.fn)
  <2>1. IsLua(Last(ci).fn)
    BY DEF CanExecute
  <2>2. ~Protects(Last(ci).fn)
    BY <2>1 DEF IsLua, Protects
  <2>3. n + 1 \in 1..Len(ci)
    BY <1>3
  <2>4. ~Last(ci).ypcall
    BY <1>1, <1>5, <2>2, <2>3 DEF CIsRight
  <2> QED
    BY <1>6, <2>1, <2>2, <2>4
<1>14. CIsRight(cj)
  <2>1. Len(cj) >= 1 /\ Len(cj) - 1 = n /\ n <= Len(ci) /\ ~cj[Len(cj)].ypcall
    BY <1>3, <1>7, <1>13
  <2> HIDE DEF n, ci
  <2> QED
    BY <1>1, <1>3, <1>7, <2>1, CIsRightStep
<1>15. /\ A.ci = n /\ A.link = B.link /\ A.pcall = B.pcall /\ A.nny = B.nny /\ A.depth = B.depth
       /\ A.jmp = B.jmp
  BY DEF MarkOf
<1>16. /\ B.ci <= n /\ Owns(TopF(s), B, ci, n) /\ TopF(s) \in {"call", "resuming", "unroll"}
       /\ Live(Cur(s), B)
  BY DEF CanExecute
<1>17. Owns(TopF(s), B, cj, n)
  <2> HIDE DEF n, ci, B
  <2> QED
    BY <1>2, <1>3, <1>7, <1>16, OwnsSame
<1>18. <<TopF(s), "execute">> \in Nesting
  BY <1>16 DEF Nesting
<1>19. Below(TopF(s), B, ci) /\ B.ci \in Nat /\ B.nny \in Nat /\ B.pcall \in Nat
       /\ (TopF(s) = "host") = (N = 1) /\ Saved(s.c, a, ci, N)
  BY <1>1, <1>2, TopIs, MarkIs
<1>20. N >= 2
  <2>1. N # 1
    BY <1>16, <1>19
  <2> HIDE DEF N
  <2> QED
    BY <1>2, <2>1
<1>21. Below(TopF(s), B, cj)
  <2>1. SameTo(ci, cj, B.ci)
    BY <1>3, <1>7, <1>16, <1>19 DEF SameTo
  <2> HIDE DEF n, ci, B
  <2> QED
    BY <1>19, <2>1, BelowSame
<1>22. ASSUME TopF(s) \in {"resuming", "unroll"}
       PROVE  B.ci = 0 /\ B.nny = 0 /\ B.pcall = 0 /\ B.link > 1 /\ \A i \in 1..n : Pending(cj, i)
  <2>1. s.c[N].f = TopF(s) /\ a[N] = B
    BY <1>1, StackEnds DEF TopF
  <2>2. B.ci = 0 /\ B.nny = 0
    BY <1>19, <1>22, <2>1 DEF Saved, SavedOver
  <2>3. B.pcall = 0 /\ B.link > 1
    BY <1>19, <2>2 DEF Below
  <2>4. \A i \in 1..n : Pending(cj, i)
    BY <1>17, <1>22 DEF Owns
  <2> QED
    BY <2>2, <2>3, <2>4
<1>23. TopF(s) = "call" => B.ci = n
  BY <1>17 DEF Owns
<1>24. A \in Mark
  BY <1>2, <1>3, MarkOfIs
<1>25. Below("execute", A, cj)
  <2>1. ASSUME NEW i \in B.ci + 1..A.ci PROVE TopF(s) \in {"resuming", "unroll"} /\ i \in 1..n
    <3>1. TopF(s) # "call"
      BY <1>3, <1>15, <1>19, <1>23
    <3>2. TopF(s) \in {"resuming", "unroll"}
      BY <1>16, <3>1
    <3> QED
      BY <1>15, <1>22, <3>2
  <2>2. \A i \in B.ci + 1..A.ci : Protects(cj[i].fn) => cj[i].ypcall /\ A.pcall = 0 /\ A.link > 1
    <3>1. \A i \in 1..n : TopF(s) \in {"resuming", "unroll"} => (Protects(cj[i].fn) => cj[i].ypcall)
      BY <1>22 DEF Pending, Protects
    <3> QED
      BY <1>15, <1>22, <2>1, <3>1
  <2>3. \A i \in B.ci + 1..A.ci : Pending(cj, i)
    BY <1>22, <2>1
  <2>4. TopF(s) \in {"execute", "call", "cfunc"} \/ B.ci = 0
    BY <1>16, <1>22
  <2>5. B.ci <= A.ci /\ A.link = B.link /\ A.pcall = B.pcall /\ A.nny = B.nny
    BY <1>15, <1>16
  <2> HIDE DEF A, B
  <2> QED
    BY <1>2, <1>21, <1>24, <2>2, <2>3, <2>4, <2>5, BelowPush
<1>26. SavedOver(x, TopF(s), B, A, cj, N + 1)
  BY DEF SavedOver
<1>27. /\ StackRight(r, ch, b) /\ Last(b) = A /\ Last(r.c) = x /\ TopF(r) = x.f
       /\ Cur(r) = r.th[x.L] /\ Len(r.c) = N + 1
  <2>1. SameTo(Cur(s).ci, r.th[x.L].ci, B.ci)
    BY SMTT(30), <1>3, <1>7, <1>12, <1>16, <1>19 DEF SameTo
  <2>2. Pushes(s, r, ch, a, x, n, A)
    BY <1>1, <1>3, <1>4, <1>7, <1>10, <1>11, <1>12, <1>16, <1>17, <1>18, <1>25, <1>26, <2>1 DEF Pushes
  <2> HIDE DEF x, n, A
  <2> QED
    BY <2>2, StackPush
<1>28. Owns("execute", A, cj, n + 1)
  <2>1. /\ Last(a).nny = 0 => Last(ci).fn # "handler"
        /\ Last(a).nny > 0 /\ Last(a).link > 1 => \E i \in 1..Len(ci) : ci[i].fn \in {"sort", "handler"}
    BY DEF CanExecute
  <2>2. \A i \in 1..n + 1 : ci[i].fn = cj[i].fn
    <3>1. \A i \in 1..n + 1 : i \in 1..n \/ i = n + 1
      BY <1>3
    <3> QED
      BY <1>5, <1>6, <1>7, <3>1 DEF SameTo
  <2>3. A.ci = n /\ A.ci < n + 1 /\ \A i \in A.ci + 1..n + 1 : i = n + 1 /\ ~(i > A.ci + 1)
    BY <1>3, <1>15
  <2>4. n + 1 \in 1..n + 1
    BY <1>3
  <2>5. A.nny = 0 => cj[n + 1].fn # "handler"
    BY <1>6, <1>7, <1>15, <2>1
  <2>6. A.nny > 0 /\ A.link > 1 => \E i \in 1..A.ci + 1 : cj[i].fn \in {"sort", "handler"}
    BY <1>3, <1>15, <2>1, <2>2
  <2>7. cj[A.ci + 1].fresh /\ IsLua(cj[n + 1].fn)
    BY <1>6, <1>7, <1>13, <1>15
  <2> HIDE DEF n, A
  <2> QED
    BY <2>3, <2>5, <2>6, <2>7 DEF Owns
<1>29. TopRight(r, b)
  <2>1. Live(Cur(r), A)
    BY Zenon, <1>2, <1>12, <1>15, <1>16, <1>27 DEF Live
  <2>2. ~(Len(r.c) <= 2)
    BY <1>2, <1>20, <1>27
  <2> QED
    BY <1>7, <1>12, <1>27, <1>28, <2>1, <2>2 DEF TopRight
<1>30. Names(cj) = Names(ci)
  <2>1. \A i \in 1..n + 1 : i \in 1..n \/ i = n + 1
    BY <1>3
  <2>2. \A i \in 1..Len(ci) : ci[i].fn = cj[i].fn
    BY <1>3, <1>5, <1>6, <1>7, <2>1 DEF SameTo
  <2> HIDE DEF ci, n
  <2> QED
    BY <1>3, <1>7, <2>2, NamesSame
<1>31. Same(s, r) /\ Ready(r, ch)
  BY <1>10, <1>11, <1>12, <1>14, <1>27, <1>29 DEF Same, Ready
<1>32. Cur(r).ci = cj /\ Cur(r).errfunc = Cur(s).errfunc /\ TopF(r) = "execute"
  BY <1>2, <1>12, <1>27
<1> QED
  BY <1>10, <1>30, <1>31, <1>32 DEF r
LEMMA NewCIIs ==
  ASSUME NEW fn \in Fns
  PROVE  LET x == NewCI(fn)
         IN  x \in CIs /\ x.fn = fn /\ ~x.k /\ ~x.ypcall /\ ~x.fresh /\ x.old_errfunc = 0
BY DEF NewCI, CIs

\* luaD_precall: one more call of a thread.
CalledNew(s, r, t, fn) ==
  LET o == s.th[t]
      y == r.th[t]
  IN
  /\ OneThread(s, r, t) /\ y \in Thread
  /\ Len(o.ci) \in Nat /\ Len(y.ci) = Len(o.ci) + 1 /\ SameTo(o.ci, y.ci, Len(o.ci))
  /\ y.ci[Len(o.ci) + 1] = NewCI(fn) /\ Last(y.ci) = NewCI(fn) /\ y.ci # <<>>
  /\ Front(y.ci) = o.ci /\ y.ci = Append(o.ci, NewCI(fn))
  /\ Names(y.ci) = Append(Names(o.ci), fn)
  /\ CIsRight(o.ci) => CIsRight(y.ci)
  /\ y.status = o.status /\ y.nny = o.nny /\ y.nCcalls = o.nCcalls
  /\ y.errorJmp = o.errorJmp /\ y.errfunc = o.errfunc /\ y.body = o.body

LEMMA PushCIIs ==
  ASSUME NEW s \in Machine, NEW t \in Threads, NEW fn \in Fns
  PROVE  CalledNew(s, PushCI(s, t, NewCI(fn)), t, fn)
<1> DEFINE x == NewCI(fn)
           o == s.th[t]
           ci == o.ci
           cj == Append(ci, x)
           r == SetCalls(s, t, cj)
<1>1. x \in CIs /\ x.fn = fn /\ ~x.ypcall
  BY NewCIIs
<1> HIDE DEF x
<1>2. ci \in Seq(CIs) /\ Len(ci) \in Nat
  BY MachineIs, ThreadIs
<1>3. /\ cj \in Seq(CIs) /\ Len(cj) = Len(ci) + 1 /\ SameTo(ci, cj, Len(ci))
      /\ cj[Len(ci) + 1] = x /\ Last(cj) = x /\ cj # <<>> /\ Front(cj) = ci
  BY <1>1, <1>2, AppendIs DEF SameTo
<1>4. Names(cj) = Append(Names(ci), fn)
  BY <1>1, <1>2, NamesAppend
<1>5. CIsRight(ci) => CIsRight(cj)
  <2>1. Len(cj) >= 1 /\ Len(cj) - 1 = Len(ci) /\ ~cj[Len(cj)].ypcall
    BY <1>1, <1>2, <1>3
  <2> HIDE DEF cj, ci
  <2> QED
    BY <1>2, <1>3, <2>1, CIsRightStep
<1> HIDE DEF cj
<1>6. /\ OneThread(s, r, t) /\ r.th[t] \in Thread /\ r.th[t].ci = cj
      /\ r.th[t].status = o.status /\ r.th[t].nny = o.nny /\ r.th[t].nCcalls = o.nCcalls
      /\ r.th[t].errorJmp = o.errorJmp /\ r.th[t].errfunc = o.errfunc /\ r.th[t].body = o.body
  BY <1>3, SetCallsIs
<1>7. PushCI(s, t, NewCI(fn)) = r
  BY DEF PushCI, SetCalls, cj, x
<1> HIDE DEF r
<1>8. CalledNew(s, r, t, fn)
  BY <1>2, <1>3, <1>4, <1>5, <1>6 DEF x, cj, CalledNew
<1> QED
  BY <1>7, <1>8

\* luaD_call from the function at the top
CanCall(s, ch, a, fn) ==
  /\ s \in Machine /\ StackRight(s, ch, a) /\ TopRight(s, a) /\ CIsRight(Cur(s).ci)
  /\ TopF(s) \in {"noyield", "cfunc", "execute"} /\ fn \in {"lua", "meta", "handler"}
  /\ Last(a).nny = 0 => fn # "handler"
  /\ Last(a).nny > 0 /\ Last(a).link > 1 =>
       fn = "handler" \/ \E i \in 1..Len(Cur(s).ci) : Cur(s).ci[i].fn \in {"sort", "handler"}
  /\ TopF(s) = "cfunc" => Last(a).nny = 0 /\ Pending(Cur(s).ci, Len(Cur(s).ci))

\* The call of fn runs, or it has failed before; names are those of the calls before.
Called(s, r, ch, names, fn) ==
  /\ Same(s, r) /\ Ready(r, ch)
  /\ \/ r.do = "run" /\ TopF(r) = "execute" /\ Names(Cur(r).ci) = Append(names, fn)
     \/ /\ TopF(r) = "call" /\ Names(Cur(r).ci) = names
        /\ r.do = "raise" \/ (r.do = "throw" /\ r.status = "ERRERR")

LEMMA RaiseIs ==
  ASSUME NEW s \in Machine
  PROVE  LET r == Raise(s) IN r \in Machine /\ r.th = s.th /\ r.c = s.c /\ r.do = "raise" /\ r.status = s.status
BY DEF Raise, Machine, Dos

LEMMA ThrowIs ==
  ASSUME NEW s \in Machine, NEW v \in Statuses
  PROVE  LET r == Throw(s, v) IN r \in Machine /\ r.th = s.th /\ r.c = s.c /\ r.do = "throw" /\ r.status = v
BY DEF Throw, Machine, Dos

\* What is said of the top looks at the threads and the stack alone.
LEMMA SameMachine ==
  ASSUME NEW s \in Machine, NEW r \in Machine, r.th = s.th, r.c = s.c
  PROVE  /\ \A ch, a : StackRight(r, ch, a) = StackRight(s, ch, a) /\ TopRight(r, a) = TopRight(s, a)
         /\ TopF(r) = TopF(s) /\ Cur(r) = Cur(s) /\ TopCI(r) = TopCI(s)
         /\ \A ch : Ready(r, ch) = Ready(s, ch)
<1>1. TopF(r) = TopF(s) /\ Cur(r) = Cur(s) /\ TopCI(r) = TopCI(s)
  BY DEF TopF, Cur, TopCI
<1>2. \A ch, a : StackRight(r, ch, a) = StackRight(s, ch, a)
  BY DEF StackRight, Upper
<1>3. \A a : TopRight(r, a) = TopRight(s, a)
  BY <1>1 DEF TopRight
<1> QED
  BY <1>1, <1>2, <1>3 DEF Ready
\* luaD_call with the call counted and on the C stack.
LEMMA CallFrame ==
  ASSUME NEW s, NEW ch, NEW a, NEW fn, CanCall(s, ch, a, fn), NEW v \in Int, NEW up,
         v >= Last(a).depth + 1, up = Enters(SetCCalls(s, Last(s.c).L, v), "call", Last(s.c).L)
  PROVE  /\ Same(s, up) /\ Cur(up).ci = Cur(s).ci /\ Cur(up).errfunc = Cur(s).errfunc
         /\ TopF(up) = "call" /\ Cur(up).nCcalls = v
         /\ \E b : /\ StackRight(up, ch, b) /\ TopRight(up, b)
                   /\ Last(b).ci = Len(Cur(s).ci) /\ Last(b).nny = Last(a).nny /\ Last(b).link = Last(a).link
<1> DEFINE t == Last(s.c).L
           ci == Cur(s).ci
           n == Len(ci)
           N == Len(s.c)
           B == Last(a)
           x == [f |-> "call", L |-> t, n |-> 0, p |-> 0, e |-> 0]
           o == SetCCalls(s, t, v)
           A == MarkOf(x, N + 1, B, n)
           b == Append(a, A)
<1>1. s \in Machine /\ StackRight(s, ch, a) /\ TopRight(s, a)
  BY DEF CanCall
<1>2. t \in Threads /\ Cur(s) = s.th[t] /\ Cur(s) \in Thread /\ N \in Nat /\ N >= 1 /\ B \in Mark
  BY <1>1, StackEnds DEF Cur
<1>3. ci \in Seq(CIs) /\ n \in Nat
  BY <1>1, <1>2, ThreadIs
<1>4. /\ OneThread(s, o, t) /\ o.th[t] \in Thread /\ o.th[t].nCcalls = v
      /\ o.th[t].ci = ci /\ o.th[t].status = Cur(s).status /\ o.th[t].nny = Cur(s).nny
      /\ o.th[t].errorJmp = Cur(s).errorJmp /\ o.th[t].errfunc = Cur(s).errfunc
      /\ o.th[t].body = Cur(s).body
  BY <1>1, <1>2, <1>3, SetCCallsIs
<1> HIDE DEF o
<1>5. up \in Machine /\ up.th = o.th /\ up.c = Append(s.c, x) /\ x \in Frame
  <2>1. o \in Machine /\ o.c = s.c /\ "call" \in FrameKinds /\ up = Enters(o, "call", t)
    BY <1>2, <1>4 DEF OneThread, FrameKinds, o
  <2> QED
    BY <1>2, <2>1, EntersIs
<1>6. \A u \in Threads \ {t} : up.th[u] = s.th[u]
  BY <1>4, <1>5 DEF OneThread
<1>7. /\ A.ci = n /\ A.link = B.link /\ A.pcall = B.pcall /\ A.nny = B.nny /\ A.depth = B.depth + 1
      /\ A.jmp = B.jmp
  BY DEF MarkOf
<1>8. A \in Mark
  BY <1>2, <1>3, MarkOfIs
<1>9. /\ Below(TopF(s), B, ci) /\ B.ci \in Nat /\ B.nny \in Nat /\ B.pcall \in Nat /\ B.depth \in Nat
      /\ (TopF(s) = "host") = (N = 1) /\ B.ci <= n
  BY <1>1, <1>2, TopIs, MarkIs
<1>10. Owns(TopF(s), B, ci, n) /\ Live(Cur(s), B)
  BY <1>1 DEF TopRight
<1>11. TopF(s) \in {"noyield", "cfunc", "execute"} /\ (TopF(s) = "cfunc" => B.nny = 0 /\ Pending(ci, n))
  BY DEF CanCall
<1>12. <<TopF(s), "call">> \in Nesting
  BY <1>11 DEF Nesting
<1>13. N >= 2
  <2>1. N # 1
    BY <1>9, <1>11
  <2> HIDE DEF N
  <2> QED
    BY <1>2, <2>1
<1>14. B.nny = 0 => B.pcall = 0 /\ B.link > 1
  BY <1>9 DEF Below
<1>15. ASSUME NEW i \in B.ci + 1..n
       PROVE  /\ Protects(ci[i].fn) => ci[i].ypcall /\ B.pcall = 0 /\ B.link > 1
              /\ B.nny = 0 => Pending(ci, i)
              /\ TopF(s) \in {"cfunc", "execute"}
  <2>1. CASE TopF(s) = "noyield"
    <3>1. B.ci = n
      BY <1>10, <2>1 DEF Owns
    <3> QED
      BY <1>3, <3>1
  <2>2. CASE TopF(s) = "cfunc"
    <3>1. n = B.ci + 1
      BY <1>10, <2>2 DEF Owns
    <3>2. i = n
      BY <1>3, <1>9, <3>1
    <3> QED
      BY <1>11, <1>14, <2>2, <3>2 DEF Pending, Protects
  <2>3. CASE TopF(s) = "execute"
    <3>1. IsLua(ci[i].fn) /\ (B.nny = 0 => ci[i].fn # "handler")
      BY <1>10, <2>3 DEF Owns
    <3> QED
      BY <2>3, <3>1 DEF IsLua, Protects, Pending
  <2> QED
    BY <1>11, <2>1, <2>2, <2>3
<1>16. Below("call", A, ci)
  <2>1. \A i \in B.ci + 1..A.ci : Protects(ci[i].fn) => ci[i].ypcall /\ A.pcall = 0 /\ A.link > 1
    BY <1>7, <1>15
  <2>2. \A i \in B.ci + 1..A.ci : A.nny = 0 => Pending(ci, i)
    BY <1>7, <1>15
  <2>3. A.nny = 0 => TopF(s) \in {"execute", "call", "cfunc"} \/ B.ci = 0
    <3>1. CASE TopF(s) = "noyield"
      <4>1. s.c[N].f = "noyield" /\ a[N] = B
        BY <1>1, <3>1, StackEnds DEF TopF
      <4>2. N > 1 => B = MarkOf(Last(s.c), N, a[N - 1], B.ci) /\ a[N - 1] \in Mark
        BY ZenonT(30), <1>1, TopIs, UnderIs
      <4>3. B.nny = a[N - 1].nny + 1 /\ a[N - 1] \in Mark
        BY <1>13, <3>1, <4>2 DEF MarkOf, TopF
      <4>4. B.nny # 0
        BY <4>3, MarkIs
      <4> QED
        BY <1>7, <4>4
    <3> QED
      BY <1>11, <3>1
  <2>4. B.ci <= A.ci /\ A.link = B.link /\ A.pcall = B.pcall /\ A.nny = B.nny
    BY <1>7, <1>9
  <2> HIDE DEF A, B, ci
  <2> QED
    BY <1>2, <1>8, <1>9, <2>1, <2>2, <2>3, <2>4, BelowPush
<1>17. SavedOver(x, TopF(s), B, A, ci, N + 1)
  <2>1. TopF(s) = "cfunc" => A.nny = 0 /\ A.ci >= 1 /\ Pending(ci, A.ci)
    <3>1. TopF(s) = "cfunc" => n = B.ci + 1
      BY <1>10 DEF Owns
    <3> QED
      BY <1>7, <1>9, <1>11, <3>1
  <2> QED
    BY <2>1 DEF SavedOver
<1>18. up.th[t].ci = ci /\ up.th[t] = o.th[t]
  BY <1>4, <1>5
<1>19. /\ StackRight(up, ch, b) /\ Last(b) = A /\ Last(up.c) = x /\ TopF(up) = x.f
       /\ Cur(up) = up.th[x.L] /\ Len(up.c) = N + 1
  <2>1. SameTo(Cur(s).ci, up.th[x.L].ci, B.ci)
    BY <1>18 DEF SameTo
  <2>2. /\ x.L = t /\ x.f = "call" /\ x.f # "resume" /\ A = MarkOf(x, Len(s.c) + 1, Last(a), n)
        /\ up.th[x.L].ci = ci
    BY <1>18
  <2>3. n <= Len(up.th[x.L].ci) /\ B.ci <= n
    BY <1>3, <1>9, <2>2
  <2> HIDE DEF x, A, n
  <2>4. Pushes(s, up, ch, a, x, n, A)
    BY Zenon, <1>1, <1>3, <1>5, <1>6, <1>10, <1>12, <1>16, <1>17, <2>1, <2>2, <2>3 DEF Pushes
  <2> QED
    BY <2>4, StackPush
<1>20. TopRight(up, b)
  <2>1. Live(Cur(up), A)
    BY <1>4, <1>7, <1>10, <1>18, <1>19 DEF Live
  <2>2. ~(Len(up.c) <= 2)
    <3> HIDE DEF N
    <3> QED
      BY <1>2, <1>13, <1>19
  <2>3. Owns("call", A, ci, n)
    BY <1>7 DEF Owns
  <2> QED
    BY <1>18, <1>19, <2>1, <2>2, <2>3 DEF TopRight
<1>21. Same(s, up)
  BY <1>5, <1>6, <1>19 DEF Same
<1>22. Cur(up).ci = Cur(s).ci /\ Cur(up).errfunc = Cur(s).errfunc /\ Cur(up).nCcalls = v
       /\ TopF(up) = "call"
  BY <1>4, <1>18, <1>19
<1>23. Last(b).ci = n /\ Last(b).nny = B.nny /\ Last(b).link = B.link
  BY <1>7, <1>19
<1> HIDE DEF b
<1> QED
  BY <1>19, <1>20, <1>21, <1>22, <1>23

LEMMA DCallIs ==
  ASSUME NEW s, NEW ch, NEW a, NEW fn, CanCall(s, ch, a, fn)
  PROVE  LET r == DCall(s, Last(s.c).L, fn)
         IN  Called(s, r, ch, Names(Cur(s).ci), fn) /\ Cur(r).errfunc = Cur(s).errfunc
<1> DEFINE t == Last(s.c).L
           ci == Cur(s).ci
           n == Len(ci)
           h == Cur(s).nCcalls + 1
           up == Enters(SetCCalls(s, t, h), "call", t)
           p == PushCI(up, t, NewCI(fn))
           r == DCall(s, t, fn)
<1>1. s \in Machine /\ StackRight(s, ch, a) /\ TopRight(s, a) /\ CIsRight(ci)
  BY DEF CanCall
<1>2. t \in Threads /\ Cur(s) = s.th[t] /\ Cur(s) \in Thread
  BY <1>1, StackEnds DEF Cur
<1>3. ci \in Seq(CIs) /\ n \in Nat
  BY <1>2, ThreadIs
<1>4. /\ Same(s, up) /\ Cur(up).ci = ci /\ Cur(up).errfunc = Cur(s).errfunc /\ TopF(up) = "call"
      /\ \E b : /\ StackRight(up, ch, b) /\ TopRight(up, b)
                /\ Last(b).ci = n /\ Last(b).nny = Last(a).nny /\ Last(b).link = Last(a).link
  <2>1. h \in Int /\ h >= Last(a).depth + 1
    <3>1. Cur(s).nCcalls \in Int /\ Last(a).depth \in Nat /\ Cur(s).nCcalls >= Last(a).depth
      BY <1>1, <1>2, ThreadIs, StackEnds, MarkIs DEF TopRight, Live
    <3> QED
      BY <3>1
  <2> HIDE DEF h
  <2> QED
    BY <2>1, CallFrame
<1>5. PICK b : /\ StackRight(up, ch, b) /\ TopRight(up, b)
               /\ Last(b).ci = n /\ Last(b).nny = Last(a).nny /\ Last(b).link = Last(a).link
  BY <1>4
<1>6. r \in {Raise(up), Throw(up, "ERRERR"), Execute(p, t)}
  BY <1>2 DEF DCall, SetCCalls, ExecuteNew
<1> HIDE DEF up, r, h
<1>7. up \in Machine /\ Last(up.c).L = t /\ Cur(up) = up.th[t]
      /\ \A u \in Threads \ {t} : up.th[u] = s.th[u]
  BY <1>4 DEF Same, Cur
<1>8. CIsRight(Cur(up).ci) /\ Ready(up, ch)
  BY <1>1, <1>4, <1>5 DEF Ready
<1>9. ASSUME r \in Machine, r.th = up.th, r.c = up.c, r.do = "raise" \/ (r.do = "throw" /\ r.status = "ERRERR")
      PROVE  Called(s, r, ch, Names(ci), fn) /\ Cur(r).errfunc = Cur(s).errfunc
  <2>1. TopF(r) = "call" /\ Cur(r) = Cur(up) /\ Ready(r, ch)
    BY <1>4, <1>7, <1>8, <1>9, SameMachine
  <2>2. Same(s, r)
    BY <1>7, <1>9 DEF Same
  <2> QED
    BY <1>4, <1>9, <2>1, <2>2 DEF Called
<1>10. ASSUME r = Raise(up)
       PROVE  Called(s, r, ch, Names(ci), fn) /\ Cur(r).errfunc = Cur(s).errfunc
  <2>2. r \in Machine /\ r.th = up.th /\ r.c = up.c /\ r.do = "raise"
    BY <1>7, <1>10, RaiseIs
  <2> QED
    BY <1>9, <2>2
<1>11. ASSUME r = Throw(up, "ERRERR")
       PROVE  Called(s, r, ch, Names(ci), fn) /\ Cur(r).errfunc = Cur(s).errfunc
  <2>1. "ERRERR" \in Statuses
    BY DEF Statuses, Errors
  <2>3. r \in Machine /\ r.th = up.th /\ r.c = up.c /\ r.do = "throw" /\ r.status = "ERRERR"
    BY <1>7, <1>11, <2>1, ThrowIs
  <2> QED
    BY <1>9, <2>3
<1>12. ASSUME r = Execute(p, t)
       PROVE  Called(s, r, ch, Names(ci), fn) /\ Cur(r).errfunc = Cur(s).errfunc
  <2>1. fn \in Fns /\ IsLua(fn) /\ fn \in {"lua", "meta", "handler"}
    BY DEF CanCall, Fns, IsLua
  <2>2. NewCI(fn).fn = fn
    BY <2>1, NewCIIs
  <2>3. up.th[t].ci = ci /\ CIsRight(ci)
    BY <1>1, <1>4, <1>7
  <2> HIDE DEF t, ci
  <2>14. CalledNew(up, p, t, fn)
    BY <1>2, <1>7, <2>1, PushCIIs
  <2> HIDE DEF p
  <2>4. /\ OneThread(up, p, t) /\ p.th[t] \in Thread
        /\ Len(p.th[t].ci) = n + 1 /\ SameTo(ci, p.th[t].ci, n) /\ p.th[t].ci[n + 1] = NewCI(fn)
    BY <1>2, <2>3, <2>14 DEF CalledNew
  <2>5. /\ Last(p.th[t].ci) = NewCI(fn)
        /\ Names(p.th[t].ci) = Append(Names(ci), fn) /\ CIsRight(p.th[t].ci)
    BY <1>2, <2>3, <2>14 DEF CalledNew
  <2>6. /\ p.th[t].status = up.th[t].status /\ p.th[t].nny = up.th[t].nny
        /\ p.th[t].nCcalls = up.th[t].nCcalls
        /\ p.th[t].errorJmp = up.th[t].errorJmp /\ p.th[t].errfunc = up.th[t].errfunc
        /\ p.th[t].body = up.th[t].body
    BY <1>2, <2>3, <2>14 DEF CalledNew
  <2>7. p \in Machine /\ p.c = up.c /\ Last(p.c).L = t /\ Cur(p) = p.th[t] /\ TopF(p) = "call"
        /\ \A u \in Threads \ {t} : p.th[u] = up.th[u]
    BY <1>4, <1>7, <2>4 DEF OneThread, Cur, TopF
  <2> DEFINE cj == Cur(p).ci
  <2>8. Len(cj) = n + 1 /\ SameTo(ci, cj, n) /\ cj[n + 1].fn = fn /\ Last(cj).fn = fn
        /\ Names(cj) = Append(Names(ci), fn) /\ CIsRight(cj)
    BY <2>2, <2>4, <2>5, <2>7
  <2>9. Live(Cur(p), Last(b))
    BY <1>5, <1>7, <2>6, <2>7 DEF Live, TopRight
  <2>10. Cur(p).errfunc = Cur(up).errfunc
    BY <1>7, <2>6, <2>7
  <2> HIDE DEF cj, n
  <2>11. StackRight(p, ch, b)
    <3>1. Last(b).ci <= Len(cj)
      BY <1>3, <1>5, <2>8
    <3>2. SameTo(Cur(up).ci, cj, Last(b).ci)
      BY <1>4, <1>5, <2>8 DEF ci
    <3> QED
      BY <1>5, <1>7, <2>7, <3>1, <3>2, StackTop DEF cj
  <2>12. CanExecute(p, ch, b)
    <3>1. Owns("call", Last(b), cj, n)
      BY <1>5 DEF Owns
    <3>2. Last(a).nny = 0 => fn # "handler"
      BY DEF CanCall
    <3>3. Last(a).nny > 0 /\ Last(a).link > 1 => \E i \in 1..n + 1 : cj[i].fn \in {"sort", "handler"}
      <4>1. \A i \in 1..n : cj[i] = ci[i] /\ i \in 1..n + 1
        BY <1>3, <2>8 DEF SameTo
      <4>2. n + 1 \in 1..n + 1 /\ cj[n + 1].fn = fn
        BY <1>3, <2>8
      <4>3. Last(a).nny > 0 /\ Last(a).link > 1 => fn = "handler" \/ \E i \in 1..n : ci[i].fn \in {"sort", "handler"}
        BY DEF CanCall, n, ci
      <4> QED
        BY <4>1, <4>2, <4>3
    <3>4. Len(cj) - 1 = n /\ Len(cj) >= 1 /\ Last(b).ci <= n
      BY <1>3, <1>5, <2>8
    <3> QED
      BY <1>5, <2>1, <2>7, <2>8, <2>9, <2>11, <3>1, <3>2, <3>3, <3>4 DEF CanExecute, cj
  <2>13. /\ Same(p, r) /\ Ready(r, ch) /\ Cur(r).errfunc = Cur(p).errfunc
         /\ r.do = "run" /\ TopF(r) = "execute" /\ Names(Cur(r).ci) = Names(cj)
    <3>1. r = Execute(p, Last(p.c).L)
      BY <1>12, <2>7
    <3> QED
      BY <2>12, <3>1, ExecuteIs DEF cj
  <2>16. Same(s, r)
    BY <1>7, <2>7, <2>13 DEF Same, t
  <2>15. Called(s, r, ch, Names(ci), fn)
    BY <2>8, <2>13, <2>16 DEF Called
  <2> QED
    BY <1>4, <2>10, <2>13, <2>15
<1> HIDE DEF p
<1> QED
  BY <1>6, <1>10, <1>11, <1>12 DEF r
\* A new frame above all calls of its thread.
LEMMA PushTop ==
  ASSUME NEW s, NEW r, NEW ch, NEW a, NEW x, NEW n, NEW A, Pushes(s, r, ch, a, x, n, A),
         n = Len(r.th[x.L].ci), x.f \notin {"execute", "cfunc", "resuming", "unroll"},
         Live(r.th[x.L], A), Len(s.c) >= 2 \/ r.th[x.L].nCcalls = 0
  PROVE  /\ StackRight(r, ch, Append(a, A)) /\ TopRight(r, Append(a, A)) /\ Last(Append(a, A)) = A
         /\ A \in Mark /\ TopF(r) = x.f /\ Cur(r) = r.th[x.L] /\ Last(r.c) = x
<1>1. /\ StackRight(r, ch, Append(a, A)) /\ A \in Mark /\ Last(Append(a, A)) = A
      /\ Last(r.c) = x /\ TopF(r) = x.f /\ Cur(r) = r.th[x.L] /\ Len(r.c) = Len(s.c) + 1
  BY StackPush
<1>2. A.ci = n
  BY Zenon DEF Pushes, MarkOf
<1>3. Owns(x.f, A, Cur(r).ci, n)
  BY <1>2 DEF Owns
<1>4. Len(r.c) <= 2 => Cur(r).nCcalls = 0
  <2>1. Len(s.c) \in Nat
    BY Zenon, StackEnds DEF Pushes
  <2> QED
    BY <1>1, <2>1
<1> HIDE DEF Pushes
<1> QED
  BY <1>1, <1>3, <1>4 DEF TopRight

\* luaD_callnoyield from the function at the top
CanCallNoYield(s, ch, a, fn) ==
  /\ s \in Machine /\ StackRight(s, ch, a) /\ TopRight(s, a) /\ CIsRight(Cur(s).ci)
  /\ TopF(s) \in {"cfunc", "try", "errormsg"} /\ fn \in {"lua", "handler"}
  /\ TopF(s) = "cfunc" => ~Protects(Cur(s).ci[Len(Cur(s).ci)].fn)
  /\ Last(a).link > 1 =>
       fn = "handler" \/ \E i \in 1..Len(Cur(s).ci) : Cur(s).ci[i].fn \in {"sort", "handler"}

LEMMA NoYieldFrame ==
  ASSUME NEW s, NEW ch, NEW a, NEW fn, CanCallNoYield(s, ch, a, fn), NEW v \in Nat, NEW up,
         v = Last(a).nny + 1, up = Enters(SetNny(s, Last(s.c).L, v), "noyield", Last(s.c).L)
  PROVE  /\ Same(s, up) /\ Cur(up).ci = Cur(s).ci /\ Cur(up).errfunc = Cur(s).errfunc
         /\ TopF(up) = "noyield"
         /\ \E b : /\ StackRight(up, ch, b) /\ TopRight(up, b)
                   /\ Last(b).nny = v /\ Last(b).link = Last(a).link
<1> DEFINE t == Last(s.c).L
           ci == Cur(s).ci
           n == Len(ci)
           N == Len(s.c)
           B == Last(a)
           x == [f |-> "noyield", L |-> t, n |-> 0, p |-> 0, e |-> 0]
           o == SetNny(s, t, v)
           A == MarkOf(x, N + 1, B, n)
           b == Append(a, A)
<1>1. s \in Machine /\ StackRight(s, ch, a) /\ TopRight(s, a)
  BY DEF CanCallNoYield
<1>2. t \in Threads /\ Cur(s) = s.th[t] /\ Cur(s) \in Thread /\ N \in Nat /\ N >= 1 /\ B \in Mark
  BY <1>1, StackEnds DEF Cur
<1>3. ci \in Seq(CIs) /\ n \in Nat
  BY <1>1, <1>2, ThreadIs
<1>4. /\ OneThread(s, o, t) /\ o.th[t] \in Thread /\ o.th[t].nny = v
      /\ o.th[t].ci = ci /\ o.th[t].status = Cur(s).status /\ o.th[t].nCcalls = Cur(s).nCcalls
      /\ o.th[t].errorJmp = Cur(s).errorJmp /\ o.th[t].errfunc = Cur(s).errfunc
      /\ o.th[t].body = Cur(s).body
  BY <1>1, <1>2, <1>3, SetNnyIs
<1> HIDE DEF o
<1>5. up \in Machine /\ up.th = o.th /\ up.c = Append(s.c, x) /\ x \in Frame
  <2>1. o \in Machine /\ o.c = s.c /\ "noyield" \in FrameKinds /\ up = Enters(o, "noyield", t)
    BY <1>2, <1>4 DEF OneThread, FrameKinds, o
  <2> QED
    BY <1>2, <2>1, EntersIs
<1>6. \A u \in Threads \ {t} : up.th[u] = s.th[u]
  BY <1>4, <1>5 DEF OneThread
<1>7. /\ A.ci = n /\ A.link = B.link /\ A.pcall = B.pcall /\ A.nny = B.nny + 1 /\ A.depth = B.depth
      /\ A.jmp = B.jmp
  BY DEF MarkOf
<1>8. A \in Mark
  BY <1>2, <1>3, MarkOfIs
<1>9. /\ Below(TopF(s), B, ci) /\ B.ci \in Nat /\ B.nny \in Nat /\ (TopF(s) = "host") = (N = 1) /\ B.ci <= n
  BY <1>1, <1>2, TopIs, MarkIs
<1>10. Owns(TopF(s), B, ci, n) /\ Live(Cur(s), B)
  BY <1>1 DEF TopRight
<1>11. TopF(s) \in {"cfunc", "try", "errormsg"} /\ (TopF(s) = "cfunc" => ~Protects(ci[n].fn))
  BY DEF CanCallNoYield
<1>12. <<TopF(s), "noyield">> \in Nesting
  BY <1>11 DEF Nesting
<1>13. N >= 2
  <2>1. N # 1
    BY <1>9, <1>11
  <2> HIDE DEF N
  <2> QED
    BY <1>2, <2>1
<1>14. IF TopF(s) = "cfunc" THEN n = B.ci + 1 ELSE n = B.ci
  BY <1>10, <1>11 DEF Owns
<1>15. ASSUME NEW i \in B.ci + 1..n PROVE ~Protects(ci[i].fn)
  <2>1. TopF(s) = "cfunc" /\ i = n
    <3> HIDE DEF n, B
    <3> QED
      BY <1>3, <1>9, <1>14
  <2> QED
    BY <1>11, <2>1
<1>16. Below("noyield", A, ci)
  <2>1. \A i \in B.ci + 1..A.ci : Protects(ci[i].fn) => ci[i].ypcall /\ A.pcall = 0 /\ A.link > 1
    BY <1>7, <1>15
  <2>2. A.nny # 0
    BY <1>7, <1>9
  <2>4. B.ci <= A.ci /\ A.link = B.link /\ A.pcall = B.pcall /\ A.nny = B.nny + 1
    BY <1>7, <1>9
  <2> HIDE DEF A, B, ci
  <2> QED
    BY <1>2, <1>8, <1>9, <2>1, <2>2, <2>4, BelowPush
<1>17. SavedOver(x, TopF(s), B, A, ci, N + 1)
  <2>1. TopF(s) = "cfunc" => A.ci >= 1 /\ ~Protects(ci[A.ci].fn)
    BY <1>7, <1>9, <1>11, <1>14
  <2> QED
    BY <2>1 DEF SavedOver
<1>18. up.th[t].ci = ci /\ up.th[t] = o.th[t]
  BY <1>4, <1>5
<1>19. Live(up.th[t], A)
  BY <1>4, <1>7, <1>10, <1>18 DEF Live
<1>20. /\ StackRight(up, ch, b) /\ TopRight(up, b) /\ Last(b) = A /\ TopF(up) = "noyield" /\ Cur(up) = up.th[t]
       /\ Last(up.c) = x
  <2>1. SameTo(Cur(s).ci, up.th[x.L].ci, B.ci)
    BY <1>18 DEF SameTo
  <2>2. /\ x.L = t /\ x.f = "noyield" /\ x.f # "resume" /\ A = MarkOf(x, Len(s.c) + 1, Last(a), n)
        /\ up.th[x.L].ci = ci
    BY <1>18
  <2>3. n <= Len(up.th[x.L].ci) /\ B.ci <= n /\ n = Len(up.th[x.L].ci)
    BY <1>3, <1>9, <2>2
  <2> HIDE DEF x, A, n
  <2>4. Pushes(s, up, ch, a, x, n, A)
    BY Zenon, <1>1, <1>3, <1>5, <1>6, <1>10, <1>12, <1>16, <1>17, <2>1, <2>2, <2>3 DEF Pushes
  <2>5. Len(s.c) >= 2 /\ Live(up.th[x.L], A) /\ x.f \notin {"execute", "cfunc", "resuming", "unroll"}
    BY <1>13, <1>19, <2>2
  <2> QED
    BY <2>2, <2>3, <2>4, <2>5, PushTop
<1>21. Same(s, up)
  BY <1>5, <1>6, <1>20 DEF Same
<1>22. Cur(up).ci = Cur(s).ci /\ Cur(up).errfunc = Cur(s).errfunc
  BY <1>4, <1>18, <1>20
<1>23. Last(b).nny = v /\ Last(b).link = B.link
  BY <1>7, <1>20
<1> HIDE DEF b
<1> QED
  BY <1>20, <1>21, <1>22, <1>23

LEMMA DCallNoYieldIs ==
  ASSUME NEW s, NEW ch, NEW a, NEW fn, CanCallNoYield(s, ch, a, fn)
  PROVE  LET r == DCallNoYield(s, Last(s.c).L, fn)
         IN  Called(s, r, ch, Names(Cur(s).ci), fn) /\ Cur(r).errfunc = Cur(s).errfunc
<1> DEFINE t == Last(s.c).L
           v == Last(a).nny + 1
           up == Enters(SetNny(s, t, v), "noyield", t)
           r == DCallNoYield(s, t, fn)
<1>1. s \in Machine /\ StackRight(s, ch, a) /\ TopRight(s, a) /\ CIsRight(Cur(s).ci)
  BY DEF CanCallNoYield
<1>2. v \in Nat /\ v > 0
  <2>1. Last(a).nny \in Nat
    BY <1>1, StackEnds, MarkIs
  <2> QED
    BY <2>1
<1>3. Cur(s) = s.th[t] /\ s.th[t].nny = Last(a).nny
  BY <1>1 DEF Cur, TopRight, Live
<1>4. r = DCall(up, t, fn)
  BY <1>3 DEF DCallNoYield, SetNny
<1> HIDE DEF v, r
<1>5. /\ Same(s, up) /\ Cur(up).ci = Cur(s).ci /\ Cur(up).errfunc = Cur(s).errfunc
      /\ TopF(up) = "noyield"
      /\ \E b : /\ StackRight(up, ch, b) /\ TopRight(up, b)
                /\ Last(b).nny = v /\ Last(b).link = Last(a).link
  BY <1>2, NoYieldFrame DEF v
<1> HIDE DEF up
<1>6. PICK b : /\ StackRight(up, ch, b) /\ TopRight(up, b)
               /\ Last(b).nny = v /\ Last(b).link = Last(a).link
  BY <1>5
<1>7. up \in Machine /\ Last(up.c).L = t /\ \A u \in Threads \ {t} : up.th[u] = s.th[u]
  BY <1>5 DEF Same
<1>8. CanCall(up, ch, b, fn)
  <2>1. /\ fn \in {"lua", "handler"}
        /\ Last(a).link > 1 =>
             fn = "handler" \/ \E i \in 1..Len(Cur(s).ci) : Cur(s).ci[i].fn \in {"sort", "handler"}
    BY DEF CanCallNoYield
  <2>2. Last(b).nny # 0
    BY <1>2, <1>6
  <2> QED
    BY <1>1, <1>5, <1>6, <1>7, <2>1, <2>2 DEF CanCall
<1>9. Called(up, r, ch, Names(Cur(up).ci), fn) /\ Cur(r).errfunc = Cur(up).errfunc
  BY <1>4, <1>7, <1>8, DCallIs
<1>10. Called(s, r, ch, Names(Cur(s).ci), fn)
  <2>1. Same(s, r)
    BY <1>7, <1>9 DEF Called, Same
  <2> QED
    BY <1>5, <1>9, <2>1 DEF Called
<1> QED
  BY <1>5, <1>9, <1>10 DEF r
\* luaD_rawrunprotected from the function at the top, luaD_pcall or lua_resume
CanTry(s, ch, a) ==
  LET t == Cur(s)
      B == Last(a)
  IN
  /\ s \in Machine /\ StackRight(s, ch, a) /\ TopF(s) \in {"dpcall", "resume"}
  /\ t.nCcalls >= B.depth /\ t.errorJmp = (IF TopF(s) = "dpcall" THEN B.jmp ELSE 0)
  /\ Len(s.c) = 2 => t.nCcalls = 0

TryFrame(t, n, p) == FrameOf("try", t, n, p, 0)

\* What it makes of the machine s, and the mark of its frame.
Tried(s, r, ch, a, A) ==
  LET t == Last(s.c).L
      o == s.th[t]
      y == r.th[t]
  IN
  /\ Same(s, r) /\ r.do = s.do /\ r.status = s.status
  /\ r.c = Append(s.c, TryFrame(t, o.nCcalls, o.errorJmp))
  /\ Last(r.c) = TryFrame(t, o.nCcalls, o.errorJmp) /\ TopF(r) = "try" /\ Cur(r) = y
  /\ y.ci = o.ci /\ y.status = o.status /\ y.nny = o.nny /\ y.nCcalls = o.nCcalls
  /\ y.errorJmp = Len(s.c) + 1 /\ y.errfunc = o.errfunc /\ y.body = o.body
  /\ StackRight(r, ch, Append(a, A)) /\ Last(Append(a, A)) = A
  /\ A.ci = Last(a).ci /\ A.nny = Last(a).nny /\ A.jmp = Len(s.c) + 1
  /\ A.depth = Last(a).depth /\ A.link = Last(a).link /\ A.pcall = Last(a).pcall

LEMMA TryIs ==
  ASSUME NEW s, NEW ch, NEW a, CanTry(s, ch, a)
  PROVE  \E A : Tried(s, RawRun(s, Last(s.c).L), ch, a, A)
<1> DEFINE t == Last(s.c).L
           o == s.th[t]
           N == Len(s.c)
           B == Last(a)
           n == B.ci
           x == TryFrame(t, o.nCcalls, o.errorJmp)
           e == Enter(s, "try", t, o.nCcalls, o.errorJmp, 0)
           k == N + 1
           r == SetJmp(e, t, k)
           A == MarkOf(x, N + 1, B, n)
<1>1. /\ s \in Machine /\ StackRight(s, ch, a) /\ TopF(s) \in {"dpcall", "resume"}
      /\ o.nCcalls >= B.depth /\ o.errorJmp = (IF TopF(s) = "dpcall" THEN B.jmp ELSE 0)
      /\ N = 2 => o.nCcalls = 0
  BY DEF CanTry, Cur
<1>2. t \in Threads /\ Cur(s) = o /\ o \in Thread /\ N \in Nat /\ N >= 1 /\ B \in Mark /\ k \in Nat
  BY <1>1, StackEnds DEF Cur
<1>3. o.ci \in Seq(CIs) /\ o.nCcalls \in Int /\ o.errorJmp \in Nat /\ n \in Nat
  BY <1>2, ThreadIs, MarkIs
<1>4. e \in Machine /\ e.th = s.th /\ e.c = Append(s.c, x) /\ x \in Frame
      /\ e.do = s.do /\ e.status = s.status
      /\ x.f = "try" /\ x.L = t /\ x.n = o.nCcalls /\ x.p = o.errorJmp
  <2>1. "try" \in FrameKinds /\ 0 \in {0, 1}
    BY DEF FrameKinds
  <2> QED
    <3>1. s \in Machine /\ o.nCcalls \in Int /\ o.errorJmp \in Nat
      BY <1>1, <1>3
    <3>2. e \in Machine
      BY <1>2, <2>1, <3>1, EnterIs
    <3>3. e.th = s.th /\ e.do = s.do /\ e.status = s.status
      BY <1>2, <2>1, <3>1, EnterIs
    <3>4. e.c = Append(s.c, x)
      <4> HIDE DEF x
      <4>1. e = [s EXCEPT !.c = Append(@, x)]
        BY DEF x, TryFrame, FrameOf, Enter
      <4> HIDE DEF e
      <4> QED
        BY <3>1, <4>1 DEF Machine
    <3>5. x \in Frame /\ x.f = "try" /\ x.L = t /\ x.n = o.nCcalls /\ x.p = o.errorJmp
      BY <1>2, <2>1, <3>1, FrameOfIs DEF TryFrame
    <3> HIDE DEF e, x
    <3> QED
      BY <3>2, <3>3, <3>4, <3>5
<1>5. RawRun(s, t) = r
  BY DEF RawRun, SetJmp
<1> HIDE DEF e, x, k
<1>6. /\ OneThread(e, r, t) /\ r.th[t].errorJmp = k
      /\ r.th[t].ci = o.ci /\ r.th[t].status = o.status /\ r.th[t].nny = o.nny
      /\ r.th[t].nCcalls = o.nCcalls /\ r.th[t].errfunc = o.errfunc /\ r.th[t].body = o.body
  BY <1>2, <1>4, SetJmpIs
<1> HIDE DEF r
<1>7. /\ r \in Machine /\ r.c = Append(s.c, x) /\ r.do = s.do /\ r.status = s.status
      /\ \A u \in Threads \ {t} : r.th[u] = s.th[u]
  BY <1>4, <1>6 DEF OneThread
<1>8. /\ A.ci = n /\ A.link = B.link /\ A.pcall = B.pcall /\ A.nny = B.nny /\ A.depth = B.depth
      /\ A.jmp = k
  BY <1>4 DEF MarkOf, k
<1>9. A \in Mark
  BY <1>2, <1>3, MarkOfIs
<1>10. Below(TopF(s), B, o.ci) /\ n <= Len(o.ci)
  BY <1>1, <1>2, TopIs
<1>11. <<TopF(s), "try">> \in Nesting
  BY <1>1 DEF Nesting
<1>12. Below("try", A, o.ci)
  <2>1. \A i \in B.ci + 1..A.ci : FALSE
    BY <1>3, <1>8
  <2>2. B.ci <= A.ci
    BY <1>3, <1>8
  <2> HIDE DEF A, B
  <2> QED
    BY <1>2, <1>8, <1>9, <1>10, <2>1, <2>2, BelowPush
<1>13. SavedOver(x, TopF(s), B, A, o.ci, N + 1)
  <2>1. N + 1 = 3 => x.n = 0
    <3> HIDE DEF N
    <3> QED
      BY <1>1, <1>2, <1>4
  <2>2. x.n >= A.depth
    BY <1>1, <1>4, <1>8
  <2> HIDE DEF N, A, B
  <2> QED
    BY <1>1, <1>4, <1>8, <2>1, <2>2 DEF SavedOver
<1>14. Owns(TopF(s), B, o.ci, n)
  BY ZenonT(30), <1>1 DEF Owns
<1>15. Pushes(s, r, ch, a, x, n, A)
  <2>1. SameTo(Cur(s).ci, r.th[x.L].ci, B.ci) /\ r.th[x.L].ci = o.ci /\ n <= n
    BY <1>2, <1>3, <1>4, <1>6 DEF SameTo
  <2>2. A = MarkOf(x, Len(s.c) + 1, Last(a), n)
    OBVIOUS
  <2> HIDE DEF A, n
  <2> QED
    BY Zenon, <1>1, <1>3, <1>4, <1>7, <1>10, <1>11, <1>12, <1>13, <1>14, <2>1, <2>2 DEF Pushes, n
<1>16. /\ StackRight(r, ch, Append(a, A)) /\ Last(Append(a, A)) = A
       /\ Last(r.c) = x /\ TopF(r) = "try" /\ Cur(r) = r.th[t]
  BY <1>4, <1>15, StackPush
<1>17. Same(s, r)
  BY <1>4, <1>7, <1>16 DEF Same
<1> HIDE DEF A
<1>18. Tried(s, r, ch, a, A)
  BY <1>5, <1>6, <1>7, <1>8, <1>16, <1>17 DEF x, k, Tried
<1> QED
  BY <1>5, <1>18

\* luaD_pcall from the function at the top
CanPCall(s, ch, a, e) ==
  LET ci == Cur(s).ci IN
  /\ s \in Machine /\ StackRight(s, ch, a) /\ TopRight(s, a) /\ CIsRight(ci) /\ e \in {0, 1}
  /\ TopF(s) \in {"host", "cfunc"} /\ Last(a).nny >= 1
  /\ (Cur(s).errfunc = 1) = HandledBy(ci, Len(ci) - 1)
  /\ TopF(s) = "host" => Len(ci) = 0
  /\ TopF(s) = "cfunc" => Protects(ci[Len(ci)].fn) /\ ~ci[Len(ci)].ypcall
  /\ Last(a).link > 1 => \E i \in 1..Len(ci) : ci[i].fn \in {"sort", "handler"}

DPCallFrame(t, n, p, e) == FrameOf("dpcall", t, n, p, e)

PCallState(s, t, e) ==
  LET o == s.th[t] IN SetErrFunc(Enter(s, "dpcall", t, Len(o.ci), o.nny, o.errfunc), t, e)

PCalled(s, r, ch, a, e) ==
  LET t == Last(s.c).L
      o == s.th[t]
  IN
  /\ Same(s, r) /\ TopF(r) = "dpcall" /\ Len(r.c) = Len(s.c) + 1
  /\ Cur(r) = r.th[t] /\ r.th[t].ci = o.ci /\ r.th[t].errfunc = e
  /\ \E b : /\ StackRight(r, ch, b) /\ TopRight(r, b)
            /\ Last(b).nny = Last(a).nny /\ Last(b).link = Last(a).link /\ Last(b).ci = Len(o.ci)

LEMMA PCallFrame ==
  ASSUME NEW s, NEW ch, NEW a, NEW e, CanPCall(s, ch, a, e)
  PROVE  PCalled(s, PCallState(s, Last(s.c).L, e), ch, a, e)
<1> DEFINE t == Last(s.c).L
           o == s.th[t]
           ci == o.ci
           n == Len(ci)
           N == Len(s.c)
           B == Last(a)
           x == DPCallFrame(t, n, o.nny, o.errfunc)
           z == Enter(s, "dpcall", t, n, o.nny, o.errfunc)
           r == SetErrFunc(z, t, e)
           A == MarkOf(x, N + 1, B, n)
           b == Append(a, A)
<1>1. /\ s \in Machine /\ StackRight(s, ch, a) /\ TopRight(s, a) /\ e \in {0, 1}
      /\ TopF(s) \in {"host", "cfunc"} /\ B.nny >= 1
      /\ (o.errfunc = 1) = HandledBy(ci, n - 1)
      /\ TopF(s) = "host" => n = 0
      /\ TopF(s) = "cfunc" => Protects(ci[n].fn) /\ ~ci[n].ypcall
  BY Zenon DEF CanPCall, Cur
<1>2. t \in Threads /\ Cur(s) = o /\ o \in Thread /\ N \in Nat /\ N >= 1 /\ B \in Mark
  BY <1>1, StackEnds DEF Cur
<1>3. ci \in Seq(CIs) /\ n \in Nat /\ o.nny \in Nat /\ o.errfunc \in {0, 1}
  BY <1>1, <1>2, ThreadIs
<1>4. z \in Machine /\ z.th = s.th /\ z.c = Append(s.c, x) /\ x \in Frame
      /\ x.f = "dpcall" /\ x.L = t /\ x.n = n /\ x.p = o.nny /\ x.e = o.errfunc
  <2>1. "dpcall" \in FrameKinds /\ n \in Int
    BY <1>3 DEF FrameKinds
  <2> HIDE DEF n
  <2>2. s \in Machine /\ o.nny \in Nat /\ o.errfunc \in {0, 1}
    BY <1>1, <1>3
  <2>3. z \in Machine
    BY <1>2, <2>1, <2>2, EnterIs
  <2>4. z.th = s.th
    BY <1>2, <2>1, <2>2, EnterIs
  <2>5. z.c = Append(s.c, x)
    <3> HIDE DEF x
    <3>1. z = [s EXCEPT !.c = Append(@, x)]
      BY DEF x, DPCallFrame, FrameOf, Enter
    <3> HIDE DEF z
    <3> QED
      BY <2>2, <3>1 DEF Machine
  <2>6. x \in Frame /\ x.f = "dpcall" /\ x.L = t /\ x.n = n /\ x.p = o.nny /\ x.e = o.errfunc
    BY <1>2, <2>1, <2>2, FrameOfIs DEF DPCallFrame
  <2> HIDE DEF z, x
  <2> QED
    BY <2>3, <2>4, <2>5, <2>6
<1> HIDE DEF x, z
<1>5. /\ OneThread(z, r, t) /\ r.th[t].errfunc = e
      /\ r.th[t].ci = ci /\ r.th[t].status = o.status /\ r.th[t].nny = o.nny
      /\ r.th[t].nCcalls = o.nCcalls /\ r.th[t].errorJmp = o.errorJmp /\ r.th[t].body = o.body
  <2>1. z.th[t] = o /\ z \in Machine /\ t \in Threads /\ e \in {0, 1}
    BY <1>1, <1>2, <1>4
  <2> HIDE DEF t, o, ci, n, N, B, A, b
  <2>2. /\ OneThread(z, r, t) /\ r.th[t].errfunc = e
        /\ r.th[t].ci = z.th[t].ci /\ r.th[t].status = z.th[t].status
        /\ r.th[t].nny = z.th[t].nny /\ r.th[t].nCcalls = z.th[t].nCcalls
        /\ r.th[t].errorJmp = z.th[t].errorJmp /\ r.th[t].body = z.th[t].body
    BY SMTT(30), <2>1, SetErrFuncIs
  <2> QED
    BY <2>1, <2>2 DEF ci
<1> HIDE DEF r
<1>6. /\ r \in Machine /\ r.c = Append(s.c, x) /\ \A u \in Threads \ {t} : r.th[u] = s.th[u]
  BY <1>4, <1>5 DEF OneThread
<1>7. /\ A.ci = n /\ A.link = B.link /\ A.pcall = n /\ A.nny = B.nny /\ A.depth = B.depth
      /\ A.jmp = B.jmp
  BY <1>4 DEF MarkOf
<1>8. A \in Mark /\ B.nny \in Nat /\ B.ci \in Nat
  BY <1>2, <1>3, MarkOfIs, MarkIs
<1>9. B.ci <= n /\ (TopF(s) = "host") = (N = 1)
  BY <1>1, <1>2, TopIs
<1>10. Owns(TopF(s), B, ci, n) /\ Live(o, B) /\ (N <= 2 => o.nCcalls = 0)
  BY <1>1, <1>2 DEF TopRight
<1>11. <<TopF(s), "dpcall">> \in Nesting
  BY SMTT(30), <1>1 DEF Nesting
<1>12. Below("dpcall", A, ci)
  <2>1. A.nny # 0 /\ A.nny > 0
    BY <1>1, <1>7, <1>8
  <2>2. \A i \in 1..A.ci : ~(i > A.pcall)
    BY <1>3, <1>7
  <2> QED
    BY Zenon, <2>1, <2>2 DEF Below
<1>13. SavedOver(x, TopF(s), B, A, ci, N + 1)
  <2>1. x.n = A.ci /\ x.p = A.nny /\ A.nny >= 1
    BY Zenon, <1>1, <1>4, <1>7, <1>10 DEF Live
  <2>2. (x.e = 1) = HandledBy(ci, A.ci - 1)
    BY <1>1, <1>4, <1>7
  <2>3. TopF(s) = "cfunc" => n >= 1
    BY SMTT(30), <1>8, <1>10 DEF Owns
  <2>4. /\ TopF(s) = "host" => A.ci = 0
        /\ TopF(s) = "cfunc" => A.ci >= 1 /\ Protects(ci[A.ci].fn) /\ ~ci[A.ci].ypcall
    BY <1>1, <1>7, <2>3
  <2> HIDE DEF A, B, n, N
  <2> QED
    BY <1>4, <2>1, <2>2, <2>4 DEF SavedOver
<1>14. Live(r.th[t], A)
  BY Zenon, <1>5, <1>7, <1>10 DEF Live
<1>15. /\ StackRight(r, ch, b) /\ TopRight(r, b) /\ Last(b) = A /\ TopF(r) = "dpcall" /\ Cur(r) = r.th[t]
       /\ Last(r.c) = x
  <2>1. SameTo(Cur(s).ci, r.th[x.L].ci, B.ci)
    BY <1>2, <1>4, <1>5 DEF SameTo
  <2>2. /\ x.f # "resume" /\ A = MarkOf(x, Len(s.c) + 1, Last(a), n)
        /\ r.th[x.L].ci = ci
    BY <1>4, <1>5
  <2>3. n <= Len(r.th[x.L].ci) /\ B.ci <= n /\ n = Len(r.th[x.L].ci)
    BY <1>3, <1>9, <2>2
  <2>5. Len(s.c) >= 2 \/ r.th[x.L].nCcalls = 0
    <3>1. N >= 2 \/ o.nCcalls = 0
      <4> HIDE DEF N
      <4> QED
        BY <1>2, <1>10
    <3> QED
      BY <1>4, <1>5, <3>1
  <2>6. Live(r.th[x.L], A) /\ x.f \notin {"execute", "cfunc", "resuming", "unroll"}
    BY <1>4, <1>14
  <2> HIDE DEF A, n
  <2>4. Pushes(s, r, ch, a, x, n, A)
    BY Zenon, <1>1, <1>3, <1>4, <1>6, <1>10, <1>11, <1>12, <1>13, <2>1, <2>2, <2>3 DEF Pushes
  <2> QED
    BY <1>4, <2>3, <2>4, <2>5, <2>6, PushTop
<1>16. Same(s, r)
  BY <1>4, <1>6, <1>15 DEF Same
<1>17. Len(r.c) = N + 1
  <2>1. s.c \in Seq(Frame)
    BY SMTT(30), <1>1, MachineIs
  <2> QED
    BY <1>4, <1>6, <2>1
<1>18. Last(b).nny = B.nny /\ Last(b).link = B.link /\ Last(b).ci = n
  BY <1>7, <1>15
<1> HIDE DEF b
<1>19. PCalled(s, r, ch, a, e)
  <2>1. Len(r.c) = Len(s.c) + 1
    BY <1>17
  <2>2. /\ StackRight(r, ch, b) /\ TopRight(r, b)
        /\ Last(b).nny = Last(a).nny /\ Last(b).link = Last(a).link /\ Last(b).ci = Len(s.th[t].ci)
    BY <1>15, <1>18
  <2>3. TopF(r) = "dpcall" /\ Cur(r) = r.th[t] /\ r.th[t].ci = s.th[t].ci /\ r.th[t].errfunc = e
    BY <1>5, <1>15
  <2> HIDE DEF N, o, n
  <2> QED
    BY <1>16, <2>1, <2>2, <2>3 DEF PCalled
<1> QED
  BY <1>19 DEF r, z, PCallState

LEMMA DPCallIs ==
  ASSUME NEW s, NEW ch, NEW a, NEW e, CanPCall(s, ch, a, e)
  PROVE  LET r == DPCall(s, Last(s.c).L, e)
         IN  Called(s, r, ch, Names(Cur(s).ci), "lua") /\ Cur(r).errfunc = e
<1> DEFINE t == Last(s.c).L
           o == s.th[t]
           z == PCallState(s, t, e)
           w == RawRun(z, t)
           r == DCallNoYield(w, t, "lua")
<1>1. r = DPCall(s, t, e)
  BY SMTT(30) DEF DPCall, PCallState, SetErrFunc
<1> HIDE DEF r
<1>2. /\ CIsRight(o.ci) /\ Cur(s) = o
      /\ Last(a).link > 1 => \E i \in 1..Len(o.ci) : o.ci[i].fn \in {"sort", "handler"}
  <2>1. Cur(s) = o
    BY DEF Cur
  <2>2. CIsRight(Cur(s).ci)
    BY DEF CanPCall
  <2>3. Last(a).link > 1 => \E i \in 1..Len(Cur(s).ci) : Cur(s).ci[i].fn \in {"sort", "handler"}
    BY DEF CanPCall
  <2> QED
    BY <2>1, <2>2, <2>3
<1>3. s \in Machine /\ StackRight(s, ch, a)
  BY DEF CanPCall
<1>4. Len(s.c) \in Nat /\ Len(s.c) >= 1
  BY <1>3, StackEnds
<1>5. /\ Same(s, z) /\ TopF(z) = "dpcall" /\ Len(z.c) = Len(s.c) + 1
      /\ Cur(z) = z.th[t] /\ z.th[t].ci = o.ci /\ z.th[t].errfunc = e
      /\ \E b : /\ StackRight(z, ch, b) /\ TopRight(z, b)
                /\ Last(b).nny = Last(a).nny /\ Last(b).link = Last(a).link /\ Last(b).ci = Len(o.ci)
  <2>1. PCalled(s, z, ch, a, e)
    BY PCallFrame
  <2> HIDE DEF z
  <2> QED
    BY <2>1 DEF PCalled
<1> HIDE DEF z
<1>6. PICK b : /\ StackRight(z, ch, b) /\ TopRight(z, b)
               /\ Last(b).link = Last(a).link /\ Last(b).ci = Len(o.ci)
  BY <1>5
<1>7. z \in Machine /\ Last(z.c).L = t /\ \A u \in Threads \ {t} : z.th[u] = s.th[u]
  BY <1>5 DEF Same
<1>8. Live(Cur(z), Last(b)) /\ (Len(z.c) <= 2 => Cur(z).nCcalls = 0)
  BY <1>6 DEF TopRight
<1>9. CanTry(z, ch, b)
  BY <1>5, <1>6, <1>7, <1>8 DEF CanTry, Live
<1>17. PICK A : Tried(z, w, ch, b, A)
  BY <1>7, <1>9, TryIs
<1> DEFINE x == TryFrame(t, z.th[t].nCcalls, z.th[t].errorJmp)
<1> HIDE DEF w
<1>10. /\ Same(z, w) /\ w.c = Append(z.c, x) /\ TopF(w) = "try" /\ Cur(w) = w.th[t]
       /\ w.th[t].ci = z.th[t].ci /\ w.th[t].status = z.th[t].status /\ w.th[t].nny = z.th[t].nny
       /\ w.th[t].nCcalls = z.th[t].nCcalls /\ w.th[t].errorJmp = Len(z.c) + 1
       /\ w.th[t].errfunc = z.th[t].errfunc /\ w.th[t].body = z.th[t].body
       /\ StackRight(w, ch, Append(b, A)) /\ Last(Append(b, A)) = A
       /\ A.ci = Last(b).ci /\ A.nny = Last(b).nny /\ A.jmp = Len(z.c) + 1
       /\ A.depth = Last(b).depth /\ A.link = Last(b).link
  BY <1>7, <1>17 DEF Tried
<1> HIDE DEF x
<1>11. w \in Machine /\ Last(w.c).L = t /\ \A u \in Threads \ {t} : w.th[u] = s.th[u]
  BY <1>7, <1>10 DEF Same
<1>12. Len(w.c) = Len(z.c) + 1
  <2>1. z.c \in Seq(Frame)
    BY <1>7, MachineIs
  <2> QED
    BY <1>10, <2>1
<1>13. TopRight(w, Append(b, A))
  <2>1. Len(w.c) > 2
    BY <1>4, <1>5, <1>12
  <2>2. Owns("try", A, Cur(w).ci, Len(Cur(w).ci))
    BY <1>5, <1>6, <1>10 DEF Owns
  <2>3. Live(Cur(w), A)
    BY <1>5, <1>8, <1>10 DEF Live
  <2>4. ~(Len(w.c) <= 2)
    BY <1>4, <1>5, <1>12, <2>1
  <2> QED
    BY <1>10, <2>2, <2>3, <2>4 DEF TopRight
<1>18. Cur(w).ci = o.ci /\ Cur(w).errfunc = e /\ Last(Append(b, A)).link = Last(a).link
  BY <1>5, <1>6, <1>10
<1>19. TopF(w) = "try" /\ StackRight(w, ch, Append(b, A))
  BY <1>10
<1> HIDE DEF o, t
<1>14. CanCallNoYield(w, ch, Append(b, A), "lua")
  <2> DEFINE B == Append(b, A)
  <2> HIDE DEF B
  <2>1. TopRight(w, B) /\ StackRight(w, ch, B) /\ Last(B).link = Last(a).link
    BY <1>13, <1>18, <1>19 DEF B
  <2>2. CanCallNoYield(w, ch, B, "lua")
    BY <1>2, <1>11, <1>18, <1>19, <2>1 DEF CanCallNoYield
  <2> QED
    BY <2>2 DEF B
<1>15. Called(w, r, ch, Names(Cur(w).ci), "lua") /\ Cur(r).errfunc = Cur(w).errfunc
  BY <1>11, <1>14, DCallNoYieldIs DEF r
<1>16. Called(s, r, ch, Names(o.ci), "lua")
  <2>1. Same(s, r)
    BY <1>11, <1>15 DEF Called, Same, t
  <2> QED
    BY <1>15, <1>18, <2>1 DEF Called
<1> QED
  BY <1>1, <1>2, <1>15, <1>16, <1>18 DEF t

\* A C function that has just been entered from Lua code.
CEntered(s, r, ch, a, fn) ==
  LET t == Last(s.c).L
      o == Cur(s)
      y == Cur(r)
  IN
  /\ Same(s, r) /\ r.do = s.do /\ r.status = s.status /\ TopF(r) = "cfunc" /\ Len(r.c) = Len(s.c) + 1
  /\ y = r.th[t] /\ y.ci = Append(o.ci, NewCI(fn)) /\ CIsRight(y.ci)
  /\ y.errfunc = o.errfunc /\ y.nCcalls = o.nCcalls /\ y.nny = o.nny /\ y.errorJmp = o.errorJmp
  /\ y.body = o.body /\ y.status = o.status
  /\ \E b : /\ StackRight(r, ch, b) /\ TopRight(r, b)
            /\ Last(b).nny = Last(a).nny /\ Last(b).link = Last(a).link /\ Last(b).ci = Len(o.ci)
            /\ Last(b).pcall = Last(a).pcall /\ Last(b).jmp = Last(a).jmp /\ Last(b).depth = Last(a).depth

\* luaD_precall of a C function from the Lua code at the top
CanEnterC(s, ch, a, fn) ==
  /\ s \in Machine /\ StackRight(s, ch, a) /\ TopRight(s, a) /\ CIsRight(Cur(s).ci)
  /\ TopF(s) = "execute" /\ fn \in Fns /\ ~IsLua(fn)

LEMMA EnterCIs ==
  ASSUME NEW s, NEW ch, NEW a, NEW fn, CanEnterC(s, ch, a, fn)
  PROVE  CEntered(s, EnterC(s, Last(s.c).L, fn), ch, a, fn)
<1> DEFINE t == Last(s.c).L
           o == s.th[t]
           ci == o.ci
           n == Len(ci)
           N == Len(s.c)
           B == Last(a)
           x == [f |-> "cfunc", L |-> t, n |-> 0, p |-> 0, e |-> 0]
           z == PushCI(s, t, NewCI(fn))
           r == EnterC(s, t, fn)
           A == MarkOf(x, N + 1, B, n)
           b == Append(a, A)
<1>1. /\ s \in Machine /\ StackRight(s, ch, a) /\ TopRight(s, a) /\ CIsRight(Cur(s).ci)
      /\ TopF(s) = "execute" /\ fn \in Fns /\ ~IsLua(fn)
  BY DEF CanEnterC
<1>2. t \in Threads /\ Cur(s) = o /\ o \in Thread /\ N \in Nat /\ N >= 1 /\ B \in Mark
  BY <1>1, StackEnds DEF Cur
<1>3. ci \in Seq(CIs) /\ n \in Nat
  BY <1>2, ThreadIs
<1>4. NewCI(fn).fn = fn
  BY <1>1, NewCIIs
<1>23. CalledNew(s, z, t, fn)
  BY <1>1, <1>2, PushCIIs
<1>6. r = Enters(z, "cfunc", t)
  BY DEF EnterC
<1> HIDE DEF z, r
<1>24. OneThread(s, z, t)
  BY Zenon, <1>23 DEF CalledNew
<1>5. /\ z.th[t].status = o.status /\ z.th[t].nny = o.nny /\ z.th[t].nCcalls = o.nCcalls
      /\ z.th[t].errorJmp = o.errorJmp /\ z.th[t].errfunc = o.errfunc /\ z.th[t].body = o.body
  BY Zenon, <1>23 DEF CalledNew
<1>25. z.th[t].ci = Append(ci, NewCI(fn)) /\ CIsRight(z.th[t].ci)
  BY Zenon, <1>1, <1>2, <1>23 DEF CalledNew
<1>26. /\ Len(z.th[t].ci) = n + 1 /\ SameTo(ci, z.th[t].ci, n) /\ z.th[t].ci[n + 1] = NewCI(fn)
  BY Zenon, <1>23 DEF CalledNew
<1>27. z \in Machine /\ z.c = s.c /\ z.do = s.do /\ z.status = s.status
       /\ \A u \in Threads \ {t} : z.th[u] = s.th[u]
  BY <1>24 DEF OneThread
<1>7. r \in Machine /\ r.th = z.th /\ r.c = Append(s.c, x) /\ x \in Frame /\ r.do = s.do /\ r.status = s.status
  <2>1. "cfunc" \in FrameKinds
    BY DEF FrameKinds
  <2> QED
    BY <1>2, <1>6, <1>27, <2>1, EntersIs
<1>8. \A u \in Threads \ {t} : r.th[u] = s.th[u]
  BY <1>7, <1>27
<1>9. /\ A.ci = n /\ A.link = B.link /\ A.pcall = B.pcall /\ A.nny = B.nny /\ A.depth = B.depth
      /\ A.jmp = B.jmp
  BY DEF MarkOf
<1>10. A \in Mark
  BY <1>2, <1>3, MarkOfIs
<1>28. Owns("execute", B, ci, n) /\ Live(o, B)
  BY <1>1, <1>2 DEF TopRight
<1>29. B.ci \in Nat /\ B.ci < n
  <2>1. B.ci < n
    BY Zenon, <1>28 DEF Owns
  <2> HIDE DEF B, n
  <2> QED
    BY <1>2, <2>1, MarkIs
<1>11. Owns("execute", B, ci, n) /\ Live(o, B) /\ B.ci <= n /\ B.ci \in Nat
  <2> HIDE DEF n, B
  <2> QED
    BY <1>3, <1>28, <1>29
<1> DEFINE cj == r.th[t].ci
<1>30. cj = z.th[t].ci
  BY <1>7
<1>12. SameTo(ci, cj, n) /\ Len(cj) = n + 1 /\ cj[n + 1].fn = fn
  BY Zenon, <1>4, <1>26, <1>30
<1> HIDE DEF cj, n, ci
<1>13. Owns("execute", B, cj, n)
  BY <1>2, <1>3, <1>11, <1>12, OwnsSame
<1>14. Below("execute", B, cj)
  <2>1. Below("execute", B, ci)
    BY <1>1, <1>2, TopIs DEF ci
  <2>2. SameTo(ci, cj, B.ci)
    <3> HIDE DEF B
    <3>1. \A i \in 1..B.ci : i \in 1..n
      BY <1>3, <1>11
    <3> QED
      BY <1>12, <3>1 DEF SameTo
  <2> HIDE DEF B, ci, cj
  <2> QED
    BY <1>11, <2>1, <2>2, BelowSame
<1>15. Below("cfunc", A, cj)
  <2>1. ASSUME NEW i \in B.ci + 1..A.ci PROVE IsLua(cj[i].fn)
    BY <1>9, <1>13 DEF Owns
  <2>2. \A i \in B.ci + 1..A.ci : Protects(cj[i].fn) => cj[i].ypcall /\ A.pcall = 0 /\ A.link > 1
    BY <2>1 DEF IsLua, Protects
  <2>3. A.nny = 0 => \A i \in B.ci + 1..A.ci : Pending(cj, i)
    <3>1. B.nny = 0 => \A i \in B.ci + 1..n : cj[i].fn # "handler"
      BY <1>13 DEF Owns
    <3> QED
      BY <1>9, <2>1, <3>1 DEF IsLua, Pending
  <2> HIDE DEF A, B, cj, n
  <2> QED
    BY <1>2, <1>9, <1>10, <1>11, <1>14, <2>2, <2>3, BelowPush
<1>16. SavedOver(x, "execute", B, A, cj, N + 1)
  BY DEF SavedOver
<1>17. Pushes(s, r, ch, a, x, n, A)
  <2>1. /\ x.L = t /\ x.f = "cfunc" /\ x.f # "resume" /\ r.th[x.L].ci = cj /\ <<"execute", "cfunc">> \in Nesting
        /\ A = MarkOf(x, Len(s.c) + 1, Last(a), n)
    BY DEF Nesting, cj
  <2>2. SameTo(Cur(s).ci, cj, B.ci)
    <3> HIDE DEF B
    <3>1. \A i \in 1..B.ci : i \in 1..n
      BY <1>3, <1>11
    <3> QED
      BY <1>2, <1>12, <3>1 DEF SameTo, ci
  <2>3. n <= Len(cj)
    BY <1>3, <1>12
  <2> HIDE DEF A, n, x, cj
  <2> QED
    BY <1>1, <1>3, <1>7, <1>8, <1>11, <1>13, <1>15, <1>16, <2>1, <2>2, <2>3 DEF Pushes
<1>18. /\ StackRight(r, ch, b) /\ Last(b) = A /\ Last(r.c) = x /\ TopF(r) = "cfunc" /\ Cur(r) = r.th[t]
       /\ Len(r.c) = N + 1
  BY <1>17, StackPush
<1>19. TopRight(r, b)
  <2>1. Owns("cfunc", A, cj, n + 1)
    BY <1>1, <1>9, <1>12 DEF Owns
  <2>2. Live(r.th[t], A)
    BY <1>5, <1>7, <1>9, <1>11 DEF Live
  <2>3. Len(r.c) <= 2 => r.th[t].nCcalls = 0
    <3>1. N <= 2 => o.nCcalls = 0
      BY <1>1, <1>2 DEF TopRight
    <3> HIDE DEF N
    <3>2. N + 1 <= 2 => N <= 2
      BY <1>2
    <3> HIDE DEF o
    <3> QED
      BY <1>5, <1>7, <1>18, <3>1, <3>2
  <2>4. Cur(r).ci = cj /\ Len(cj) = n + 1
    BY <1>12, <1>18 DEF cj
  <2> HIDE DEF A, b, N, B
  <2> QED
    BY <1>18, <2>1, <2>2, <2>3, <2>4 DEF TopRight
<1>20. Same(s, r)
  BY <1>7, <1>8, <1>18 DEF Same
<1>21. /\ Last(b).nny = B.nny /\ Last(b).link = B.link /\ Last(b).ci = n
       /\ Last(b).pcall = B.pcall /\ Last(b).jmp = B.jmp /\ Last(b).depth = B.depth
  BY <1>9, <1>18
<1> HIDE DEF b
<1>22. CEntered(s, r, ch, a, fn)
  <2>1. /\ Cur(r) = r.th[t] /\ Cur(r).ci = Append(Cur(s).ci, NewCI(fn)) /\ CIsRight(Cur(r).ci)
        /\ Cur(r).errfunc = Cur(s).errfunc /\ Cur(r).nCcalls = Cur(s).nCcalls
        /\ Cur(r).nny = Cur(s).nny /\ Cur(r).errorJmp = Cur(s).errorJmp
        /\ Cur(r).body = Cur(s).body /\ Cur(r).status = Cur(s).status
    BY Zenon, <1>2, <1>5, <1>7, <1>18, <1>25 DEF ci
  <2>2. Last(b).ci = Len(Cur(s).ci)
    BY <1>2, <1>21 DEF n, ci
  <2> HIDE DEF N, o, B, A
  <2> QED
    BY <1>7, <1>18, <1>19, <1>20, <1>21, <2>1, <2>2 DEF CEntered, N, B
<1> QED
  BY <1>22 DEF r

\* The C function at the top changes what its call says.
LEMMA SetCIIs ==
  ASSUME NEW s \in Machine, NEW ch, NEW a, StackRight(s, ch, a), TopRight(s, a),
         CIsRight(Cur(s).ci), TopF(s) = "cfunc",
         NEW c \in CIs, c.fn = TopCI(s).fn, NEW r, r = SetCI(s, Last(s.c).L, c),
         c.ypcall => /\ Protects(c.fn) /\ c.k /\ Last(a).nny = 0
                     /\ (c.old_errfunc = 1) = HandledBy(Cur(s).ci, Len(Cur(s).ci) - 1)
  PROVE  /\ Same(s, r) /\ r.c = s.c /\ r.do = s.do /\ r.status = s.status /\ Cur(r) = r.th[Last(s.c).L]
         /\ StackRight(r, ch, a) /\ TopRight(r, a) /\ CIsRight(Cur(r).ci)
         /\ Names(Cur(r).ci) = Names(Cur(s).ci) /\ Cur(r).errfunc = Cur(s).errfunc
         /\ Cur(r).nny = Cur(s).nny
         /\ Len(Cur(r).ci) = Len(Cur(s).ci) /\ Last(Cur(r).ci) = c /\ Cur(r).ci[Len(Cur(r).ci)] = c
         /\ \A i \in 1..Len(Cur(r).ci) : Cur(r).ci[i].fn = Cur(s).ci[i].fn
<1> DEFINE t == Last(s.c).L
           o == s.th[t]
           ci == o.ci
           n == Len(ci)
           B == Last(a)
           cj == Append(Front(ci), c)
<1>1. t \in Threads /\ Cur(s) = o /\ o \in Thread /\ B \in Mark
  BY StackEnds DEF Cur
<1>2. ci \in Seq(CIs) /\ n \in Nat /\ B.ci \in Nat
  BY <1>1, ThreadIs, MarkIs
<1>3. n = B.ci + 1 /\ ~IsLua(ci[n].fn) /\ Live(o, B) /\ (Len(s.c) <= 2 => o.nCcalls = 0)
  BY <1>1 DEF TopRight, Owns
<1>4. ci # <<>> /\ n >= 1
  BY <1>2, <1>3
<1>5. /\ Front(ci) \in Seq(CIs) /\ Len(Front(ci)) = n - 1 /\ Last(ci) = ci[n]
      /\ \A i \in 1..n - 1 : Front(ci)[i] = ci[i]
  BY ZenonT(30), <1>2, <1>4, FrontIs
<1>6. /\ cj \in Seq(CIs) /\ Len(cj) = n - 1 + 1 /\ cj[n - 1 + 1] = c /\ Last(cj) = c
      /\ \A i \in 1..n - 1 : cj[i] = Front(ci)[i]
  <2> DEFINE l == Front(ci)
  <2>1. l \in Seq(CIs) /\ Len(l) = n - 1
    BY <1>5
  <2> HIDE DEF l
  <2>2. Append(l, c) \in Seq(CIs) /\ Len(Append(l, c)) = Len(l) + 1
        /\ Append(l, c)[Len(l) + 1] = c /\ Last(Append(l, c)) = c
        /\ \A i \in 1..Len(l) : Append(l, c)[i] = l[i]
    BY <2>1, AppendIs
  <2> QED
    BY Zenon, <2>1, <2>2 DEF l
<1> HIDE DEF cj
<1>7. Len(cj) = n /\ cj[n] = c /\ \A i \in 1..n - 1 : cj[i] = ci[i]
  <2> DEFINE l == Front(ci)
  <2>1. n - 1 + 1 = n
    BY <1>2
  <2> HIDE DEF n, l, ci
  <2> QED
    BY <1>5, <1>6, <2>1 DEF l
<1>8. c.fn = ci[n].fn
  BY Zenon, <1>1, <1>5 DEF TopCI
<1>9. \A i \in 1..n : cj[i].fn = ci[i].fn
  <2>1. \A i \in 1..n : i = n \/ i \in 1..n - 1
    BY <1>2
  <2> HIDE DEF n, ci
  <2> QED
    BY <1>7, <1>8, <2>1
<1>10. SameTo(ci, cj, n - 1)
  BY <1>7 DEF SameTo
<1>11. CIsRight(cj)
  <2>1. ASSUME c.ypcall
        PROVE  /\ Protects(c.fn) /\ (c.old_errfunc = 1) = HandledBy(cj, n - 1)
               /\ \A j \in 1..n : Pending(cj, j)
    <3>1. HandledBy(ci, n - 1) = HandledBy(cj, n - 1)
      <4>1. n - 1 \in Int /\ n - 1 <= n - 1
        BY <1>2
      <4> HIDE DEF n, ci
      <4> QED
        BY <1>10, <4>1, HandledSame
    <3>2. (c.old_errfunc = 1) = HandledBy(ci, n - 1)
      BY <1>1, <2>1
    <3>3. \A j \in 1..B.ci : Pending(ci, j)
      <4>1. Below("cfunc", B, ci)
        BY <1>1, TopIs
      <4> QED
        BY <2>1, <4>1 DEF Below
    <3>4. \A j \in 1..n - 1 : Pending(cj, j)
      <4>1. \A i \in 1..n - 1 : Pending(ci, i) = Pending(cj, i)
        <5>1. n - 1 \in Int
          BY <1>2
        <5> HIDE DEF n, ci
        <5> QED
          BY <1>10, <5>1, PendingSame
      <4>2. n - 1 = B.ci
        BY <1>2, <1>3
      <4> HIDE DEF n, ci, B
      <4> QED
        BY <3>3, <4>1, <4>2
    <3>5. Pending(cj, n)
      BY SMTT(30), <1>7, <2>1 DEF Pending
    <3>6. \A j \in 1..n : j = n \/ j \in 1..n - 1
      BY <1>2
    <3> HIDE DEF n, ci, B
    <3> QED
      BY <2>1, <3>1, <3>2, <3>4, <3>5, <3>6
  <2>2. CIsRight(ci) /\ Len(cj) >= 1 /\ Len(cj) - 1 <= Len(ci) /\ SameTo(ci, cj, Len(cj) - 1)
    <3>1. CIsRight(ci)
      BY <1>1
    <3> HIDE DEF n
    <3>2. n - 1 <= n
      BY <1>2
    <3> QED
      BY <1>4, <1>7, <1>10, <3>1, <3>2 DEF n
  <2>3. /\ cj[Len(cj)] = c /\ n = Len(cj)
    BY SMTT(30), <1>7
  <2> HIDE DEF n, ci
  <2> QED
    BY <1>2, <1>6, <2>1, <2>2, <2>3, CIsRightStep
<1>12. /\ OneThread(s, r, t) /\ r.th[t].ci = cj
       /\ r.th[t].status = o.status /\ r.th[t].nny = o.nny /\ r.th[t].nCcalls = o.nCcalls
       /\ r.th[t].errorJmp = o.errorJmp /\ r.th[t].errfunc = o.errfunc /\ r.th[t].body = o.body
  <2>1. r = SetCalls(s, t, cj)
    BY DEF SetCI, SetCalls, cj
  <2> QED
    BY <1>1, <1>6, <2>1, SetCallsIs
<1>13. r \in Machine /\ r.c = s.c /\ r.do = s.do /\ r.status = s.status
       /\ \A u \in Threads \ {t} : r.th[u] = s.th[u]
  BY <1>12 DEF OneThread
<1>14. Cur(r) = r.th[t] /\ TopF(r) = "cfunc"
  BY <1>13 DEF Cur, TopF
<1>15. StackRight(r, ch, a)
  <2>1. B.ci = n - 1
    BY <1>2, <1>3
  <2>2. B.ci <= Len(Cur(r).ci) /\ SameTo(Cur(s).ci, Cur(r).ci, B.ci)
    <3>1. B.ci <= n
      BY <1>2, <1>3
    <3> HIDE DEF n, B
    <3> QED
      BY Zenon, <1>1, <1>7, <1>10, <1>12, <1>14, <2>1, <3>1
  <2> HIDE DEF n
  <2> QED
    BY <1>13, <2>2, StackTop
<1>16. TopRight(r, a)
  <2>1. Owns("cfunc", B, cj, n)
    <3>1. ~IsLua(cj[n].fn)
      BY Zenon, <1>3, <1>7, <1>8
    <3> QED
      BY <1>3, <3>1 DEF Owns
  <2>2. Live(r.th[t], B)
    BY SMTT(30), <1>3, <1>12 DEF Live
  <2>3. Len(r.c) <= 2 => r.th[t].nCcalls = 0
    <3>1. Len(s.c) <= 2 => o.nCcalls = 0
      BY Zenon, <1>3
    <3>2. r.c = s.c /\ r.th[t].nCcalls = o.nCcalls
      BY Zenon, <1>12, <1>13
    <3> HIDE DEF t, o
    <3> QED
      BY Zenon, <3>1, <3>2
  <2>4. Cur(r).ci = cj /\ Len(cj) = n
    BY <1>7, <1>12, <1>14
  <2> HIDE DEF n, B
  <2> QED
    BY <1>14, <2>1, <2>2, <2>3, <2>4 DEF TopRight, B
<1>17. Names(cj) = Names(ci)
  <2> HIDE DEF ci
  <2> QED
    BY <1>2, <1>6, <1>7, <1>9, NamesSame DEF ci
<1>18. Same(s, r)
  BY <1>13 DEF Same
<1>19. Cur(r).ci = cj /\ Cur(r).errfunc = Cur(s).errfunc /\ Cur(s).ci = ci /\ Cur(r).nny = Cur(s).nny
  BY <1>1, <1>12, <1>14
<1> HIDE DEF ci, n
<1> QED
  BY <1>6, <1>7, <1>9, <1>11, <1>13, <1>14, <1>15, <1>16, <1>17, <1>18, <1>19 DEF n
=============================================================================
