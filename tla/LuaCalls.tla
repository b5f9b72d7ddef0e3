------------------------------- MODULE LuaCalls -------------------------------
(***************************************************************************)
(* Calls, errors and coroutines of the Lua interpreter (ldo.c, with what   *)
(* lapi.c, lbaselib.c, lcorolib.c and ldebug.c make of it): the functions  *)
(* of the interpreter and of its libraries call each other on one C stack, *)
(* that errors and yields cut off with longjmp, while each thread has its  *)
(* own list of calls, that survives.                                       *)
(*                                                                         *)
(* Values are left out, and so is the size of the Lua stack.  Hooks are    *)
(* off.  The functions of libraries are those that call back: pcall and    *)
(* xpcall, one that calls with a continuation (dofile), one that calls     *)
(* without (sort), resume, wrap and yield; "meta" is a metamethod that an  *)
(* instruction calls.                                                      *)
(***************************************************************************)
EXTENDS Integers, Sequences, FiniteSets, SequencesExt

CONSTANTS
  Main, Coroutines,   \* the threads
  MaxCCalls,          \* LUAI_MAXCCALLS
  ErrCCalls,          \* LUAI_MAXCCALLS + (LUAI_MAXCCALLS >> 3)
  MaxFrames           \* bound: calls of a thread

\* The first call of a script is within both (LUAI_MAXCCALLS is 200, llimits.h).
LuaCallsAssumption ==
  /\ MaxCCalls \in Nat /\ MaxCCalls > 1
  /\ ErrCCalls \in Nat /\ ErrCCalls >= MaxCCalls

Threads == Coroutines \cup {Main}

VARIABLES
  m,        \* the threads th, the C stack c, and what goes on there: do and status
  want      \* history: the calls as the program sees them

callsVars == <<m, want>>

IsLua(fn) == fn \in {"lua", "meta", "handler"}
Protects(fn) == fn \in {"pcall", "xpcall"}
NewCI(fn) == [fn |-> fn, k |-> FALSE, ypcall |-> FALSE, fresh |-> FALSE, old_errfunc |-> 0]

L == Last(m.c).L
Errors == {"ERRRUN", "ERRERR"}

\* A frame of the C stack: a function, the thread it works for, what it has saved.
Enter(s, f, t, n, p, e) == [s EXCEPT !.c = Append(@, [f |-> f, L |-> t, n |-> n, p |-> p, e |-> e])]
Enters(s, f, t) == Enter(s, f, t, 0, 0, 0)
Leave(s, status) == [s EXCEPT !.c = Front(@), !.do = "return", !.status = status]
PushCI(s, t, ci) == [s EXCEPT !.th[t].ci = Append(@, ci)]
PopCI(s, t) == [s EXCEPT !.th[t].ci = Front(@)]
SetCI(s, t, ci) == [s EXCEPT !.th[t].ci = Append(Front(@), ci)]
CI(s, t) == Last(s.th[t].ci)

Raise(s) == [s EXCEPT !.do = "raise"]
Throw(s, status) == [s EXCEPT !.do = "throw", !.status = status]

\* luaD_precall of a Lua function and luaV_execute.
Execute(s, t) == [SetCI(Enters(s, "execute", t), t, [CI(s, t) EXCEPT !.fresh = TRUE]) EXCEPT !.do = "run",
                       !.status = "OK"]
ExecuteNew(s, t, fn) == Execute(PushCI(s, t, NewCI(fn)), t)

\* luaD_call and stackerror
DCall(s, t, fn) ==
  LET n  == s.th[t].nCcalls + 1
      up == Enters([s EXCEPT !.th[t].nCcalls = n], "call", t)
  IN  IF n = MaxCCalls THEN Raise(up)
      ELSE IF n >= ErrCCalls THEN Throw(up, "ERRERR")
      ELSE ExecuteNew(up, t, fn)

\* luaD_callnoyield
DCallNoYield(s, t, fn) == DCall(Enters([s EXCEPT !.th[t].nny = @ + 1], "noyield", t), t, fn)

\* luaD_rawrunprotected
RawRun(s, t) ==
  [Enter(s, "try", t, s.th[t].nCcalls, s.th[t].errorJmp, 0) EXCEPT !.th[t].errorJmp = Len(s.c) + 1]

\* luaD_pcall of f_call
DPCall(s, t, errfunc) ==
  LET in == Enter(s, "dpcall", t, Len(s.th[t].ci), s.th[t].nny, s.th[t].errfunc)
  IN  DCallNoYield(RawRun([in EXCEPT !.th[t].errfunc = errfunc], t), t, "lua")

\* lua_pcallk: where yields are allowed, the resume protects the call.
PCallK(s, t, errfunc) ==
  LET ci == [CI(s, t) EXCEPT !.k = TRUE, !.ypcall = TRUE, !.old_errfunc = s.th[t].errfunc]
  IN  IF s.th[t].nny > 0 THEN DPCall(s, t, errfunc)
      ELSE DCall([SetCI(s, t, ci) EXCEPT !.th[t].errfunc = errfunc], t, "lua")

\* lua_callk, with a continuation
CallK(s, t) ==
  IF s.th[t].nny > 0 THEN DCallNoYield(s, t, "lua")
  ELSE DCall(SetCI(s, t, [CI(s, t) EXCEPT !.k = TRUE]), t, "lua")

\* luaD_precall of a C function
EnterC(s, t, fn) == Enters(PushCI(s, t, NewCI(fn)), "cfunc", t)

-----------------------------------------------------------------------------
(* The calls as the program sees them: of each thread, and which threads   *)
(* have resumed each other.                                                *)

Runner == Last(want.chain)
WPush(w, fn) == [w EXCEPT !.stack[Last(w.chain)] = Append(@, fn)]
WPop(w) == [w EXCEPT !.stack[Last(w.chain)] = Front(@)]
WEnd(w) == [w EXCEPT !.dead = @ \cup {Last(w.chain)}, !.chain = Front(@)]

\* The innermost protected call of a thread.
Innermost(stack) == SelectLastInSeq(stack, Protects)
Handled(stack) == Innermost(stack) # 0 /\ stack[Innermost(stack)] = "xpcall"

\* An error goes to the innermost protected call, or ends the coroutine.
WUnwind(w) ==
  LET at == Innermost(w.stack[Last(w.chain)]) IN
  IF at = 0 THEN WEnd(w) ELSE [w EXCEPT !.stack[Last(w.chain)] = SubSeq(@, 1, at)]

\* What lies between a yield and its resume must be able to go on.
CanYield(w) == Runner # Main /\ ~\E fn \in ToSet(w.stack[Runner]) : fn \in {"sort", "handler"}

WStatus(t) ==
  IF t = Runner THEN "running"
  ELSE IF t \in ToSet(want.chain) THEN "normal"
  ELSE IF t \in want.dead THEN "dead" ELSE "suspended"

-----------------------------------------------------------------------------
(* What the program does. *)

Running == m.do = "run" /\ Len(m.th[L].ci) < MaxFrames

\* execute_script calls a script that lua_pcall protects.
Host ==
  /\ m.do = "idle"
  /\ m' = DPCall(Enters(m, "host", Main), Main, 0)
  /\ want' = [want EXCEPT !.chain = <<Main>>, !.stack[Main] = <<"lua">>, !.dead = @ \ {Main}]

\* OP_CALL of a Lua function, without another luaV_execute.
CallLua ==
  /\ Running
  /\ m' = PushCI(m, L, NewCI("lua"))
  /\ want' = WPush(want, "lua")

\* luaT_callTM from an instruction
CallMeta ==
  /\ Running
  /\ m' = DCall(m, L, "meta")
  /\ want' = IF m'.do = "run" THEN WPush(want, "meta") ELSE want

CallC(fn) ==
  /\ Running
  /\ m' = LET s == EnterC(m, L, fn) IN
          CASE fn = "pcall"  -> PCallK(s, L, 0)
            [] fn = "xpcall" -> PCallK(s, L, 1)
            [] fn = "dofile" -> CallK(s, L)
            [] fn = "sort"   -> DCallNoYield(s, L, "lua")
  /\ want' = IF m'.do = "run" THEN WPush(WPush(want, fn), "lua") ELSE WPush(want, fn)

RuntimeError ==
  /\ m.do = "run"
  /\ m' = Raise(m)
  /\ UNCHANGED want

\* OP_RETURN and luaD_poscall
ReturnLua ==
  /\ m.do = "run"
  /\ m' = IF CI(m, L).fresh THEN Leave(PopCI(m, L), "OK") ELSE PopCI(m, L)
  /\ want' = WPop(want)

\* luaB_yield and lua_yieldk
Yield ==
  /\ Running
  /\ LET s == EnterC(m, L, "yield") IN
     m' = IF m.th[L].nny > 0 THEN Raise(s) ELSE Throw([s EXCEPT !.th[L].status = "YIELD"], "YIELD")
  /\ want' = LET w == WPush(want, "yield") IN
             IF CanYield(want) THEN [w EXCEPT !.chain = Front(@)] ELSE w

\* lua_gettop finds nothing: the function has returned, or wrap has been called without
\* arguments and has handed on none.
NothingThere(t) ==
  LET ci == m.th[t].ci IN IF ci = <<>> THEN ~m.th[t].body ELSE Last(ci).fn = "wrap"

\* lua_resume
StartResume(s, co) ==
  RawRun([Enter(s, "resume", co, s.th[co].nny, 0, 0) EXCEPT
            !.th[co].nCcalls = s.th[L].nCcalls + 1, !.th[co].nny = 0], co)

\* resume
Resumed(s, co) ==
  LET t == s.th[co] IN
  IF t.nCcalls >= MaxCCalls \/ t.status \in Errors \/ (t.status = "OK" /\ t.ci # <<>>)
  THEN Throw(s, "REFUSED")
  ELSE IF t.status = "OK"
  THEN ExecuteNew(Enters([s EXCEPT !.th[co].body = FALSE], "resuming", co), co, "lua")
  ELSE LET r == Enters(PopCI(s, co), "resuming", co)
       IN  [r EXCEPT !.th[co].status = "OK", !.do = "return", !.status = "OK"]

\* luaB_coresume or luaB_auxwrap, and auxresume
Resume(fn, co) ==
  /\ Running
  /\ LET s == EnterC(m, L, fn) IN
     m' = IF m.th[co].status = "OK" /\ co # L /\ NothingThere(co)
          THEN [s EXCEPT !.do = "return", !.status = "ERRRUN"]
          ELSE Resumed(StartResume(s, co), co)
  /\ want' = LET w == WPush(want, fn) IN
             IF WStatus(co) # "suspended" \/ m'.do = "throw" THEN w
             ELSE [w EXCEPT !.chain = Append(@, co),
                            !.stack[co] = IF @ = <<>> THEN <<"lua">> ELSE Front(@)]

-----------------------------------------------------------------------------
(* How functions return to what has called them.                           *)

Returns(f) == m.do = "return" /\ Last(m.c).f = f
Top == Last(m.c)

ReturnToLua ==
  /\ Returns("execute")
  /\ m' = [m EXCEPT !.do = "run", !.status = "OK"]
  /\ UNCHANGED want

ReturnToCall ==
  /\ Returns("call")
  /\ m' = Leave([m EXCEPT !.th[L].nCcalls = @ - 1], m.status)
  /\ UNCHANGED want

ReturnToNoYield ==
  /\ Returns("noyield")
  /\ m' = Leave([m EXCEPT !.th[L].nny = @ - 1], m.status)
  /\ UNCHANGED want

\* The C function goes on, and luaD_poscall.  Wrap hands an error on.
ReturnToC ==
  /\ Returns("cfunc")
  /\ LET ci == CI(m, L)
         s  == IF ci.ypcall THEN [m EXCEPT !.th[L].errfunc = ci.old_errfunc] ELSE m
         fails == ci.fn = "wrap" /\ m.status \in Errors
     IN  /\ m' = IF fails THEN Raise(m) ELSE Leave(PopCI(s, L), "OK")
         /\ want' = IF fails THEN want ELSE WPop(want)

ReturnToTry ==
  /\ Returns("try")
  /\ m' = Leave([m EXCEPT !.th[L].errorJmp = Top.p, !.th[L].nCcalls = Top.n], m.status)
  /\ UNCHANGED want

\* The end of luaD_pcall
ReturnToDPCall ==
  /\ Returns("dpcall")
  /\ LET s == IF m.status = "OK" THEN m
              ELSE [m EXCEPT !.th[L].ci = SubSeq(@, 1, Top.n), !.th[L].nny = Top.p]
     IN  m' = Leave([s EXCEPT !.th[L].errfunc = Top.e], m.status)
  /\ UNCHANGED want

ReturnToHost ==
  /\ Returns("host")
  /\ m' = [Leave(m, "OK") EXCEPT !.do = "idle"]
  /\ want' = [want EXCEPT !.chain = <<>>]

\* finishCcall: the continuation ends the function.
FinishC(s, t) ==
  LET ci == CI(s, t)
  IN  PopCI(IF ci.ypcall THEN [s EXCEPT !.th[t].errfunc = ci.old_errfunc] ELSE s, t)

\* resume has done its own part, and unroll does the rest.
ReturnToResuming ==
  /\ Returns("resuming")
  /\ m' = [Enters(Leave(m, "OK"), "unroll", L) EXCEPT !.status = "OK"]
  /\ UNCHANGED want

Unroll ==
  /\ Returns("unroll")
  /\ IF m.th[L].ci = <<>>
     THEN /\ m' = Leave(m, "OK") /\ UNCHANGED want
     ELSE IF IsLua(CI(m, L).fn)
     THEN /\ m' = Execute(m, L) /\ UNCHANGED want
     ELSE /\ m' = [FinishC(m, L) EXCEPT !.status = "OK"]
          /\ want' = WPop(want)

\* Faulty variant of RecoverPoint: the first protected call that is found from below.
RecoverPointFirst(t) == SelectInSeq(m.th[t].ci, LAMBDA ci : ci.ypcall)

\* findpcall
RecoverPoint(t) == SelectLastInSeq(m.th[t].ci, LAMBDA ci : ci.ypcall)

\* lua_resume: recover finds the pcall that an error ends, and unroll goes on from there.
Recover ==
  /\ Returns("resume") /\ m.status \in Errors
  /\ RecoverPoint(L) # 0
  /\ LET ci == m.th[L].ci[RecoverPoint(L)]
         s  == [m EXCEPT !.th[L].ci = SubSeq(@, 1, RecoverPoint(L)), !.th[L].nny = 0,
                         !.th[L].errfunc = ci.old_errfunc]
     IN  m' = Enters(RawRun(s, L), "unroll", L)
  /\ UNCHANGED want

\* The end of lua_resume
EndResume(s, t, status) ==
  [s EXCEPT !.th[t].nny = Top.n, !.th[t].nCcalls = @ - 1,
            !.th[t].status = IF status \in Errors THEN status ELSE @]

ReturnToResume ==
  /\ Returns("resume")
  /\ m.status \in Errors => RecoverPoint(L) = 0
  /\ m' = Leave(EndResume(m, L, m.status), IF m.status = "REFUSED" THEN "ERRRUN" ELSE m.status)
  /\ want' = IF m.status = "OK" THEN WEnd(want) ELSE want

-----------------------------------------------------------------------------
(* Errors *)

\* luaG_errormsg
ErrorMsg ==
  /\ m.do = "raise"
  /\ m' = IF m.th[L].errfunc # 0 THEN DCallNoYield(Enters(m, "errormsg", L), L, "handler")
          ELSE Throw(m, "ERRRUN")
  /\ want' = IF Handled(want.stack[Runner]) /\ m'.do = "run" THEN WPush(want, "handler") ELSE want

ReturnToErrorMsg ==
  /\ Returns("errormsg")
  /\ m' = Throw(m, "ERRRUN")
  /\ UNCHANGED want

\* luaD_throw
LongJump ==
  /\ m.do = "throw"
  /\ m' = [m EXCEPT !.c = SubSeq(@, 1, m.th[L].errorJmp), !.do = "return"]
  /\ want' = IF m.status \in Errors THEN WUnwind(want) ELSE want

-----------------------------------------------------------------------------

CallsInit ==
  /\ m = [th |-> [t \in Threads |-> [ci |-> <<>>, status |-> "OK", nny |-> 1, nCcalls |-> 0,
                                     errorJmp |-> 0, errfunc |-> 0, body |-> t # Main]],
          c |-> <<>>, do |-> "idle", status |-> "OK"]
  /\ want = [stack |-> [t \in Threads |-> <<>>], chain |-> <<>>, dead |-> {}]

CallsNext ==
  \/ Host \/ CallLua \/ CallMeta \/ RuntimeError \/ ReturnLua \/ Yield
  \/ \E fn \in {"pcall", "xpcall", "dofile", "sort"} : CallC(fn)
  \/ \E fn \in {"resume", "wrap"}, co \in Threads : Resume(fn, co)
  \/ ReturnToLua \/ ReturnToCall \/ ReturnToNoYield \/ ReturnToC \/ ReturnToTry
  \/ ReturnToDPCall \/ ReturnToHost \/ ReturnToResuming \/ Unroll \/ Recover \/ ReturnToResume
  \/ ErrorMsg \/ ReturnToErrorMsg \/ LongJump

CallsSpec == CallsInit /\ [][CallsNext]_callsVars

-----------------------------------------------------------------------------
(* Properties *)

Names(ci) == [n \in DOMAIN ci |-> ci[n].fn]

\* Whenever Lua code runs it is the code that the program means to run: returns go to their
\* caller, errors to the innermost protected call of their coroutine or to the thread that
\* resumed it, yields to that thread and resumes back behind the yield, across whatever C
\* functions were cut off (luaD_throw, unroll, recover).
RunsWhatIsMeant ==
  m.do = "run" =>
    /\ L = Runner
    /\ \A t \in Threads \ want.dead : Names(m.th[t].ci) = want.stack[t]

\* What coroutine.status says (luaB_costatus), is so.
CoStatus(t) ==
  LET th == m.th[t] IN
  IF t = L THEN "running"
  ELSE IF th.status = "YIELD" THEN "suspended"
  ELSE IF th.status # "OK" THEN "dead"
  ELSE IF th.ci # <<>> THEN "normal"
  ELSE IF th.body THEN "suspended" ELSE "dead"
StatusRight == m.do = "run" => \A t \in Threads : CoStatus(t) = WStatus(t)

\* The message handler in force is that of the innermost protected call of the thread,
\* though handlers come and go with errors, yields and resumes (L->errfunc).
HandlerRight ==
  m.do \in {"run", "raise"} =>
    (m.th[L].errfunc = 1) = Handled(Names(m.th[L].ci))

\* The C stack is never deeper than nCcalls says, so that its limit holds over all
\* coroutines, and the running thread jumps to the last protected C function.
Depth == Cardinality({n \in DOMAIN m.c : m.c[n].f \in {"call", "resume"}})
CStackCounted ==
  m.do \in {"run", "raise", "throw"} =>
    /\ Depth <= m.th[L].nCcalls
    /\ m.th[L].errorJmp = SelectLastInSeq(m.c, LAMBDA f : f.f = "try")

\* A C function that a yield has cut off has a continuation, and it can yield again
\* (the assertions of finishCcall).
Continues ==
  m.do = "return" /\ Top.f = "unroll" /\ m.th[L].ci # <<>> /\ ~IsLua(CI(m, L).fn) =>
    /\ CI(m, L).k
    /\ m.th[L].nny = 0
    /\ m.status \in Errors => CI(m, L).ypcall

\* After any calls, errors, yields and resumes what runs is what the program means to run,
\* and each thread's handler, status and count of C calls are right for it (ldo.c).
CallsReturn ==
  /\ RunsWhatIsMeant
  /\ StatusRight
  /\ HandlerRight
  /\ CStackCounted
  /\ Continues

=============================================================================
