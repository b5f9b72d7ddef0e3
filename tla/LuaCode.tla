------------------------------ MODULE LuaCode ------------------------------
(***************************************************************************)
(* The code generator (lcode.c), the rules of the parser that use it       *)
(* (lparser.c) and the instructions it generates (lvm.c): expressions      *)
(* whose jumps are kept in lists that run through the jumps themselves,    *)
(* registers that are taken and freed like a stack, and the statements     *)
(* around them.  What a program does when it is compiled and executed is   *)
(* compared with what it means.                                            *)
(*                                                                         *)
(* Programs are trees: precedence is settled, names are strings.  A jump   *)
(* holds where it goes, not how far, and the next jump of its list as long *)
(* as it is on one; instructions are numbered from 1.  Constants stand in  *)
(* the instructions.  There is one table, which is also _ENV.              *)
(***************************************************************************)
EXTENDS Integers, Sequences, FiniteSets, TLC, SequencesExt

CONSTANTS Programs,   \* sequences of statements
          Starts,     \* what the parameters a and b are when the program starts
          Fuel        \* instructions that are executed at most

VARIABLE call   \* what is asked for

Nil     == <<"nil">>
Bool(x) == <<"bool", x>>
Num(n)  == <<"num", n>>
Str(s)  == <<"str", s>>
Table   == <<"table">>
Error   == <<"error">>

IsFalse(v) == v \in {Nil, Bool(FALSE)}

\* What the instructions do with values; only numbers and strings are concatenated.
Arith(op, v, w) ==
  IF v[1] # "num" \/ w[1] # "num" THEN Error
  ELSE CASE op = "ADD" -> Num(v[2] + w[2])
         [] op = "SUB" -> Num(v[2] - w[2])
         [] op = "MUL" -> Num(v[2] * w[2])
Pieces(v) == IF v[1] = "num" THEN <<v[2]>> ELSE v[2]
Joined(v, w) ==
  IF v[1] \in {"num", "str"} /\ w[1] \in {"num", "str"} THEN Str(Pieces(v) \o Pieces(w)) ELSE Error
Compared(op, v, w) ==
  CASE op = "EQ" -> Bool(v = w)
    [] v[1] # "num" \/ w[1] # "num" -> Error
    [] op = "LT" -> Bool(v[2] < w[2])
    [] op = "LE" -> Bool(v[2] <= w[2])
Fetched(env, v, key) ==
  IF v # Table THEN Error ELSE IF key \in DOMAIN env THEN env[key] ELSE Nil
Stored(env, key, val) == [k \in DOMAIN env \cup {key} |-> IF k = key THEN val ELSE env[k]]

-----------------------------------------------------------------------------
(* Jumps *)

NO_JUMP == 0
NO_REG  == -1

Instruction(op, a, b, c) == [op |-> op, a |-> a, b |-> b, c |-> c, to |-> NO_JUMP]

Tests == {"EQ", "LT", "LE", "TEST", "TESTSET"}

\* fs->pc, the place of the next instruction.
Here(fs) == Len(fs.code) + 1
NActVar(fs) == Len(fs.vars)

\* The jumps of a list.
RECURSIVE Jumps(_, _)
Jumps(code, list) == IF list = NO_JUMP THEN <<>> ELSE <<list>> \o Jumps(code, code[list].to)

\* luaK_concat: the list behind the other's last jump.
ConcatLists(fs, l1, l2) ==
  IF l2 = NO_JUMP THEN [fs |-> fs, list |-> l1]
  ELSE IF l1 = NO_JUMP THEN [fs |-> fs, list |-> l2]
  ELSE [fs |-> [fs EXCEPT !.code[Last(Jumps(fs.code, l1))].to = l2], list |-> l1]

\* getjumpcontrol: where the condition of a jump is.
JumpControl(code, pc) == IF pc > 1 /\ code[pc - 1].op \in Tests THEN pc - 1 ELSE pc

GivesValue(code, pc) == code[JumpControl(code, pc)].op = "TESTSET"

\* patchtestreg: a TESTSET gets a register to set or becomes a TEST.
PatchTestReg(code, pc, reg) ==
  LET c == JumpControl(code, pc)
      i == code[c]
  IN  IF ~GivesValue(code, pc) THEN code
      ELSE IF reg # NO_REG /\ reg # i.b THEN [code EXCEPT ![c].a = reg]
      ELSE [code EXCEPT ![c] = Instruction("TEST", i.b, 0, i.c)]

RemoveValues(fs, list) ==
  [fs EXCEPT !.code = FoldLeft(LAMBDA code, pc : PatchTestReg(code, pc, NO_REG), @, Jumps(@, list))]

\* patchlistaux
PatchListAux(fs, list, vtarget, reg, dtarget) ==
  LET Fix(code, pc) == [PatchTestReg(code, pc, reg) EXCEPT
                          ![pc].to = IF GivesValue(code, pc) THEN vtarget ELSE dtarget]
  IN  [fs EXCEPT !.code = FoldLeft(Fix, @, Jumps(@, list))]

GetLabel(fs) == [fs EXCEPT !.lasttarget = Here(fs)]

\* luaK_patchtohere: the jumps wait for the instruction that will be here.
PatchToHere(fs, list) ==
  LET r == ConcatLists(GetLabel(fs), fs.jpc, list) IN [r.fs EXCEPT !.jpc = r.list]

PatchList(fs, list, target) ==
  IF target = Here(fs) THEN PatchToHere(fs, list)
  ELSE PatchListAux(fs, list, target, NO_REG, target)

\* luaK_code: the jumps to here go to it.
Code(fs, i) ==
  LET d == PatchListAux(fs, fs.jpc, Here(fs), NO_REG, Here(fs))
  IN  [d EXCEPT !.jpc = NO_JUMP, !.code = Append(@, i)]

\* luaK_jump: jumps to here will go where this one goes.
Jump(fs) ==
  LET coded == Code([fs EXCEPT !.jpc = NO_JUMP], Instruction("JMP", 0, 0, 0))
  IN  ConcatLists(coded, Len(coded.code), fs.jpc)

CondJump(fs, i) == Jump(Code(fs, i))

\* Faulty variant of CodeNil: a LOADNIL is widened although something jumps behind it.
CodeNilAlways(fs, from, n) ==
  LET prev  == fs.code[Len(fs.code)]
      l     == from + n - 1
      pl    == prev.a + prev.b
      joins == \/ prev.a <= from /\ from <= pl + 1
               \/ from <= prev.a /\ prev.a <= l + 1
      first == IF prev.a < from THEN prev.a ELSE from
  IN  IF fs.code # <<>> /\ prev.op = "LOADNIL" /\ joins
      THEN [fs EXCEPT !.code[Len(fs.code)].a = first,
                      !.code[Len(fs.code)].b = (IF pl > l THEN pl ELSE l) - first]
      ELSE Code(fs, Instruction("LOADNIL", from, n - 1, 0))

\* luaK_nil: a LOADNIL that the range joins is widened, if nothing jumps behind it.
CodeNil(fs, from, n) ==
  LET prev  == fs.code[Len(fs.code)]
      l     == from + n - 1
      pl    == prev.a + prev.b
      joins == \/ prev.a <= from /\ from <= pl + 1
               \/ from <= prev.a /\ prev.a <= l + 1
      first == IF prev.a < from THEN prev.a ELSE from
  IN  IF Here(fs) > fs.lasttarget /\ fs.code # <<>> /\ prev.op = "LOADNIL" /\ joins
      THEN [fs EXCEPT !.code[Len(fs.code)].a = first,
                      !.code[Len(fs.code)].b = (IF pl > l THEN pl ELSE l) - first]
      ELSE Code(fs, Instruction("LOADNIL", from, n - 1, 0))

-----------------------------------------------------------------------------
(* Expressions *)

Desc(k, info) == [k |-> k, info |-> info, t |-> NO_JUMP, f |-> NO_JUMP]

HasJumps(e) == e.t # e.f

Reg(r) == <<"R", r>>
K(v)   == <<"K", v>>

ReserveRegs(fs, n) ==
  [fs EXCEPT !.freereg = @ + n, !.maxstacksize = IF fs.freereg + n > @ THEN fs.freereg + n ELSE @]

\* freereg: bad says that its assertion does not hold.
FreeReg(fs, reg) ==
  IF reg < NActVar(fs) THEN fs ELSE [fs EXCEPT !.freereg = @ - 1, !.bad = @ \/ reg # fs.freereg - 1]

FreeExp(fs, e) == IF e.k = "VNONRELOC" THEN FreeReg(fs, e.info) ELSE fs

\* freeexps: the higher register first.
FreeExps(fs, e1, e2) ==
  IF e1.k = "VNONRELOC" /\ (e2.k = "VNONRELOC" => e1.info > e2.info)
  THEN FreeExp(FreeExp(fs, e1), e2) ELSE FreeExp(FreeExp(fs, e2), e1)

FreeRK(fs, rk) == IF rk[1] = "R" THEN FreeReg(fs, rk[2]) ELSE fs

\* luaK_dischargevars
DischargeVars(fs, e) ==
  LET ind   == e.info
      freed == IF ind.vt = "VLOCAL" THEN FreeReg(FreeRK(fs, ind.idx), ind.t) ELSE FreeRK(fs, ind.idx)
      coded == Code(freed, Instruction(IF ind.vt = "VLOCAL" THEN "GETTABLE" ELSE "GETTABUP",
                                       0, ind.t, ind.idx))
  IN  CASE e.k = "VLOCAL" -> [fs |-> fs, e |-> [e EXCEPT !.k = "VNONRELOC"]]
        [] e.k = "VINDEXED" ->
             [fs |-> coded, e |-> [e EXCEPT !.k = "VRELOCABLE", !.info = Len(coded.code)]]
        [] OTHER -> [fs |-> fs, e |-> e]

\* discharge2reg
DischargeToReg(fs0, e0, reg) ==
  LET r  == DischargeVars(fs0, e0)
      fs == r.fs
      e  == r.e
      coded ==
        CASE e.k = "VNIL"  -> CodeNil(fs, reg, 1)
          [] e.k \in {"VTRUE", "VFALSE"} -> Code(fs, Instruction("LOADBOOL", reg, e.k = "VTRUE", 0))
          [] e.k = "VK"    -> Code(fs, Instruction("LOADK", reg, e.info, 0))
          [] e.k = "VKINT" -> Code(fs, Instruction("LOADK", reg, Num(e.info), 0))
          [] e.k = "VRELOCABLE" -> [fs EXCEPT !.code[e.info].a = reg]
          [] e.k = "VNONRELOC" ->
               IF reg = e.info THEN fs ELSE Code(fs, Instruction("MOVE", reg, e.info, 0))
          [] e.k = "VJMP" -> fs
  IN  [fs |-> coded, e |-> IF e.k = "VJMP" THEN e ELSE [e EXCEPT !.k = "VNONRELOC", !.info = reg]]

DischargeToAnyReg(fs, e) ==
  IF e.k = "VNONRELOC" THEN [fs |-> fs, e |-> e]
  ELSE DischargeToReg(ReserveRegs(fs, 1), e, fs.freereg)

NeedValue(fs, list) == \E n \in ToSet(Jumps(fs.code, list)) : ~GivesValue(fs.code, n)

\* code_loadbool
CodeLoadBool(fs, a, b, jump) == Code(GetLabel(fs), Instruction("LOADBOOL", a, b, jump))

\* exp2reg: jumps without a value go to instructions that load one.
ExpToReg(fs0, e0, reg) ==
  LET d     == DischargeToReg(fs0, e0, reg)
      own   == ConcatLists(d.fs, d.e.t, d.e.info)
      fs    == IF d.e.k = "VJMP" THEN own.fs ELSE d.fs
      t     == IF d.e.k = "VJMP" THEN own.list ELSE d.e.t
      f     == d.e.f
      over  == Jump(fs)
      fj    == IF d.e.k = "VJMP" THEN NO_JUMP ELSE over.list
      p_f   == CodeLoadBool(IF d.e.k = "VJMP" THEN fs ELSE over.fs, reg, FALSE, 1)
      p_t   == CodeLoadBool(p_f, reg, TRUE, 0)
      need  == NeedValue(fs, t) \/ NeedValue(fs, f)
      ready == GetLabel(IF need THEN PatchToHere(p_t, fj) ELSE fs)
      final == Here(ready)
      onF   == PatchListAux(ready, f, final, reg, Len(p_f.code))
      onT   == PatchListAux(onF, t, final, reg, Len(p_t.code))
  IN  [fs |-> IF t # f THEN onT ELSE fs, e |-> Desc("VNONRELOC", reg)]

ExpToNextReg(fs, e) ==
  LET d     == DischargeVars(fs, e)
      freed == FreeExp(d.fs, d.e)
  IN  ExpToReg(ReserveRegs(freed, 1), d.e, freed.freereg)

ExpToAnyReg(fs, e) ==
  LET d == DischargeVars(fs, e) IN
  IF d.e.k = "VNONRELOC" /\ ~HasJumps(d.e) THEN d
  ELSE IF d.e.k = "VNONRELOC" /\ d.e.info >= NActVar(fs) THEN ExpToReg(d.fs, d.e, d.e.info)
  ELSE ExpToNextReg(d.fs, d.e)

ExpToVal(fs, e) == IF HasJumps(e) THEN ExpToAnyReg(fs, e) ELSE DischargeVars(fs, e)

\* luaK_exp2RK: rk is the operand of an instruction.
ExpToRK(fs, e) ==
  LET v     == ExpToVal(fs, e)
      value == CASE v.e.k = "VTRUE"  -> Bool(TRUE)
                 [] v.e.k = "VFALSE" -> Bool(FALSE)
                 [] v.e.k = "VNIL"   -> Nil
                 [] v.e.k = "VKINT"  -> Num(v.e.info)
                 [] v.e.k = "VK"     -> v.e.info
      r     == ExpToAnyReg(v.fs, v.e)
  IN  IF v.e.k \in {"VTRUE", "VFALSE", "VNIL", "VKINT", "VK"}
      THEN [fs |-> v.fs, e |-> [v.e EXCEPT !.k = "VK", !.info = value], rk |-> K(value)]
      ELSE [fs |-> r.fs, e |-> r.e, rk |-> Reg(r.e.info)]

\* luaK_storevar
StoreVar(fs, var, ex) ==
  LET rk   == ExpToRK(fs, ex)
      done == Code(rk.fs, Instruction(IF var.info.vt = "VLOCAL" THEN "SETTABLE" ELSE "SETTABUP",
                                      var.info.t, var.info.idx, rk.rk))
  IN  IF var.k = "VLOCAL" THEN ExpToReg(FreeExp(fs, ex), ex, var.info).fs
      ELSE FreeExp(done, rk.e)

NegateCondition(fs, e) == [fs EXCEPT !.code[JumpControl(fs.code, e.info)].a = ~@]

\* jumponcond: a NOT that was coded last is taken back.
JumpOnCond(fs, e, cond) ==
  LET not == fs.code[e.info]
      any == DischargeToAnyReg(fs, e)
  IN  IF e.k = "VRELOCABLE" /\ not.op = "NOT"
      THEN CondJump([fs EXCEPT !.code = Front(@)], Instruction("TEST", not.b, 0, ~cond))
      ELSE CondJump(FreeExp(any.fs, any.e), Instruction("TESTSET", NO_REG, any.e.info, cond))

\* luaK_goiftrue
GoIfTrue(fs, e) ==
  LET d    == DischargeVars(fs, e)
      jump == CASE d.e.k = "VJMP" -> [fs |-> NegateCondition(d.fs, d.e), list |-> d.e.info]
                [] d.e.k \in {"VK", "VKINT", "VTRUE"} -> [fs |-> d.fs, list |-> NO_JUMP]
                [] OTHER -> JumpOnCond(d.fs, d.e, FALSE)
      f    == ConcatLists(jump.fs, d.e.f, jump.list)
  IN  [fs |-> PatchToHere(f.fs, d.e.t), e |-> [d.e EXCEPT !.f = f.list, !.t = NO_JUMP]]

\* luaK_goiffalse
GoIfFalse(fs, e) ==
  LET d    == DischargeVars(fs, e)
      jump == CASE d.e.k = "VJMP" -> [fs |-> d.fs, list |-> d.e.info]
                [] d.e.k \in {"VNIL", "VFALSE"} -> [fs |-> d.fs, list |-> NO_JUMP]
                [] OTHER -> JumpOnCond(d.fs, d.e, TRUE)
      t    == ConcatLists(jump.fs, d.e.t, jump.list)
  IN  [fs |-> PatchToHere(t.fs, d.e.f), e |-> [d.e EXCEPT !.t = t.list, !.f = NO_JUMP]]

\* codenot
CodeNot(fs, e) ==
  LET d     == DischargeVars(fs, e)
      any   == DischargeToAnyReg(d.fs, d.e)
      coded == Code(FreeExp(any.fs, any.e), Instruction("NOT", 0, any.e.info, 0))
      r     == CASE d.e.k \in {"VNIL", "VFALSE"} -> [d EXCEPT !.e.k = "VTRUE"]
                 [] d.e.k \in {"VK", "VKINT", "VTRUE"} -> [d EXCEPT !.e.k = "VFALSE"]
                 [] d.e.k = "VJMP" -> [d EXCEPT !.fs = NegateCondition(d.fs, d.e)]
                 [] OTHER -> [fs |-> coded,
                              e |-> [any.e EXCEPT !.k = "VRELOCABLE", !.info = Len(coded.code)]]
  IN  [fs |-> RemoveValues(RemoveValues(r.fs, r.e.t), r.e.f),
       e |-> [r.e EXCEPT !.t = r.e.f, !.f = r.e.t]]

\* luaK_indexed, of a table in a register or the upvalue _ENV.
Indexed(fs, t, key) ==
  LET k == ExpToRK(fs, key)
  IN  [fs |-> k.fs, e |-> Desc("VINDEXED", [vt |-> IF t.k = "VUPVAL" THEN "VUPVAL" ELSE "VLOCAL",
                                            t |-> t.info, idx |-> k.rk])]

Numeral(e) == e.k = "VKINT" /\ ~HasJumps(e)

ArithOps   == {"ADD", "SUB", "MUL"}
CompareOps == {"EQ", "LT", "LE", "NE", "GT", "GE"}

\* luaK_prefix
Prefix(fs, op, e) ==
  LET r     == ExpToAnyReg(fs, e)
      coded == Code(FreeExp(r.fs, r.e), Instruction("UNM", 0, r.e.info, 0))
  IN  CASE op = "not" -> CodeNot(fs, e)
        [] op = "neg" /\ Numeral(e) -> [fs |-> fs, e |-> [e EXCEPT !.info = -@]]
        [] OTHER -> [fs |-> coded, e |-> Desc("VRELOCABLE", Len(coded.code))]

\* luaK_infix
Infix(fs, op, e) ==
  CASE op = "and" -> GoIfTrue(fs, e)
    [] op = "or"  -> GoIfFalse(fs, e)
    [] op = "CONCAT" -> ExpToNextReg(fs, e)
    [] op \in ArithOps /\ Numeral(e) -> [fs |-> fs, e |-> e]
    [] OTHER -> LET r == ExpToRK(fs, e) IN [fs |-> r.fs, e |-> r.e]

\* codebinexpval
CodeBinExpVal(fs, op, e1, e2) ==
  LET r1    == ExpToRK(fs, e1)
      r2    == ExpToRK(r1.fs, e2)
      coded == Code(FreeExps(r2.fs, r1.e, r2.e), Instruction(op, 0, r1.rk, r2.rk))
  IN  [fs |-> coded, e |-> [e1 EXCEPT !.k = "VRELOCABLE", !.info = Len(coded.code), !.t = r1.e.t, !.f = r1.e.f]]

\* codecomp: > and >= are < and <= with their operands exchanged.
CodeComp(fs, op, e1, e2) ==
  LET rk1   == IF e1.k = "VK" THEN K(e1.info) ELSE Reg(e1.info)
      r2    == ExpToRK(fs, e2)
      i     == CASE op = "NE" -> Instruction("EQ", FALSE, rk1, r2.rk)
                 [] op = "GT" -> Instruction("LT", TRUE, r2.rk, rk1)
                 [] op = "GE" -> Instruction("LE", TRUE, r2.rk, rk1)
                 [] OTHER -> Instruction(op, TRUE, rk1, r2.rk)
      j     == CondJump(FreeExps(r2.fs, e1, r2.e), i)
  IN  [fs |-> j.fs, e |-> [e1 EXCEPT !.k = "VJMP", !.info = j.list]]

\* The concatenations of a row become one.
CodeConcat(fs, e1, e2) ==
  LET v    == ExpToVal(fs, e2)
      next == ExpToNextReg(v.fs, v.e)
  IN  IF v.e.k = "VRELOCABLE" /\ v.fs.code[v.e.info].op = "CONCAT"
      THEN [fs |-> [FreeExp(v.fs, e1) EXCEPT !.code[v.e.info].b = Reg(e1.info)],
            e |-> [e1 EXCEPT !.k = "VRELOCABLE", !.info = v.e.info]]
      ELSE CodeBinExpVal(next.fs, "CONCAT", e1, next.e)

\* luaK_posfix
Posfix(fs, op, e1, e2) ==
  LET d == DischargeVars(fs, e2)
      f == ConcatLists(d.fs, d.e.f, e1.f)
      t == ConcatLists(d.fs, d.e.t, e1.t)
  IN  CASE op = "and" -> [fs |-> f.fs, e |-> [d.e EXCEPT !.f = f.list]]
        [] op = "or"  -> [fs |-> t.fs, e |-> [d.e EXCEPT !.t = t.list]]
        [] op = "CONCAT" -> CodeConcat(fs, e1, e2)
        [] op \in ArithOps /\ Numeral(e1) /\ Numeral(e2) ->
             [fs |-> fs, e |-> [e1 EXCEPT !.info = Arith(op, Num(e1.info), Num(e2.info))[2]]]
        [] op \in ArithOps /\ ~(Numeral(e1) /\ Numeral(e2)) -> CodeBinExpVal(fs, op, e1, e2)
        [] op \in CompareOps -> CodeComp(fs, op, e1, e2)

\* singlevar: a local variable, or a member of _ENV.
SingleVar(fs, name) ==
  IF \E n \in DOMAIN fs.vars : fs.vars[n] = name
  THEN [fs |-> fs, e |-> Desc("VLOCAL", SelectLastInSeq(fs.vars, LAMBDA x : x = name) - 1)]
  ELSE Indexed(fs, Desc("VUPVAL", 0), Desc("VK", <<"name", name>>))

\* subexpr and what it is made of.
RECURSIVE Expr(_, _)
Expr(fs, x) ==
  LET one  == Expr(fs, x[2])
      tab  == ExpToAnyReg(one.fs, one.e)
      key  == Expr(tab.fs, x[3])
      kval == ExpToVal(key.fs, key.e)
      left == Infix(one.fs, x[1], one.e)
      two  == Expr(left.fs, x[3])
  IN  CASE x[1] = "nil"   -> [fs |-> fs, e |-> Desc("VNIL", 0)]
        [] x[1] = "true"  -> [fs |-> fs, e |-> Desc("VTRUE", 0)]
        [] x[1] = "false" -> [fs |-> fs, e |-> Desc("VFALSE", 0)]
        [] x[1] = "num"   -> [fs |-> fs, e |-> Desc("VKINT", x[2])]
        [] x[1] = "str"   -> [fs |-> fs, e |-> Desc("VK", x)]
        [] x[1] = "var"   -> SingleVar(fs, x[2])
        [] x[1] = "paren" -> DischargeVars(one.fs, one.e)
        [] x[1] = "index" -> Indexed(kval.fs, tab.e, kval.e)
        [] x[1] \in {"not", "neg"} -> Prefix(one.fs, x[1], one.e)
        [] OTHER -> Posfix(two.fs, x[1], left.e, two.e)

-----------------------------------------------------------------------------
(* Statements *)

\* explist: all but the last go to the next registers.
ExpList(fs, list) ==
  LET Step(r, x) == LET next == ExpToNextReg(r.fs, r.e) IN Expr(next.fs, x)
  IN  FoldLeft(Step, Expr(fs, list[1]), Tail(list))

\* adjust_assign; there are no calls, so no expression has several results.
AdjustAssign(fs, nvars, list) ==
  LET last   == ExpList(fs, list)
      closed == IF list = <<>> THEN fs ELSE ExpToNextReg(last.fs, last.e).fs
      extra  == nvars - Len(list)
  IN  IF extra > 0 THEN CodeNil(ReserveRegs(closed, extra), closed.freereg, extra) ELSE closed

\* check_conflict: a local that an earlier target uses is copied, and the copy used.
CheckConflict(fs, targets, v) ==
  LET extra == fs.freereg
      Uses(u) == u.k = "VINDEXED" /\ \/ u.info.vt = "VLOCAL" /\ u.info.t = v.info
                                     \/ u.info.idx = Reg(v.info)
      Safe(u) == IF ~Uses(u) THEN u
                 ELSE [u EXCEPT !.info.t = IF u.info.vt = "VLOCAL" /\ @ = v.info THEN extra ELSE @,
                                !.info.idx = IF @ = Reg(v.info) THEN Reg(extra) ELSE @]
  IN  IF v.k # "VLOCAL" \/ \A n \in DOMAIN targets : ~Uses(targets[n])
      THEN [fs |-> fs, targets |-> targets]
      ELSE [fs |-> ReserveRegs(Code(fs, Instruction("MOVE", extra, v.info, 0)), 1),
            targets |-> [n \in DOMAIN targets |-> Safe(targets[n])]]

\* assignment: the values are there before the first of them is stored, the last one first.
Assignment(fs, names, list) ==
  LET Target(r, x) ==
        LET v    == Expr(r.fs, x)
            safe == CheckConflict(v.fs, r.targets, v.e)
        IN  [fs |-> safe.fs, targets |-> Append(safe.targets, v.e)]
      lhs   == FoldLeft(Target, [fs |-> fs, targets |-> <<>>], names)
      last  == ExpList(lhs.fs, list)
      same  == Len(list) = Len(names)
      adjusted == AdjustAssign(lhs.fs, Len(names), list)
      given == IF same THEN StoreVar(last.fs, Last(lhs.targets), last.e)
               ELSE [adjusted EXCEPT !.freereg =
                       IF Len(list) > Len(names) THEN @ - (Len(list) - Len(names)) ELSE @]
      Store(g, v) == StoreVar(g, v, Desc("VNONRELOC", g.freereg - 1))
  IN  FoldLeft(Store, given, Reverse(IF same THEN Front(lhs.targets) ELSE lhs.targets))

\* enterblock asserts that no register is in use but for the variables'.
EnterBlock(fs) == [fs EXCEPT !.bad = @ \/ fs.freereg # NActVar(fs)]

LeaveBlock(fs, nactvar) == [fs EXCEPT !.vars = SubSeq(@, 1, nactvar), !.freereg = nactvar]

\* A loop's end is where its breaks go.
LeaveLoop(fs, before) ==
  LET own == SubSeq(fs.breaks, Len(before.breaks) + 1, Len(fs.breaks))
  IN  [LeaveBlock(FoldLeft(PatchToHere, fs, own), NActVar(before)) EXCEPT !.breaks = before.breaks]

RECURSIVE StatList(_, _)
RECURSIVE Statement(_, _)

Block(fs, list) == LeaveBlock(StatList(EnterBlock(fs), list), NActVar(fs))

\* test_then_block: jf is pending for the next clause, escape for the end of the statement.
TestThenBlock(r, clause, follows) ==
  LET cond  == Expr(r.fs, clause[1])
      brk   == GoIfFalse(cond.fs, cond.e)
      go    == GoIfTrue(cond.fs, cond.e)
      body  == Block(go.fs, clause[2])
      over  == Jump(body)
      esc   == ConcatLists(over.fs, r.escape, over.list)
  IN  IF clause[2] = <<<<"break">>>>
      THEN [fs |-> [brk.fs EXCEPT !.breaks = Append(@, brk.e.t)], escape |-> r.escape]
      ELSE IF follows THEN [fs |-> PatchToHere(esc.fs, go.e.f), escape |-> esc.list]
      ELSE [fs |-> PatchToHere(body, go.e.f), escape |-> r.escape]

IfStat(fs, clauses, else) ==
  LET n == Len(clauses)
      Step(r, k) == TestThenBlock(r, clauses[k], k < n \/ else # <<>>)
      tests == FoldLeft(Step, [fs |-> fs, escape |-> NO_JUMP], [k \in 1..n |-> k])
      last  == IF else = <<>> THEN tests.fs ELSE Block(tests.fs, else)
  IN  PatchToHere(last, tests.escape)

WhileStat(fs, cond, list) ==
  LET init == GetLabel(fs)
      c    == Expr(init, IF cond = <<"nil">> THEN <<"false">> ELSE cond)
      go   == GoIfTrue(c.fs, c.e)
      body == Block(EnterBlock(go.fs), list)
      back == Jump(body)
  IN  PatchToHere(LeaveLoop(PatchList(back.fs, back.list, Here(init)), go.fs), go.e.f)

\* repeatstat: the condition sees the variables of the block.
RepeatStat(fs, list, cond) ==
  LET init == GetLabel(fs)
      body == StatList(EnterBlock(EnterBlock(init)), list)
      c    == Expr(body, IF cond = <<"nil">> THEN <<"false">> ELSE cond)
      go   == GoIfTrue(c.fs, c.e)
  IN  LeaveLoop(PatchList(LeaveBlock(go.fs, NActVar(fs)), go.e.f, Here(init)), fs)

\* fornum and forbody: three variables without a name hold the state of the loop.
ForNum(fs, name, init, limit, step, list) ==
  LET Next1(g, x) == LET r == Expr(g, x) IN ExpToNextReg(r.fs, r.e).fs
      base  == fs.freereg
      exps  == Next1(Next1(Next1(EnterBlock(fs), init), limit), step)
      three == [exps EXCEPT !.vars = @ \o <<"(for index)", "(for limit)", "(for step)">>]
      prep  == Code(three, Instruction("FORPREP", base, 0, 0))
      inner == ReserveRegs([EnterBlock(prep) EXCEPT !.vars = Append(@, name)], 1)
      body  == LeaveBlock(Block(inner, list), NActVar(three))
      loop  == Code(PatchToHere(body, Len(prep.code)), Instruction("FORLOOP", base, 0, 0))
  IN  LeaveLoop(PatchList(loop, Len(loop.code), Len(prep.code) + 1), fs)

\* statement: the registers of the expressions are free again behind it.
Statement(fs, s) ==
  LET brk  == Jump(fs)
      done == CASE s[1] = "local"  -> [AdjustAssign(fs, Len(s[2]), s[3]) EXCEPT !.vars = @ \o s[2]]
                [] s[1] = "assign" -> Assignment(fs, s[2], s[3])
                [] s[1] = "if"     -> IfStat(fs, s[2], s[3])
                [] s[1] = "while"  -> WhileStat(fs, s[2], s[3])
                [] s[1] = "repeat" -> RepeatStat(fs, s[2], s[3])
                [] s[1] = "for"    -> ForNum(fs, s[2], s[3], s[4], s[5], s[6])
                [] s[1] = "do"     -> Block(fs, s[2])
                [] s[1] = "break"  -> [brk.fs EXCEPT !.breaks = Append(@, brk.list)]
  IN  [done EXCEPT !.freereg = NActVar(done)]

StatList(fs, list) == FoldLeft(Statement, fs, list)

\* The main function, with the parameters a and b, and its final return.
Compile(program) ==
  LET fs == [code |-> <<>>, freereg |-> 2, lasttarget |-> 1, jpc |-> NO_JUMP, vars |-> <<"a", "b">>,
             maxstacksize |-> 2, breaks |-> <<>>, bad |-> FALSE]
  IN  Code(StatList(EnterBlock(fs), program), Instruction("RETURN", 0, 0, 0))

-----------------------------------------------------------------------------
(* luaV_execute *)

\* The instructions of the machine m: pc, its registers, the table, and whether it has stopped.
RK(m, x) == IF x[1] = "K" THEN x[2] ELSE m.regs[x[2]]
Stops(m, how) == [m EXCEPT !.stop = how]
Sets(m, reg, v) == IF v = Error THEN Stops(m, "error") ELSE [m EXCEPT !.regs[reg] = v, !.pc = @ + 1]

Loads(i, m) ==
  CASE i.op = "MOVE"     -> Sets(m, i.a, m.regs[i.b])
    [] i.op = "LOADK"    -> Sets(m, i.a, i.b)
    [] i.op = "LOADBOOL" -> [m EXCEPT !.regs[i.a] = Bool(i.b), !.pc = @ + 1 + i.c]
    [] i.op = "LOADNIL"  -> [m EXCEPT !.regs = [n \in DOMAIN @ |-> IF n \in i.a..i.a + i.b THEN Nil ELSE @[n]],
                                      !.pc = @ + 1]

Accesses(i, m) ==
  LET tab == IF i.op = "SETTABLE" THEN m.regs[i.a] ELSE Table
      key == RK(m, i.b)
  IN  CASE i.op = "GETTABLE" -> Sets(m, i.a, Fetched(m.env, m.regs[i.b], RK(m, i.c)))
        [] i.op = "GETTABUP" -> Sets(m, i.a, Fetched(m.env, Table, RK(m, i.c)))
        [] OTHER -> IF tab # Table \/ key = Nil THEN Stops(m, "error")
                    ELSE [m EXCEPT !.env = Stored(@, key, RK(m, i.c)), !.pc = @ + 1]

\* luaV_concat works from the end of the row.
ConcatRow(regs, from, to) ==
  FoldRight(LAMBDA v, w : IF w = Error THEN Error ELSE Joined(v, w),
            [n \in 1..to - from |-> regs[from + n - 1]], regs[to])

Unary(i, m) ==
  CASE i.op = "NOT"    -> Sets(m, i.a, Bool(IsFalse(m.regs[i.b])))
    [] i.op = "UNM"    -> Sets(m, i.a, Arith("SUB", Num(0), m.regs[i.b]))
    [] i.op = "CONCAT" -> Sets(m, i.a, ConcatRow(m.regs, i.b[2], i.c[2]))

\* The instruction behind a test is a jump, and is done with it or left out.
Branches(code, i, m) ==
  LET Test(holds) == [m EXCEPT !.pc = IF holds THEN code[m.pc + 1].to ELSE @ + 2]
      cmp == Compared(i.op, RK(m, i.b), RK(m, i.c))
  IN  CASE i.op = "JMP"  -> [m EXCEPT !.pc = i.to]
        [] i.op = "TEST" -> Test(IsFalse(m.regs[i.a]) # i.c)
        [] i.op = "TESTSET" ->
             IF IsFalse(m.regs[i.b]) = i.c THEN Test(FALSE)
             ELSE [Test(TRUE) EXCEPT !.regs[i.a] = m.regs[i.b]]
        [] OTHER -> IF cmp = Error THEN Stops(m, "error") ELSE Test(cmp = Bool(i.a))

Turns(i, m) ==
  LET r     == m.regs
      index == r[i.a][2] + r[i.a + 2][2]
      limit == r[i.a + 1][2]
      more  == IF r[i.a + 2][2] > 0 THEN index <= limit ELSE limit <= index
  IN  IF i.op = "FORPREP"
      THEN IF \E n \in i.a..i.a + 2 : r[n][1] # "num" THEN Stops(m, "error")
           ELSE [m EXCEPT !.regs[i.a] = Arith("SUB", @, r[i.a + 2]), !.pc = i.to]
      ELSE IF more THEN [m EXCEPT !.regs[i.a] = Num(index), !.regs[i.a + 3] = Num(index), !.pc = i.to]
      ELSE [m EXCEPT !.pc = @ + 1]

Execute(code, m) ==
  LET i == code[m.pc] IN
  CASE i.op \in {"MOVE", "LOADK", "LOADBOOL", "LOADNIL"} -> Loads(i, m)
    [] i.op \in {"GETTABLE", "GETTABUP", "SETTABLE", "SETTABUP"} -> Accesses(i, m)
    [] i.op \in ArithOps -> Sets(m, i.a, Arith(i.op, RK(m, i.b), RK(m, i.c)))
    [] i.op \in {"NOT", "UNM", "CONCAT"} -> Unary(i, m)
    [] i.op \in Tests \cup {"JMP"} -> Branches(code, i, m)
    [] i.op \in {"FORPREP", "FORLOOP"} -> Turns(i, m)
    [] i.op = "RETURN" -> Stops(m, "return")

RECURSIVE RunFrom(_, _, _)
RunFrom(code, m, fuel) ==
  IF m.stop # "no" THEN m
  ELSE IF fuel = 0 THEN [m EXCEPT !.stop = "fuel"]
  ELSE RunFrom(code, Execute(code, m), fuel - 1)

\* The registers of the frame hold what earlier calls have left.
Left == Str(<<99>>)
Run(fs, start) ==
  RunFrom(fs.code, [pc |-> 1, stop |-> "no", env |-> start.env,
                    regs |-> [n \in 0..fs.maxstacksize - 1 |->
                                CASE n = 0 -> start.a [] n = 1 -> start.b [] OTHER -> Left]], Fuel)

-----------------------------------------------------------------------------

NoCall == [call |-> "none"]

Init == call = NoCall

CompileAndRun ==
  \E program \in Programs, start \in Starts :
    call' = [call |-> "run", program |-> program, start |-> start]

Next == call = NoCall /\ CompileAndRun

\* What a call gives: the function, and where the machine that runs it ends.
RunOf(fs, start) == [fs |-> fs, end |-> Run(fs, start)]
Returned(job) == RunOf(Compile(job.program), job.start)

Spec == Init /\ [][Next]_call

-----------------------------------------------------------------------------
(* What programs mean *)

Place(scope, name) == SelectLastInSeq(scope, LAMBDA v : v[1] = name)

RECURSIVE Eval(_, _, _)
Eval(x, scope, env) ==
  LET v == Eval(x[2], scope, env)
      w == Eval(x[3], scope, env)
      n == Place(scope, x[2])
      Both(value) == IF v = Error \/ w = Error THEN Error ELSE value
  IN  CASE x[1] = "nil"   -> Nil
        [] x[1] = "true"  -> Bool(TRUE)
        [] x[1] = "false" -> Bool(FALSE)
        [] x[1] \in {"num", "str"} -> x
        [] x[1] = "var"   -> IF n # 0 THEN scope[n][2] ELSE Fetched(env, Table, <<"name", x[2]>>)
        [] x[1] = "paren" -> v
        [] x[1] = "not"   -> IF v = Error THEN Error ELSE Bool(IsFalse(v))
        [] x[1] = "neg"   -> IF v = Error THEN Error ELSE Arith("SUB", Num(0), v)
        [] x[1] = "and"   -> IF v = Error THEN Error ELSE IF IsFalse(v) THEN v ELSE w
        [] x[1] = "or"    -> IF v = Error THEN Error ELSE IF IsFalse(v) THEN w ELSE v
        [] x[1] = "index" -> Both(Fetched(env, v, w))
        [] x[1] = "CONCAT" -> Both(Joined(v, w))
        [] x[1] \in ArithOps -> Both(Arith(x[1], v, w))
        [] x[1] = "NE"    -> Both(Bool(v # w))
        [] x[1] = "GT"    -> Both(Compared("LT", w, v))
        [] x[1] = "GE"    -> Both(Compared("LE", w, v))
        [] OTHER          -> Both(Compared(x[1], v, w))

\* Where a target is, with what its table and key are before anything is stored.
TargetOf(x, g) ==
  IF x[1] = "var" /\ Place(g.scope, x[2]) # 0 THEN <<"local", Place(g.scope, x[2])>>
  ELSE IF x[1] = "var" THEN <<"member", Table, <<"name", x[2]>>>>
  ELSE <<"member", Eval(x[2], g.scope, g.env), Eval(x[3], g.scope, g.env)>>

Assigned(g, target, v) ==
  IF g.how # "on" THEN g
  ELSE IF target[1] = "local" THEN [g EXCEPT !.scope[target[2]][2] = v]
  ELSE IF target[2] # Table \/ target[3] = Nil THEN [g EXCEPT !.how = "error"]
  ELSE [g EXCEPT !.env = Stored(@, target[3], v)]

Closed(g, before) == [g EXCEPT !.scope = SubSeq(@, 1, Len(before.scope))]

\* how is "on", or how the program ends: "error", or a "break" that looks for its loop.
RECURSIVE Meaning(_, _)
RECURSIVE Loop(_, _)
Run1(g, s) == IF g.how # "on" THEN g ELSE Meaning(g, s)
Meanings(g, list) == FoldLeft(Run1, g, list)
Loop(g, s) ==
  LET v    == Eval(s[2], g.scope, g.env)
      body == Closed(Meanings(g, s[3]), g)
      inner == Meanings(g, s[2])
      u    == Eval(s[3], inner.scope, inner.env)
      over == [Closed(inner, g) EXCEPT !.how = IF @ = "break" THEN "on" ELSE @]
  IN  IF s[1] = "while"
      THEN IF v = Error THEN [g EXCEPT !.how = "error"]
           ELSE IF IsFalse(v) THEN g
           ELSE IF body.how = "on" THEN Loop(body, s)
           ELSE [body EXCEPT !.how = IF @ = "break" THEN "on" ELSE @]
      ELSE IF inner.how # "on" THEN over
           ELSE IF u = Error THEN [over EXCEPT !.how = "error"]
           ELSE IF IsFalse(u) THEN Loop(over, s) ELSE over

Meaning(g, s) ==
  LET Value(x)  == Eval(x, g.scope, g.env)
      Error1(h) == [h EXCEPT !.how = "error"]
      vals(n, list) == [k \in 1..n |-> IF k <= Len(list) THEN Value(list[k]) ELSE Nil]
      bad(list) == \E k \in DOMAIN list : Value(list[k]) = Error
      targets   == [k \in DOMAIN s[2] |-> TargetOf(s[2][k], g)]
      wrong     == \E k \in DOMAIN targets : targets[k][1] = "member" /\ Error \in {targets[k][2], targets[k][3]}
      hits      == SelectInSeq(s[2], LAMBDA c : LET v == Value(c[1]) IN ~IsFalse(v))
      from      == Value(s[3])
      to        == Value(s[4])
      by        == Value(s[5])
      turns     == IF by[2] > 0 THEN (to[2] - from[2]) \div by[2] + 1 ELSE (from[2] - to[2]) \div (-by[2]) + 1
      Turn(h, k) == IF h.how # "on" THEN h
                    ELSE Closed(Meanings([h EXCEPT !.scope = Append(@, <<s[2], Num(from[2] + (k - 1) * by[2])>>)],
                                         s[6]), g)
      for       == FoldLeft(Turn, g, [k \in 1..(IF turns > 0 THEN turns ELSE 0) |-> k])
  IN  CASE s[1] = "local"  ->
             IF bad(s[3]) THEN Error1(g)
             ELSE [g EXCEPT !.scope = @ \o [k \in DOMAIN s[2] |-> <<s[2][k], vals(Len(s[2]), s[3])[k]>>]]
        [] s[1] = "assign" ->
             IF bad(s[3]) \/ wrong THEN Error1(g)
             ELSE FoldLeft(LAMBDA h, k : Assigned(h, targets[k], vals(Len(s[2]), s[3])[k]), g,
                           Reverse([k \in DOMAIN s[2] |-> k]))
        [] s[1] = "if"     ->
             IF hits # 0 /\ Value(s[2][hits][1]) = Error THEN Error1(g)
             ELSE Closed(Meanings(g, IF hits = 0 THEN s[3] ELSE s[2][hits][2]), g)
        [] s[1] \in {"while", "repeat"} -> Loop(g, s)
        [] s[1] = "for"    ->
             IF {from[1], to[1], by[1]} # {"num"} THEN Error1(g)
             ELSE [for EXCEPT !.how = IF @ = "break" THEN "on" ELSE @]
        [] s[1] = "do"     -> Closed(Meanings(g, s[2]), g)
        [] s[1] = "break"  -> [g EXCEPT !.how = "break"]

-----------------------------------------------------------------------------
(* Properties *)

\* Compiled and executed a program does what it means: it leaves the same variables and the
\* same table, or both end in an error (lcode.c, lparser.c and luaV_execute together).
MeansWhatItSays(job, out) ==
  LET g == Meanings([scope |-> <<<<"a", job.start.a>>, <<"b", job.start.b>>>>,
                     env |-> job.start.env, how |-> "on"], job.program)
      m == out.end
  IN  IF g.how = "error" THEN m.stop = "error"
      ELSE m.stop = "return" /\ m.env = g.env
           /\ m.regs[0] = g.scope[1][2] /\ m.regs[1] = g.scope[2][2]

\* Registers are freed in the order that freereg asserts, blocks begin with none in use but
\* the variables' (enterblock's assertion), and the frame has every register that an
\* instruction sets.
Setters == {"MOVE", "LOADK", "LOADBOOL", "LOADNIL", "NOT", "UNM", "CONCAT", "GETTABLE", "GETTABUP",
            "TESTSET", "FORPREP", "FORLOOP"} \cup ArithOps
RegistersInFrame(out) ==
  /\ ~out.fs.bad
  /\ \A n \in DOMAIN out.fs.code :
       out.fs.code[n].op \in Setters =>
         LET i    == out.fs.code[n]
             last == i.a + CASE i.op = "LOADNIL" -> i.b [] i.op = "FORLOOP" -> 3 [] OTHER -> 0
         IN  i.a >= 0 /\ last < out.fs.maxstacksize

\* No jump is left on a list: each goes to an instruction, and behind each test there is one.
JumpsLand(out) ==
  /\ out.fs.breaks = <<>>
  /\ \A n \in DOMAIN out.fs.code :
       LET i == out.fs.code[n] IN
       /\ i.op \in {"JMP", "FORPREP", "FORLOOP"} => i.to \in DOMAIN out.fs.code
       /\ i.op \in Tests => out.fs.code[n + 1].op = "JMP"

\* What a program is compiled to does what the program means, within the registers it
\* asks for and with every jump patched (lcode.c, lparser.c).
ProgramsMean ==
  \A job \in {call'} : \A out \in {Returned(job)} :
    /\ MeansWhatItSays(job, out)
    /\ RegistersInFrame(out)
    /\ JumpsLand(out)
CodeMeansProgram == [][ProgramsMean]_call

=============================================================================
