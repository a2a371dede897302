------------------------------ MODULE LuaCode -------------------------------
(* The code generator of the Lua distribution (lua/src/lcode.c): what each  *)
(* luaK function does to the function state s and to the expression e it is *)
(* handed.  Jump lists, chained in the code through the jumps themselves,   *)
(* are sets of places; a jump holds its target in b, 0 while it has none.   *)
(* Places count from 1 and the next one is Here(s).  s.ok is the            *)
(* conjunction of the assertions met on the way.                            *)
EXTENDS Integers, Sequences, SequencesExt, TLC

CONSTANTS MaxIndexRK,     \* the largest constant an RK operand can name
          FieldsPerFlush  \* the list items one SETLIST stores

NoReg == 255
RKasK(i) == i + 256
IsK(r) == r >= 256
MultRet == -1

I(op, a, b, c) == [op |-> op, a |-> a, b |-> b, c |-> c]
TestModes == {"EQ", "LT", "LE", "TEST", "TESTSET", "TFORLOOP"}

\* init_exp; a function of this module answers a pair P of state and expression.
Exp(k, info) == [k |-> k, info |-> info, aux |-> 0, nval |-> 0, t |-> {}, f |-> {}]
Void == Exp("VVOID", 0)
P(s, e) == [s |-> s, e |-> e]
After(p, next(_, _)) == next(p.s, p.e)

HasJumps(e) == e.t # e.f
IsNumeral(e) == e.k = "VKNUM" /\ e.t = {} /\ e.f = {}
HasMultRet(e) == e.k \in {"VCALL", "VVARARG"}

Here(s) == Len(s.code) + 1
Check(s, cond) == [s EXCEPT !.ok = @ /\ cond]
-----------------------------------------------------------------------------
(* Jumps.                                                                   *)

\* getjumpcontrol: the test in front of a jump, else the jump itself.
Control(code, j) == IF j > 1 /\ code[j - 1].op \in TestModes THEN j - 1 ELSE j

IsTestSet(code, j) == code[Control(code, j)].op = "TESTSET"

\* need_value: some jump of the list does not produce a value.
NeedValue(s, list) == \E j \in list : ~IsTestSet(s.code, j)

\* patchtestreg: TESTSET gets its register, or becomes TEST when the value is
\* not wanted or is already there.
PatchTestReg(code, list, reg) ==
  [i \in DOMAIN code |->
     IF code[i].op # "TESTSET" \/ ~\E j \in list : Control(code, j) = i THEN code[i]
     ELSE IF reg # NoReg /\ reg # code[i].b THEN [code[i] EXCEPT !.a = reg]
     ELSE I("TEST", code[i].b, 0, code[i].c)]

RemoveValues(s, list) == [s EXCEPT !.code = PatchTestReg(@, list, NoReg)]

\* patchlistaux: the jumps that produce a value go to vtarget, the others to
\* dtarget.
Aim(code, old, list, vtarget, dtarget) ==
  [i \in DOMAIN code |-> IF i \in list THEN [code[i] EXCEPT !.b = IF IsTestSet(old, i) THEN vtarget ELSE dtarget]
                         ELSE code[i]]
PatchListAux(s, list, vtarget, reg, dtarget) ==
  [s EXCEPT !.code = Aim(PatchTestReg(@, list, reg), @, list, vtarget, dtarget),
            !.ok = @ /\ (dtarget # 0 \/ ~NeedValue(s, list))]

\* luaK_getlabel, luaK_patchtohere, luaK_patchlist
GetLabel(s) == [s EXCEPT !.lasttarget = Here(s)]
PatchToHere(s, list) == [GetLabel(s) EXCEPT !.jpc = @ \cup list]
PatchList(s, list, target) ==
  IF target = Here(s) THEN PatchToHere(s, list) ELSE PatchListAux(Check(s, target < Here(s)), list, target, NoReg, target)

\* luaK_code, with dischargejpc: the pending jumps come to the new instruction.
Code(s, i) ==
  [PatchListAux(s, s.jpc, Here(s), NoReg, Here(s)) EXCEPT !.jpc = {}, !.code = Append(@, i)]

\* luaK_jump: jumps to here are kept on hold, in the list of the new one.
Jump(s) == [s |-> Code([s EXCEPT !.jpc = {}], I("JMP", 0, 0, 0)), list |-> {Here(s)} \cup s.jpc]
CondJump(s, i) == Jump(Code(s, i))
-----------------------------------------------------------------------------
(* Registers and constants.                                                 *)

\* Mutant of CheckStack: one register too few.
MutCheckStack(s, n) == [s EXCEPT !.maxstack = IF s.freereg + n - 1 > @ THEN s.freereg + n - 1 ELSE @]

\* luaK_checkstack, luaK_reserveregs, freereg, freeexp
CheckStack(s, n) == [s EXCEPT !.maxstack = IF s.freereg + n > @ THEN s.freereg + n ELSE @]
ReserveRegs(s, n) == [CheckStack(s, n) EXCEPT !.freereg = @ + n]
FreeReg(s, reg) ==
  IF IsK(reg) \/ reg < s.nactvar THEN s
  ELSE Check([s EXCEPT !.freereg = @ - 1], reg = s.freereg - 1)
FreeExp(s, e) == IF e.k = "VNONRELOC" THEN FreeReg(s, e.info) ELSE s

\* addk: the index of a constant, which is entered once.
AddK(s, v) == [s EXCEPT !.k = IF v \in Range(@) THEN @ ELSE Append(@, v)]
IndexK(s, v) == (CHOOSE i \in DOMAIN s.k : s.k[i] = v) - 1

Nil == <<"nil", 0>>
Bool(b) == <<"bool", b>>
Num(n) == <<"num", n>>

\* luaK_nil: nothing at the start of a function, whose registers are clean;
\* one LOADNIL with the instruction before, unless a jump comes in between.
LoadNil(s, from, n) ==
  LET prev == Last(s.code)
      free == Here(s) > s.lasttarget
  IN  IF free /\ s.code = <<>> /\ from >= s.nactvar THEN s
      ELSE IF free /\ s.code # <<>> /\ prev.op = "LOADNIL" /\ prev.a <= from /\ from <= prev.b + 1
           THEN [s EXCEPT !.code[Len(s.code)].b = IF from + n - 1 > @ THEN from + n - 1 ELSE @]
      ELSE Code(s, I("LOADNIL", from, from + n - 1, 0))
-----------------------------------------------------------------------------
(* Expressions into registers.                                              *)

\* luaK_setreturns, luaK_setoneret: how many results an open call leaves.
SetReturns(s, e, n) ==
  IF e.k = "VCALL" THEN [s EXCEPT !.code[e.info].c = n + 1]
  ELSE IF e.k = "VVARARG"
       THEN ReserveRegs([s EXCEPT !.code[e.info] = [@ EXCEPT !.b = n + 1, !.a = s.freereg]], 1)
  ELSE s
SetOneRet(s, e) ==
  IF e.k = "VCALL" THEN P(s, [e EXCEPT !.k = "VNONRELOC", !.info = s.code[e.info].a])
  ELSE IF e.k = "VVARARG" THEN P([s EXCEPT !.code[e.info].b = 2], [e EXCEPT !.k = "VRELOCABLE"])
  ELSE P(s, e)

\* luaK_dischargevars: a variable or call becomes a value.
FetchOf(e) ==
  CASE e.k = "VUPVAL"   -> I("GETUPVAL", 0, e.info, 0)
    [] e.k = "VGLOBAL"  -> I("GETGLOBAL", 0, e.info, 0)
    [] e.k = "VINDEXED" -> I("GETTABLE", 0, e.info, e.aux)
Fetch(s, e) == P(Code(s, FetchOf(e)), [e EXCEPT !.k = "VRELOCABLE", !.info = Here(s)])
DischargeVars(s, e) ==
  IF e.k = "VLOCAL" THEN P(s, [e EXCEPT !.k = "VNONRELOC"])
  ELSE IF e.k \in {"VUPVAL", "VGLOBAL", "VINDEXED"}
       THEN Fetch(IF e.k = "VINDEXED" THEN FreeReg(FreeReg(s, e.aux), e.info) ELSE s, e)
  ELSE SetOneRet(s, e)

\* discharge2reg: a value that is not a jump goes to the register.
LoadOf(s, v, reg) ==
  CASE v.k \in {"VTRUE", "VFALSE"} -> I("LOADBOOL", reg, IF v.k = "VTRUE" THEN 1 ELSE 0, 0)
    [] v.k = "VK" -> I("LOADK", reg, v.info, 0)
    [] v.k = "VKNUM" -> I("LOADK", reg, IndexK(s, Num(v.nval)), 0)
    [] v.k = "VNONRELOC" -> I("MOVE", reg, v.info, 0)
LoadTo(s, v, reg) == Code(s, LoadOf(s, v, reg))
ValueTo(s, v, reg) ==
  CASE v.k = "VNIL" -> LoadNil(s, reg, 1)
    [] v.k = "VRELOCABLE" -> [s EXCEPT !.code[v.info].a = reg]
    [] v.k = "VNONRELOC" /\ reg = v.info -> s
    [] v.k \in {"VVOID", "VJMP"} -> s
    [] OTHER -> LoadTo(IF v.k = "VKNUM" THEN AddK(s, Num(v.nval)) ELSE s, v, reg)
Discharge2Reg(s, e, reg) ==
  After(DischargeVars(s, e), LAMBDA t, v :
    P(ValueTo(t, v, reg), IF v.k \in {"VVOID", "VJMP"} THEN v ELSE [v EXCEPT !.k = "VNONRELOC", !.info = reg]))

DischargeToLast(s, e) == Discharge2Reg(s, e, s.freereg - 1)
Discharge2AnyReg(s, e) == IF e.k = "VNONRELOC" THEN P(s, e) ELSE DischargeToLast(ReserveRegs(s, 1), e)

\* exp2reg: the value in the register, and the jumps out of the expression
\* patched: those that carry no value meet a LOADBOOL on the way.
LoadBools(s, reg) ==
  Code(GetLabel(Code(GetLabel(s), I("LOADBOOL", reg, 0, 1))), I("LOADBOOL", reg, 1, 0))
JumpsTo(s, e, reg, pf, pt) ==
  PatchListAux(PatchListAux(s, e.f, Here(s), reg, pf), e.t, Here(s), reg, pt)
ToBools(s, e, reg) == JumpsTo(GetLabel(s), e, reg, Len(s.code) - 1, Len(s.code))
JumpOver(s, jmp) == IF jmp THEN [s |-> s, list |-> {}] ELSE Jump(s)
PastBools(over, reg) == PatchToHere(LoadBools(over.s, reg), over.list)
AllJumps(s, e, jmp, reg) ==
  IF ~HasJumps(e) THEN s
  ELSE IF NeedValue(s, e.t) \/ NeedValue(s, e.f) THEN ToBools(PastBools(JumpOver(s, jmp), reg), e, reg)
  ELSE JumpsTo(GetLabel(s), e, reg, 0, 0)
Exp2Reg(s, e, reg) ==
  After(Discharge2Reg(s, e, reg), LAMBDA t, d :
    P(AllJumps(t, IF d.k = "VJMP" THEN [d EXCEPT !.t = @ \cup {d.info}] ELSE d, d.k = "VJMP", reg),
      Exp("VNONRELOC", reg)))

\* luaK_exp2nextreg, luaK_exp2anyreg, luaK_exp2val
ToLast(s, e) == Exp2Reg(s, e, s.freereg - 1)
ToNextReg(s, e) == ToLast(ReserveRegs(FreeExp(s, e), 1), e)
Exp2NextReg(s, e) == After(DischargeVars(s, e), ToNextReg)
Own(s, e) == e.k = "VNONRELOC" /\ e.info >= s.nactvar
InReg(s, e, own) == Exp2Reg(s, e, IF own THEN e.info ELSE s.freereg - 1)
Exp2AnyReg(s, e) ==
  After(DischargeVars(s, e), LAMBDA t, d :
    IF d.k = "VNONRELOC" /\ ~HasJumps(d) THEN P(t, d)
    ELSE InReg(IF Own(t, d) THEN t ELSE ReserveRegs(FreeExp(t, d), 1), d, Own(t, d)))
Exp2Val(s, e) == IF HasJumps(e) THEN Exp2AnyReg(s, e) ELSE DischargeVars(s, e)

\* luaK_exp2RK: a register or a constant an operand can name; e.info is the
\* operand, as a constant when e.k is VK.
ConstantOf(e) == CASE e.k = "VNIL" -> Nil [] e.k = "VKNUM" -> Num(e.nval) [] OTHER -> Bool(e.k = "VTRUE")
AsK(s, e, v) == P(s, [e EXCEPT !.k = "VK", !.info = IndexK(s, v)])
Exp2RK(s, e) ==
  After(Exp2Val(s, e), LAMBDA t, d :
    IF d.k \in {"VKNUM", "VTRUE", "VFALSE", "VNIL"} /\ Len(t.k) <= MaxIndexRK
    THEN AsK(AddK(t, ConstantOf(d)), d, ConstantOf(d))
    ELSE IF d.k = "VK" /\ d.info <= MaxIndexRK THEN P(t, d)
    ELSE Exp2AnyReg(t, d))
RK(e) == IF e.k = "VK" THEN RKasK(e.info) ELSE e.info

\* luaK_storevar
StoreVar(s, var, ex) ==
  CASE var.k = "VLOCAL" -> Exp2Reg(FreeExp(s, ex), ex, var.info).s
    [] var.k \in {"VUPVAL", "VGLOBAL"} ->
         After(Exp2AnyReg(s, ex), LAMBDA t, e :
           FreeExp(Code(t, I(IF var.k = "VUPVAL" THEN "SETUPVAL" ELSE "SETGLOBAL", e.info, var.info, 0)), e))
    [] var.k = "VINDEXED" ->
         After(Exp2RK(s, ex), LAMBDA t, e : FreeExp(Code(t, I("SETTABLE", var.info, var.aux, RK(e))), e))
    [] OTHER -> Check(s, FALSE)

\* luaK_self, luaK_indexed
SelfCode(s, func, object, key) ==
  After(Exp2RK(s, key), LAMBDA t, k : FreeExp(Code(t, I("SELF", func, object, RK(k))), k))
Self(s, e, key) ==
  After(Exp2AnyReg(s, e), LAMBDA t, o :
    LET r == FreeExp(t, o)
    IN  P(SelfCode(ReserveRegs(r, 2), r.freereg, o.info, key), [o EXCEPT !.k = "VNONRELOC", !.info = r.freereg]))
Indexed(s, t, key) ==
  After(Exp2RK(s, key), LAMBDA u, k : P(u, [t EXCEPT !.k = "VINDEXED", !.aux = RK(k)]))
-----------------------------------------------------------------------------
(* Conditions.                                                              *)

InvertJump(s, j) ==
  LET c == Control(s.code, j)
  IN  Check([s EXCEPT !.code[c].a = 1 - @], s.code[c].op \in {"EQ", "LT", "LE"})

\* jumponcond: a `not' before it is undone; the jump is taken on cond.
JumpOnCond(s, e, cond) ==
  IF e.k = "VRELOCABLE" /\ s.code[e.info].op = "NOT"
  THEN CondJump([s EXCEPT !.code = Front(@)], I("TEST", s.code[e.info].b, 0, 1 - cond))
  ELSE After(Discharge2AnyReg(s, e), LAMBDA t, d : CondJump(FreeExp(t, d), I("TESTSET", NoReg, d.info, cond)))

\* luaK_goiftrue: on when true, out through the list f when false.
GoesTrue(e, j) == P(PatchToHere(j.s, e.t), [e EXCEPT !.f = @ \cup j.list, !.t = {}])
GoIfTrue(s, e) ==
  After(DischargeVars(s, e), LAMBDA t, d :
    GoesTrue(d, CASE d.k \in {"VK", "VKNUM", "VTRUE"} -> [s |-> t, list |-> {}]
                  [] d.k = "VFALSE" -> Jump(t)
                  [] d.k = "VJMP"   -> [s |-> InvertJump(t, d.info), list |-> {d.info}]
                  [] OTHER          -> JumpOnCond(t, d, 0)))

\* luaK_goiffalse: on when false, out through the list t when true.
GoesFalse(e, j) == P(PatchToHere(j.s, e.f), [e EXCEPT !.t = @ \cup j.list, !.f = {}])
GoIfFalse(s, e) ==
  After(DischargeVars(s, e), LAMBDA t, d :
    GoesFalse(d, CASE d.k \in {"VNIL", "VFALSE"} -> [s |-> t, list |-> {}]
                   [] d.k = "VTRUE" -> Jump(t)
                   [] d.k = "VJMP"  -> [s |-> t, list |-> {d.info}]
                   [] OTHER         -> JumpOnCond(t, d, 1)))

\* codenot: the lists change places and lose their values.
NotOf(s, e) == P(Code(FreeExp(s, e), I("NOT", 0, e.info, 0)), [e EXCEPT !.k = "VRELOCABLE", !.info = Here(s)])
Swapped(s, e) == P(RemoveValues(RemoveValues(s, e.f), e.t), [e EXCEPT !.t = e.f, !.f = e.t])
CodeNot(s, e) ==
  After(DischargeVars(s, e), LAMBDA t, d :
    After(CASE d.k \in {"VNIL", "VFALSE"} -> P(t, [d EXCEPT !.k = "VTRUE"])
            [] d.k \in {"VK", "VKNUM", "VTRUE"} -> P(t, [d EXCEPT !.k = "VFALSE"])
            [] d.k = "VJMP" -> P(InvertJump(t, d.info), d)
            [] OTHER -> After(Discharge2AnyReg(t, d), NotOf),
          Swapped))
-----------------------------------------------------------------------------
(* Operators.                                                               *)

Power(b, n) == LET p[i \in 0 .. n] == IF i = 0 THEN 1 ELSE b * p[i - 1] IN p[n]

\* luai_numadd, ...: whole numbers only, and never a division by zero.
Arith(op, x, y) ==
  CASE op = "ADD" -> x + y [] op = "SUB" -> x - y [] op = "MUL" -> x * y
    [] op = "POW" -> Power(x, y) [] op = "MOD" -> x % y [] op = "UNM" -> -x

\* constfolding, codearith: the second operand is settled first.
Foldable(op, e1, e2) == IsNumeral(e1) /\ IsNumeral(e2) /\ op # "LEN" /\ op # "CONCAT"
                        /\ ~(op = "MOD" /\ e2.nval = 0)
FreeBoth(s, e1, e2) == IF RK(e1) > RK(e2) THEN FreeExp(FreeExp(s, e1), e2) ELSE FreeExp(FreeExp(s, e2), e1)
ArithCode(s, op, e1, e2) ==
  P(Code(FreeBoth(s, e1, e2), I(op, 0, RK(e1), RK(e2))), [e1 EXCEPT !.k = "VRELOCABLE", !.info = Here(s)])
CodeArith(s, op, e1, e2) ==
  IF Foldable(op, e1, e2) THEN P(s, [e1 EXCEPT !.nval = Arith(op, e1.nval, e2.nval)])
  ELSE After(IF op \in {"UNM", "LEN"} THEN P(s, Void) ELSE Exp2RK(s, e2), LAMBDA t, k2 :
         After(Exp2RK(t, e1), LAMBDA u, k1 : ArithCode(u, op, k1, k2)))

\* codecomp: `>' and `>=' exchange the operands, `~=' the condition.
Compared(j, e1) == P(j.s, [e1 EXCEPT !.k = "VJMP", !.info = Len(j.s.code)])
CodeComp(s, op, cond, e1, e2) ==
  After(Exp2RK(s, e1), LAMBDA t, k1 :
    After(Exp2RK(t, e2), LAMBDA u, k2 :
      Compared(CondJump(FreeExp(FreeExp(u, k2), k1),
                        IF cond = 0 /\ op # "EQ" THEN I(op, 1, RK(k2), RK(k1)) ELSE I(op, cond, RK(k1), RK(k2))),
               k1)))

\* luaK_prefix
Prefix(s, op, e) ==
  IF op = "not" THEN CodeNot(s, e)
  ELSE After(IF op = "-" /\ IsNumeral(e) THEN P(s, e) ELSE Exp2AnyReg(s, e), LAMBDA t, d :
         CodeArith(t, IF op = "-" THEN "UNM" ELSE "LEN", d, Exp("VKNUM", 0)))

ArithOps == "+" :> "ADD" @@ "-" :> "SUB" @@ "*" :> "MUL" @@ "%" :> "MOD" @@ "^" :> "POW"

\* luaK_infix: the left operand, before the right one is read.
Infix(s, op, v) ==
  IF op = "and" THEN GoIfTrue(s, v)
  ELSE IF op = "or" THEN GoIfFalse(s, v)
  ELSE IF op = ".." THEN Exp2NextReg(s, v)
  ELSE IF op \in DOMAIN ArithOps /\ IsNumeral(v) THEN P(s, v)
  ELSE Exp2RK(s, v)

\* luaK_posfix
Comparisons == "==" :> <<"EQ", 1>> @@ "~=" :> <<"EQ", 0>> @@ "<" :> <<"LT", 1>> @@ "<=" :> <<"LE", 1>>
               @@ ">" :> <<"LT", 0>> @@ ">=" :> <<"LE", 0>>
Joined(s, e1, e2) ==
  IF e2.k = "VRELOCABLE" /\ s.code[e2.info].op = "CONCAT"
  THEN P([FreeExp(Check(s, e1.info = s.code[e2.info].b - 1), e1) EXCEPT !.code[e2.info].b = e1.info],
         [e1 EXCEPT !.k = "VRELOCABLE", !.info = e2.info])
  ELSE After(Exp2NextReg(s, e2), LAMBDA t, n : CodeArith(t, "CONCAT", e1, n))
Posfix(s, op, e1, e2) ==
  CASE op = "and" -> After(DischargeVars(Check(s, e1.t = {}), e2), LAMBDA t, d : P(t, [d EXCEPT !.f = @ \cup e1.f]))
    [] op = "or"  -> After(DischargeVars(Check(s, e1.f = {}), e2), LAMBDA t, d : P(t, [d EXCEPT !.t = @ \cup e1.t]))
    [] op = ".."  -> After(Exp2Val(s, e2), LAMBDA t, v : Joined(t, e1, v))
    [] op \in DOMAIN Comparisons -> CodeComp(s, Comparisons[op][1], Comparisons[op][2], e1, e2)
    [] op \in DOMAIN ArithOps    -> CodeArith(s, ArithOps[op], e1, e2)

\* luaK_setlist: store the pending items, the c-th batch.
SetList(s, base, nelems, tostore) ==
  LET b == IF tostore = MultRet THEN 0 ELSE tostore
      c == (nelems - 1) \div FieldsPerFlush + 1
  IN  [Code(s, I("SETLIST", base, b, c)) EXCEPT !.freereg = base + 1]

Ret(s, first, nret) == Code(s, I("RETURN", first, nret + 1, 0))
=============================================================================
