----------------------------- MODULE LuaParser ------------------------------
(* The parser of the Lua distribution (lua/src/lparser.c), which generates  *)
(* code as it reads.  ls is the LexState: the tokens, <<kind, what>>, the   *)
(* place in them, and the function states from the outermost to the one     *)
(* being read; ls.ok says that every token was the one expected.            *)
EXTENDS LuaCode

\* open_func
OpenFunc(ls) ==
  [ls EXCEPT !.fs = Append(@,
     [code |-> <<>>, k |-> <<>>, p |-> <<>>, jpc |-> {}, lasttarget |-> 0, freereg |-> 0,
      nactvar |-> 0, actvar |-> <<>>, bl |-> <<>>, upvalues |-> <<>>, maxstack |-> 2,
      numparams |-> 0, isvararg |-> FALSE, hasarg |-> FALSE, needsarg |-> FALSE, ok |-> TRUE])]

FS(ls) == Last(ls.fs)
With(ls, s) == [ls EXCEPT !.fs[Len(ls.fs)] = s]
L(ls, e) == [ls |-> ls, e |-> e]
Gen(ls, p) == L(With(ls, p.s), p.e)     \* what a function of LuaCode answers
OnJump(j, next(_, _)) == next(j.s, j.list)
On(x, next(_, _)) == next(x.ls, x.e)
OnFS(ls, next(_)) == next(FS(ls))

Tok(ls) == ls.toks[ls.i][1]
Skip(ls) == [ls EXCEPT !.i = @ + 1]
CheckNext(ls, kind) == [Skip(ls) EXCEPT !.ok = @ /\ Tok(ls) = kind]
Name(ls) == ls.toks[ls.i][2]

BlockFollow == {"else", "elseif", "end", "until", "eos"}
-----------------------------------------------------------------------------
(* Variables and blocks.                                                    *)

\* new_localvar, adjustlocalvars
NewLocalVar(s, name, n) == [s EXCEPT !.actvar = Append(SubSeq(@, 1, s.nactvar + n), name)]
NewLocalVars(s, names) == FoldLeft(LAMBDA t, i : NewLocalVar(t, names[i], i - 1), s, [i \in DOMAIN names |-> i])
AdjustLocalVars(s, n) == [s EXCEPT !.nactvar = @ + n]

\* searchvar: the last one of that name, or -1.
SearchVar(s, name) ==
  LET at == {i \in 1 .. s.nactvar : s.actvar[i] = name}
  IN  IF at = {} THEN -1 ELSE (CHOOSE i \in at : \A j \in at : j <= i) - 1

\* Mutant of MarkUpval: the innermost block is marked, whose variable it may not be.
MutMarkUpval(s, level) == IF s.bl = <<>> THEN s ELSE [s EXCEPT !.bl[Len(s.bl)].upval = TRUE]

\* markupval: the block that declares the variable will close it.
MarkUpval(s, level) ==
  LET at == {i \in DOMAIN s.bl : s.bl[i].nactvar <= level}
  IN  IF at = {} THEN s ELSE [s EXCEPT !.bl[CHOOSE i \in at : \A j \in at : j <= i].upval = TRUE]

\* indexupvalue: the upvalue with this source, or a new one.
WithUpvalue(s, u) == [s EXCEPT !.upvalues = IF u \in Range(@) THEN @ ELSE Append(@, u)]
IndexUpvalue(s, u) == (CHOOSE i \in DOMAIN s.upvalues : s.upvalues[i] = u) - 1

\* singlevaraux: in the d-th function from outside; base when that is the one
\* the name stands in.
RECURSIVE SingleVarAux(_, _, _, _)
SingleVarAux(ls, name, d, base) ==
  IF d = 0 THEN L(ls, Exp("VGLOBAL", NoReg))
  ELSE LET v == SearchVar(ls.fs[d], name)
           o == SingleVarAux(ls, name, d - 1, FALSE)
           u == [k |-> o.e.k, info |-> o.e.info]
           w == WithUpvalue(o.ls.fs[d], u)
       IN  IF v >= 0
           THEN L(IF base THEN ls ELSE [ls EXCEPT !.fs[d] = MarkUpval(@, v)], Exp("VLOCAL", v))
           ELSE IF o.e.k = "VGLOBAL" THEN o
           ELSE L([o.ls EXCEPT !.fs[d] = w], Exp("VUPVAL", IndexUpvalue(w, u)))

\* singlevar; codestring
IndexedK(ls, s, v) == L(With(ls, s), Exp("VK", IndexK(s, v)))
CodeString(ls, str) == IndexedK(ls, AddK(FS(ls), <<"str", str>>), <<"str", str>>)
SingleVar(ls) ==
  On(SingleVarAux(ls, Name(ls), Len(ls.fs), TRUE), LAMBDA x, v :
    IF v.k # "VGLOBAL" THEN L(Skip(x), v)
    ELSE On(CodeString(x, Name(ls)), LAMBDA y, c : L(Skip(y), Exp("VGLOBAL", c.info))))

\* adjust_assign: nexps values, the last one e, for nvars variables.
FillNil(s, n) == IF n > 0 THEN LoadNil(ReserveRegs(s, n), s.freereg, n) ELSE s
AdjustAssign(s, nvars, nexps, e) ==
  LET more == nvars - nexps
      calls == IF more + 1 < 0 THEN 0 ELSE more + 1
  IN  IF HasMultRet(e) THEN ReserveRegs(SetReturns(s, e, calls), IF calls > 1 THEN calls - 1 ELSE 0)
      ELSE FillNil(IF e.k = "VVOID" THEN s ELSE Exp2NextReg(s, e).s, more)

\* enterblock, leaveblock
EnterBlock(s, breakable) ==
  Check([s EXCEPT !.bl = Append(@, [breaklist |-> {}, isbreakable |-> breakable,
                                     nactvar |-> s.nactvar, upval |-> FALSE])],
         s.freereg = s.nactvar)
Leave(s, b) ==
  PatchToHere([Check(IF b.upval THEN Code(s, I("CLOSE", b.nactvar, 0, 0)) ELSE s, ~b.isbreakable \/ ~b.upval)
                 EXCEPT !.freereg = b.nactvar], b.breaklist)
LeaveBlock(s) ==
  LET b == Last(s.bl)
  IN  Leave([s EXCEPT !.bl = Front(@), !.nactvar = b.nactvar, !.actvar = SubSeq(@, 1, b.nactvar)], b)

\* close_func and pushclosure: the prototype goes to the function around it.
Proto(s) ==
  [code |-> s.code, k |-> s.k, p |-> s.p, maxstack |-> s.maxstack, numparams |-> s.numparams,
   isvararg |-> s.isvararg, hasarg |-> s.hasarg, needsarg |-> s.needsarg,
   nups |-> Len(s.upvalues), ok |-> s.ok /\ \A i \in DOMAIN s.p : s.p[i].ok]
CloseFunc(s) == Proto(Ret([Check(s, s.bl = <<>>) EXCEPT !.nactvar = 0], 0, 0))
Pushed(s, f) ==
  P(FoldLeft(LAMBDA t, u : Code(t, I(IF u.k = "VLOCAL" THEN "MOVE" ELSE "GETUPVAL", 0, u.info, 0)), s, f.upvalues),
    Exp("VRELOCABLE", Len(s.code)))
PushClosure(s, f) ==
  Pushed(Code([s EXCEPT !.p = Append(@, CloseFunc(f))], I("CLOSURE", 0, Len(s.p), 0)), f)
-----------------------------------------------------------------------------
(* Expressions.                                                             *)

BinOps == {"+", "-", "*", "%", "^", "..", "==", "~=", "<", "<=", ">", ">=", "and", "or"}
UnOps == {"not", "-", "#"}

\* priority[], UNARY_PRIORITY
Left(op)  == CASE op = "or" -> 1 [] op = "and" -> 2 [] op \in {"==", "~=", "<", "<=", ">", ">="} -> 3
               [] op = ".." -> 5 [] op \in {"+", "-"} -> 6 [] op \in {"*", "%"} -> 7 [] op = "^" -> 10

Right(op) == IF op \in {"..", "^"} THEN Left(op) - 1 ELSE Left(op)
UnaryPriority == 8

\* The parser calls itself for a subexpression, to its limit, and for a chunk.
RECURSIVE Read(_, _, _)
SubExpr(ls, limit) == Read("subexpr", ls, limit)
Chunk(ls) == Read("chunk", ls, 0)

Expr(ls) == SubExpr(ls, 0)

\* explist1: n expressions, the last one still open in e.
NextExp(x) == Expr(Skip(Gen(x.ls, Exp2NextReg(FS(x.ls), x.e)).ls))
ExpList(ls) ==
  LET RECURSIVE more(_, _)
      more(x, n) == IF Tok(x.ls) # "," THEN [ls |-> x.ls, e |-> x.e, n |-> n] ELSE more(NextExp(x), n + 1)
  IN  more(Expr(ls), 1)

\* parlist, body: the function is read into a state of its own.
Parameter(ls, n) == With(ls, NewLocalVar(FS(ls), Name(ls), n))
Dots(ls, n) ==
  CheckNext(With(ls, [NewLocalVar(FS(ls), "arg", n) EXCEPT !.isvararg = TRUE, !.hasarg = TRUE, !.needsarg = TRUE]), "...")
Numbered(s) == ReserveRegs([s EXCEPT !.numparams = s.nactvar - IF s.hasarg THEN 1 ELSE 0], s.nactvar)
ParList(ls) ==
  LET RECURSIVE more(_, _)
      more(x, n) ==
        IF Tok(x) # "name" THEN [ls |-> Dots(x, n), e |-> n + 1]
        ELSE IF Tok(Skip(x)) = "," THEN more(Skip(Skip(Parameter(x, n))), n + 1)
        ELSE [ls |-> Skip(Parameter(x, n)), e |-> n + 1]
  IN  On(IF Tok(ls) = ")" THEN [ls |-> ls, e |-> 0] ELSE more(ls, 0), LAMBDA x, n :
        With(x, Numbered(AdjustLocalVars(FS(x), n))))

WithSelf(ls) == With(ls, AdjustLocalVars(NewLocalVar(FS(ls), "self", 0), 1))
CloseInto(up, s) == Gen(up, PushClosure(FS(up), s))
BodyRead(ls) == CloseInto([ls EXCEPT !.fs = Front(@)], FS(ls))
Body(ls, needself) ==
  LET o == CheckNext(OpenFunc(ls), "(")
  IN  BodyRead(CheckNext(Chunk(CheckNext(ParList(IF needself THEN WithSelf(o) ELSE o), ")")), "end"))

\* field, yindex
KeyOf(ls) == CodeString(Skip(ls), Name(Skip(ls)))
Field(ls, v) ==
  After(Exp2AnyReg(FS(ls), v), LAMBDA s, t :
    On(KeyOf(With(ls, s)), LAMBDA x, k : Gen(Skip(x), Indexed(FS(x), t, k))))
YIndex(ls) ==
  On(Expr(Skip(ls)), LAMBDA x, e : On(Gen(x, Exp2Val(FS(x), e)), LAMBDA y, v : L(CheckNext(y, "]"), v)))

\* recfield, listfield, closelistfield, lastlistfield; cc is ConsControl.
Settable(s, t, k, v, reg) == [Code(s, I("SETTABLE", t, RK(k), RK(v))) EXCEPT !.freereg = reg]
RecField(ls, cc) ==
  On(IF Tok(ls) = "name" THEN CodeString(Skip(ls), Name(ls)) ELSE YIndex(ls), LAMBDA x, key :
    After(Exp2RK(FS(x), key), LAMBDA s, k :
      On(Expr(CheckNext(With(x, s), "=")), LAMBDA y, val :
        After(Exp2RK(FS(y), val), LAMBDA u, v :
          [cc EXCEPT !.ls = With(y, Settable(u, cc.t, k, v, FS(ls).freereg)), !.nh = @ + 1]))))
ListField(ls, cc) ==
  LET Item(x) == [cc EXCEPT !.ls = x.ls, !.v = x.e, !.na = @ + 1, !.tostore = @ + 1] IN Item(Expr(ls))

Flushed(cc, s) ==
  LET flush == cc.tostore = FieldsPerFlush
  IN  [cc EXCEPT !.ls = With(@, IF flush THEN SetList(s, cc.t, cc.na, cc.tostore) ELSE s),
                 !.v = Void, !.tostore = IF flush THEN 0 ELSE @]
CloseListField(cc) == IF cc.v.k = "VVOID" THEN cc ELSE Flushed(cc, Exp2NextReg(FS(cc.ls), cc.v).s)
LastListField(cc, s) ==
  IF cc.tostore = 0 THEN s
  ELSE IF HasMultRet(cc.v) THEN SetList(SetReturns(s, cc.v, MultRet), cc.t, cc.na, MultRet)
  ELSE SetList(IF cc.v.k = "VVOID" THEN s ELSE Exp2NextReg(s, cc.v).s, cc.t, cc.na, cc.tostore)

\* constructor
Item(cc) ==
  IF Tok(cc.ls) = "[" \/ (Tok(cc.ls) = "name" /\ Tok(Skip(cc.ls)) = "=") THEN RecField(cc.ls, cc) ELSE ListField(cc.ls, cc)
Begun(cc) == [cc EXCEPT !.ls = With(@, Check(FS(@), cc.v.k = "VVOID" \/ cc.tostore > 0))]
Items(first) ==
  LET RECURSIVE more(_), next(_)
      next(cc) == IF Tok(cc.ls) \in {",", ";"} THEN more([cc EXCEPT !.ls = Skip(@)]) ELSE cc
      more(cc) == IF Tok(cc.ls) = "}" THEN Begun(cc) ELSE next(Item(CloseListField(Begun(cc))))
  IN  more(first)
Constructed(cc) == L(CheckNext(With(cc.ls, LastListField(cc, FS(cc.ls))), "}"), Exp("VNONRELOC", cc.t))
NewTableCode(s) == Exp2NextReg(Code(s, I("NEWTABLE", 0, 0, 0)), Exp("VRELOCABLE", Here(s)))
Constructor(ls) ==
  On(Gen(ls, NewTableCode(FS(ls))), LAMBDA x, t :
    Constructed(Items([ls |-> CheckNext(x, "{"), v |-> Void, t |-> t.info, na |-> 0, nh |-> 0, tostore |-> 0])))

\* funcargs: a string or a table may stand for the parentheses.
OpenList(x) == L(With(x.ls, SetReturns(FS(x.ls), x.e, MultRet)), x.e)
StringArg(c) == L(CheckNext(c.ls, "str"), c.e)
Called(ls, s, f) == L(With(ls, [s EXCEPT !.freereg = f.info + 1]), Exp("VCALL", Len(s.code)))
CallCode(s, f, open) ==
  Code(Check(s, f.k = "VNONRELOC"), I("CALL", f.info, IF open THEN 0 ELSE s.freereg - f.info, 2))
CallDone(ls, s, args, f) ==
  Called(ls, CallCode(IF HasMultRet(args) \/ args.k = "VVOID" THEN s ELSE Exp2NextReg(s, args).s, f, HasMultRet(args)), f)
ArgsDone(ls, args, f) == CallDone(ls, FS(ls), args, f)
FuncArgs(ls, f) ==
  On(IF Tok(ls) = "(" /\ Tok(Skip(ls)) = ")" THEN L(Skip(ls), Void)
     ELSE IF Tok(ls) = "(" THEN OpenList(ExpList(Skip(ls)))
     ELSE IF Tok(ls) = "{" THEN Constructor(ls)
     ELSE StringArg(CodeString(ls, Name(ls))),
     LAMBDA x, args : ArgsDone(IF Tok(ls) = "(" THEN CheckNext(x, ")") ELSE x, args, f))

\* prefixexp, primaryexp
Closed(x) == Gen(CheckNext(x.ls, ")"), DischargeVars(FS(x.ls), x.e))
PrefixExp(ls) ==
  IF Tok(ls) = "(" THEN Closed(Expr(Skip(ls))) ELSE SingleVar([ls EXCEPT !.ok = @ /\ Tok(ls) = "name"])
Subscript(t, i) == Gen(i.ls, Indexed(FS(i.ls), t.e, i.e))
Element(ls, t) == Subscript(t, YIndex(With(ls, t.s)))
Method(ls, f, name) == After(Self(FS(ls), f, name), LAMBDA s, e : FuncArgs(With(Skip(ls), s), e))
Apply1(ls, f) == FuncArgs(With(ls, f.s), f.e)
Suffix(ls, v) ==
  CASE Tok(ls) = "." -> Field(ls, v)
    [] Tok(ls) = "[" -> Element(ls, Exp2AnyReg(FS(ls), v))
    [] Tok(ls) = ":" -> On(KeyOf(ls), LAMBDA x, name : Method(x, v, name))
    [] OTHER -> Apply1(ls, Exp2NextReg(FS(ls), v))
PrimaryExp(ls) ==
  LET RECURSIVE more(_)
      more(x) ==
        IF Tok(x.ls) \notin {".", "[", ":", "(", "str", "{"} THEN x
        ELSE more(On(x, Suffix))
  IN  more(PrefixExp(ls))

\* simpleexp
VarArgCode(s) == Code([s EXCEPT !.needsarg = FALSE, !.ok = @ /\ s.isvararg], I("VARARG", 0, 1, 0))
VarArgs(ls) == OnFS(With(ls, VarArgCode(FS(ls))), LAMBDA s : L(Skip(With(ls, s)), Exp("VVARARG", Len(s.code))))
SimpleExp(ls) ==
  CASE Tok(ls) = "num"   -> L(Skip(ls), [Exp("VKNUM", 0) EXCEPT !.nval = Name(ls)])
    [] Tok(ls) = "str"   -> On(CodeString(ls, Name(ls)), LAMBDA x, e : L(Skip(x), e))
    [] Tok(ls) = "nil"   -> L(Skip(ls), Exp("VNIL", 0))
    [] Tok(ls) = "true"  -> L(Skip(ls), Exp("VTRUE", 0))
    [] Tok(ls) = "false" -> L(Skip(ls), Exp("VFALSE", 0))
    [] Tok(ls) = "..."   -> VarArgs(ls)
    [] Tok(ls) = "{"     -> Constructor(ls)
    [] Tok(ls) = "function" -> Body(Skip(ls), FALSE)
    [] OTHER -> PrimaryExp(ls)

\* subexpr: operators that bind more tightly than limit.
UnaryExp(ls) == On(SubExpr(Skip(ls), UnaryPriority), LAMBDA x, e : Gen(x, Prefix(FS(x), Tok(ls), e)))
BinaryExp(ls, v, op) ==
  On(Gen(Skip(ls), Infix(FS(ls), op, v)), LAMBDA x, e1 :
    On(SubExpr(x, Right(op)), LAMBDA y, e2 : Gen(y, Posfix(FS(y), op, e1, e2))))
SubExprRead(ls, limit) ==
  LET RECURSIVE more(_)
      more(x) == IF Tok(x.ls) \in BinOps /\ Left(Tok(x.ls)) > limit THEN more(BinaryExp(x.ls, x.e, Tok(x.ls))) ELSE x
  IN  more(IF Tok(ls) \in UnOps THEN UnaryExp(ls) ELSE SimpleExp(ls))
-----------------------------------------------------------------------------
(* Statements: from one LexState to the next.                               *)

BlockRead(ls, s) == With(ls, LeaveBlock(Check(s, Last(s.bl).breaklist = {})))
BlockDone(ls) == BlockRead(ls, FS(ls))
Block(ls) == BlockDone(Chunk(With(ls, EnterBlock(FS(ls), FALSE))))

\* check_conflict: a local that an earlier target uses is copied first.
CheckConflict(s, lh, v) ==
  LET Hit(x) == x.k = "VINDEXED" /\ v.info \in {x.info, x.aux}
      c == Code(s, I("MOVE", s.freereg, v.info, 0))
      Safe(r) == IF r = v.info THEN s.freereg ELSE r
  IN  [s |-> IF \E i \in DOMAIN lh : Hit(lh[i]) THEN ReserveRegs(c, 1) ELSE s,
       lh |-> [i \in DOMAIN lh |->
                 IF Hit(lh[i]) THEN [lh[i] EXCEPT !.info = Safe(@), !.aux = Safe(@)] ELSE lh[i]]]

\* assignment: the targets lh from the left; values are stored from the right.
StoreTop(s, v) == StoreVar(s, v, Exp("VNONRELOC", s.freereg - 1))
StoreAll(s, lh) == FoldRight(LAMBDA v, t : StoreTop(t, v), lh, s)
Dropped(s, n) == IF n > 0 THEN [s EXCEPT !.freereg = @ - n] ELSE s
StoreExps(s, lh, n, e) ==
  IF n = Len(lh)
  THEN After(SetOneRet(s, e), LAMBDA t, one : StoreAll(StoreVar(t, Last(lh), one), Front(lh)))
  ELSE StoreAll(Dropped(AdjustAssign(s, Len(lh), n, e), n - Len(lh)), lh)
Assign1(x, lh) == With(x.ls, StoreExps(FS(x.ls), lh, x.n, x.e))
RECURSIVE Assignment(_, _)
Assignment(ls, lh) ==
  IF Tok(ls) = ","
  THEN On(PrimaryExp(Skip(ls)), LAMBDA x, v :
         LET c == CheckConflict(FS(x), lh, v)
         IN  IF v.k = "VLOCAL" THEN Assignment(With(x, c.s), Append(c.lh, v)) ELSE Assignment(x, Append(lh, v)))
  ELSE Assign1(ExpList(CheckNext(ls, "=")), lh)

\* cond: the list of jumps out when false, in e.f.
Cond(ls) ==
  On(Expr(ls), LAMBDA x, e : Gen(x, GoIfTrue(FS(x), IF e.k = "VNIL" THEN [e EXCEPT !.k = "VFALSE"] ELSE e)))

Loop1(s) == CHOOSE i \in DOMAIN s.bl : s.bl[i].isbreakable /\ \A j \in DOMAIN s.bl : j > i => ~s.bl[j].isbreakable
Broken(j, b) == [j.s EXCEPT !.bl[b].breaklist = @ \cup j.list]

\* breakstat: out of the innermost loop, past the blocks inside it.
BreakStat(s) ==
  Broken(Jump(IF \E j \in DOMAIN s.bl : j > Loop1(s) /\ s.bl[j].upval
              THEN Code(s, I("CLOSE", s.bl[Loop1(s)].nactvar, 0, 0)) ELSE s), Loop1(s))

\* whilestat
WhileEnd(ls, whileinit, condexit, j) ==
  With(CheckNext(ls, "end"), PatchToHere(LeaveBlock(PatchList(j.s, j.list, whileinit)), condexit))
WhileBody(c, whileinit) ==
  LET b == Block(CheckNext(With(c.ls, EnterBlock(FS(c.ls), TRUE)), "do"))
  IN  WhileEnd(b, whileinit, c.e.f, Jump(FS(b)))
WhileStat(ls) == WhileBody(Cond(With(Skip(ls), GetLabel(FS(ls)))), Here(FS(ls)))

\* repeatstat: the condition is in the scope of the block.
RepeatJump(s, jump, init) == LeaveBlock(PatchList(s, jump, init))
RepeatEnd(s, condexit, init) ==
  IF Last(s.bl).upval
  THEN OnJump(Jump(LeaveBlock(PatchToHere(BreakStat(s), condexit))), LAMBDA t, back : RepeatJump(t, back, init))
  ELSE RepeatJump(LeaveBlock(s), condexit, init)
Until(c, init) == With(c.ls, RepeatEnd(FS(c.ls), c.e.f, init))
RepeatStat(ls) ==
  Until(Cond(CheckNext(Chunk(Skip(With(ls, EnterBlock(EnterBlock(GetLabel(FS(ls)), TRUE), FALSE)))), "until")),
        Here(FS(ls)))

\* exp1; forbody: the variables of the body live in a block of their own.
Placed(x) == With(x.ls, Exp2NextReg(FS(x.ls), x.e).s)
Exp1(ls) == Placed(Expr(ls))
LastCode(s) == [s |-> s, list |-> {Len(s.code)}]
LoopBack(s, isnum) == IF isnum THEN LastCode(s) ELSE Jump(s)
ForEnd(ls, s, loop, start, isnum) ==
  With(ls, OnJump(LoopBack(Code(s, loop), isnum), LAMBDA t, back : PatchList(t, back, start)))
ForDo(ls, loop, prep, isnum) ==
  ForEnd(ls, PatchToHere(LeaveBlock(FS(ls)), prep.list), loop, Len(prep.s.code) + 1, isnum)
ForBlock(ls, base, nvars, isnum, prep) ==
  ForDo(Block(CheckNext(With(ls, ReserveRegs(AdjustLocalVars(EnterBlock(prep.s, FALSE), nvars), nvars)), "do")),
        IF isnum THEN I("FORLOOP", base, 0, 0) ELSE I("TFORLOOP", base, 0, nvars), prep, isnum)
\* The list prep: the generic loop's jump to its end takes the pending jumps with it.
Prepared(s, base, isnum) ==
  IF isnum THEN LastCode(Code(s, I("FORPREP", base, 0, 0))) ELSE Jump(s)
ForBody(ls, base, nvars, isnum) ==
  OnFS(With(ls, AdjustLocalVars(FS(ls), 3)), LAMBDA s :
    ForBlock(ls, base, nvars, isnum, Prepared(s, base, isnum)))

\* fornum, forlist, forstat
DefaultStep(ls, s) == With(ls, ReserveRegs(Code(s, I("LOADK", s.freereg, IndexK(s, Num(1)), 0)), 1))
StepOf(ls) == IF Tok(ls) = "," THEN Exp1(Skip(ls)) ELSE DefaultStep(ls, AddK(FS(ls), Num(1)))
ForNum(ls, name) ==
  ForBody(StepOf(Exp1(CheckNext(Exp1(CheckNext(
            With(ls, NewLocalVars(FS(ls), <<"(for index)", "(for limit)", "(for step)", name>>)), "=")), ","))),
          FS(ls).freereg, 1, TRUE)
Names(ls) ==
  LET RECURSIVE more(_, _)
      more(x, found) == IF Tok(Skip(x)) = "," THEN more(Skip(Skip(x)), Append(found, Name(x)))
                        ELSE L(Skip(x), Append(found, Name(x)))
  IN  more(ls, <<>>)
Three(x) == With(x.ls, CheckStack(AdjustAssign(FS(x.ls), 3, x.n, x.e), 3))
ForList(ls) ==
  On(Names(ls), LAMBDA x, names :
    ForBody(Three(ExpList(CheckNext(
              With(x, NewLocalVars(FS(x), <<"(for generator)", "(for state)", "(for control)">> \o names)), "in"))),
            FS(ls).freereg, Len(names), FALSE))
ForDone(ls) == With(CheckNext(ls, "end"), LeaveBlock(FS(ls)))
ForKind(ls) == IF Tok(Skip(ls)) = "=" THEN ForNum(Skip(ls), Name(ls)) ELSE ForList(ls)
ForStat(ls) == ForDone(ForKind(Skip(With(ls, EnterBlock(FS(ls), TRUE)))))

\* ifstat, test_then_block: out is the escape list of the parts before, f the
\* jumps out of the condition.
RECURSIVE IfStat(_, _)
ElsePart(ls, out) == With(CheckNext(ls, "end"), PatchToHere(FS(ls), out))
AfterThen(ls, f, out, j) ==
  IF Tok(ls) = "elseif" THEN IfStat(With(ls, PatchToHere(j.s, f)), out \cup j.list)
  ELSE IF Tok(ls) = "else" THEN ElsePart(Block(Skip(With(ls, PatchToHere(j.s, f)))), out \cup j.list)
  ELSE ElsePart(ls, out \cup f)
ThenPart(ls, f, out) == AfterThen(ls, f, out, Jump(FS(ls)))
TestThen(c, out) == ThenPart(Block(CheckNext(c.ls, "then")), c.e.f, out)
IfStat(ls, out) == TestThen(Cond(Skip(ls)), out)

\* localfunc, localstat
Stored(v, b) == With(b.ls, StoreVar(FS(b.ls), v, b.e))
LocalFunc(ls) ==
  Stored(Exp("VLOCAL", FS(ls).freereg),
         Body(Skip(With(ls, AdjustLocalVars(ReserveRegs(NewLocalVar(FS(ls), Name(ls), 0), 1), 1))), FALSE))
LocalsSet(x, n) == With(x.ls, AdjustLocalVars(AdjustAssign(FS(x.ls), n, x.n, x.e), n))
Values(ls) == IF Tok(ls) = "=" THEN ExpList(Skip(ls)) ELSE [ls |-> ls, e |-> Void, n |-> 0]
LocalStat(ls) ==
  On(Names(ls), LAMBDA x, names : LocalsSet(Values(With(x, NewLocalVars(FS(x), names))), Len(names)))

\* funcstat, with funcname
FuncName(ls) ==
  LET RECURSIVE more(_)
      more(x) == IF Tok(x.ls) = "." THEN more(Field(x.ls, x.e)) ELSE x
  IN  more(SingleVar(ls))
NamedBody(n, self) == Stored(n.e, Body(n.ls, self))
FuncStat(ls) ==
  On(FuncName(Skip(ls)), LAMBDA x, v :
    NamedBody(IF Tok(x) = ":" THEN Field(x, v) ELSE L(x, v), Tok(x) = ":"))

\* exprstat: a call, which leaves no result, or an assignment.
ExprStat(ls) ==
  On(PrimaryExp(ls), LAMBDA x, v :
    IF v.k = "VCALL" THEN With(x, [FS(x) EXCEPT !.code[v.info].c = 1]) ELSE Assignment(x, <<v>>))

\* retstat
RetOpen(s, e, single) ==
  Ret(IF e.k = "VCALL" /\ single
      THEN Check([s EXCEPT !.code[e.info].op = "TAILCALL"], s.code[e.info].a = s.nactvar) ELSE s, s.nactvar, MultRet)
RetOne(s, e) == After(Exp2AnyReg(s, e), LAMBDA t, one : Ret(t, one.info, 1))
RetAll(s, n) == Ret(Check(s, n = s.freereg - s.nactvar), s.nactvar, n)
RetExps(s, e, n) ==
  IF HasMultRet(e) THEN RetOpen(SetReturns(s, e, MultRet), e, n = 1)
  ELSE IF n = 1 THEN RetOne(s, e) ELSE RetAll(Exp2NextReg(s, e).s, n)
RetValues(x) == With(x.ls, RetExps(FS(x.ls), x.e, x.n))
RetStat(ls) ==
  IF Tok(Skip(ls)) \in BlockFollow \cup {";"} THEN With(Skip(ls), Ret(FS(ls), 0, 0)) ELSE RetValues(ExpList(Skip(ls)))

\* statement
Statement(ls) ==
  CASE Tok(ls) = "if"       -> IfStat(ls, {})
    [] Tok(ls) = "while"    -> WhileStat(ls)
    [] Tok(ls) = "do"       -> CheckNext(Block(Skip(ls)), "end")
    [] Tok(ls) = "for"      -> ForStat(ls)
    [] Tok(ls) = "repeat"   -> RepeatStat(ls)
    [] Tok(ls) = "function" -> FuncStat(ls)
    [] Tok(ls) = "local"    -> IF Tok(Skip(ls)) = "function" THEN LocalFunc(Skip(Skip(ls))) ELSE LocalStat(Skip(ls))
    [] Tok(ls) = "return"   -> RetStat(ls)
    [] Tok(ls) = "break"    -> With(Skip(ls), BreakStat(FS(ls)))
    [] OTHER                -> ExprStat(ls)

\* chunk: after each statement the registers are those of the locals.
Settle(s) == [Check(s, s.maxstack >= s.freereg /\ s.freereg >= s.nactvar) EXCEPT !.freereg = s.nactvar]
Settled(ls) == With(ls, Settle(FS(ls)))
Separated(ls) == IF Tok(ls) = ";" THEN Skip(ls) ELSE ls
NextOf(ls, last) == IF last THEN ls ELSE Chunk(ls)
ChunkRead(ls) ==
  IF Tok(ls) \in BlockFollow THEN ls
  ELSE NextOf(Settled(Separated(Statement(ls))), Tok(ls) \in {"return", "break"})

Read(what, ls, limit) == IF what = "subexpr" THEN SubExprRead(ls, limit) ELSE ChunkRead(ls)

\* luaY_parser: the main function takes any arguments.
Finished(ls, p) == [p EXCEPT !.ok = @ /\ ls.ok /\ Tok(ls) = "eos" /\ p.nups = 0]
MainRead(ls) == Finished(ls, CloseFunc(FS(ls)))
MainFunc(ls) == MainRead(Chunk(With(ls, [FS(ls) EXCEPT !.isvararg = TRUE])))
Compile(toks) == MainFunc(OpenFunc([toks |-> toks, i |-> 1, fs |-> <<>>, ok |-> TRUE]))
=============================================================================
