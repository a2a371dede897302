------------------------------- MODULE LuaVM --------------------------------
(* The virtual machine of the Lua distribution: luaV_execute with the       *)
(* metamethods (lua/src/lvm.c, ltm.c), the calls, returns and errors of     *)
(* lua/src/ldo.c, the upvalues of lua/src/lfunc.c, and the few functions    *)
(* of lua/src/lbaselib.c that call back or throw.                           *)
(*                                                                          *)
(* m is the lua_State with what it reaches: the stack (places from 0) and   *)
(* its top, the CallInfos ci, the tables, closures and upvalues by number,  *)
(* nCcalls as ncc, and how the program ended in out.  Where the code calls  *)
(* luaV_execute again from C, the frame called carries in "after" what the  *)
(* C code does with the results.  A call, return or error that an operator  *)
(* asks for is noted in todo and is the next step.  The collector and the   *)
(* hooks are left out.                                                      *)
EXTENDS LuaParser

CONSTANTS StackSize,    \* the stack, which is not grown
          MinStack,     \* LUA_MINSTACK
          MaxTagLoop,   \* MAXTAGLOOP
          MaxCcalls     \* LUAI_MAXCCALLS

VARIABLES toks, m
vmvars == <<toks, m>>

Str(s) == <<"str", s>>
IsFalse(v) == v \in {Nil, Bool(FALSE)}
IsFun(v) == v[1] \in {"fun", "cfun"}
ToText(v) == IF v[1] = "num" THEN ToString(v[2]) ELSE v[2]
CanText(v) == v[1] \in {"num", "str"}

\* luaV_tonumber; the texts of small numbers are numbers.
IsNumber(v) == v[1] = "num" \/ (v[1] = "str" /\ \E n \in 0 .. 99 : v[2] = ToString(n))
ToNumber(v) == IF v[1] = "num" THEN v[2] ELSE CHOOSE n \in 0 .. 99 : v[2] = ToString(n)

F(x) == Last(x.ci)
ProtoAt(x, path) == FoldLeft(LAMBDA q, i : q.p[i + 1], x.main, path)
Closure(x, func) == x.funs[x.stack[func][2]]
Running(x) == ProtoAt(x, Closure(x, F(x).func).p)

Put(x, i, v) == [x EXCEPT !.stack[i] = v]
Reg(x, r) == x.stack[F(x).base + r]
SetReg(x, r, v) == Put(x, F(x).base + r, v)
RKVal(x, r) == IF IsK(r) THEN Running(x).k[r - 255] ELSE Reg(x, r)

Ins(x) == Running(x).code[F(x).pc]
Goto(x, place) == [x EXCEPT !.ci[Len(x.ci)].pc = place]
Fetched(x) == Goto(x, F(x).pc + 1)

\* A test and the jump behind it, which is taken or skipped.
Branch(x, cond) == Goto(x, IF cond THEN Ins(x).b ELSE F(x).pc + 1)
-----------------------------------------------------------------------------
(* Tables and tag methods.                                                  *)

NewTable(x) == [x EXCEPT !.tabs = Append(@, [h |-> [k \in {} |-> Nil], meta |-> 0, flags |-> {}])]
NewestTable(x) == <<"tab", Len(x.tabs)>>
RawGet(t, k) == IF k \in DOMAIN t.h THEN t.h[k] ELSE Nil

\* luaH_setnum, luaH_setstr; luaH_set also forgets which tag methods are absent.
RawPut(t, k, v) ==
  [t EXCEPT !.h = IF v = Nil THEN [j \in DOMAIN @ \ {k} |-> t.h[j]] ELSE k :> v @@ @]

RawSet(t, k, v) == [RawPut(t, k, v) EXCEPT !.flags = {}]

\* luaH_getn, for tables without holes.
GetN(t) == CHOOSE n \in 0 .. Cardinality(DOMAIN t.h) :
             Num(n + 1) \notin DOMAIN t.h /\ \A i \in 1 .. n : Num(i) \in DOMAIN t.h

\* luaT_gettmbyobj; the other types have no metatable.
MetaOf(x, v) == IF v[1] = "tab" THEN x.tabs[v[2]].meta ELSE 0
TagMethod(x, v, event) == IF MetaOf(x, v) = 0 THEN Nil ELSE RawGet(x.tabs[MetaOf(x, v)], Str(event))

\* fasttm, luaT_gettm: an absent method is noted in the metatable.
FastTM(x, mt, event) ==
  IF mt = 0 THEN Nil ELSE IF event \in x.tabs[mt].flags THEN Nil ELSE RawGet(x.tabs[mt], Str(event))
Noted(x, mt, event) ==
  IF mt # 0 /\ FastTM(x, mt, event) = Nil THEN [x EXCEPT !.tabs[mt].flags = @ \cup {event}] ELSE x
-----------------------------------------------------------------------------
(* Upvalues.                                                                *)

\* luaF_findupval: the open upvalue of this place, or a new one.
OpenAt(x, level) == {u \in DOMAIN x.ups : x.ups[u].open /\ x.ups[u].at = level}
FindUpval(x, level) ==
  IF OpenAt(x, level) # {} THEN x
  ELSE [x EXCEPT !.ups = Append(@, [open |-> TRUE, at |-> level, v |-> Nil])]

\* luaF_close
Close(x, level) ==
  [x EXCEPT !.ups = [u \in DOMAIN @ |-> IF @[u].open /\ @[u].at >= level
                                        THEN [open |-> FALSE, at |-> 0, v |-> x.stack[@[u].at]] ELSE @[u]]]
GetUp(x, u) == IF x.ups[u].open THEN x.stack[x.ups[u].at] ELSE x.ups[u].v
SetUp(x, u, v) == IF x.ups[u].open THEN Put(x, x.ups[u].at, v) ELSE [x EXCEPT !.ups[u].v = v]
-----------------------------------------------------------------------------
(* Entering and leaving functions.                                          *)

Frame(func, base, top, nres, after) ==
  [func |-> func, base |-> base, top |-> top, pc |-> 1, nres |-> nres, after |-> after,
   pcall |-> FALSE, ncc |-> 0]

\* luaD_precall of a Lua function, with adjust_varargs: the fixed parameters
\* are moved behind the arguments, `arg' follows them, the rest is nil.
EnterLua(x, func, nres, after) ==
  LET p     == ProtoAt(x, Closure(x, func).p)
      nargs == x.top - func - 1
      extra == IF nargs > p.numparams THEN nargs - p.numparams ELSE 0
      arg(j) == IF j <= nargs THEN x.stack[func + j] ELSE Nil
      base  == func + 1 + IF p.isvararg THEN p.numparams + extra ELSE 0
      y     == IF p.needsarg THEN NewTable(x) ELSE x
      args  == [k \in {Num(j) : j \in {j \in 1 .. extra : arg(p.numparams + j) # Nil}} |-> arg(p.numparams + k[2])]
      z     == IF p.needsarg THEN [y EXCEPT !.tabs[Len(y.tabs)].h = Str("n") :> Num(extra) @@ args] ELSE y
  IN  [z EXCEPT
         !.ci = Append(@, Frame(func, base, base + p.maxstack, nres, after)),
         !.top = base + p.maxstack,
         !.stack = [i \in DOMAIN @ |->
            CASE p.isvararg /\ i \in func + 1 .. func + p.numparams -> Nil
              [] i \in base .. base + p.numparams - 1 -> arg(i - base + 1)
              [] i = base + p.numparams /\ p.needsarg -> NewestTable(z)
              [] i \in base + p.numparams .. base + p.maxstack - 1 /\ ~(i = base + p.numparams /\ p.needsarg) -> Nil
              [] OTHER -> @[i]]]

\* luaD_poscall: the results from first to the top replace the function.
PosCall(x, first) ==
  LET f == F(x)
      n == IF f.nres = MultRet THEN x.top - first ELSE f.nres
  IN  [x EXCEPT !.ci = Front(@), !.top = f.func + n,
                !.stack = [i \in DOMAIN @ |->
                   IF i \notin f.func .. f.func + n - 1 THEN @[i]
                   ELSE IF first + i - f.func < x.top THEN @[first + i - f.func] ELSE Nil]]

\* lua_insert(L, 1) of a boolean, before the results of pcall.
Insert(x, b) ==
  LET base == F(x).base
  IN  [x EXCEPT !.top = @ + 1,
                !.stack = [i \in DOMAIN @ |-> IF i = base THEN b
                             ELSE IF i \in base + 1 .. x.top THEN @[i - 1] ELSE @[i]]]

\* What is to be done before the next instruction.
Ask(x, what) == [x EXCEPT !.todo = what]
Throw(x, v) == Ask(x, <<"throw", v>>)
Error(x, what) == Throw(x, Str(what))
Return(x, first) == Ask(x, <<"return", first>>)

\* luaD_call, and callTM(res): a call from C, of the function on the stack or of f.
DCall(x, func, nres, after) ==
  LET y == [x EXCEPT !.ncc = @ + 1]
  IN  IF y.ncc = MaxCcalls THEN Error(y, "C stack overflow")
      ELSE IF y.ncc >= MaxCcalls + MaxCcalls \div 8 THEN Error(y, "error in error handling")
      ELSE Ask(y, <<"call", func, nres, after>>)
CallTM(x, f, args, nres, after) ==
  LET all == <<f>> \o args
  IN  DCall([x EXCEPT !.top = @ + Len(all),
                      !.stack = [i \in DOMAIN @ |-> IF i \in x.top .. x.top + Len(all) - 1
                                                    THEN all[i - x.top + 1] ELSE @[i]]],
            x.top, nres, after)

\* luaV_concat of total values, the last in register last.
RECURSIVE Concat(_, _, _, _, _)
Concat(x, total, last, a, b) ==
  LET At(k) == F(x).base + last + 1 - k
      v(k) == x.stack[At(k)]
      tm  == IF TagMethod(x, v(2), "__concat") # Nil THEN TagMethod(x, v(2), "__concat")
             ELSE TagMethod(x, v(1), "__concat")
      run == {k \in 2 .. total : \A j \in 1 .. k : CanText(v(j))}
      n   == CHOOSE k \in run : \A j \in run : j <= k
      text == FoldRight(LAMBDA k, s : s \o ToText(v(k)), [k \in 1 .. n |-> k], "")
  IN  IF total <= 1 THEN SetReg(x, a, Reg(x, b))
      ELSE IF ~CanText(v(2)) \/ ~CanText(v(1))
           THEN IF tm = Nil THEN Error(x, "concatenate")
                ELSE CallTM(x, tm, <<v(2), v(1)>>, 1, <<"concat", At(2), total - 1, last - 1, a, b>>)
      ELSE IF ToText(v(1)) = "" THEN Concat(Put(x, At(2), Str(ToText(v(2)))), total - 1, last - 1, a, b)
      ELSE Concat(Put(x, At(n), Str(text)), total - n + 1, last - n + 1, a, b)

\* OP_TFORLOOP after the call: on with the loop while the first value is not nil.
TFor(x, a) ==
  LET y == [x EXCEPT !.top = F(x).top]
      v == Reg(y, a + 3)
  IN  IF v = Nil THEN Branch(y, FALSE) ELSE Branch(SetReg(y, a + 2, v), TRUE)

\* Mutant of Restored: the top stays behind the results.
MutRestored(x, wanted) == x

\* The results that were asked for are in registers; any number ends at the top.
Restored(x, wanted) == IF wanted = MultRet THEN x ELSE [x EXCEPT !.top = F(x).top]

\* What the caller does once the results are in place.
Finish(x, after, wanted) ==
  LET y == [x EXCEPT !.ncc = @ - 1]
      v == y.stack[y.top - 1]
      d == [y EXCEPT !.top = @ - 1]
  IN  CASE after[1] \in {"op", "tail"} -> Restored(x, wanted)
        [] after[1] = "res"    -> Put(d, after[2], v)
        [] after[1] = "none"   -> y
        [] after[1] = "test"   -> Branch(d, ~IsFalse(v) = after[2])
        [] after[1] = "concat" -> Concat(Put(d, after[2], v), after[3], after[4], after[5], after[6])
        [] after[1] = "tfor"   -> TFor(y, after[2])
        [] after[1] = "pcall"  -> Return(Insert(y, Bool(TRUE)), F(y).base)
        [] after[1] = "main"   -> [y EXCEPT !.out = <<"done", SubSeq([i \in 1 .. y.top |-> y.stack[i - 1]], 2, y.top)>>]

\* luaB_pcall, luaB_error (level 0), luaB_setmetatable, luaB_rawset
CFunction(x, name) ==
  LET base == F(x).base
      n    == x.top - base
      arg(i) == IF i <= n THEN x.stack[base + i - 1] ELSE Nil
      First(y) == Return([y EXCEPT !.top = base + 1], base)
  IN  CASE name = "pcall" ->
             IF n = 0 THEN Error(x, "bad argument")
             ELSE DCall([x EXCEPT !.ci[Len(x.ci)].pcall = TRUE, !.ci[Len(x.ci)].ncc = x.ncc],
                        base, MultRet, <<"pcall">>)
        [] name = "error" -> Throw(x, arg(1))
        [] name = "setmetatable" ->
             IF arg(1)[1] # "tab" \/ n < 2 \/ arg(2)[1] \notin {"nil", "tab"} THEN Error(x, "bad argument")
             ELSE IF TagMethod(x, arg(1), "__metatable") # Nil THEN Error(x, "protected")
             ELSE First([x EXCEPT !.tabs[arg(1)[2]].meta = arg(2)[2]])
        [] name = "rawset" ->
             IF arg(1)[1] # "tab" \/ n < 3 THEN Error(x, "bad argument")
             ELSE First([x EXCEPT !.tabs[arg(1)[2]] = RawSet(@, arg(2), arg(3))])

\* OP_TAILCALL: a Lua function takes the place of the frame that calls it.
Replace(x) ==
  LET new  == F(x)
      old  == x.ci[Len(x.ci) - 1]
      y    == Close(x, old.base)
      down == new.func - old.func
  IN  [y EXCEPT !.ci = Append(SubSeq(@, 1, Len(@) - 2),
                              [old EXCEPT !.base = new.base - down, !.top = y.top - down, !.pc = 1]),
                !.top = @ - down,
                !.stack = [i \in DOMAIN @ |-> IF i \in old.func .. y.top - down - 1 THEN @[i + down] ELSE @[i]]]

\* luaD_precall, with tryfuncTM: the tag method is put under the arguments.
Precall(x, func, nres, after) ==
  LET f  == x.stack[func]
      tm == TagMethod(x, f, "__call")
      y  == EnterLua(x, func, nres, after)
  IN  IF f[1] = "fun" THEN IF after[1] = "tail" THEN Replace(y) ELSE y
      ELSE IF f[1] = "cfun"
           THEN CFunction([x EXCEPT !.ci = Append(@, Frame(func, func + 1, x.top + MinStack, nres, after))], f[2])
      ELSE IF ~IsFun(tm) THEN Error(x, "call")
      ELSE Ask([x EXCEPT !.top = @ + 1,
                         !.stack = [i \in DOMAIN @ |-> IF i = func THEN tm
                                      ELSE IF i \in func + 1 .. x.top THEN @[i - 1] ELSE @[i]]],
               <<"call", func, nres, after>>)

\* luaD_throw to the innermost luaD_pcall, which answers false and the error;
\* without one, the error is the program's.
Catch(x, v) ==
  LET at == {i \in DOMAIN x.ci : x.ci[i].pcall}
      c == CHOOSE i \in at : \A j \in at : j <= i
      y == [Put(Close(x, x.ci[c].base), x.ci[c].base, v)
              EXCEPT !.top = x.ci[c].base + 1, !.ci = SubSeq(@, 1, c), !.ncc = x.ci[c].ncc]
  IN  IF at = {} THEN [x EXCEPT !.out = <<"error", v>>] ELSE Return(Insert(y, Bool(FALSE)), F(y).base)
-----------------------------------------------------------------------------
(* Values.                                                                  *)

\* luaV_gettable: t[key] into the place res.
RECURSIVE GetTable(_, _, _, _, _), SetTable(_, _, _, _, _)
GetTable(x, t, key, res, loop) ==
  LET istab == t[1] = "tab"
      mt  == MetaOf(x, t)
      raw == IF istab THEN RawGet(x.tabs[t[2]], key) ELSE Nil
      tm  == IF istab THEN FastTM(x, mt, "__index") ELSE TagMethod(x, t, "__index")
      y   == Noted(x, mt, "__index")
  IN  IF loop = 0 THEN Error(x, "loop")
      ELSE IF raw # Nil THEN Put(x, res, raw)
      ELSE IF tm = Nil THEN IF istab THEN Put(y, res, Nil) ELSE Error(x, "index")
      ELSE IF IsFun(tm) THEN CallTM(x, tm, <<t, key>>, 1, <<"res", res>>)
      ELSE GetTable(x, tm, key, res, loop - 1)

\* luaV_settable: t[key] = v.
SetTable(x, t, key, v, loop) ==
  LET istab == t[1] = "tab"
      mt  == MetaOf(x, t)
      z   == IF istab THEN [x EXCEPT !.tabs[t[2]].flags = {}] ELSE x
      tm  == IF istab THEN FastTM(z, mt, "__newindex") ELSE TagMethod(x, t, "__newindex")
      y   == Noted(z, mt, "__newindex")
      old == istab /\ RawGet(x.tabs[t[2]], key) # Nil
  IN  IF loop = 0 THEN Error(x, "loop")
      ELSE IF istab /\ key = Nil THEN Error(x, "index is nil")
      ELSE IF old THEN [z EXCEPT !.tabs[t[2]] = RawSet(@, key, v)]
      ELSE IF tm = Nil THEN IF istab THEN [y EXCEPT !.tabs[t[2]] = RawSet(@, key, v)] ELSE Error(x, "index")
      ELSE IF IsFun(tm) THEN CallTM(z, tm, <<t, key, v>>, 0, <<"none">>)
      ELSE SetTable(z, tm, key, v, loop - 1)

\* call_binTM: the method of the first operand, else of the second.
BinTM(x, b, c, event) ==
  IF TagMethod(x, b, event) # Nil THEN TagMethod(x, b, event) ELSE TagMethod(x, c, event)
CallBinTM(x, b, c, res, event, what) ==
  IF BinTM(x, b, c, event) = Nil THEN Error(x, what)
  ELSE CallTM(x, BinTM(x, b, c, event), <<b, c>>, 1, <<"res", res>>)

Events == "ADD" :> "__add" @@ "SUB" :> "__sub" @@ "MUL" :> "__mul" @@ "MOD" :> "__mod"
          @@ "POW" :> "__pow" @@ "UNM" :> "__unm"

\* arith_op, with Arith of lvm.c
ArithTo(x, op, b, c, res) ==
  IF IsNumber(b) /\ IsNumber(c) THEN Put(x, res, Num(Arith(op, ToNumber(b), ToNumber(c))))
  ELSE CallBinTM(x, b, c, res, Events[op], "arithmetic")

\* OP_EQ with luaV_equalval, get_compTM: tables are equal, or a method they share says so.
Equal(x, b, c, cond) ==
  LET tm1 == FastTM(x, MetaOf(x, b), "__eq")
      tm2 == FastTM(x, MetaOf(x, c), "__eq")
      y1  == Noted(x, MetaOf(x, b), "__eq")
      y2  == IF tm1 = Nil \/ MetaOf(x, b) = MetaOf(x, c) THEN y1 ELSE Noted(y1, MetaOf(x, c), "__eq")
  IN  IF b = c \/ b[1] # "tab" \/ c[1] # "tab" THEN Branch(x, (b = c) = cond)
      ELSE IF tm1 = Nil \/ tm1 # tm2 THEN Branch(y2, ~cond)
      ELSE CallTM(y2, tm1, <<b, c>>, 1, <<"test", cond>>)

\* luaV_lessthan, lessequal, call_orderTM: numbers, or a method both share; `<='
\* is `not >' where there is no method for it.  Strings are not compared.
OrderTM(x, b, c, event) ==
  IF TagMethod(x, b, event) = TagMethod(x, c, event) THEN TagMethod(x, b, event) ELSE Nil
Less(x, b, c, cond) ==
  IF b[1] = "num" /\ c[1] = "num" THEN Branch(x, (b[2] < c[2]) = cond)
  ELSE IF b[1] # c[1] \/ OrderTM(x, b, c, "__lt") = Nil THEN Error(x, "compare")
  ELSE CallTM(x, OrderTM(x, b, c, "__lt"), <<b, c>>, 1, <<"test", cond>>)
LessEq(x, b, c, cond) ==
  IF b[1] = "num" /\ c[1] = "num" THEN Branch(x, (b[2] <= c[2]) = cond)
  ELSE IF b[1] = c[1] /\ OrderTM(x, b, c, "__le") # Nil
       THEN CallTM(x, OrderTM(x, b, c, "__le"), <<b, c>>, 1, <<"test", cond>>)
  ELSE Less(x, c, b, ~cond)
-----------------------------------------------------------------------------
(* The program: its text, read and called by the host.                      *)

Host == Frame(0, 1, 1 + MinStack, 0, <<"host">>)
Library == [k \in {Str("pcall"), Str("error"), Str("setmetatable"), Str("rawset")} |-> <<"cfun", k[2]>>]
Machine(proto) ==
  [main |-> proto, stack |-> [i \in 0 .. StackSize - 1 |-> IF i = 1 THEN <<"fun", 1>> ELSE Nil],
   top |-> 2, ci |-> <<Host>>, tabs |-> <<[h |-> Library, meta |-> 0, flags |-> {}]>>,
   funs |-> <<[p |-> <<>>, ups |-> <<>>]>>, ups |-> <<>>, ncc |-> 0, todo |-> <<"none">>,
   out |-> <<"running">>]

NoProto == [code |-> <<>>, k |-> <<>>, p |-> <<>>, ok |-> TRUE]
VMInit(text) == toks = text /\ m = [Machine(NoProto) EXCEPT !.out = <<"source">>]

Become(x) == m' = x /\ UNCHANGED toks

\* f_parser with the reader given, then lua_pcall(L, 0, LUA_MULTRET, 0)
FParser(read(_), text) == Machine(read(text))
Load ==
  /\ m.out[1] = "source"
  /\ Become(DCall(FParser(Compile, toks), 1, MultRet, <<"main">>))

\* A call, an error or a return that is asked for comes before the next instruction.
Asked(what) == m.out[1] = "running" /\ m.todo[1] = what
idle == Ask(m, <<"none">>)
PreCalls == Asked("call") /\ Become(Precall(idle, m.todo[2], m.todo[3], m.todo[4]))
Throws   == Asked("throw") /\ Become(Catch(idle, m.todo[2]))
Returns  == Asked("return") /\ Become(Finish(PosCall(idle, m.todo[2]), F(m).after, F(m).nres))

Op(ops) == Asked("none") /\ Ins(m).op \in ops
i0 == Ins(m)
m0 == Fetched(m)
Globals == <<"tab", 1>>

Move     == Op({"MOVE"}) /\ Become(SetReg(m0, i0.a, Reg(m, i0.b)))
LoadK    == Op({"LOADK"}) /\ Become(SetReg(m0, i0.a, Running(m).k[i0.b + 1]))
LoadBool == Op({"LOADBOOL"}) /\ Become(SetReg(IF i0.c = 1 THEN Fetched(m0) ELSE m0, i0.a, Bool(i0.b = 1)))
LoadNils ==
  /\ Op({"LOADNIL"})
  /\ Become([m0 EXCEPT !.stack = [i \in DOMAIN @ |-> IF i - F(m).base \in i0.a .. i0.b THEN Nil ELSE @[i]]])

UpvalOf(b) == Closure(m, F(m).func).ups[b + 1]
GetUpval == Op({"GETUPVAL"}) /\ Become(SetReg(m0, i0.a, GetUp(m, UpvalOf(i0.b))))
SetUpval == Op({"SETUPVAL"}) /\ Become(SetUp(m0, UpvalOf(i0.b), Reg(m, i0.a)))

Place(r) == F(m).base + r
GetGlobal == Op({"GETGLOBAL"}) /\ Become(GetTable(m0, Globals, Running(m).k[i0.b + 1], Place(i0.a), MaxTagLoop))
SetGlobal == Op({"SETGLOBAL"}) /\ Become(SetTable(m0, Globals, Running(m).k[i0.b + 1], Reg(m, i0.a), MaxTagLoop))
GetIndex  == Op({"GETTABLE"}) /\ Become(GetTable(m0, Reg(m, i0.b), RKVal(m, i0.c), Place(i0.a), MaxTagLoop))
SetIndex  == Op({"SETTABLE"}) /\ Become(SetTable(m0, Reg(m, i0.a), RKVal(m, i0.b), RKVal(m, i0.c), MaxTagLoop))
GetSelf   == Op({"SELF"}) /\ Become(GetTable(SetReg(m0, i0.a + 1, Reg(m, i0.b)), Reg(m, i0.b), RKVal(m, i0.c),
                                             Place(i0.a), MaxTagLoop))
MakeTable == Op({"NEWTABLE"}) /\ Become(LET x == NewTable(m0) IN SetReg(x, i0.a, NewestTable(x)))

Arithmetic == Op(DOMAIN Events \ {"UNM"}) /\ Become(ArithTo(m0, i0.op, RKVal(m, i0.b), RKVal(m, i0.c), Place(i0.a)))
Minus      == Op({"UNM"}) /\ Become(ArithTo(m0, "UNM", Reg(m, i0.b), Reg(m, i0.b), Place(i0.a)))
Not        == Op({"NOT"}) /\ Become(SetReg(m0, i0.a, Bool(IsFalse(Reg(m, i0.b)))))
Length ==
  /\ Op({"LEN"})
  /\ LET v == Reg(m, i0.b)
     IN  Become(IF v[1] = "tab" THEN SetReg(m0, i0.a, Num(GetN(m.tabs[v[2]])))
                ELSE IF v[1] = "str" THEN SetReg(m0, i0.a, Num(Len(v[2])))
                ELSE CallBinTM(m0, v, Nil, Place(i0.a), "__len", "length"))
Concatenate == Op({"CONCAT"}) /\ Become(Concat(m0, i0.c - i0.b + 1, i0.c, i0.a, i0.b))

Jmp     == Op({"JMP"}) /\ Become(Goto(m, i0.b))
Eq      == Op({"EQ"}) /\ Become(Equal(m0, RKVal(m, i0.b), RKVal(m, i0.c), i0.a = 1))
Lt      == Op({"LT"}) /\ Become(Less(m0, RKVal(m, i0.b), RKVal(m, i0.c), i0.a = 1))
Le      == Op({"LE"}) /\ Become(LessEq(m0, RKVal(m, i0.b), RKVal(m, i0.c), i0.a = 1))
Test    == Op({"TEST"}) /\ Become(Branch(m0, IsFalse(Reg(m, i0.a)) # (i0.c = 1)))
TestSet ==
  /\ Op({"TESTSET"})
  /\ Become(IF IsFalse(Reg(m, i0.b)) # (i0.c = 1) THEN Branch(SetReg(m0, i0.a, Reg(m, i0.b)), TRUE)
            ELSE Branch(m0, FALSE))

WithArgs(x) == IF i0.b = 0 THEN x ELSE [x EXCEPT !.top = Place(i0.a) + i0.b]
Call     == Op({"CALL"}) /\ Become(Ask(WithArgs(m0), <<"call", Place(i0.a), i0.c - 1, <<"op">>>>))
TailCall == Op({"TAILCALL"}) /\ Become(Ask(WithArgs(m0), <<"call", Place(i0.a), MultRet, <<"tail">>>>))

ReturnFrom ==
  /\ Op({"RETURN"})
  /\ LET x == IF i0.b = 0 THEN m0 ELSE [m0 EXCEPT !.top = Place(i0.a) + i0.b - 1]
     IN  Become(Return(Close(x, F(m).base), Place(i0.a)))

\* OP_FORPREP, OP_FORLOOP
ForPrep ==
  /\ Op({"FORPREP"})
  /\ LET v == [k \in 0 .. 2 |-> Reg(m, i0.a + k)]
     IN  Become(IF \E k \in 0 .. 2 : ~IsNumber(v[k]) THEN Error(m0, "for")
                ELSE Goto(SetReg(m0, i0.a, Num(ToNumber(v[0]) - ToNumber(v[2]))), i0.b))
ForLoop ==
  /\ Op({"FORLOOP"})
  /\ LET step  == ToNumber(Reg(m, i0.a + 2))
         idx   == ToNumber(Reg(m, i0.a)) + step
         limit == ToNumber(Reg(m, i0.a + 1))
     IN  Become(IF IF step > 0 THEN idx <= limit ELSE limit <= idx
                THEN Goto(SetReg(SetReg(m0, i0.a, Num(idx)), i0.a + 3, Num(idx)), i0.b)
                ELSE m0)
TForLoop ==
  /\ Op({"TFORLOOP"})
  /\ LET x == SetReg(SetReg(SetReg(m0, i0.a + 5, Reg(m, i0.a + 2)), i0.a + 4, Reg(m, i0.a + 1)), i0.a + 3, Reg(m, i0.a))
     IN  Become(DCall([x EXCEPT !.top = Place(i0.a) + 6], Place(i0.a) + 3, i0.c, <<"tfor", i0.a>>))

SetItems ==
  /\ Op({"SETLIST"})
  /\ LET n == IF i0.b = 0 THEN m.top - Place(i0.a) - 1 ELSE i0.b
         first == (i0.c - 1) * FieldsPerFlush
         x == IF i0.b = 0 THEN [m0 EXCEPT !.top = F(m).top] ELSE m0
     IN  Become([x EXCEPT !.tabs[Reg(m, i0.a)[2]] =
                   FoldLeft(LAMBDA t, j : RawPut(t, Num(first + j), Reg(m, i0.a + j)), @, [j \in 1 .. n |-> j])])

CloseUpvals == Op({"CLOSE"}) /\ Become(Close(m0, Place(i0.a)))

\* OP_CLOSURE: each pseudo-instruction behind it names an upvalue.
MakeClosure ==
  /\ Op({"CLOSURE"})
  /\ LET path == Append(Closure(m, F(m).func).p, i0.b)
         nups == ProtoAt(m, path).nups
         pseudo(j) == Running(m).code[F(m).pc + j]
         Bind(c, j) ==
           LET y == FindUpval(c.x, Place(pseudo(j).b))
           IN  IF pseudo(j).op = "GETUPVAL" THEN [c EXCEPT !.ups = Append(@, UpvalOf(pseudo(j).b))]
               ELSE [x |-> y, ups |-> Append(c.ups, CHOOSE u \in OpenAt(y, Place(pseudo(j).b)) : TRUE)]
         all == FoldLeft(Bind, [x |-> Goto(m, F(m).pc + 1 + nups), ups |-> <<>>], [j \in 1 .. nups |-> j])
         z == [all.x EXCEPT !.funs = Append(@, [p |-> path, ups |-> all.ups])]
     IN  Become(SetReg(z, i0.a, <<"fun", Len(z.funs)>>))

VarArg ==
  /\ Op({"VARARG"})
  /\ LET n == F(m).base - F(m).func - Running(m).numparams - 1
         b == IF i0.b = 0 THEN n ELSE i0.b - 1
         x == IF i0.b = 0 THEN [m0 EXCEPT !.top = Place(i0.a) + n] ELSE m0
     IN  Become([x EXCEPT !.stack = [i \in DOMAIN @ |->
                   LET j == i - Place(i0.a)
                   IN  IF j \notin 0 .. b - 1 THEN @[i]
                       ELSE IF j < n THEN m.stack[F(m).base - n + j] ELSE Nil]])

Ended == m.out[1] \in {"done", "error"} /\ UNCHANGED vmvars

VMNext ==
  \/ Load \/ PreCalls \/ Throws \/ Returns \/ Move \/ LoadK \/ LoadBool \/ LoadNils \/ GetUpval \/ SetUpval \/ GetGlobal \/ SetGlobal
  \/ GetIndex \/ SetIndex \/ GetSelf \/ MakeTable \/ Arithmetic \/ Minus \/ Not \/ Length \/ Concatenate
  \/ Jmp \/ Eq \/ Lt \/ Le \/ Test \/ TestSet \/ Call \/ TailCall \/ ReturnFrom \/ ForPrep \/ ForLoop
  \/ TForLoop \/ SetItems \/ CloseUpvals \/ MakeClosure \/ VarArg \/ Ended
=============================================================================
