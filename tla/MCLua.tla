------------------------------- MODULE MCLua --------------------------------
(* Families of programs, each compiled, run, and compared with what it      *)
(* means: boolean expressions, operators, assignments, loops with closures, *)
(* calls and constructors, tag methods and errors.                          *)
EXTENDS LuaRef, LuaChunk

VARIABLE program

N(n) == <<"num", n>>
S(s) == <<"str", s>>
Var(n) == <<"var", n>>
x == Var("x")
y == Var("y")
z == Var("z")
f == Var("f")
g == Var("g")
t == Var("t")
a == Var("a")
NilE == <<"nil">>
TrueE == <<"true">>
FalseE == <<"false">>
DotsE == <<"...">>
Bin(op, p, q) == <<"bin", op, p, q>>
Un(op, p) == <<"un", op, p>>
CallE(fn, args) == <<"call", fn, args>>
Index(o, k) == <<"index", o, k>>
FunE(params, body) == <<"fun", params, FALSE, body>>
VarFun(params, body) == <<"fun", params, TRUE, body>>
Table(items) == <<"table", items>>
Pos(e) == <<"pos", e>>
Named(n, e) == <<"named", n, e>>
Local(names, es) == <<"local", names, es>>
Assign(ts, es) == <<"assign", ts, es>>
Set1(p, e) == Assign(<<p>>, <<e>>)
Do(e) == <<"callstat", e>>
Return1(es) == <<"return", es>>
If(e, body) == <<"if", <<<<e, body>>>>, <<>>>>
Break == <<"break">>

\* Boolean expressions, as a value and as a condition.  The constant false is not
\* among the operands: with it ((nil and nil) or false) and true is nil in the
\* code of luaK_goiftrue, which makes a jump of false and forgets its value.
Parts == {x, y, NilE, TrueE, N(1), Bin("==", x, y), Un("not", x), Un("not", Bin("<", N(1), N(2)))}
         \cup {Bin(op, p, q) : op \in {"and", "or"}, p \in {x, y}, q \in {z, N(2)}}
Uses(e) ==
  {<<Return1(<<e>>)>>,
   <<<<"if", <<<<e, <<Return1(<<N(1)>>)>>>>, <<y, <<Return1(<<N(2)>>)>>>>>>, <<Return1(<<N(3)>>)>>>>>>}
BooleanProgram ==
  \E vals \in {<<NilE, N(1), FalseE>>, <<N(1), FalseE, N(3)>>}, op \in {"and", "or"}, p \in Parts, q \in Parts :
    \E use \in Uses(Bin(op, p, q)) : program = <<Local(<<"x", "y", "z">>, vals)>> \o use

\* Two operators, over variables or over constants, which are folded.
OperatorProgram ==
  \E op1, op2 \in {"+", "-", "*", "%", "^", "..", "==", "~=", "<", "<=", ">", ">="}, left \in BOOLEAN, const \in BOOLEAN :
    LET p == IF const THEN N(3) ELSE x
        q == IF const THEN N(2) ELSE y
        e == IF left THEN Bin(op1, Bin(op2, p, q), z) ELSE Bin(op1, p, Bin(op2, q, z))
    IN  /\ ~(op1 \in {"^", "%"} /\ op2 = "-") /\ ~(op1 = "^" /\ op2 = "..")
        /\ program = <<Local(<<"x", "y", "z">>, <<N(3), N(2), N(3)>>), Return1(<<e, Un("-", Bin("^", z, q)), Un("#", Bin("..", p, q))>>)>>

\* Multiple assignment: an earlier target uses a variable that is assigned too.
Target == {x, t, a, Index(t, x), Index(t, N(1)), Index(a, x)}
AssignProgram ==
  \E p, q \in Target, vals \in {<<N(1), N(2)>>, <<x, t>>, <<CallE(f, <<>>)>>, <<Index(t, x), N(2), N(1)>>, <<CallE(f, <<>>), t>>} :
    program = <<Local(<<"x", "t">>, <<N(1), Table(<<Pos(N(7)), Pos(N(8))>>)>>), Local(<<"s">>, <<t>>),
                Local(<<"f">>, <<FunE(<<>>, <<Return1(<<N(2), Var("s")>>)>>)>>), Set1(a, Var("s")),
                Assign(<<p, q>>, vals),
                Return1(<<x, t, a, Index(Var("s"), N(1)), Index(Var("s"), N(2))>>)>>

\* Closures made in a loop that is left in the middle, or by its condition.
Grab(v) == Set1(Index(t, Bin("+", Un("#", t), N(1))),
                FunE(<<>>, <<Set1(Var(v), Bin("+", Var(v), N(10))), Return1(<<Var(v)>>)>>))
LoopBody(kind) ==
  CASE kind = "whole" -> <<Local(<<"c">>, <<Var("i")>>), Grab("c")>>
    [] kind = "early" -> <<Local(<<"c">>, <<Var("i")>>), Grab("c"), If(Bin("==", Var("i"), N(2)), <<Break>>)>>
    [] kind = "inner" -> <<Local(<<"c">>, <<Var("i")>>), If(TrueE, <<Local(<<"d">>, <<N(5)>>), Grab("c")>>)>>
Step1 == Set1(Var("i"), Bin("+", Var("i"), N(1)))
\* With an "and" for first, a jump over its end is pending when the loop begins.
Pairwise(first, kind) ==
  <<<<"forin", <<"i", "j">>, <<FunE(<<"s", "i">>, <<If(Bin("<", Var("i"), Var("s")), <<Return1(<<Bin("+", Var("i"), N(1))>>)>>)>>), N(3), first>>,
      LoopBody(kind)>>>>
Loops(kind) ==
  {<<<<"while", Bin("<", Var("i"), N(4)), LoopBody(kind) \o <<Step1>>>>>>,
   <<<<"repeat", LoopBody(kind) \o <<Step1>>, Bin(">", Var("c"), N(2))>>>>,
   <<<<"fornum", "i", <<N(1), N(3)>>, LoopBody(kind)>>>>,
   <<<<"fornum", "i", <<N(3), N(1), Un("-", N(1))>>, LoopBody(kind)>>>>,
   Pairwise(N(0), kind), Pairwise(Bin("and", Bin("==", Var("i"), N(1)), N(0)), kind),
   <<<<"do", LoopBody("inner")>>>>}
LoopProgram ==
  \E kind \in {"whole", "early", "inner"} : \E l \in Loops(kind) :
    program = <<Local(<<"t", "i">>, <<Table(<<>>), N(1)>>)>> \o l
              \o <<Return1(<<CallE(Index(t, N(1)), <<>>), CallE(Index(t, Un("#", t)), <<>>), CallE(Index(t, N(1)), <<>>), Var("i")>>)>>

\* Registers that are taken to be nil.
NilProgram ==
  program \in
    {<<Local(<<"n">>, <<N(0)>>), Local(<<"b">>, <<>>),
       <<"repeat", <<Local(<<"c">>, <<>>), If(Var("c"), <<Return1(<<Var("c")>>)>>), Set1(Var("c"), N(5)),
                     Set1(Var("n"), Bin("+", Var("n"), N(1)))>>, Bin("==", Var("n"), N(2))>>,
       Return1(<<Var("n"), Var("b")>>)>>,
     <<Local(<<"f">>, <<FunE(<<"p">>, <<Local(<<"b", "c">>, <<>>), Local(<<"d">>, <<>>), Return1(<<Var("b"), Var("c"), Var("d"), Var("p")>>)>>)>>),
       Do(CallE(f, <<N(1), N(2), N(3)>>)), Return1(<<CallE(f, <<N(4)>>)>>)>>,
     <<Local(<<"n">>, <<N(1)>>), If(Var("n"), <<Local(<<"c">>, <<>>)>>), Local(<<"d", "e">>, <<>>), Return1(<<Var("d"), Var("e")>>)>>}

\* Calls in every place, with too few and too many values; the constructor
\* stores its items in batches.
Callee ==
  {FunE(<<"p", "q">>, <<Return1(<<Var("q"), Var("p")>>)>>), FunE(<<>>, <<>>),
   VarFun(<<"p">>, <<Return1(<<DotsE>>)>>), VarFun(<<"p">>, <<Return1(<<Index(Var("arg"), N(1)), Index(Var("arg"), S("n"))>>)>>),
   VarFun(<<>>, <<Local(<<"b", "c">>, <<DotsE>>), Return1(<<Var("c"), DotsE, DotsE>>)>>),
   FunE(<<"p">>, <<Return1(<<CallE(g, <<Var("p"), N(9)>>)>>)>>)}
CallPlace(c) ==
  {<<Return1(<<c>>)>>, <<Return1(<<c, c>>)>>, <<Return1(<<<<"paren", c>>>>)>>,
   <<Local(<<"b", "c", "d">>, <<c>>), Return1(<<Var("b"), Var("c"), Var("d")>>)>>,
   <<Local(<<"b">>, <<c, c>>), Return1(<<Var("b")>>)>>,
   <<Do(c), Return1(<<CallE(g, <<N(8), c>>)>>)>>,
   <<Local(<<"t">>, <<Table(<<Pos(N(6)), Named("k", c), Pos(c), Pos(c)>>)>>),
     Return1(<<Index(t, N(1)), Index(t, N(2)), Index(t, N(3)), Index(t, N(4)), Index(t, S("k"))>>)>>,
   <<Local(<<"t">>, <<Table(<<Pos(c), Pos(N(5)), <<"key", N(9), N(4)>>, Pos(N(6)), Pos(N(7))>>)>>),
     Return1(<<Un("#", t), Index(t, N(2)), Index(t, N(4)), Index(t, N(9))>>)>>}
CallProgram ==
  \E fn \in Callee, args \in {<<>>, <<N(1)>>, <<N(1), N(2), N(3)>>, <<N(1), CallE(g, <<N(3), N(4)>>)>>} :
    \E use \in CallPlace(CallE(f, args)) :
      program = <<<<"localfun", "g", <<"p", "q">>, FALSE, <<Return1(<<Var("p"), Var("q")>>)>>>>, Local(<<"f">>, <<fn>>)>> \o use

\* Tag methods, methods of objects, errors and pcall.
Meta1(fields) == Do(CallE(Var("setmetatable"), <<t, Table(fields)>>))
Answer(e) == FunE(<<"p", "q">>, <<Return1(<<e, N(3)>>)>>)
TagUse ==
  {Index(t, S("k")), Bin("+", t, N(1)), Bin("+", N(1), t), Bin("..", t, S("u")), Bin("..", N(1), Bin("..", S("u"), t)), Un("-", t),
   Bin("==", t, a), Bin("~=", t, a), Bin("<", t, a), Bin("<=", t, a), Bin(">", t, a), Bin(">=", t, a),
   CallE(t, <<N(4), N(5)>>), Un("#", t), Index(NilE, N(1)), CallE(N(1), <<>>), <<"method", t, "k", <<N(4)>>>>,
   Bin("..", S(""), Bin("..", N(1), S("")))}
TagSets ==
  {<<>>,
   <<Named("__index", Answer(Var("q"))), Named("__add", Answer(Var("q"))), Named("__concat", Answer(Var("p"))),
     Named("__unm", Answer(N(6))), Named("__eq", g), Named("__lt", g), Named("__call", Answer(Var("q")))>>,
   <<Named("__index", Table(<<Named("k", Answer(N(8)))>>)), Named("__eq", FunE(<<>>, <<>>)), Named("__lt", FunE(<<>>, <<>>)), Named("__le", g)>>}
TagProgram ==
  \E use \in TagUse, fields \in TagSets, safe \in BOOLEAN :
    program = <<Local(<<"t", "a", "g">>, <<Table(<<>>), Table(<<>>), Answer(TrueE)>>), Meta1(fields),
                Do(CallE(Var("setmetatable"), <<a, Table(IF fields = <<>> THEN <<>> ELSE <<Named("__eq", g), Named("__lt", g), Named("__le", g)>>)>>)),
                Return1(IF safe THEN <<CallE(Var("pcall"), <<FunE(<<>>, <<Return1(<<use>>)>>)>>)>> ELSE <<use>>)>>

ErrorProgram ==
  program \in
    {\* an upvalue of a function that is left by an error
     <<Local(<<"h">>, <<>>),
       Local(<<"f">>, <<FunE(<<"p">>, <<Set1(Var("h"), FunE(<<>>, <<Set1(Var("p"), Bin("+", Var("p"), N(1))), Return1(<<Var("p")>>)>>)),
                                        Do(CallE(Var("error"), <<N(7), N(0)>>))>>)>>),
       Local(<<"b", "c">>, <<CallE(Var("pcall"), <<f, N(4)>>)>>), Do(CallE(Var("pcall"), <<f, N(1)>>)),
       Return1(<<CallE(Var("h"), <<>>), CallE(Var("h"), <<>>), Var("b"), Var("c")>>)>>,
     \* a tag method that comes after its absence was noted, and one that goes
     <<Local(<<"t", "u">>, <<Table(<<>>), Table(<<>>)>>), Do(CallE(Var("setmetatable"), <<t, Var("u")>>)),
       Local(<<"b">>, <<Index(t, S("k"))>>), Set1(Index(Var("u"), S("__index")), Table(<<Named("k", N(2))>>)),
       Local(<<"c">>, <<Index(t, S("k"))>>), Set1(Index(Var("u"), S("__index")), NilE),
       Return1(<<Var("b"), Var("c"), Index(t, S("k"))>>)>>,
     \* __newindex, by a function and by a table
     <<Local(<<"t", "u", "n">>, <<Table(<<>>), Table(<<>>), N(0)>>),
       Do(CallE(Var("setmetatable"), <<t, Table(<<Named("__newindex", FunE(<<"o", "k", "v">>,
            <<Set1(Var("n"), Bin("+", Var("n"), N(1))), Do(CallE(Var("rawset"), <<Var("o"), Var("k"), Var("v")>>))>>))>>)>>)),
       Do(CallE(Var("setmetatable"), <<Var("u"), Table(<<Named("__newindex", t)>>)>>)),
       Assign(<<Index(t, N(1)), Index(Var("u"), N(1)), Index(Var("u"), N(2))>>, <<N(4), N(5), N(6)>>),
       Return1(<<Index(t, N(1)), Index(t, N(2)), Index(Var("u"), N(2)), Var("n")>>)>>,
     \* methods, and functions stored in fields
     <<Local(<<"t">>, <<Table(<<Named("k", N(3)), Named("u", Table(<<>>))>>)>>),
       <<"funstat", Index(t, S("u")), "m", <<"p">>, TRUE, <<Set1(Index(Var("self"), S("k")), DotsE), Return1(<<Index(Var("self"), S("k")), Var("p")>>)>>>>,
       <<"funstat", Var("h"), "", <<>>, FALSE, <<Return1(<<<<"method", Index(t, S("u")), "m", <<N(4), N(5)>>>>>>)>>>>,
       Return1(<<CallE(Var("h"), <<>>)>>)>>,
     \* upvalues of upvalues
     <<Local(<<"b">>, <<N(1)>>),
       Local(<<"f">>, <<FunE(<<>>, <<Return1(<<FunE(<<>>, <<Set1(Var("b"), Bin("+", Var("b"), N(1))), Return1(<<Var("b")>>)>>)>>)>>)>>),
       Local(<<"c">>, <<CallE(CallE(f, <<>>), <<>>)>>), Return1(<<Var("c"), Var("b"), CallE(CallE(f, <<>>), <<>>)>>)>>,
     \* pcall of nothing, of an error in an error, in a tail call, of itself
     <<Return1(<<CallE(Var("pcall"), <<Var("pcall"), Var("error"), N(2)>>)>>)>>,
     <<Return1(<<CallE(Var("pcall"), <<Var("pcall")>>), CallE(Var("pcall"), <<N(1)>>), CallE(Var("setmetatable"), <<N(1)>>)>>)>>,
     <<<<"fornum", "i", <<TrueE, N(2)>>, <<>>>>>>}

Choose == \/ BooleanProgram \/ OperatorProgram \/ AssignProgram \/ LoopProgram \/ NilProgram
          \/ CallProgram \/ TagProgram \/ ErrorProgram
MCInit == Choose /\ VMInit(ProgramText(program))
MCNext == VMNext /\ UNCHANGED program
MCSpec == MCInit /\ [][MCNext]_<<program, vmvars>>

Over == m.out[1] \in {"done", "error"}
\* What the machine ends with is what the program means.
Means(meaning(_)) == Over => SeenAll(m.out) = SeenAll(meaning(program))
ResultAsWritten == Means(Meaning)

\* Once the text is read and before its first instruction.
Compiled == m.out[1] = "running" /\ Len(m.ci) = 1

\* What lvm.c asserts before each instruction (luai_runcheck, lua_assert): the
\* stack holds the frame, and the top moves only for instructions that say so.
VMAsserts ==
  Asked("none") /\ m.out[1] = "running" =>
    /\ F(m).base <= m.top /\ m.top <= StackSize
    /\ m.top = F(m).top \/ CheckOpenOp(Ins(m))
\* The assertions of the parser and the code generator that a Check stands for
\* (registers freed in order, jumps patched once and backwards, blocks and lists
\* closed) hold while a program is compiled, and those of VMAsserts while it runs.
AssertionsHold == (m.out[1] # "source" => m.main.ok) /\ VMAsserts

\* The compiler makes only code that luaG_checkcode, which guards the machine
\* from code that it did not make, lets pass: registers within the frame, jumps
\* to instructions, and every open result taken up by the next instruction.
Verified == Compiled => Checked(m.main)

\* What luaU_dump writes of a program, whole or stripped, luaU_undump reads as
\* the same program; cut short at any place, it is refused.
DumpsBack ==
  Compiled => \A strip \in BOOLEAN :
    LET whole == Sourced(m.main, "chunk")
        all == Dump(whole, strip)
    IN  /\ Undump(all).ok /\ Undump(all).got = <<Sourced(whole, IF strip THEN Unknown ELSE "chunk")>>
        /\ \A n \in 0 .. Len(all) - 1 : ~Undump(DumpTo(whole, strip, n)).ok
=============================================================================
