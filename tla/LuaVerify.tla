------------------------------ MODULE LuaVerify -----------------------------
(* The code checker of the Lua distribution (lua/src/ldebug.c, with the     *)
(* operand modes of lua/src/lopcodes.c): what the compiler asserts of every *)
(* function it closes, and what is demanded of a precompiled one.  Places   *)
(* count from 1; the tracing of a register for messages is left out.        *)
EXTENDS LuaParser

\* luaP_opmodes: how the operands are to be read, N for unused, U for any use,
\* R for a register, K for a register or a constant; S is a place to jump to.
BMode(op) ==
  CASE op \in {"MOVE", "LOADNIL", "GETTABLE", "SELF", "UNM", "NOT", "LEN", "CONCAT", "TEST", "TESTSET"} -> "R"
    [] op \in {"SETTABLE", "ADD", "SUB", "MUL", "MOD", "POW", "EQ", "LT", "LE"} -> "K"
    [] op \in {"LOADK", "GETGLOBAL", "SETGLOBAL"} -> "Kx"
    [] op \in {"JMP", "FORLOOP", "FORPREP"} -> "S"
    [] op \in {"TFORLOOP", "CLOSE"} -> "N"
    [] OTHER -> "U"
CMode(op) ==
  CASE op = "CONCAT" -> "R"
    [] op \in {"GETTABLE", "SETTABLE", "SELF", "ADD", "SUB", "MUL", "MOD", "POW", "EQ", "LT", "LE"} -> "K"
    [] op \in {"LOADBOOL", "NEWTABLE", "TEST", "TESTSET", "CALL", "TAILCALL", "TFORLOOP", "SETLIST"} -> "U"
    [] OTHER -> "N"

\* checkreg, checkArgMode
CheckReg(f, reg) == reg < f.maxstack
CheckArgMode(f, r, mode) ==
  CASE mode = "N"  -> r = 0
    [] mode = "R"  -> CheckReg(f, r)
    [] mode = "K"  -> IF IsK(r) THEN r - 256 < Len(f.k) ELSE CheckReg(f, r)
    [] mode = "Kx" -> r < Len(f.k)
    [] mode = "S"  -> r \in DOMAIN f.code
    [] mode = "U"  -> TRUE

\* luaG_checkopenop
CheckOpenOp(i) == i.op \in {"CALL", "TAILCALL", "RETURN", "SETLIST"} /\ i.b = 0

\* precheck
Precheck(f) ==
  /\ f.numparams + (IF f.hasarg THEN 1 ELSE 0) <= f.maxstack
  /\ f.needsarg => f.hasarg
  /\ f.code # <<>> /\ Last(f.code).op = "RETURN"

\* What symbexec asks of one operation, i at pc.
CheckOp(f, pc, i) ==
  CASE i.op \in TestModes -> pc + 2 <= Len(f.code) /\ f.code[pc + 1].op = "JMP"
                             /\ (i.op = "TFORLOOP" => i.c >= 1 /\ CheckReg(f, i.a + 2 + i.c))
    [] i.op = "LOADBOOL"  -> i.c = 1 => pc + 2 <= Len(f.code)
    [] i.op \in {"GETUPVAL", "SETUPVAL"}   -> i.b < f.nups
    [] i.op \in {"GETGLOBAL", "SETGLOBAL"} -> f.k[i.b + 1][1] = "str"
    [] i.op = "SELF"      -> CheckReg(f, i.a + 1)
    [] i.op = "CONCAT"    -> i.b < i.c
    [] i.op \in {"FORLOOP", "FORPREP"}     -> CheckReg(f, i.a + 3)
    [] i.op \in {"CALL", "TAILCALL"} ->
         /\ i.b # 0 => CheckReg(f, i.a + i.b - 1)
         /\ IF i.c = 0 THEN CheckOpenOp(f.code[pc + 1]) ELSE i.c > 1 => CheckReg(f, i.a + i.c - 2)
    [] i.op = "RETURN"    -> i.b > 1 => CheckReg(f, i.a + i.b - 2)
    [] i.op = "SETLIST"   -> i.b > 0 => CheckReg(f, i.a + i.b)
    [] i.op = "CLOSURE"   ->
         /\ i.b < Len(f.p)
         /\ LET nup == f.p[i.b + 1].nups
            IN  pc + nup < Len(f.code) /\ \A j \in 1 .. nup : f.code[pc + j].op \in {"GETUPVAL", "MOVE"}
    [] i.op = "VARARG"    ->
         /\ f.isvararg /\ ~f.needsarg
         /\ i.b = 0 => CheckOpenOp(f.code[pc + 1])
         /\ CheckReg(f, i.a + i.b - 2)
    [] OTHER -> TRUE

\* luaG_checkcode, with symbexec over the whole of the function.
CheckCode(f) ==
  /\ Precheck(f)
  /\ \A pc \in DOMAIN f.code :
       LET i == f.code[pc]
       IN  /\ CheckReg(f, i.a)
           /\ CheckArgMode(f, i.b, BMode(i.op)) /\ CheckArgMode(f, i.c, CMode(i.op))
           /\ CheckOp(f, pc, i)

\* Every function of a chunk, from the inside.
RECURSIVE Checked(_)
Checked(f) == CheckCode(f) /\ \A i \in DOMAIN f.p : Checked(f.p[i])
=============================================================================
