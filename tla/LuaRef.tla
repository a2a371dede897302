------------------------------- MODULE LuaRef -------------------------------
(* What a Lua program means, as a reference for the compiler and the        *)
(* machine: programs as trees, their text, and their result by recursion    *)
(* over the tree, with one cell for every variable made.                    *)
(*                                                                          *)
(*   expressions  nil true false ... <<"num", n>> <<"str", s>> <<"var", x>> *)
(*                index(o, k) call(f, args) method(o, name, args)           *)
(*                fun(params, vararg, body) table(items) un(op, e)          *)
(*                bin(op, e1, e2) paren(e)                                  *)
(*   items        pos(e) key(k, e) named(name, e)                           *)
(*   statements   local(names, es) assign(targets, es) callstat(e) do(body) *)
(*                while(e, body) repeat(body, e) if(clauses, else)          *)
(*                fornum(x, es, body) forin(names, es, body)                *)
(*                localfun(x, params, vararg, body)                         *)
(*                funstat(target, self, params, vararg, body) return(es)    *)
(*                break                                                     *)
EXTENDS LuaVM
-----------------------------------------------------------------------------
(* The text of a program, with no more parentheses than the operators'      *)
(* documented precedence asks for.                                          *)

T(kind) == <<kind, 0>>
Prec(op) == CASE op = "or" -> 1 [] op = "and" -> 2 [] op \in {"==", "~=", "<", "<=", ">", ">="} -> 3
              [] op = ".." -> 4 [] op \in {"+", "-"} -> 5 [] op \in {"*", "%"} -> 6 [] op = "^" -> 8
PrecOf(e) == IF e[1] = "bin" THEN Prec(e[2]) ELSE IF e[1] = "un" THEN 7 ELSE 9
ToRight(op) == op \in {"..", "^"}

RECURSIVE Text(_), BlockText(_), ListText(_), ItemsText(_), ClausesText(_, _)
Paren(e) == <<T("(")>> \o Text(e) \o <<T(")")>>
Operand(e, least) == IF PrecOf(e) < least THEN Paren(e) ELSE Text(e)
Listed(texts) == IF texts = <<>> THEN <<>> ELSE FoldLeft(LAMBDA a, t : a \o <<T(",")>> \o t, Head(texts), Tail(texts))
More(rest, text) == IF rest = <<>> THEN <<>> ELSE <<T(",")>> \o text
ListText(es) == IF es = <<>> THEN <<>> ELSE Text(Head(es)) \o More(Tail(es), ListText(Tail(es)))
NameText(x) == <<<<"name", x>>>>
NamesText(xs) == Listed([i \in DOMAIN xs |-> NameText(xs[i])])
PrefixText(e) == IF e[1] \in {"var", "index", "call", "method", "paren"} THEN Text(e) ELSE Paren(e)
ArgsText(args) == <<T("(")>> \o ListText(args) \o <<T(")")>>
BodyText(params, vararg, body) ==
  <<T("(")>> \o Listed([i \in DOMAIN params |-> NameText(params[i])] \o IF vararg THEN <<<<T("...")>>>> ELSE <<>>)
  \o <<T(")")>> \o BlockText(body) \o <<T("end")>>
ItemText(it) ==
  CASE it[1] = "pos" -> Text(it[2])
    [] it[1] = "key" -> <<T("[")>> \o Text(it[2]) \o <<T("]"), T("=")>> \o Text(it[3])
    [] it[1] = "named" -> NameText(it[2]) \o <<T("=")>> \o Text(it[3])
ItemsText(items) ==
  IF items = <<>> THEN <<>> ELSE ItemText(Head(items)) \o More(Tail(items), ItemsText(Tail(items)))

Text(e) ==
  CASE e[1] \in {"nil", "true", "false", "..."} -> <<T(e[1])>>
    [] e[1] \in {"num", "str"} -> <<e>>
    [] e[1] = "var" -> NameText(e[2])
    [] e[1] = "index" ->
         IF e[3][1] = "str" THEN PrefixText(e[2]) \o <<T(".")>> \o NameText(e[3][2])
         ELSE PrefixText(e[2]) \o <<T("[")>> \o Text(e[3]) \o <<T("]")>>
    [] e[1] = "call" -> PrefixText(e[2]) \o ArgsText(e[3])
    [] e[1] = "method" -> PrefixText(e[2]) \o <<T(":")>> \o NameText(e[3]) \o ArgsText(e[4])
    [] e[1] = "fun" -> <<T("function")>> \o BodyText(e[2], e[3], e[4])
    [] e[1] = "table" -> <<T("{")>> \o ItemsText(e[2]) \o <<T("}")>>
    [] e[1] = "un" -> <<T(e[2])>> \o Operand(e[3], 7)
    [] e[1] = "bin" ->
         Operand(e[3], Prec(e[2]) + IF ToRight(e[2]) THEN 1 ELSE 0) \o <<T(e[2])>>
         \o Operand(e[4], Prec(e[2]) + IF ToRight(e[2]) THEN 0 ELSE 1)
    [] e[1] = "paren" -> Paren(e[2])

StatText(s) ==
  CASE s[1] = "local" -> <<T("local")>> \o NamesText(s[2]) \o IF s[3] = <<>> THEN <<>> ELSE <<T("=")>> \o ListText(s[3])
    [] s[1] = "assign" -> ListText(s[2]) \o <<T("=")>> \o ListText(s[3])
    [] s[1] = "callstat" -> Text(s[2])
    [] s[1] = "do" -> <<T("do")>> \o BlockText(s[2]) \o <<T("end")>>
    [] s[1] = "while" -> <<T("while")>> \o Text(s[2]) \o <<T("do")>> \o BlockText(s[3]) \o <<T("end")>>
    [] s[1] = "repeat" -> <<T("repeat")>> \o BlockText(s[2]) \o <<T("until")>> \o Text(s[3])
    [] s[1] = "if" ->
         ClausesText(s[2], "if") \o (IF s[3] = <<>> THEN <<>> ELSE <<T("else")>> \o BlockText(s[3])) \o <<T("end")>>
    [] s[1] = "fornum" -> <<T("for")>> \o NameText(s[2]) \o <<T("=")>> \o ListText(s[3]) \o <<T("do")>>
                          \o BlockText(s[4]) \o <<T("end")>>
    [] s[1] = "forin" -> <<T("for")>> \o NamesText(s[2]) \o <<T("in")>> \o ListText(s[3]) \o <<T("do")>>
                         \o BlockText(s[4]) \o <<T("end")>>
    [] s[1] = "localfun" -> <<T("local"), T("function")>> \o NameText(s[2]) \o BodyText(s[3], s[4], s[5])
    [] s[1] = "funstat" -> <<T("function")>> \o Text(s[2])
                           \o (IF s[3] = "" THEN <<>> ELSE <<T(":")>> \o NameText(s[3])) \o BodyText(s[4], s[5], s[6])
    [] s[1] = "return" -> <<T("return")>> \o ListText(s[2])
    [] s[1] = "break" -> <<T("break")>>
ClausesText(clauses, word) ==
  IF clauses = <<>> THEN <<>>
  ELSE <<T(word)>> \o Text(Head(clauses)[1]) \o <<T("then")>> \o BlockText(Head(clauses)[2])
       \o ClausesText(Tail(clauses), "elseif")
BlockText(body) == IF body = <<>> THEN <<>> ELSE StatText(Head(body)) \o BlockText(Tail(body))
ProgramText(body) == BlockText(body) \o <<T("eos")>>
-----------------------------------------------------------------------------
(* Its meaning.  A store holds the cells, tables and functions, and in err  *)
(* what was thrown; a context holds the names in scope and the `...'.       *)

V(s, v) == [s |-> s, v |-> v]
Thrown(s, v) == V([s EXCEPT !.err = <<v>>], <<>>)
Fails(s, what) == Thrown(s, Str(what))
Failed(r) == r.s.err # <<>>
One(v) == IF v = <<>> THEN Nil ELSE v[1]
Nth(v, i) == IF i <= Len(v) THEN v[i] ELSE Nil

Meta(s, v, event) ==
  IF v[1] # "tab" \/ s.tabs[v[2]].meta = 0 THEN Nil ELSE RawGet(s.tabs[s.tabs[v[2]].meta], Str(event))
TableWith(s, h) == V([s EXCEPT !.tabs = Append(@, [h |-> h, meta |-> 0])], <<<<"tab", Len(s.tabs) + 1>>>>)
Declare(s, c, names, vals) ==
  [s |-> [s EXCEPT !.cells = @ \o [i \in DOMAIN names |-> Nth(vals, i)]],
   c |-> [c EXCEPT !.env = [x \in Range(names) |-> Len(s.cells) + CHOOSE i \in DOMAIN names :
                                x = names[i] /\ \A j \in DOMAIN names : names[j] = x => j <= i] @@ @]]
Fun(s, c, params, vararg, body) ==
  V([s EXCEPT !.funs = Append(@, [params |-> params, vararg |-> vararg, body |-> body, env |-> c.env])],
    <<<<"fun", Len(s.funs) + 1>>>>)
Positions(v) == [k \in {Num(i) : i \in {i \in DOMAIN v : v[i] # Nil}} |-> v[k[2]]]

\* What comes after a value, after a list of values, if there is no error.
Then(r, op(_, _)) == IF Failed(r) THEN r ELSE op(r.s, One(r.v))
ThenAll(r, op(_, _)) == IF Failed(r) THEN r ELSE op(r.s, r.v)

RECURSIVE Eval(_, _, _), EvalList(_, _, _), Fill(_, _, _, _), Exec(_, _, _), Apply(_, _, _), IndexOf(_, _, _), Store(_, _, _, _)

ExecIn(d, body) == Exec(body, d.c, d.s)
Returned(r) == V(r.s, IF r.sig = "return" THEN r.v ELSE <<>>)
Invoke(s, fn, args) ==
  LET va    == fn.vararg /\ Len(args) > Len(fn.params)
      extra == IF va THEN SubSeq(args, Len(fn.params) + 1, Len(args)) ELSE <<>>
      c     == [env |-> fn.env, va |-> extra]
  IN  IF fn.vararg
      THEN ThenAll(TableWith(s, Str("n") :> Num(Len(extra)) @@ Positions(extra)), LAMBDA s1, arg :
             Returned(ExecIn(Declare(s1, c, <<"arg">> \o fn.params, arg \o args), fn.body)))
      ELSE Returned(ExecIn(Declare(s, c, fn.params, args), fn.body))
Protected(r) ==
  IF Failed(r) THEN V([r.s EXCEPT !.err = <<>>], <<Bool(FALSE)>> \o r.s.err) ELSE V(r.s, <<Bool(TRUE)>> \o r.v)

Apply(s, f, args) ==
  CASE f = <<"cfun", "pcall">> ->
         IF args = <<>> THEN Fails(s, "bad argument") ELSE Protected(Apply(s, args[1], Tail(args)))
    [] f = <<"cfun", "error">> -> Thrown(s, One(args))
    [] f = <<"cfun", "setmetatable">> ->
         IF One(args)[1] # "tab" \/ Len(args) < 2 \/ Nth(args, 2)[1] \notin {"nil", "tab"} THEN Fails(s, "bad argument")
         ELSE IF Meta(s, args[1], "__metatable") # Nil THEN Fails(s, "protected")
         ELSE V([s EXCEPT !.tabs[args[1][2]].meta = args[2][2]], <<args[1]>>)
    [] f = <<"cfun", "rawset">> ->
         V([s EXCEPT !.tabs[args[1][2]].h = RawPut(s.tabs[args[1][2]], args[2], args[3]).h], <<args[1]>>)
    [] f[1] = "fun" -> Invoke(s, s.funs[f[2]], args)
    [] f[1] \notin {"fun", "cfun"} ->
         IF ~IsFun(Meta(s, f, "__call")) THEN Fails(s, "call") ELSE Apply(s, Meta(s, f, "__call"), <<f>> \o args)

First(r) == IF Failed(r) THEN r ELSE V(r.s, <<One(r.v)>>)

IndexOf(s, t, k) ==
  LET h == Meta(s, t, "__index")
  IN  IF t[1] = "tab" /\ (h = Nil \/ RawGet(s.tabs[t[2]], k) # Nil) THEN V(s, <<RawGet(s.tabs[t[2]], k)>>)
      ELSE IF h = Nil THEN Fails(s, "index")
      ELSE IF IsFun(h) THEN First(Apply(s, h, <<t, k>>)) ELSE IndexOf(s, h, k)

Store(s, t, k, v) ==
  LET h == Meta(s, t, "__newindex")
  IN  IF t[1] = "tab" /\ k = Nil THEN Fails(s, "index is nil").s
      ELSE IF t[1] = "tab" /\ (h = Nil \/ RawGet(s.tabs[t[2]], k) # Nil)
           THEN [s EXCEPT !.tabs[t[2]].h = RawPut(s.tabs[t[2]], k, v).h]
      ELSE IF h = Nil THEN Fails(s, "index").s
      ELSE IF IsFun(h) THEN Apply(s, h, <<t, k, v>>).s ELSE Store(s, h, k, v)

ByMethod(s, a, b, event, what) ==
  LET h == IF Meta(s, a, event) # Nil THEN Meta(s, a, event) ELSE Meta(s, b, event)
  IN  IF h = Nil THEN Fails(s, what) ELSE First(Apply(s, h, <<a, b>>))
Shared(s, a, b, event) == IF Meta(s, a, event) = Meta(s, b, event) THEN Meta(s, a, event) ELSE Nil
Truth(r, want) == IF Failed(r) THEN r ELSE V(r.s, <<Bool(~IsFalse(One(r.v)) = want)>>)
Same(s, a, b) ==
  IF a = b \/ a[1] # "tab" \/ b[1] # "tab" \/ Shared(s, a, b, "__eq") = Nil THEN V(s, <<Bool(a = b)>>)
  ELSE Truth(Apply(s, Shared(s, a, b, "__eq"), <<a, b>>), TRUE)
Before(s, a, b) ==
  IF a[1] = "num" /\ b[1] = "num" THEN V(s, <<Bool(a[2] < b[2])>>)
  ELSE IF a[1] # b[1] \/ Shared(s, a, b, "__lt") = Nil THEN Fails(s, "compare")
  ELSE Truth(Apply(s, Shared(s, a, b, "__lt"), <<a, b>>), TRUE)
NotAfter(s, a, b) ==
  IF a[1] = "tab" /\ b[1] = "tab" /\ Shared(s, a, b, "__le") # Nil
  THEN Truth(Apply(s, Shared(s, a, b, "__le"), <<a, b>>), TRUE)
  ELSE Truth(Before(s, b, a), FALSE)

Binary(s, op, a, b) ==
  CASE op \in DOMAIN ArithOps ->
         IF IsNumber(a) /\ IsNumber(b) THEN V(s, <<Num(Arith(ArithOps[op], ToNumber(a), ToNumber(b)))>>)
         ELSE ByMethod(s, a, b, Events[ArithOps[op]], "arithmetic")
    [] op = ".." -> IF CanText(a) /\ CanText(b) THEN V(s, <<Str(ToText(a) \o ToText(b))>>)
                    ELSE ByMethod(s, a, b, "__concat", "concatenate")
    [] op = "==" -> Same(s, a, b)
    [] op = "~=" -> Truth(Same(s, a, b), FALSE)
    [] op = "<"  -> Before(s, a, b)
    [] op = ">"  -> Before(s, b, a)
    [] op = "<=" -> NotAfter(s, a, b)
    [] op = ">=" -> NotAfter(s, b, a)
Unary(s, op, a) ==
  CASE op = "not" -> V(s, <<Bool(IsFalse(a))>>)
    [] op = "-" -> IF IsNumber(a) THEN V(s, <<Num(-ToNumber(a))>>) ELSE ByMethod(s, a, a, "__unm", "arithmetic")
    [] op = "#" -> IF a[1] = "tab" THEN V(s, <<Num(GetN(s.tabs[a[2]]))>>)
                   ELSE IF a[1] = "str" THEN V(s, <<Num(Len(a[2]))>>) ELSE Fails(s, "length")

WithCall(s, f, self, args, c) == ThenAll(EvalList(args, c, s), LAMBDA s1, v : Apply(s1, f, self \o v))

Eval(e, c, s) ==
  CASE e[1] = "nil" -> V(s, <<Nil>>)
    [] e[1] \in {"true", "false"} -> V(s, <<Bool(e[1] = "true")>>)
    [] e[1] \in {"num", "str"} -> V(s, <<e>>)
    [] e[1] = "..." -> V(s, c.va)
    [] e[1] = "var" -> IF e[2] \in DOMAIN c.env THEN V(s, <<s.cells[c.env[e[2]]]>>) ELSE IndexOf(s, <<"tab", 1>>, Str(e[2]))
    [] e[1] = "paren" -> First(Eval(e[2], c, s))
    [] e[1] = "index" ->
         Then(Eval(e[2], c, s), LAMBDA s1, t : Then(Eval(e[3], c, s1), LAMBDA s2, k : IndexOf(s2, t, k)))
    [] e[1] = "call" -> Then(Eval(e[2], c, s), LAMBDA s1, f : WithCall(s1, f, <<>>, e[3], c))
    [] e[1] = "method" ->
         Then(Eval(e[2], c, s), LAMBDA s1, o :
           Then(IndexOf(s1, o, Str(e[3])), LAMBDA s2, f : WithCall(s2, f, <<o>>, e[4], c)))
    [] e[1] = "fun" -> Fun(s, c, e[2], e[3], e[4])
    [] e[1] = "un" -> Then(Eval(e[3], c, s), LAMBDA s1, a : Unary(s1, e[2], a))
    [] e[1] = "bin" ->
         Then(Eval(e[3], c, s), LAMBDA s1, a :
           IF e[2] \in {"and", "or"}
           THEN IF IsFalse(a) = (e[2] = "and") THEN V(s1, <<a>>) ELSE First(Eval(e[4], c, s1))
           ELSE Then(Eval(e[4], c, s1), LAMBDA s2, b : Binary(s2, e[2], a, b)))
    [] e[1] = "table" -> Fill(e[2], 0, c, TableWith(s, [k \in {} |-> Nil]))

\* The items that are left, after n positional ones, into the table r.v.
PutAll(r, s, n, vals) ==
  V([s EXCEPT !.tabs[r.v[1][2]] = FoldLeft(LAMBDA t, j : RawPut(t, Num(n + j), vals[j]), @, [j \in DOMAIN vals |-> j])], r.v)
PutAt(r, s, k, v) == V([s EXCEPT !.tabs[r.v[1][2]] = RawPut(@, k, v)], r.v)
KeyIs(it, c, s) == IF it[1] = "named" THEN V(s, <<Str(it[2])>>) ELSE Eval(it[2], c, s)
Fill(items, n, c, r) ==
  LET it   == Head(items)
      rest == Tail(items)
  IN  IF items = <<>> THEN r
      ELSE IF it[1] = "pos"
           THEN ThenAll(Eval(it[2], c, r.s), LAMBDA s, v :
                  Fill(rest, n + 1, c, PutAll(r, s, n, IF rest = <<>> THEN v ELSE <<One(v)>>)))
      ELSE Then(KeyIs(it, c, r.s), LAMBDA s, k :
             Then(Eval(it[3], c, s), LAMBDA s1, v : Fill(rest, n, c, PutAt(r, s1, k, v))))

EvalList(es, c, s) ==
  IF es = <<>> THEN V(s, <<>>)
  ELSE ThenAll(Eval(Head(es), c, s), LAMBDA s1, v :
         IF Len(es) = 1 THEN V(s1, v)
         ELSE ThenAll(EvalList(Tail(es), c, s1), LAMBDA s2, rest : V(s2, <<One(v)>> \o rest)))

\* Statements: the store, the context and how control goes on.
X(s, c, sig, v) == [s |-> s, c |-> c, sig |-> IF s.err # <<>> THEN "error" ELSE sig, v |-> v]
Go(s, c) == X(s, c, "go", <<>>)
StatAfter(r, c, next(_, _)) == IF Failed(r) THEN Go(r.s, c) ELSE next(r.s, r.v)
Again(r, c, next(_)) == IF r.sig # "go" THEN X(r.s, c, IF r.sig = "break" THEN "go" ELSE r.sig, r.v) ELSE next(r)

\* The places assigned to: a cell, or a table and a key.
RECURSIVE Targets(_, _, _)
Target1(t, c, s) ==
  IF t[1] = "index"
  THEN Then(Eval(t[2], c, s), LAMBDA s1, o : Then(Eval(t[3], c, s1), LAMBDA s2, k : V(s2, <<<<"key", o, k>>>>)))
  ELSE V(s, <<IF t[2] \in DOMAIN c.env THEN <<"cell", c.env[t[2]]>> ELSE <<"key", <<"tab", 1>>, Str(t[2])>>>>)
Targets(ts, c, s) ==
  IF ts = <<>> THEN V(s, <<>>)
  ELSE ThenAll(Target1(Head(ts), c, s), LAMBDA s1, p :
         ThenAll(Targets(Tail(ts), c, s1), LAMBDA s2, rest : V(s2, p \o rest)))
Assigned(s, p, v) ==
  IF s.err # <<>> THEN s ELSE IF p[1] = "cell" THEN [s EXCEPT !.cells[p[2]] = v] ELSE Store(s, p[2], p[3], v)

RECURSIVE Loop(_, _, _), Count(_, _, _, _, _, _), Iterate(_, _, _, _, _), Pick(_, _, _, _)

\* while and repeat; in a repeat the condition sees the variables of the body.
Loop(st, c, s) ==
  IF st[1] = "while"
  THEN StatAfter(Eval(st[2], c, s), c, LAMBDA s1, v :
         IF IsFalse(One(v)) THEN Go(s1, c) ELSE Again(Exec(st[3], c, s1), c, LAMBDA r : Loop(st, c, r.s)))
  ELSE Again(Exec(st[2], c, s), c, LAMBDA r :
         StatAfter(Eval(st[3], r.c, r.s), c, LAMBDA s1, v : IF IsFalse(One(v)) THEN Loop(st, c, s1) ELSE Go(s1, c)))

Count(st, c, s, i, limit, step) ==
  IF IF step > 0 THEN i > limit ELSE i < limit THEN Go(s, c)
  ELSE Again(ExecIn(Declare(s, c, <<st[2]>>, <<Num(i)>>), st[4]), c, LAMBDA r : Count(st, c, r.s, i + step, limit, step))
CountFrom(st, c, s, v) ==
  LET lim == [i \in 1 .. 3 |-> IF i <= Len(v) THEN v[i] ELSE Num(1)]
  IN  IF \E i \in 1 .. 3 : ~IsNumber(lim[i]) THEN Go(Fails(s, "for").s, c)
      ELSE Count(st, c, s, ToNumber(lim[1]), ToNumber(lim[2]), ToNumber(lim[3]))

Iterate(st, c, s, gen, control) ==
  StatAfter(Apply(s, Nth(gen, 1), <<Nth(gen, 2), control>>), c, LAMBDA s1, v :
    IF One(v) = Nil THEN Go(s1, c)
    ELSE Again(ExecIn(Declare(s1, c, st[2], v), st[4]), c, LAMBDA r : Iterate(st, c, r.s, gen, One(v))))

Pick(clauses, last, c, s) ==
  IF clauses = <<>> THEN Exec(last, c, s)
  ELSE StatAfter(Eval(Head(clauses)[1], c, s), c, LAMBDA s1, v :
         IF IsFalse(One(v)) THEN Pick(Tail(clauses), last, c, s1) ELSE Exec(Head(clauses)[2], c, s1))

Entered(d) == Go(d.s, d.c)
StoreAt(s, c, ps, vals) ==
  Go(FoldRight(LAMBDA i, x : Assigned(x, ps[i], Nth(vals, i)), [i \in DOMAIN ps |-> i], s), c)
StoreAtCell(f, c, cell) == Go([f.s EXCEPT !.cells[cell] = f.v[1]], c)
FunIn(d, x, st) == StoreAtCell(Fun(d.s, d.c, st[3], st[4], st[5]), d.c, d.c.env[x])
Stat(st, c, s) ==
  CASE st[1] = "local" -> StatAfter(EvalList(st[3], c, s), c, LAMBDA s1, v : Entered(Declare(s1, c, st[2], v)))
    [] st[1] = "assign" ->
         StatAfter(Targets(st[2], c, s), c, LAMBDA s1, ps :
           StatAfter(EvalList(st[3], c, s1), c, LAMBDA s2, v : StoreAt(s2, c, ps, v)))
    [] st[1] = "callstat" -> Go(Eval(st[2], c, s).s, c)
    [] st[1] = "do" -> [Exec(st[2], c, s) EXCEPT !.c = c]
    [] st[1] \in {"while", "repeat"} -> Loop(st, c, s)
    [] st[1] = "if" -> [Pick(st[2], st[3], c, s) EXCEPT !.c = c]
    [] st[1] = "fornum" -> StatAfter(EvalList(st[3], c, s), c, LAMBDA s1, v : CountFrom(st, c, s1, v))
    [] st[1] = "forin" -> StatAfter(EvalList(st[3], c, s), c, LAMBDA s1, v : Iterate(st, c, s1, v, Nth(v, 3)))
    [] st[1] = "localfun" -> FunIn(Declare(s, c, <<st[2]>>, <<Nil>>), st[2], st)
    [] st[1] = "funstat" ->
         StatAfter(Target1(IF st[3] = "" THEN st[2] ELSE <<"index", st[2], Str(st[3])>>, c, s), c, LAMBDA s1, ps :
           StatAfter(Fun(s1, c, (IF st[3] = "" THEN <<>> ELSE <<"self">>) \o st[4], st[5], st[6]), c, LAMBDA s2, v :
             StoreAt(s2, c, ps, v)))
    [] st[1] = "return" -> StatAfter(EvalList(st[2], c, s), c, LAMBDA s1, v : X(s1, c, "return", v))
    [] st[1] = "break" -> X(s, c, "break", <<>>)

Onward(r, rest) == IF r.sig # "go" THEN r ELSE Exec(rest, r.c, r.s)
Exec(body, c, s) == IF body = <<>> THEN Go(s, c) ELSE Onward(Stat(Head(body), c, s), Tail(body))

\* The result of a program, the body of a function without parameters: its
\* values or the error it ends with.
Ending(r) == IF Failed(r) THEN <<"error", r.s.err[1]>> ELSE <<"done", r.v>>
Meaning(body) ==
  Ending(Apply([cells |-> <<>>, tabs |-> <<[h |-> Library, meta |-> 0]>>, err |-> <<>>,
                funs |-> <<[params |-> <<>>, vararg |-> FALSE, body |-> body, env |-> [x \in {} |-> 0]]>>],
               <<"fun", 1>>, <<>>))

\* A table or function is known by its kind only.
Seen(v) == IF v[1] \in {"tab", "fun"} THEN <<v[1], 0>> ELSE v
SeenAll(out) == IF out[1] = "error" THEN <<"error", <<Seen(out[2])>>>>
                ELSE <<"done", [i \in DOMAIN out[2] |-> Seen(out[2][i])]>>
=============================================================================
