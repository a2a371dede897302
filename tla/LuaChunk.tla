------------------------------ MODULE LuaChunk ------------------------------
(* Precompiled chunks of the Lua distribution: written by lua/src/ldump.c   *)
(* as a stream of blocks, <<kind, what>>, and read by lua/src/lundump.c.    *)
(* The bytes of a block, and the lines and names kept for debugging, are    *)
(* left out; their counts are in the stream, and are 0.                     *)
EXTENDS LuaVerify

CONSTANT MaxDepth    \* LUAI_MAXCCALLS, for functions in functions

IntB(n) == <<"int", n>>
Byte(b) == <<"byte", b>>
NoString == <<"string", <<>>>>      \* the size 0, for the string that is not there
StringB(s) == <<"string", <<s>>>>
Flags(f) == <<f.isvararg, f.hasarg, f.needsarg>>

Unknown == "=?"
-----------------------------------------------------------------------------
(* DumpFunction: the source is left out when it is that of the function     *)
(* around.                                                                  *)

DumpConstant(v) ==
  CASE v[1] = "nil"  -> <<Byte("nil")>>
    [] v[1] = "bool" -> <<Byte("bool"), Byte(v[2])>>
    [] v[1] = "num"  -> <<Byte("num"), <<"number", v[2]>>>>
    [] v[1] = "str"  -> <<Byte("str"), StringB(v[2])>>
DumpDebug == <<IntB(0), IntB(0), IntB(0)>>

\* Mutant of DumpFields: how many upvalues there are is not written.
MutDumpFields(f, p, strip) ==
  <<IF f.source = p \/ strip THEN NoString ELSE StringB(f.source), IntB(0), IntB(0),
    Byte(0), Byte(f.numparams), Byte(Flags(f)), Byte(f.maxstack), <<"code", f.code>>>>

DumpFields(f, p, strip) ==
  <<IF f.source = p \/ strip THEN NoString ELSE StringB(f.source), IntB(0), IntB(0),
    Byte(f.nups), Byte(f.numparams), Byte(Flags(f)), Byte(f.maxstack), <<"code", f.code>>>>

\* A function and those in it, from one source; the assertions of the compiler
\* are not part of it.
RECURSIVE Sourced(_, _)
Sourced(f, name) ==
  [source |-> name, nups |-> f.nups, numparams |-> f.numparams, isvararg |-> f.isvararg, hasarg |-> f.hasarg,
   needsarg |-> f.needsarg, maxstack |-> f.maxstack, code |-> f.code, k |-> f.k,
   p |-> [i \in DOMAIN f.p |-> Sourced(f.p[i], name)]]

RECURSIVE DumpFunction(_, _, _)
DumpFunction(f, p, strip) ==
  DumpFields(f, p, strip)
  \o <<IntB(Len(f.k))>> \o FlattenSeq([i \in DOMAIN f.k |-> DumpConstant(f.k[i])])
  \o <<IntB(Len(f.p))>> \o FlattenSeq([i \in DOMAIN f.p |-> DumpFunction(f.p[i], f.source, strip)])
  \o DumpDebug

\* luaU_dump to a writer that fails after so many blocks.
Dump(f, strip) == <<<<"header", 0>>>> \o DumpFunction(f, "", strip)
DumpTo(f, strip, blocks) == SubSeq(Dump(f, strip), 1, blocks)
-----------------------------------------------------------------------------
(* luaU_undump: r is the LoadState, with the stream and the place in it,    *)
(* the values read so far in got, and how deep the functions are nested.    *)
(* Nothing is read after an error.                                          *)

\* LoadBlock and what is built on it: one block of the kind expected.
Take(r, kind) ==
  IF ~r.ok \/ r.i > Len(r.s) THEN [r EXCEPT !.ok = FALSE]
  ELSE IF r.s[r.i][1] # kind THEN [r EXCEPT !.ok = FALSE]
  ELSE [r EXCEPT !.i = @ + 1, !.got = Append(@, r.s[r.i][2])]

\* The last n values become one.
Gather(r, n, value(_)) ==
  IF ~r.ok THEN r
  ELSE [r EXCEPT !.got = Append(SubSeq(@, 1, Len(@) - n), value(SubSeq(@, Len(@) - n + 1, Len(@))))]

\* A count, and so many values.
Counted(r, load(_)) ==
  Gather(FoldLeft(LAMBDA x, j : load(x), r, [j \in 1 .. Last(r.got) |-> j]), Last(r.got) + 1, Tail)
Several(r, load(_)) == IF r.ok THEN Counted(r, load) ELSE r
LoadList(r, load(_)) == Several(Take(r, "int"), load)

\* LoadConstants
ConstantBlock == "bool" :> "byte" @@ "num" :> "number" @@ "str" :> "string"
ValueOf(type, v) == <<type, IF type = "str" THEN v[1] ELSE v>>
ConstantRead(r, type) ==
  IF type = "nil" THEN Gather(r, 1, LAMBDA g : <<"nil", 0>>)
  ELSE Gather(Take(r, ConstantBlock[type]), 2, LAMBDA g : ValueOf(type, g[2]))
LoadConstant(r) == LET t == Take(r, "byte") IN IF t.ok THEN ConstantRead(t, Last(t.got)) ELSE t

\* LoadFunction: fields, constants, functions, three tables for debugging.
Fields == <<"string", "int", "int", "byte", "byte", "byte", "byte", "code">>
SourceOf(name, p) == IF name = <<>> THEN p ELSE name[1]
Built(g, p) ==
  [source |-> SourceOf(g[1], p), nups |-> g[4], numparams |-> g[5], isvararg |-> g[6][1], hasarg |-> g[6][2],
   needsarg |-> g[6][3], maxstack |-> g[7], code |-> g[8], k |-> g[9], p |-> g[10]]
Good(r) == IF r.ok THEN [r EXCEPT !.ok = CheckCode(Last(r.got)), !.depth = @ - 1] ELSE r
LoadFields(r) == FoldLeft(Take, r, Fields)
LoadDebug(r) == LoadList(LoadList(LoadList(r, LAMBDA x : x), LAMBDA x : x), LAMBDA x : x)

RECURSIVE LoadFunction(_, _)
LoadRest(r, p) ==
  Gather(LoadDebug(LoadList(LoadList(r, LoadConstant), LAMBDA x : LoadFunction(x, p))), 13, LAMBDA g : Built(g, p))
SourceRead(r, p) == SourceOf(r.got[Len(r.got) - 7], p)
LoadFunction(r, p) ==
  IF ~r.ok \/ r.depth = MaxDepth THEN [r EXCEPT !.ok = FALSE]
  ELSE LET f == LoadFields([r EXCEPT !.depth = @ + 1])
       IN  IF f.ok THEN Good(LoadRest(f, SourceRead(f, p))) ELSE f

Undump(stream) ==
  LoadFunction([Take([s |-> stream, i |-> 1, ok |-> TRUE, got |-> <<>>, depth |-> 0], "header") EXCEPT !.got = <<>>], Unknown)
=============================================================================
