------------------------------- MODULE MCLuaLib -------------------------------
(* The library functions of lua/src, each in a world of its own: table.sort,  *)
(* gmatch and gsub, references and buffers, and the lexer with the strings    *)
(* string.format quotes for it.                                               *)
EXTENDS LuaSort, LuaPattern, LuaRefs, LuaBuffer, LuaLex, TLC

VARIABLE world

vars == <<world, q, g, reftable, live, buff, ls>>

\* The sequences of up to n members of S.
Words(S, n) == UNION {[1 .. k -> S] : k \in 0 .. n}

\* Subjects over two characters; every pattern of three parts, and longer ones
\* around a capture that is tried again, and around nested captures.
MCSubjects == Words({"a", "b"}, 3)
Simple == {Item({"a"}, ""), Item({"a"}, "*"), Item({"a", "b"}, "-"), Item({"b"}, "?"), Item({"a", "b"}, "+")}
Parts == Simple \cup {Open, Shut, Position, Back(1), Back(2), Frontier({"a"}), Balance("a", "b")}
MCPatterns ==
  Words(Parts, 3)
    \cup {<<Open, i, Shut, j, k>> : i \in Simple, j \in Parts, k \in Simple \cup {End}}
    \cup {<<Open, i, Position, Shut, j, End>> : i, j \in Simple}
    \cup {<<Open, i, Open, j, Shut, Shut, k>> : i, j, k \in Simple}

\* Strings to quote; tokens with what may stand between them; and any texts.
ToQuote == Words({Quote, Slash, LF, CR, Nul, "0", "a"}, 3)
Written(text, k, v) == [text |-> text, tok |-> <<k, v>>]
Equals(n) == [k \in 1 .. n |-> "="]
Shutter(n) == <<"]">> \o Equals(n) \o <<"]">>
\* The breaks of a long string are read as line feeds, but for one at its start.
RECURSIVE Normal(_)
Normal(t) ==
  IF t = <<>> THEN <<>>
  ELSE IF Head(t) \notin Breaks THEN <<Head(t)>> \o Normal(Tail(t))
  ELSE <<LF>> \o Normal(IF Len(t) > 1 /\ t[2] \in Breaks \ {t[1]} THEN Tail(Tail(t)) ELSE Tail(t))
Inside(t) == IF t # <<>> /\ Head(t) \in Breaks THEN Tail(Normal(t)) ELSE Normal(t)
LongTexts(n) ==
  {t \in Words({"]", "[", "=", LF, CR, "a"}, 2) :
     /\ \A k \in 1 .. Len(t) : SubSeq(t \o Shutter(n), k, k + n + 1) # Shutter(n)
     /\ n = 0 => t # <<"[", "[">>}
LongStrings ==
  UNION {{Written(<<"[">> \o Equals(n) \o <<"[">> \o t \o Shutter(n), "string", Inside(t)) : t \in LongTexts(n)} : n \in 0 .. 2}
Others ==
  {Written(t, "name", t) : t \in {<<"a">>, <<"n", "1">>}}
    \cup {Written(t, "number", t) : t \in {<<"1">>, <<"1", ".", "0">>, <<".", "3">>}}
    \cup {Written(<<"1", Nul, "a">>, "number", <<"1">>), Written(<<".", Nul>>, "..", <<>>)}
    \cup {Written(<<"=">>, "=", <<>>), Written(<<"=", "=">>, "==", <<>>), Written(<<".">>, ".", <<>>),
          Written(<<".", ".">>, "..", <<>>), Written(<<".", ".", ".">>, "...", <<>>), Written(<<"[">>, "[", <<>>),
          Written(<<"]">>, "]", <<>>), Written(<<"-">>, "-", <<>>),
          Written(<<"'", Slash, LF, CR, Slash, "1", "3", "a", "'">>, "string", <<LF, CR, "a">>),
          Written(<<Quote, Slash, "n", "'", Slash, "1", "0", "0", "0", Quote>>, "string", <<LF, "'", Byte, "0">>)}
Spaces ==
  {<<" ">>, <<LF>>, <<CR, CR>>, <<CR, LF, " ">>, <<" ", "-", "-", "[", "=", "]", "a", LF>>,
   <<" ", "-", "-", "[", "[", CR, LF, "]", "=", "]", "]">>, <<" ", "-", "-", "[", "=", "[", "]", "]", LF, "]", "=", "]">>}
Tails == {<<>>, <<LF, CR>>, <<" ", "-", "-">>, <<" ", "-", "-", "[", "=">>}
Programs ==
  {[text |-> s.text \o sep \o t.text \o end, toks |-> <<s.tok, t.tok>>] :
     s \in LongStrings \cup Others, sep \in Spaces, t \in Others, end \in Tails}
Texts == Words({Quote, Slash, LF, CR, "[", "]", "=", "-"}, 4)

\* The worlds that a run is not in.
NoSort == q = [a |-> [i \in 0 .. 1 |-> Absent], n |-> 0, l |-> 1, u |-> 0, i |-> 0, j |-> 0, calls |-> <<>>, pc |-> "done", ordered |-> TRUE]
NoMatch == g = Began(<<>>, <<>>, TRUE, 1)
NoLex == ls = SetInput(<<>>, 1, <<>>, TRUE)

Init ==
  \/ world = "sort" /\ SortInit /\ NoMatch /\ RefsInit /\ BufferInit /\ NoLex
  \/ world = "match" /\ PatternInit /\ NoSort /\ RefsInit /\ BufferInit /\ NoLex
  \/ world = "helpers" /\ RefsInit /\ BufferInit /\ NoSort /\ NoMatch /\ NoLex
  \/ world = "lex" /\ LexInit(ToQuote, Programs, Texts, {1, 2, 100}) /\ NoSort /\ NoMatch /\ RefsInit /\ BufferInit

Next ==
  \/ world = "sort" /\ SortNext /\ UNCHANGED <<world, g, reftable, live, buff, ls>>
  \/ world = "match" /\ PatternNext /\ UNCHANGED <<world, q, reftable, live, buff, ls>>
  \/ world = "helpers" /\ RefsNext /\ UNCHANGED <<world, q, g, buff, ls>>
  \/ world = "helpers" /\ BufferNext /\ UNCHANGED <<world, q, g, reftable, live, ls>>
  \/ world = "lex" /\ LexNext /\ UNCHANGED <<world, q, g, reftable, live, buff>>

Spec == Init /\ [][Next]_vars
=============================================================================
