------------------------------- MODULE LuaLex -------------------------------
(* The lexer of lua/src/llex.c on the stream of lua/src/lzio.c, and the      *)
(* strings that string.format writes for it (%q, lua/src/lstrlib.c).  The    *)
(* text of a chunk arrives in the pieces its reader returns; a step is one   *)
(* turn of a loop of the lexer.  What is left out: reserved words, exponents *)
(* and the operators that are read like the ones here.                       *)
EXTENDS Integers, Sequences, FiniteSets, SequencesExt

Quote == "\""
Slash == "\\"
LF == "LF"
CR == "CR"
Nul == "NUL"
EOZ == "EOZ"
Digits == {"0", "1", "3"}
Letters == {"a", "n", "r"}
Breaks == {LF, CR}

\* What \ddd stands for; Byte is any other character up to UCHAR_MAX.
Byte == "byte"
DigitOf(c) == CASE c = "0" -> 0 [] c = "1" -> 1 [] c = "3" -> 3
CharOf(code) ==
  CASE code = 0 -> Nul [] code = 10 -> LF [] code = 13 -> CR [] code > 255 -> "none" [] OTHER -> Byte

\* The LexState and its ZIO: cur is the current character, at the place in the
\* text of the next, n how many of a piece are unread.  toks are the tokens read,
\* written those that the text was made of; pc is the loop the lexer is in.
VARIABLE ls

\* zgetc: the next character; luaZ_fill asks for the next piece.  At the end
\* of the stream zgetc leaves a count of unread bytes that wrapped around:
\* what would be read then is past the text.
Wrapped == -1
Fill(s) == LET left == Len(s.text) + 1 - s.at IN IF left < s.size THEN left ELSE s.size
NextChar(s) ==
  CASE s.n = Wrapped -> [s EXCEPT !.past = TRUE]
    [] s.n = 0 /\ Fill(s) = 0 -> [s EXCEPT !.cur = EOZ, !.n = Wrapped]
    [] OTHER -> [s EXCEPT !.cur = s.text[s.at], !.at = @ + 1, !.n = (IF @ = 0 THEN Fill(s) ELSE @) - 1]

Save(s, c) == [s EXCEPT !.buff = Append(@, c)]
SaveAndNext(s) == NextChar(Save(s, s.cur))
Reset(s) == [s EXCEPT !.buff = <<>>]
CurrIsNewline(s) == s.cur \in Breaks

\* check_next: strchr finds a NUL in any set.
CheckNext(s, set) == IF s.cur \in set \cup {Nul} THEN SaveAndNext(s) ELSE s

\* inclinenumber: a break of two different characters is one.
IncLine(s) ==
  LET n == NextChar(s)
      both == IF CurrIsNewline(n) /\ n.cur # s.cur THEN NextChar(n) ELSE n
  IN  [both EXCEPT !.line = @ + 1]

\* On to a loop; a token that was read; and an error that was raised.
Goto(pc, s) == [s EXCEPT !.pc = pc]
Token(s, k, v) == [s EXCEPT !.toks = Append(@, <<k, v, s.line>>), !.pc = "llex"]
LexError(s) == Goto("error", s)
Inner(s, margin) == SubSeq(s.buff, margin + 1, Len(s.buff) - margin)

\* A turn of a loop that saves what is in set; and what comes behind the loop.
SaveWhile(s, set, behind) == IF s.cur \in set THEN SaveAndNext(s) ELSE behind
-----------------------------------------------------------------------------
\* read_numeral; luaO_str2d takes one point, and digits, up to a NUL.
ToNul(t) == LET n == {k \in DOMAIN t : t[k] = Nul} IN IF n = {} THEN t ELSE SubSeq(t, 1, (CHOOSE k \in n : \A j \in n : k <= j) - 1)
Numeral(t) == Len(SelectSeq(t, LAMBDA c : c = ".")) <= 1 /\ \A k \in DOMAIN t : t[k] \in Digits \cup {"."}
Exponent(s) == IF s.cur = Nul THEN CheckNext(SaveAndNext(s), {}) ELSE s
Points == ls.pc = "points" /\ ls' = SaveWhile(ls, Digits \cup {"."}, Goto("alnums", Exponent(ls)))
Alnums ==
  /\ ls.pc = "alnums"
  /\ ls' = SaveWhile(ls, Digits \cup Letters,
                     IF Numeral(ToNul(ls.buff)) THEN Token(ls, "number", ToNul(ls.buff)) ELSE LexError(ls))

\* An identifier.
Name == ls.pc = "name" /\ ls' = SaveWhile(ls, Digits \cup Letters, Token(ls, "name", ls.buff))

\* skip_sep: a bracket and the =s behind it, and how many they are; or less
\* than 0 where no second bracket follows.  keep: it is not a comment.
Bracket(s, keep) == [SaveAndNext(s) EXCEPT !.pc = "skip_sep", !.bracket = s.cur, !.count = 0, !.keep = keep]
SepOf(s) == IF s.cur = s.bracket THEN s.count ELSE -s.count - 1

\* read_long_string, from its second bracket; in a comment nothing is kept.
NoSep == -1
LongStart(s, sep) ==
  LET t == SaveAndNext(s)
  IN  [IF CurrIsNewline(t) THEN IncLine(t) ELSE t EXCEPT !.pc = "long", !.sep = sep]
LongEnd(s) == [IF s.keep THEN Token(s, "string", Inner(s, 2 + s.sep)) ELSE Goto("llex", s) EXCEPT !.sep = NoSep]
LongBody ==
  /\ ls.pc = "long"
  /\ ls' = CASE ls.cur = EOZ -> LexError(ls)
             [] ls.cur \in {"[", "]"} -> Bracket(ls, ls.keep)
             [] CurrIsNewline(ls) -> LET t == IncLine(Save(ls, LF)) IN IF ls.keep THEN t ELSE Reset(t)
             [] OTHER -> IF ls.keep THEN SaveAndNext(ls) ELSE NextChar(ls)

\* What follows skip_sep, before a long string or comment and in one.
Opened(s) ==
  LET n == SepOf(s)
  IN  IF n >= 0 THEN LongStart(IF s.keep THEN s ELSE Reset(s), n)
      ELSE IF ~s.keep THEN Goto("line", Reset(s))
      ELSE IF n = -1 THEN Token(s, "[", <<>>) ELSE LexError(s)
Met(s) ==
  IF SepOf(s) # s.sep THEN Goto("long", s)
  ELSE IF s.bracket = "]" THEN LongEnd(SaveAndNext(s))
  ELSE IF s.sep = 0 THEN LexError(SaveAndNext(s))   \* nesting of [[...]] is deprecated
  ELSE Goto("long", SaveAndNext(s))
SkipSep ==
  /\ ls.pc = "skip_sep"
  /\ ls' = IF ls.cur = "=" THEN [SaveAndNext(ls) EXCEPT !.count = @ + 1]
           ELSE IF ls.sep = NoSep THEN Opened(ls) ELSE Met(ls)

\* read_string, from behind its delimiter; an escape, from behind its \.
Escape(s) ==
  CASE s.cur \in {"a", "n", "r"} -> NextChar(Save(s, CASE s.cur = "n" -> LF [] s.cur = "r" -> CR [] OTHER -> Byte))
    [] CurrIsNewline(s)  -> IncLine(Save(s, LF))
    [] s.cur = EOZ       -> s
    [] s.cur \in Digits  -> [s EXCEPT !.pc = "decimal", !.i = 0, !.code = 0]
    [] OTHER             -> SaveAndNext(s)
StringBody ==
  /\ ls.pc = "string"
  /\ ls' = CASE ls.cur = ls.del -> LET t == SaveAndNext(ls) IN Token(t, "string", Inner(t, 1))
             [] ls.cur = Slash  -> Escape(NextChar(ls))
             [] ls.cur = EOZ \/ CurrIsNewline(ls) -> LexError(ls)
             [] OTHER -> SaveAndNext(ls)
Decimal ==
  /\ ls.pc = "decimal"
  /\ ls' = IF ls.i < 3 /\ ls.cur \in Digits
           THEN [NextChar(ls) EXCEPT !.i = @ + 1, !.code = 10 * @ + DigitOf(ls.cur)]
           ELSE IF CharOf(ls.code) = "none" THEN LexError(ls)
           ELSE Goto("string", Save(ls, CharOf(ls.code)))

\* A short comment.
ToLineEnd ==
  /\ ls.pc = "line"
  /\ ls' = IF CurrIsNewline(ls) \/ ls.cur = EOZ THEN Goto("llex", ls) ELSE NextChar(ls)

\* llex, at the first character of a token or between two
Dashes(n) ==
  LET c == NextChar(n)
  IN  IF n.cur # "-" THEN Token(n, "-", <<>>)
      ELSE IF c.cur = "[" THEN Bracket(c, FALSE) ELSE Goto("line", c)
Dots(s) ==
  LET one == SaveAndNext(s)
      two == CheckNext(one, {"."})
      three == CheckNext(two, {"."})
  IN  CASE one.cur \in {".", Nul} -> Token(three, IF two.cur \in {".", Nul} THEN "..." ELSE "..", <<>>)
        [] one.cur \in Digits -> Goto("points", one)
        [] OTHER -> Token(one, ".", <<>>)
LlexFrom(s) ==
  LET n == NextChar(s)
  IN  CASE CurrIsNewline(s) -> IncLine(s)
        [] s.cur = " " -> n
        [] s.cur = "-" -> Dashes(n)
        [] s.cur = "[" -> Bracket(s, TRUE)
        [] s.cur = "=" -> IF n.cur = "=" THEN Token(NextChar(n), "==", <<>>) ELSE Token(n, "=", <<>>)
        [] s.cur \in {Quote, "'"} -> [SaveAndNext(s) EXCEPT !.pc = "string", !.del = s.cur]
        [] s.cur = "." -> Dots(s)
        [] s.cur \in Digits -> Goto("points", s)
        [] s.cur \in Letters -> Goto("name", s)
        [] s.cur = EOZ -> Goto("eos", s)
        [] OTHER -> Token(n, s.cur, <<>>)
Llex == ls.pc = "llex" /\ ls' = LlexFrom(Reset(ls))
-----------------------------------------------------------------------------
\* addquoted
MutQuoted(c) == CASE c \in {Quote, Slash, LF} -> <<Slash, c>> [] c = CR -> <<Slash, "r">> [] c = Nul -> <<Slash, "0">> [] OTHER -> <<c>>
Quoted(c) ==
  CASE c \in {Quote, Slash, LF} -> <<Slash, c>>
    [] c = CR -> <<Slash, "r">>
    [] c = Nul -> <<Slash, "0", "0", "0">>
    [] OTHER -> <<c>>
AddQuoted(t) == <<Quote>> \o FlattenSeq([k \in DOMAIN t |-> Quoted(t[k])]) \o <<Quote>>

\* luaX_setinput: a text that a reader returns in pieces, each but the last of
\* size characters.
SetInput(text, size, written, any) ==
  NextChar([text |-> text, size |-> size, at |-> 1, n |-> 0, cur |-> EOZ, past |-> FALSE, line |-> 1, buff |-> <<>>,
            toks |-> <<>>, written |-> written, any |-> any, pc |-> "llex", del |-> Quote, bracket |-> "[",
            count |-> 0, keep |-> FALSE, sep |-> NoSep, i |-> 0, code |-> 0])

\* The texts of a run: strings quoted for the lexer, tokens with what separates
\* them, and any texts at all.
LexInit(Strings, Pairs, Texts, Sizes) ==
  \E size \in Sizes :
    \/ \E t \in Strings : ls = SetInput(AddQuoted(t), size, <<<<"string", t>>>>, FALSE)
    \/ \E w \in Pairs : ls = SetInput(w.text, size, w.toks, FALSE)
    \/ \E t \in Texts : ls = SetInput(t, size, <<>>, TRUE)

LexNext == Llex \/ Points \/ Alnums \/ Name \/ SkipSep \/ LongBody \/ StringBody \/ Decimal \/ ToLineEnd
LexEnded == ls.pc \in {"eos", "error"}
-----------------------------------------------------------------------------
\* Where the breaks of a text begin: a pair of different characters is one.
BreaksOf(t) ==
  LET second[k \in 1 .. Len(t)] == k > 1 /\ {t[k - 1], t[k]} = Breaks /\ ~second[k - 1]
  IN  {k \in 1 .. Len(t) : t[k] \in Breaks /\ ~second[k]}

\* The place of the current character, one behind the text at its end.
Place(s) == IF s.cur = EOZ THEN Len(s.text) + 1 ELSE s.at - 1

\* Whatever pieces a chunk comes in: the lexer reads the tokens that were
\* written, with a %q string as the string it was made from, and it is on the
\* line it has read to; it never asks the stream for more than its end.
ReadsBack ==
  /\ ~ls.past
  /\ ls.line = 1 + Cardinality({k \in BreaksOf(ls.text) : k < Place(ls)})
  /\ ~ls.any =>
       /\ ls.pc # "error"
       /\ \A k \in DOMAIN ls.toks : k <= Len(ls.written) /\ SubSeq(ls.toks[k], 1, 2) = ls.written[k]
       /\ ls.pc = "eos" => Len(ls.toks) = Len(ls.written)
=============================================================================
