----------------------------- MODULE LuaPattern -----------------------------
(* The pattern matching of lua/src/lstrlib.c.  A subject is a sequence of   *)
(* characters with places from 1; a pattern is a sequence of the items that *)
(* match reads off its text: characters with a suffix, captures, %b, %f,    *)
(* back references, and the final $.  Classes are the sets of characters    *)
(* they stand for; a `\0' is past the end of the subject.                   *)
EXTENDS LuaGsub, SequencesExt

CONSTANT MaxCaptures   \* LUA_MAXCAPTURES

Item(set, rep) == [k |-> "item", set |-> set, rep |-> rep]
Open == [k |-> "("]
Position == [k |-> "()"]
Shut == [k |-> ")"]
Back(n) == [k |-> "back", n |-> n]
Balance(b, e) == [k |-> "%b", b |-> b, e |-> e]
Frontier(set) == [k |-> "%f", set |-> set]
End == [k |-> "$"]

Zero == "\\0"

CharAt(s, i) == IF i \in DOMAIN s THEN s[i] ELSE Zero

\* capture_to_close, check_capture
ToClose(ms) == CHOOSE l \in Unfinished(ms) : \A k \in Unfinished(ms) : k <= l
InvalidCapture(ms, l) == l > ms.level \/ ms.cap[l].len = CapUnfinished

\* matchbalance
MatchBalance(s, i, b, e) ==
  LET depth[j \in i .. Len(s)] ==
        IF j = i THEN 1 ELSE depth[j - 1] + (IF s[j] = e THEN -1 ELSE IF s[j] = b THEN 1 ELSE 0)
      out == {j \in i + 1 .. Len(s) : depth[j] = 0}
  IN  IF CharAt(s, i) # b \/ out = {} THEN Fail ELSE 1 + CHOOSE j \in out : \A k \in out : j <= k

\* match_capture: the text of a capture, once more.  A position capture has no text.
MatchCapture(ms, s, i, l) ==
  LET len == ms.cap[l].len
      init == ms.cap[l].init
  IN  IF len = CapPosition \/ i + len > Len(s) + 1 THEN Fail
      ELSE IF SubSeq(s, init, init + len - 1) = SubSeq(s, i, i + len - 1) THEN i + len ELSE Fail

Single(s, i, it) == i <= Len(s) /\ s[i] \in it.set

RECURSIVE Match(_, _, _, _), MaxExpand(_, _, _, _, _), MinExpand(_, _, _, _)

\* The captures that a failed match leaves as they were.
MutUndone(ms, l) == ms   \* closed for good
Undone(ms, l) == [ms EXCEPT !.cap[l].len = CapUnfinished]

\* start_capture, end_capture: what follows is matched with the capture set.
StartCapture(ms, s, i, p, what) ==
  IF ms.level >= MaxCaptures THEN Ret(ms, Error)
  ELSE LET new == [init |-> i, len |-> what]
           set == [level |-> ms.level + 1, cap |-> Append(SubSeq(ms.cap, 1, ms.level), new)]
           r   == Match(set, s, i, Tail(p))
       IN  IF Got(r) THEN r ELSE Ret([r.ms EXCEPT !.level = @ - 1], Fail)
EndCapture(ms, s, i, p) ==
  IF Unfinished(ms) = {} THEN Ret(ms, Error)
  ELSE LET l == ToClose(ms)
           r == Match([ms EXCEPT !.cap[l].len = i - ms.cap[l].init], s, i, Tail(p))
       IN  IF Got(r) THEN r ELSE Ret(Undone(r.ms, l), Fail)

\* max_expand from n repetitions down, min_expand from none up
MaxExpand(ms, s, i, n, p) ==
  IF n < 0 THEN Ret(ms, Fail)
  ELSE LET r == Match(ms, s, i + n, Tail(p)) IN IF Got(r) THEN r ELSE MaxExpand(r.ms, s, i, n - 1, p)
MinExpand(ms, s, i, p) ==
  LET r == Match(ms, s, i, Tail(p))
  IN  IF Got(r) THEN r ELSE IF Single(s, i, Head(p)) THEN MinExpand(r.ms, s, i + 1, p) ELSE r

\* How many of the characters from place i on are in the class of it.
Repeats(s, i, it) == CHOOSE n \in 0 .. Len(s) + 1 - i : ~Single(s, i + n, it) /\ \A k \in 0 .. n - 1 : Single(s, i + k, it)

\* The item itself and its suffix.
MatchItem(ms, s, i, p) ==
  LET it == Head(p)
      m == Single(s, i, it)
      rest == Tail(p)
      one == Match(ms, s, i + 1, rest)
  IN  CASE it.rep = "?" -> IF m THEN IF Got(one) THEN one ELSE Match(one.ms, s, i, rest) ELSE Match(ms, s, i, rest)
        [] it.rep = "*" -> MaxExpand(ms, s, i, Repeats(s, i, it), p)
        [] it.rep = "+" -> IF m THEN MaxExpand(ms, s, i + 1, Repeats(s, i + 1, it), p) ELSE Ret(ms, Fail)
        [] it.rep = "-" -> MinExpand(ms, s, i, p)
        [] OTHER -> IF m THEN one ELSE Ret(ms, Fail)

\* After a part without choices: on, or NULL.
Onward(ms, s, j, p) == IF j = Fail THEN Ret(ms, Fail) ELSE Match(ms, s, j, Tail(p))

\* match: the end of the first way to match p from place i on.
Match(ms, s, i, p) ==
  IF p = <<>> THEN Ret(ms, i)
  ELSE LET h == Head(p)
           before == IF i = 1 THEN Zero ELSE s[i - 1]
       IN  CASE h.k = "("    -> StartCapture(ms, s, i, p, CapUnfinished)
             [] h.k = "()"   -> StartCapture(ms, s, i, p, CapPosition)
             [] h.k = ")"    -> EndCapture(ms, s, i, p)
             [] h.k = "%b"   -> Onward(ms, s, MatchBalance(s, i, h.b, h.e), p)
             [] h.k = "%f"   -> IF before \in h.set \/ CharAt(s, i) \notin h.set THEN Ret(ms, Fail)
                                ELSE Match(ms, s, i, Tail(p))
             [] h.k = "back" -> IF InvalidCapture(ms, h.n) THEN Ret(ms, Error)
                                ELSE Onward(ms, s, MatchCapture(ms, s, i, h.n), p)
             [] h.k = "$"    -> IF i = Len(s) + 1 THEN Ret(ms, i) ELSE Ret(ms, Fail)
             [] h.k = "item" -> MatchItem(ms, s, i, p)

\* lmemfind: the first place of t in s from place i on, found by its first
\* character; what is left is shortened behind each place that failed.
RECURSIVE MemFind(_, _, _)
MemFind(s, i, t) ==
  LET firsts == {j \in i .. Len(s) - Len(t) + 1 : s[j] = t[1]}
      j == CHOOSE j \in firsts : \A k \in firsts : j <= k
  IN  IF t = <<>> THEN i
      ELSE IF firsts = {} THEN Fail
      ELSE IF SubSeq(s, j, j + Len(t) - 1) = t THEN j ELSE MemFind(s, j + 1, t)

\* match as the library calls it.
MatchAt(s, i, p) == Match(MatchState, s, i, p)
-----------------------------------------------------------------------------
(* What a pattern means, with captures that are not undone: all its ways to *)
(* match from a place, in the order of preference.                          *)
RECURSIVE Ways(_, _, _, _)
FlatMap(f(_), from) == FlattenSeq([k \in DOMAIN from |-> f(from[k])])
Down(n) == [k \in 1 .. n + 1 |-> n + 1 - k]
Up(n) == [k \in 1 .. n + 1 |-> k - 1]

Ways(caps, s, i, p) ==
  IF p = <<>> THEN <<<<i, caps>>>>
  ELSE LET h == Head(p)
           Go(j) == Ways(caps, s, j, Tail(p))
           open == {l \in DOMAIN caps : caps[l][2] = CapUnfinished}
           l == CHOOSE l \in open : \A k \in open : k <= l
           n == Repeats(s, i, h)
           After(k) == Go(i + k)
       IN  CASE h.k = "("  -> Ways(Append(caps, <<i, CapUnfinished>>), s, i, Tail(p))
             [] h.k = "()" -> Ways(Append(caps, <<i, CapPosition>>), s, i, Tail(p))
             [] h.k = ")"  -> Ways([caps EXCEPT ![l] = <<@[1], i - @[1]>>], s, i, Tail(p))
             [] h.k = "%b" -> IF MatchBalance(s, i, h.b, h.e) = Fail THEN <<>> ELSE Go(MatchBalance(s, i, h.b, h.e))
             [] h.k = "%f" -> IF (IF i = 1 THEN Zero ELSE s[i - 1]) \notin h.set /\ CharAt(s, i) \in h.set
                              THEN Go(i) ELSE <<>>
             [] h.k = "back" ->
                  LET t == caps[h.n]
                  IN  IF t[2] >= 0 /\ i + t[2] - 1 <= Len(s) /\ SubSeq(s, t[1], t[1] + t[2] - 1) = SubSeq(s, i, i + t[2] - 1)
                      THEN Go(i + t[2]) ELSE <<>>
             [] h.k = "$" -> IF i = Len(s) + 1 THEN <<<<i, caps>>>> ELSE <<>>
             [] h.k = "item" ->
                  CASE h.rep = "?" -> FlatMap(After, Down(IF n > 0 THEN 1 ELSE 0))
                    [] h.rep = "*" -> FlatMap(After, Down(n))
                    [] h.rep = "+" -> IF n = 0 THEN <<>> ELSE FlatMap(After, [k \in 1 .. n |-> n + 1 - k])
                    [] h.rep = "-" -> FlatMap(After, Up(n))
                    [] OTHER -> IF n > 0 THEN Go(i + 1) ELSE <<>>

\* Every capture is closed once, behind its start, and named only then.
WellFormed(p) ==
  \A n \in 0 .. Len(p) :
    LET opened == SelectSeq(SubSeq(p, 1, n), LAMBDA it : it.k = "(")
        shut   == SelectSeq(SubSeq(p, 1, n), LAMBDA it : it.k = ")")
        caps   == SelectSeq(SubSeq(p, 1, n), LAMBDA it : it.k \in {"(", "()"})
    IN  /\ Len(opened) >= Len(shut) /\ (n = Len(p) => Len(opened) = Len(shut))
        /\ Len(caps) <= MaxCaptures
        /\ n > 0 /\ p[n].k = "back" => p[n].n <= Len(caps) /\ Len(opened) = Len(shut)

\* match answers the first way of a well-formed pattern, with its captures,
\* whatever it tried before and undid; nothing else than the pattern makes it
\* fail.  find answers the first place with a way, or, anchored, just this one;
\* and a plain search finds what the same text finds as a pattern.
Letter(it) == it.k = "item" /\ it.rep = "" /\ \E c \in it.set : it.set = {c}
MatchesFirst ==
  g.pc = "gmatch" /\ g.found = <<>> /\ WellFormed(g.p) =>
    LET ways == [i \in 1 .. Len(g.s) + 1 |-> Ways(<<>>, g.s, i, g.p)]
        first(i) == {j \in i .. (IF g.anchor THEN i ELSE Len(g.s) + 1) : ways[j] # <<>>}
    IN  \A i \in DOMAIN ways :
          LET r == MatchAt(g.s, i, g.p)
              at == FindFrom(g.s, i, g.p, g.anchor).at
          IN  /\ IF ways[i] = <<>> THEN r.e = Fail /\ r.ms.level = 0
                 ELSE r.e = ways[i][1][1] /\ CapsOf(r) = ways[i][1][2]
              /\ at = IF first(i) = {} THEN Fail ELSE CHOOSE j \in first(i) : \A k \in first(i) : j <= k
              /\ (\A k \in DOMAIN g.p : Letter(g.p[k])) /\ ~g.anchor =>
                   at = MemFind(g.s, i, [k \in DOMAIN g.p |-> CHOOSE c \in g.p[k].set : TRUE])
=============================================================================
