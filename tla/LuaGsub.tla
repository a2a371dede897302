------------------------------- MODULE LuaGsub -------------------------------
(* The loops of lua/src/lstrlib.c around match: find, gmatch and gsub.  A    *)
(* subject is a sequence of characters with places from 1.  What match makes *)
(* of a pattern at a place is a parameter; LuaPattern has the code's match.  *)
EXTENDS Integers, Sequences

CONSTANTS
  Subjects, Patterns,
  Matched(_, _, _)   \* Matched(s, i, p): what match answers for p at place i of s, from no captures

\* NULL, and an error that was raised
Fail == 0
Error == -1

\* MatchState: the captures, of which those up to level count; e is what match returned.
CapUnfinished == -1
CapPosition == -2
MatchState == [level |-> 0, cap |-> <<>>]
Ret(ms, e) == [ms |-> ms, e |-> e]
Got(r) == r.e # Fail
Unfinished(ms) == {l \in 1 .. ms.level : ms.cap[l].len = CapUnfinished}

\* A match ends where it begins, or behind that.
ASSUME MatchAssumption ==
  /\ \A s \in Subjects : s \in Seq({s[k] : k \in DOMAIN s})
  /\ \A s \in Subjects, p \in Patterns : \A i \in 1 .. Len(s) + 1 :
       LET r == Matched(s, i, p) IN r.e \in {Fail, Error} \cup i .. Len(s) + 1 /\ r.ms.level \in Nat

\* push_captures: the captures in order, or the whole match where there are
\* none; an error where one is unfinished.
CapsOf(r) == [l \in 1 .. r.ms.level |-> <<r.ms.cap[l].init, r.ms.cap[l].len>>]
PushCaptures(r, i) == IF r.ms.level = 0 THEN <<<<i, r.e - i>>>> ELSE CapsOf(r)

\* The loop of str_find_aux: the first place from i on where p matches.
FindFrom(s, i, p, anchor) ==
  LET from[j \in i .. Len(s) + 1] ==
        LET r == Matched(s, j, p)
        IN  IF Got(r) THEN [at |-> j, r |-> r]
            ELSE IF j <= Len(s) /\ ~anchor THEN from[j + 1]
            ELSE [at |-> Fail, r |-> r]
  IN  from[i]
-----------------------------------------------------------------------------
(* gmatch and gsub, one match at a time.  g.found are the matches that      *)
(* gmatch_aux answered and g.start its upvalue; g.src is how far gsub is,    *)
(* g.n how many matches it made, of g.max at most, and g.out what it has     *)
(* added to its buffer: kept places of the subject, and matches.             *)
VARIABLE g

Began(s, p, anchor, max) ==
  [s |-> s, p |-> p, anchor |-> anchor, max |-> max,
   start |-> 1, found |-> <<>>, src |-> 1, n |-> 0, out |-> <<>>, pc |-> "gmatch"]

PatternInit ==
  \E s \in Subjects, p \in Patterns, anchor, once \in BOOLEAN :
    g = Began(s, p, anchor, IF once THEN 1 ELSE Len(s) + 1)

Stop(x) == [x EXCEPT !.pc = "error"]
Found(at, r) == <<at, r.e, PushCaptures(r, at)>>
\* A capture left open is an error when it is pushed; the replacement uses them all.
Raises(r) == Got(r) /\ (r.e = Error \/ Unfinished(r.ms) # {})

\* gmatch_aux: after an empty match it goes on one place further.
MutNewStart(at, e) == e   \* from the end of the match
NewStart(at, e) == IF e = at THEN e + 1 ELSE e

GMatch ==
  /\ g.pc = "gmatch"
  /\ LET f == IF g.start > Len(g.s) + 1 THEN [at |-> Fail] ELSE FindFrom(g.s, g.start, g.p, FALSE)
     IN  g' = IF f.at = Fail THEN [g EXCEPT !.pc = "gsub"]
              ELSE IF Raises(f.r) THEN Stop(g)
              ELSE [g EXCEPT !.found = Append(@, Found(f.at, f.r)), !.start = NewStart(f.at, f.r.e)]

\* str_gsub, with add_value: a match is added, and the character it stands on is
\* kept when it is empty; what is left at the end is kept, too.
Kept(i) == <<i, i + 1, <<>>>>
IsMatch(piece) == piece[3] # <<>>
Add(x, r) == [x EXCEPT !.out = Append(@, Found(x.src, r)), !.n = @ + 1]
Keep(x) == [x EXCEPT !.out = Append(@, Kept(x.src)), !.src = @ + 1]
KeepRest(x) ==
  [x EXCEPT !.pc = "done",
            !.out = @ \o [k \in 1 .. Len(x.s) + 1 - x.src |-> Kept(x.src + k - 1)]]
Skipped(x, r) == IF Got(r) /\ r.e > x.src THEN [x EXCEPT !.src = r.e] ELSE Keep(x)

GSub ==
  /\ g.pc = "gsub"
  /\ LET r == Matched(g.s, g.src, g.p)
         x == IF Got(r) THEN Add(g, r) ELSE g
         empty == ~Got(r) \/ r.e = g.src
     IN  g' = IF g.n >= g.max THEN KeepRest(g)
              ELSE IF Raises(r) THEN Stop(g)
              ELSE IF empty /\ g.src > Len(g.s) THEN KeepRest(x)
              ELSE IF g.anchor THEN KeepRest(Skipped(x, r)) ELSE Skipped(x, r)

PatternEnded == g.pc \in {"done", "error"}
PatternNext == GMatch \/ GSub
-----------------------------------------------------------------------------
\* gmatch goes on: no two of its matches begin at one place or overlap.  What
\* gsub leaves is the subject: the pieces it keeps and those it replaces follow
\* one another without a gap or an overlap; and it replaces just the matches
\* that gmatch lists, each once and in that order (both lists go on).
Substitutes ==
  /\ \A k \in 1 .. Len(g.found) - 1 : g.found[k][1] < g.found[k + 1][1] /\ g.found[k][2] <= g.found[k + 1][1]
  /\ g.pc = "done" =>
       /\ \A k \in 1 .. Len(g.out) - 1 : g.out[k][2] = g.out[k + 1][1]
       /\ g.out # <<>> => g.out[1][1] = 1 /\ g.out[Len(g.out)][2] = Len(g.s) + 1
       /\ g.s # <<>> => g.out # <<>>
       /\ \A j, k \in DOMAIN g.out : j < k /\ IsMatch(g.out[j]) /\ IsMatch(g.out[k]) => g.out[j][1] < g.out[k][1]
       /\ ~g.anchor /\ g.max > Len(g.s) =>
            {g.out[k] : k \in {j \in DOMAIN g.out : IsMatch(g.out[j])}} = {g.found[k] : k \in DOMAIN g.found}
=============================================================================
