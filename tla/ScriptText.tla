----------------------------- MODULE ScriptText -----------------------------
(***************************************************************************)
(* A script as its author sees it: a sequence of lines, of which only the  *)
(* keyword and a name are kept.  What the script means is read off the     *)
(* whole text here, by counting "for" and "end", and not line by line      *)
(* with one line of lookahead as Script.cs does it.                        *)
(***************************************************************************)
EXTENDS Integers, Sequences, FiniteSets, FiniteSetsExt

(* The name that a "start" line declares is "main".                        *)
Menus  == {"choicetitle", "choice"}
Labels == {"label", "start"}

Kind(s, n) == s[n].kind

LinesOf(s, kind) == {n \in DOMAIN s : Kind(s, n) = kind}

Before(s, kind, n) == Cardinality({k \in LinesOf(s, kind) : k < n})

(* How many for-blocks line n is in; an "end" is in the block it ends.     *)
Depth(s, n) == Before(s, "for", n) - Before(s, "end", n)

(* The "for" of the innermost block line n is in, 0 for none.              *)
Opener(s, n) ==
  Max({0} \cup {f \in LinesOf(s, "for") : f < n /\ Depth(s, f) < Depth(s, n)})

(* The lines from n on that have the kinds K, up to the first that has not.*)
Run(s, n, K) == {c \in n .. Len(s) : \A k \in n .. c : Kind(s, k) \in K}

(* The first line of the menu that the "for" f answers.                    *)
MenuAt(s, f) ==
  Max({m \in 1 .. f - 1 : /\ Kind(s, m) \in Menus
                          /\ m > 1 => Kind(s, m - 1) \notin Menus
                          /\ Depth(s, m) = Depth(s, f)})

Answers(s, m) == {f \in LinesOf(s, "for") : f > m /\ MenuAt(s, f) = m}

(* A menu is an optional title, choices and then at most one block for     *)
(* each choice; blocks are closed and not empty.                           *)
WellFormed(s) ==
  /\ LinesOf(s, "bad") = {}
  /\ \A n \in DOMAIN s : Depth(s, n) >= IF Kind(s, n) = "end" THEN 1 ELSE 0
  /\ Depth(s, Len(s) + 1) = 0
  /\ \A n \in DOMAIN s : Kind(s, n) \in Menus =>
       n < Len(s) /\ Kind(s, n + 1) \in {"choice", "for"}
  /\ \A f \in LinesOf(s, "for") :
       /\ f > 1 /\ Kind(s, f - 1) \in {"choice", "end"}
       /\ Kind(s, f + 1) # "end"
       /\ LET m == MenuAt(s, f)
          IN  Cardinality(Answers(s, m))
                <= Cardinality(Run(s, m, Menus) \cap LinesOf(s, "choice"))

(* The line that follows the instruction whose last line is n, leaving the *)
(* blocks that n is the end of: 0 if there is none.                        *)
Follows(s, n) ==
  LET later == {k \in n + 1 .. Len(s) :
                  /\ Kind(s, k) \notin {"for", "end"}
                  /\ \A l \in n + 1 .. k : Depth(s, l) >= Depth(s, k)}
  IN  IF later = {} THEN 0 ELSE Min(later)

(* Where the story goes on.  A procedure ends where the next label stands; *)
(* a block that ends goes on behind its menu, label or not.                *)
GoesOn(s, n) ==
  LET k == Follows(s, n)
  IN  IF k # 0 /\ Kind(s, k) \in Labels /\ Opener(s, k) = Opener(s, n) THEN 0 ELSE k

(* What is left to the author by the compiler: no menu inside a menu (the  *)
(* methods of both get the same names), no menu at the very end, gotos     *)
(* only back to labels that something follows, and start outside menus.    *)
Supported(s) ==
  /\ WellFormed(s)
  /\ \A n \in DOMAIN s : Depth(s, n) <= 1
  /\ s # << >> => Kind(s, Len(s)) # "end"
  /\ \A n \in LinesOf(s, "start") : Depth(s, n) = 0
  /\ \A g \in LinesOf(s, "goto") : \E l \in 1 .. g - 1 :
       /\ Kind(s, l) \in Labels /\ s[l].arg = s[g].arg
       /\ Kind(s, l + 1) \notin Labels
=============================================================================
